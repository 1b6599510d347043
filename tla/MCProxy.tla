------------------------------ MODULE MCProxy -------------------------------
(* An instance of Proxy: requests are alike, and so are upgrades.          *)
EXTENDS Proxy

CONSTANTS r1, r2, u1

OneRequest == {r1}
OneUpgrade == {u1}
TwoRequests == {r1, r2}
=============================================================================
