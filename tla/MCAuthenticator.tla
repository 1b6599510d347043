--------------------------- MODULE MCAuthenticator --------------------------
(* Small instances of Authenticator for TLC.                               *)
EXTENDS Authenticator, TLC

CONSTANTS localhost, phone, d1, d2, r1, r2, pw1, pw2

Devices1 == {d1}
Devices2 == {d1, d2}
Addresses1 == {localhost}
Addresses2 == {localhost, phone}
Slots2 == {r1, r2}
Passwords2 == {pw1, pw2}

\* Safety runs only: requests in flight and devices are interchangeable there.
Symmetry == Permutations({d1, d2}) \cup Permutations({r1, r2})
=============================================================================
