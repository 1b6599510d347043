---------------------------- MODULE MCRelayStore ----------------------------
(* A small instance of RelayStore for TLC.                                 *)
EXTENDS RelayStore

CONSTANTS u1, u2, u3, s1, s2

ThreeUpdates == {u1, u2, u3}
TwoStores    == {s1, s2}
=============================================================================
