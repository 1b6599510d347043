------------------------------- MODULE MCPages ------------------------------
(* A small instance of Pages for TLC.                                      *)
EXTENDS Pages

CONSTANTS localhost, phone

BothAddresses == {localhost, phone}
=============================================================================
