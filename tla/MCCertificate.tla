--------------------------- MODULE MCCertificate ----------------------------
(* An instance of Certificate: generated keys are alike, and so are places. *)
EXTENDS Certificate, TLC

CONSTANTS k1, k2, k3, op, home, cafe

MCKeys == {k1, k2, k3}

MCNetworks == {home, cafe}

Symmetry == Permutations(MCKeys) \cup Permutations(MCNetworks)
=============================================================================
