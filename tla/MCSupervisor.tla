---------------------------- MODULE MCSupervisor ----------------------------
(* Small instances of Supervisor for TLC.                                  *)
EXTENDS Supervisor, TLC

CONSTANTS plain, both, moved, clash, malformed

\* `both` adds the compatibility listener; `moved` binds it where the others
\* have their primary one; `clash` and `malformed` are refused.
MCConfigs   == {plain, both, moved, clash, malformed}
MCMalformed == {malformed}
MCPrimary   == [c \in MCConfigs |-> IF c = moved THEN 8444 ELSE 8443]
MCPlain     == plain :> None @@ malformed :> None @@ both :> 8080
               @@ moved :> 8443 @@ clash :> 8443
=============================================================================
