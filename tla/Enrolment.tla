------------------------------ MODULE Enrolment ------------------------------
(***************************************************************************)
(* What Authenticator promises about the life of a device, without         *)
(* records, hashes, requests or a chain of writes.  A code that enrolled   *)
(* nobody opens it; the device is admitted at one instant, and is handed   *)
(* its token only then; it ends once and for all; and a revocation is      *)
(* answered only for devices that have ended.                              *)
(***************************************************************************)
EXTENDS Naturals

CONSTANTS
    Devices,    \* the devices that may turn up
    Codes       \* the codes that may be issued, none of them 0

VARIABLES
    phase,      \* how far each device came
    codeOf,     \* the code it presented, 0 before
    holders,    \* the devices that were handed their token
    withdrawn   \* the devices whose revocation was answered

lifeVars == <<phase, codeOf, holders, withdrawn>>

Phases == {"unknown", "claimed", "enrolled", "retired"}

In(p) == {d \in Devices : phase[d] = p}

Init ==
    /\ phase = [d \in Devices |-> "unknown"]
    /\ codeOf = [d \in Devices |-> 0]
    /\ holders = {} /\ withdrawn = {}

\* A device presents a code, and no device will ever use that code again.
Claim(d, code) ==
    /\ phase[d] = "unknown"
    /\ \A e \in Devices : codeOf[e] # code
    /\ phase' = [phase EXCEPT ![d] = "claimed"]
    /\ codeOf' = [codeOf EXCEPT ![d] = code]
    /\ UNCHANGED <<holders, withdrawn>>

\* The device is admitted from here on, and learns its token.
Admit(d) ==
    /\ phase[d] = "claimed"
    /\ phase' = [phase EXCEPT ![d] = "enrolled"]
    /\ holders' = holders \cup {d}
    /\ UNCHANGED <<codeOf, withdrawn>>

\* A claim comes to nothing.
Fail(d) ==
    /\ phase[d] = "claimed"
    /\ phase' = [phase EXCEPT ![d] = "retired"]
    /\ UNCHANGED <<codeOf, holders, withdrawn>>

Ended(gone) == phase' = [d \in Devices |-> IF d \in gone THEN "retired" ELSE phase[d]]

\* Devices are turned away for ever, and whoever asked for it is told.
Withdraw ==
    \E gone \in SUBSET In("enrolled") :
        /\ \E told \in SUBSET (gone \cup In("retired")) : withdrawn' = withdrawn \cup told
        /\ Ended(gone)
        /\ UNCHANGED <<codeOf, holders>>

\* A crash ends every claim; but the one change that was being written may
\* have taken effect without anybody being told: an admission, or the end of
\* some devices.
Crash ==
    /\ \/ \E gone \in SUBSET In("enrolled") : Ended(gone \cup In("claimed"))
       \/ \E d \in In("claimed") :
             phase' = [e \in Devices |->
                         IF e = d THEN "enrolled"
                         ELSE IF phase[e] = "claimed" THEN "retired" ELSE phase[e]]
    /\ UNCHANGED <<codeOf, holders, withdrawn>>

Next ==
    \/ Withdraw \/ Crash
    \/ \E d \in Devices : Admit(d) \/ Fail(d) \/ \E code \in Codes : Claim(d, code)

Spec == Init /\ [][Next]_lifeVars
=============================================================================
