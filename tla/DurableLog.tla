----------------------------- MODULE DurableLog -----------------------------
(***************************************************************************)
(* What RelayStore promises its callers, without files or promise chains:  *)
(* a durable log of updates.  A caller hands in an update; the update may  *)
(* become durable at one instant; only then may the caller be told it      *)
(* succeeded, and a caller told it failed never sees it become durable.    *)
(* A crash leaves the calls in flight unanswered.                          *)
(***************************************************************************)
EXTENDS Naturals, Sequences, SequencesExt

CONSTANT Updates            \* the calls of update(), each made at most once

VARIABLES
    log,                    \* the updates that are durable, in commit order
    outcome                 \* what each call's promise has told its caller

logVars == <<log, outcome>>

Outcomes == {"none", "pending", "resolved", "rejected", "lost"}

Init ==
    /\ log = <<>>
    /\ outcome = [u \in Updates |-> "none"]

\* A caller hands in an update.
Call(u) ==
    /\ outcome[u] = "none"
    /\ outcome' = [outcome EXCEPT ![u] = "pending"]
    /\ UNCHANGED log

\* The update becomes durable: the linearization point of the call.
Commit(u) ==
    /\ outcome[u] = "pending"
    /\ u \notin ToSet(log)
    /\ log' = Append(log, u)
    /\ UNCHANGED outcome

\* The caller learns its update is durable.
Acknowledge(u) ==
    /\ outcome[u] = "pending"
    /\ u \in ToSet(log)
    /\ outcome' = [outcome EXCEPT ![u] = "resolved"]
    /\ UNCHANGED log

\* The caller learns its update will never be durable.
Refuse(u) ==
    /\ outcome[u] = "pending"
    /\ u \notin ToSet(log)
    /\ outcome' = [outcome EXCEPT ![u] = "rejected"]
    /\ UNCHANGED log

\* A crash: some calls in flight are never answered.
Abandon(lost) ==
    /\ \A u \in lost : outcome[u] = "pending"
    /\ outcome' = [u \in Updates |-> IF u \in lost THEN "lost" ELSE outcome[u]]
    /\ UNCHANGED log

Next ==
    \/ \E u \in Updates : Call(u) \/ Commit(u) \/ Acknowledge(u) \/ Refuse(u)
    \/ \E lost \in SUBSET Updates : Abandon(lost)

Spec == Init /\ [][Next]_logVars

=============================================================================
