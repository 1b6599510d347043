----------------------------- MODULE RelayStore -----------------------------
(***************************************************************************)
(* The relay's state file (src/state.ts).                                  *)
(*                                                                         *)
(* A store is one RelayStore object: it loads the file once, answers reads *)
(* from memory, and runs the updates it is handed one after the other on a *)
(* promise chain.  Each task writes the whole next state to a temporary    *)
(* file, renames it over the state file and only then replaces the copy in *)
(* memory.  Stores follow each other on one file: a reload of the plugin   *)
(* closes one and opens the next, a crash leaves the file to the next      *)
(* process.  A start that fails behind its store leaves that store open    *)
(* with nobody to close it, an orphan, and the next start opens a second   *)
(* one beside it: from then on the file is shared.                         *)
(*                                                                         *)
(* The content of the file is abstracted to the sequence of updates that   *)
(* produced it; two contents are equal exactly when those sequences are.   *)
(***************************************************************************)
EXTENDS Naturals, Sequences, SequencesExt

CONSTANTS
    Updates,     \* the calls of update(), each made at most once
    Stores,      \* the RelayStore objects opened on this file over time
    Faults       \* which faults the environment may inject

ASSUME FaultsAssumption == Faults \subseteq {"write", "crash", "start"}

VARIABLES
    disk,        \* the state file: [kind, log]
    phase,       \* where each store is between open() and close()
    memory,      \* #state of each store
    chain,       \* #chain of each store: the updates queued, the running one first
    stage,       \* how far the running task of each store has got
    drained,     \* the updates close() found on the chain and waits for
    outcome,     \* what each call's promise has told its caller
    orphans,     \* the stores whose start failed behind them
    shared       \* history: a store was opened beside one in use

fileVars == <<disk, phase, memory, chain, stage, drained, outcome>>
openings == <<orphans, shared>>
vars == <<disk, phase, memory, chain, stage, drained, outcome, orphans, shared>>

Phases   == {"unopened", "creating", "open", "closing", "closed", "refused", "dead"}
Stages   == {"idle", "writing", "written", "renamed"}
Outcomes == {"none", "pending", "resolved", "rejected", "lost"}

TypeOK ==
    /\ disk \in [kind : {"absent", "torn", "whole"}, log : Seq(Updates)]
    /\ phase \in [Stores -> Phases]
    /\ memory \in [Stores -> Seq(Updates)]
    /\ chain \in [Stores -> Seq(Updates)]
    /\ stage \in [Stores -> Stages]
    /\ drained \in [Stores -> SUBSET Updates]
    /\ outcome \in [Updates -> Outcomes]
    /\ orphans \in SUBSET Stores
    /\ shared \in BOOLEAN
    /\ \A s \in Stores : stage[s] # "idle" => chain[s] # <<>>

Init ==
    /\ disk = [kind |-> "absent", log |-> <<>>]
    /\ phase = [s \in Stores |-> "unopened"]
    /\ memory = [s \in Stores |-> <<>>]
    /\ chain = [s \in Stores |-> <<>>]
    /\ stage = [s \in Stores |-> "idle"]
    /\ drained = [s \in Stores |-> {}]
    /\ outcome = [u \in Updates |-> "none"]
    /\ orphans = {}
    /\ shared = FALSE

-----------------------------------------------------------------------------
(* Opening.  The supervisor stops the relay that runs before it starts the *)
(* next, so the only stores it can find in use are orphans: a start that   *)
(* failed was never running, and its error is logged and forgotten.        *)

InUse(s) == phase[s] \in {"creating", "open", "closing"}

MayOpen(s) ==
    /\ phase[s] = "unopened"
    /\ \A t \in Stores : InUse(t) => t \in orphans
    /\ shared' = (shared \/ \E t \in Stores : InUse(t))
    /\ UNCHANGED orphans

\* The start that opened the store fails behind it: the primary listener, if
\* it is bound by then, goes on calling update.
StartFails(s) ==
    /\ "start" \in Faults
    /\ phase[s] = "open"
    /\ orphans' = orphans \cup {s}
    /\ UNCHANGED <<fileVars, shared>>

\* A file that parses becomes the state in memory.
OpenExisting(s) ==
    /\ MayOpen(s)
    /\ disk.kind = "whole"
    /\ phase' = [phase EXCEPT ![s] = "open"]
    /\ memory' = [memory EXCEPT ![s] = disk.log]
    /\ UNCHANGED <<disk, chain, stage, drained, outcome>>

\* A file that does not parse is refused, never reset.
OpenTorn(s) ==
    /\ MayOpen(s)
    /\ disk.kind = "torn"
    /\ phase' = [phase EXCEPT ![s] = "refused"]
    /\ UNCHANGED <<disk, memory, chain, stage, drained, outcome>>

\* No file: the empty state is written straight to the state file.  writeFile
\* creates and truncates it before the content arrives.
CreateStart(s) ==
    /\ MayOpen(s)
    /\ disk.kind = "absent"
    /\ disk' = [disk EXCEPT !.kind = "torn"]
    /\ phase' = [phase EXCEPT ![s] = "creating"]
    /\ UNCHANGED <<memory, chain, stage, drained, outcome>>

CreateFinish(s) ==
    /\ phase[s] = "creating"
    /\ disk' = [kind |-> "whole", log |-> <<>>]
    /\ phase' = [phase EXCEPT ![s] = "open"]
    /\ memory' = [memory EXCEPT ![s] = <<>>]
    /\ UNCHANGED <<chain, stage, drained, outcome, openings>>

CreateFails(s) ==
    /\ "write" \in Faults
    /\ phase[s] = "creating"
    /\ phase' = [phase EXCEPT ![s] = "refused"]
    /\ UNCHANGED <<disk, memory, chain, stage, drained, outcome, openings>>

-----------------------------------------------------------------------------
(* Updating.                                                               *)

\* update(): the mutation joins the chain.  Nothing refuses it here, not
\* even on a closed store: #closed is read when its turn comes.
Update(s, u) ==
    /\ phase[s] \in {"open", "closing", "closed"}
    /\ outcome[u] = "none"
    /\ outcome' = [outcome EXCEPT ![u] = "pending"]
    /\ chain' = [chain EXCEPT ![s] = Append(@, u)]
    /\ UNCHANGED <<disk, phase, memory, stage, drained, openings>>

IsClosed(s) == phase[s] \in {"closing", "closed"}

\* The turn of the update at the head of the chain: clone, mutate, and start
\* writing the temporary file.
StartTask(s) ==
    /\ chain[s] # <<>>
    /\ stage[s] = "idle"
    /\ ~IsClosed(s)
    /\ stage' = [stage EXCEPT ![s] = "writing"]
    /\ UNCHANGED <<disk, phase, memory, chain, drained, outcome, openings>>

Running(s) == Head(chain[s])

\* The draft the running task computed from memory when it started; memory
\* does not change until that task settles.
Draft(s) == Append(memory[s], Running(s))

\* The running task's promise settles and the chain moves to its successor.
Settled(s, verdict) ==
    /\ outcome' = [outcome EXCEPT ![Running(s)] = verdict]
    /\ chain' = [chain EXCEPT ![s] = Tail(@)]
    /\ stage' = [stage EXCEPT ![s] = "idle"]

RejectClosed(s) ==
    /\ chain[s] # <<>>
    /\ stage[s] = "idle"
    /\ IsClosed(s)
    /\ Settled(s, "rejected")
    /\ UNCHANGED <<disk, phase, memory, drained, openings>>

WriteTemp(s) ==
    /\ stage[s] = "writing"
    /\ stage' = [stage EXCEPT ![s] = "written"]
    /\ UNCHANGED <<disk, phase, memory, chain, drained, outcome, openings>>

\* Faulty variant: the chain keeps the rejection, so that everything queued
\* behind the failed task is rejected with it and never runs.
WriteFailsAndWedges(s) ==
    /\ "write" \in Faults
    /\ stage[s] \in {"writing", "written"}
    /\ outcome' = [u \in Updates |->
                     IF u \in ToSet(chain[s]) THEN "rejected" ELSE outcome[u]]
    /\ chain' = [chain EXCEPT ![s] = <<>>]
    /\ stage' = [stage EXCEPT ![s] = "idle"]
    /\ UNCHANGED <<disk, phase, memory, drained, openings>>

\* Faulty variant: the chain goes on as if the failed task still ran.
WriteFailsUnreset(s) ==
    /\ "write" \in Faults
    /\ stage[s] \in {"writing", "written"}
    /\ outcome' = [outcome EXCEPT ![Running(s)] = "rejected"]
    /\ chain' = [chain EXCEPT ![s] = Tail(@)]
    /\ UNCHANGED <<disk, phase, memory, stage, drained, openings>>

\* writeFile or rename rejects.  The caller sees it; the chain goes on.
WriteFails(s) ==
    /\ "write" \in Faults
    /\ stage[s] \in {"writing", "written"}
    /\ Settled(s, "rejected")
    /\ UNCHANGED <<disk, phase, memory, drained, openings>>

Rename(s) ==
    /\ stage[s] = "written"
    /\ disk' = [kind |-> "whole", log |-> Draft(s)]
    /\ stage' = [stage EXCEPT ![s] = "renamed"]
    /\ UNCHANGED <<phase, memory, chain, drained, outcome, openings>>

\* Faulty variant: the copy in memory is not replaced.
SettleStale(s) ==
    /\ stage[s] = "renamed"
    /\ Settled(s, "resolved")
    /\ UNCHANGED <<disk, phase, memory, drained, openings>>

\* Faulty variant: an error after the rename is reported as a failed write.
SettleRejected(s) ==
    /\ stage[s] = "renamed"
    /\ memory' = [memory EXCEPT ![s] = Draft(s)]
    /\ Settled(s, "rejected")
    /\ UNCHANGED <<disk, phase, drained, openings>>

\* rename resolves: the draft becomes #state and the caller is told.
Settle(s) ==
    /\ stage[s] = "renamed"
    /\ memory' = [memory EXCEPT ![s] = Draft(s)]
    /\ Settled(s, "resolved")
    /\ UNCHANGED <<disk, phase, drained, openings>>

-----------------------------------------------------------------------------
(* Closing.                                                                *)

\* stop() closes the store of the relay that runs; nobody holds an orphan.
Close(s) ==
    /\ phase[s] = "open"
    /\ s \notin orphans
    /\ phase' = [phase EXCEPT ![s] = "closing"]
    /\ drained' = [drained EXCEPT ![s] = ToSet(chain[s])]
    /\ UNCHANGED <<disk, memory, chain, stage, outcome, openings>>

\* Faulty variant: close() does not await the chain.
CloseResolvesAtOnce(s) ==
    /\ phase[s] = "closing"
    /\ phase' = [phase EXCEPT ![s] = "closed"]
    /\ UNCHANGED <<disk, memory, chain, stage, drained, outcome, openings>>

CloseResolves(s) ==
    /\ phase[s] = "closing"
    /\ drained[s] \cap ToSet(chain[s]) = {}
    /\ phase' = [phase EXCEPT ![s] = "closed"]
    /\ UNCHANGED <<disk, memory, chain, stage, drained, outcome, openings>>

\* The process dies with every store in it.  The promises it owed are lost;
\* the file stays as it is.
Crash ==
    /\ "crash" \in Faults
    /\ \E s \in Stores : phase[s] \in {"creating", "open", "closing", "closed"}
    /\ phase' = [s \in Stores |-> IF phase[s] = "unopened" THEN "unopened" ELSE "dead"]
    /\ stage' = [s \in Stores |-> "idle"]
    /\ chain' = [s \in Stores |-> <<>>]
    /\ outcome' = [u \in Updates |->
                     IF outcome[u] = "pending" THEN "lost" ELSE outcome[u]]
    /\ UNCHANGED <<disk, memory, drained, openings>>

-----------------------------------------------------------------------------
Open(s)  == OpenExisting(s) \/ OpenTorn(s) \/ CreateStart(s)
Create(s) == CreateFinish(s) \/ CreateFails(s)
Task(s)  == StartTask(s) \/ RejectClosed(s) \/ WriteTemp(s) \/ WriteFails(s)
            \/ Rename(s) \/ Settle(s)

Next ==
    \/ \E s \in Stores :
        \/ Open(s) \/ Create(s) \/ StartFails(s)
        \/ \E u \in Updates : Update(s, u)
        \/ Task(s)
        \/ Close(s) \/ CloseResolves(s)
    \/ Crash

\* Node completes every file operation it started, one way or the other, and
\* runs every promise continuation.  Nobody owes a call of open, update or
\* close, and nothing owes a fault.
Fairness ==
    \A s \in Stores :
        /\ WF_vars(Create(s))
        /\ WF_vars(Task(s))
        /\ WF_vars(CloseResolves(s))

Spec == Init /\ [][Next]_vars
LiveSpec == Spec /\ Fairness

-----------------------------------------------------------------------------
(* Properties.                                                             *)

\* What update()'s promise tells its caller is true for good, across closes,
\* reopenings and crashes: a rejected update is never in the file, and a
\* resolved one always is ("an awaited mutation is durable"), until two stores
\* share the file: the store that renames last then brings back its own past.
OutcomesAreTrue ==
    \A u \in Updates :
        /\ outcome[u] = "rejected" => u \notin ToSet(disk.log)
        /\ outcome[u] = "resolved" =>
              disk.kind = "whole" /\ (shared \/ u \in ToSet(disk.log))

\* Requests are answered from memory, so memory must never show an update
\* whose caller was told it failed; and while one store has the file, neither
\* what a crash could take back, nor less than a caller was told.
ReadsMatchDisk ==
    \A s \in Stores : phase[s] \in {"open", "closing"} =>
        /\ \A u \in ToSet(memory[s]) : outcome[u] # "rejected"
        /\ ~shared =>
              /\ IsPrefix(memory[s], disk.log)
              /\ stage[s] # "renamed" => memory[s] = disk.log

\* Two mutations in flight cannot lose each other: until the file is shared
\* no step drops or reorders an update that is already durable.
LogOnlyGrows == [][IsPrefix(disk.log, disk'.log) \/ shared']_vars

\* Once close() has resolved the store is quiet: whoever opens the file next
\* cannot have it written under its feet by that one.
QuietAfterClose ==
    \A s \in Stores : phase[s] = "closed" => stage[s] = "idle"

\* One failed write does not wedge the ones behind it: every update on the
\* chain of an open store gets its turn to run, whatever became of those
\* before it.  And every call is answered, closing included.  Only the death
\* of the process excuses either.
HasItsTurn(s, u) == chain[s] # <<>> /\ Running(s) = u /\ stage[s] # "idle"

EveryCallIsServed ==
    \A u \in Updates :
        /\ \A s \in Stores :
              u \in ToSet(chain[s]) ~> (HasItsTurn(s, u) \/ phase[s] # "open")
        /\ outcome[u] = "pending" ~> outcome[u] # "pending"

\* The chain of file operations implements the abstract log, until two stores
\* share the file.
Promise == INSTANCE DurableLog WITH log <- disk.log, outcome <- outcome
ImplementsDurableLog ==
    Promise!Init /\ [][Promise!Next \/ shared']_(Promise!logVars)
=============================================================================
