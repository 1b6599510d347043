-------------------------- MODULE RelayStoreProofs --------------------------
(***************************************************************************)
(* Proofs about RelayStore, for any updates, any number of stores opened   *)
(* on the file, one after the other or beside an orphan, and any faults.   *)
(***************************************************************************)
EXTENDS RelayStore, TLAPS

-----------------------------------------------------------------------------
(* Facts about sequences.                                                  *)

\* Appending to a sequence adds one element to its set.
LEMMA ToSetAppend ==
    ASSUME NEW S, NEW q \in Seq(S), NEW x \in S
    PROVE  ToSet(Append(q, x)) = ToSet(q) \cup {x}
<1>1. DOMAIN q = 1..Len(q) /\ DOMAIN Append(q, x) = 1..(Len(q) + 1) /\ Len(q) \in Nat
  OBVIOUS
<1>2. \A i \in 1..Len(q) : Append(q, x)[i] = q[i]
  OBVIOUS
<1>3. Append(q, x)[Len(q) + 1] = x
  OBVIOUS
<1> QED BY <1>1, <1>2, <1>3 DEF ToSet

\* The head of a sequence is among its elements, and its tail holds the rest.
LEMMA ToSetTail ==
    ASSUME NEW S, NEW q \in Seq(S), q # <<>>
    PROVE  /\ Head(q) \in S /\ Tail(q) \in Seq(S)
           /\ Head(q) \in ToSet(q)
           /\ ToSet(q) = {Head(q)} \cup ToSet(Tail(q))
<1>1. /\ DOMAIN q = 1..Len(q) /\ Len(q) \in Nat \ {0}
      /\ DOMAIN Tail(q) = 1..(Len(q) - 1)
      /\ Head(q) = q[1]
      /\ \A i \in 1..(Len(q) - 1) : Tail(q)[i] = q[i + 1]
      /\ Head(q) \in S /\ Tail(q) \in Seq(S)
  OBVIOUS
<1>2. ToSet(Tail(q)) \subseteq ToSet(q)
  <2>1. \A i \in 1..(Len(q) - 1) : i + 1 \in 1..Len(q)
    BY <1>1
  <2> QED BY <1>1, <2>1 DEF ToSet
<1>3. \A i \in 1..Len(q) : i = 1 \/ (i - 1 \in 1..(Len(q) - 1) /\ q[i] = Tail(q)[i - 1])
  BY <1>1
<1>4. Head(q) \in ToSet(q)
  BY <1>1 DEF ToSet
<1>5. ToSet(q) \subseteq {Head(q)} \cup ToSet(Tail(q))
  <2>1. ASSUME NEW x \in ToSet(q), x # Head(q)
        PROVE  x \in ToSet(Tail(q))
    <3>1. PICK i \in 1..Len(q) : x = q[i]
      BY <1>1 DEF ToSet
    <3>2. i - 1 \in 1..(Len(q) - 1) /\ x = Tail(q)[i - 1]
      BY <1>1, <1>3, <2>1, <3>1
    <3> QED BY <1>1, <3>2 DEF ToSet
  <2> QED BY <2>1
<1> QED BY <1>1, <1>2, <1>4, <1>5

\* A sequence is a prefix of itself and of itself with one more element.
LEMMA PrefixOfSelf ==
    ASSUME NEW S, NEW q \in Seq(S)
    PROVE  IsPrefix(q, q)
BY DEF IsPrefix

LEMMA PrefixOfAppend ==
    ASSUME NEW S, NEW q \in Seq(S), NEW x \in S
    PROVE  IsPrefix(q, Append(q, x))
<1>1. Len(q) \in Nat /\ Len(Append(q, x)) = Len(q) + 1
  OBVIOUS
<1>2. SubSeq(q, 1, Len(q)) = q
  OBVIOUS
<1>3. SubSeq(Append(q, x), 1, Len(q)) = q
  OBVIOUS
<1> QED BY <1>1, <1>2, <1>3 DEF IsPrefix

\* Appending leaves a sequence non-empty and keeps its head.
LEMMA AppendFacts ==
    ASSUME NEW S, NEW q \in Seq(S), NEW x \in S
    PROVE  /\ Append(q, x) \in Seq(S)
           /\ Append(q, x) # <<>>
           /\ q # <<>> => Head(Append(q, x)) = Head(q)
<1>1. Append(q, x) \in Seq(S)
  OBVIOUS
<1>2. Len(q) \in Nat /\ Len(Append(q, x)) = Len(q) + 1
  OBVIOUS
<1>3. Append(q, x) # <<>>
  BY <1>2
<1>4. ASSUME q # <<>> PROVE Head(Append(q, x)) = Head(q)
  <2>1. Len(q) >= 1
    BY <1>4
  <2>2. Head(Append(q, x)) = Append(q, x)[1] /\ Head(q) = q[1]
    BY <1>1, <1>3, <1>4
  <2> QED BY <2>1, <2>2
<1> QED BY <1>1, <1>3, <1>4

-----------------------------------------------------------------------------
(* The inductive invariant.                                                *)

\* One store at a time uses the file, until it is shared.
OneInUse == ~shared => \A s, t \in Stores : InUse(s) /\ InUse(t) => s = t

\* A task runs only in a store that is in use, and a closing store waits for
\* the one that was running when it was closed.
RunningInUse ==
    \A s \in Stores : stage[s] # "idle" =>
        /\ phase[s] \in {"open", "closing"}
        /\ phase[s] = "closing" => Running(s) \in drained[s]

\* An update is queued at most once and its caller still waits.
QueuedOnce ==
    /\ \A s, t \in Stores :
          \A i \in 1..Len(chain[s]), j \in 1..Len(chain[t]) :
              chain[s][i] = chain[t][j] => s = t /\ i = j
    /\ \A s \in Stores : \A u \in ToSet(chain[s]) : outcome[u] = "pending"
    /\ \A s \in Stores : chain[s] # <<>> => phase[s] \in {"open", "closing", "closed"}

\* The file is absent or torn only before the first update, and one store at
\* most creates it.
FileOfPhase ==
    /\ disk.kind # "whole" => disk.log = <<>>
    /\ \A s \in Stores : phase[s] = "creating" => disk.kind = "torn"
    /\ \A s, t \in Stores : phase[s] = "creating" /\ phase[t] = "creating" => s = t
    /\ \A s \in Stores : phase[s] \in {"open", "closing"} => disk.kind = "whole"

\* Memory is the file, or one rename behind it, until the file is shared.
MemoryOfFile ==
    ~shared => \A s \in Stores : phase[s] \in {"open", "closing"} =>
        disk.log = IF stage[s] = "renamed" THEN Draft(s) ELSE memory[s]

\* An update that was renamed into the file: its caller was told so, or died
\* waiting, or is about to be told.
Renamed(u) ==
    \/ outcome[u] \in {"resolved", "lost"}
    \/ \E s \in Stores : stage[s] = "renamed" /\ Running(s) = u

\* What is in the file or in a memory was renamed into the file once; what was
\* resolved is in the file, until that is shared.
LogOfOutcome ==
    /\ \A u \in ToSet(disk.log) : Renamed(u)
    /\ \A s \in Stores : \A u \in ToSet(memory[s]) : Renamed(u)
    /\ disk.kind # "whole" => \A u \in Updates : outcome[u] # "resolved"
    /\ ~shared => \A u \in Updates : outcome[u] = "resolved" => u \in ToSet(disk.log)

IInv ==
    /\ TypeOK /\ OneInUse /\ RunningInUse /\ QueuedOnce
    /\ FileOfPhase /\ MemoryOfFile /\ LogOfOutcome


-----------------------------------------------------------------------------
(* The invariant holds initially and every step keeps it.                  *)

LEMMA Initial == Init => IInv
<1> SUFFICES ASSUME Init PROVE IInv
  OBVIOUS
<1>1. TypeOK
  <2>1. <<>> \in Seq(Updates)
    OBVIOUS
  <2> QED BY <2>1 DEF Init, TypeOK, Phases, Stages, Outcomes
<1>2. ToSet(<<>>) = {}
  BY DEF ToSet
<1> QED BY <1>1, <1>2 DEF Init, IInv, OneInUse, InUse, RunningInUse, QueuedOnce,
        FileOfPhase, MemoryOfFile, LogOfOutcome, Renamed

\* Every step keeps the types.
LEMMA TypeStep == TypeOK /\ [Next]_vars => TypeOK'
<1> SUFFICES ASSUME TypeOK, [Next]_vars PROVE TypeOK'
  OBVIOUS
<1>a. <<>> \in Seq(Updates)
  OBVIOUS
<1>b. ASSUME NEW s \in Stores, chain[s] # <<>>
      PROVE  Running(s) \in Updates /\ Tail(chain[s]) \in Seq(Updates) /\ Draft(s) \in Seq(Updates)
  <2>1. chain[s] \in Seq(Updates) /\ memory[s] \in Seq(Updates)
    BY DEF TypeOK
  <2>2. Running(s) \in Updates /\ Tail(chain[s]) \in Seq(Updates)
    BY <1>b, <2>1, ToSetTail DEF Running
  <2> QED BY <2>1, <2>2 DEF Draft
<1>c. ASSUME NEW s \in Stores, MayOpen(s) PROVE shared' \in BOOLEAN /\ UNCHANGED orphans
  BY <1>c DEF MayOpen
<1>1. ASSUME NEW s \in Stores, Open(s) PROVE TypeOK'
  <2>1. CASE OpenExisting(s)
    BY <2>1, <1>c DEF OpenExisting, MayOpen, TypeOK, Phases
  <2>2. CASE OpenTorn(s)
    BY <2>2, <1>c DEF OpenTorn, MayOpen, TypeOK, Phases
  <2>3. CASE CreateStart(s)
    BY <2>3, <1>c DEF CreateStart, MayOpen, TypeOK, Phases
  <2> QED BY <1>1, <2>1, <2>2, <2>3 DEF Open
<1>2. ASSUME NEW s \in Stores, Create(s) PROVE TypeOK'
  <2>1. CASE CreateFinish(s)
    BY <2>1, <1>a DEF CreateFinish, openings, TypeOK, Phases
  <2>2. CASE CreateFails(s)
    BY <2>2 DEF CreateFails, openings, TypeOK, Phases
  <2> QED BY <1>2, <2>1, <2>2 DEF Create
<1>3. ASSUME NEW s \in Stores, NEW u \in Updates, Update(s, u) PROVE TypeOK'
  <2>1. Append(chain[s], u) \in Seq(Updates) /\ Append(chain[s], u) # <<>>
    BY AppendFacts DEF TypeOK
  <2> QED BY <1>3, <2>1 DEF Update, openings, TypeOK, Outcomes
<1>4. ASSUME NEW s \in Stores, Task(s) PROVE TypeOK'
  <2>1. CASE StartTask(s)
    BY <2>1 DEF StartTask, openings, TypeOK, Stages
  <2>2. CASE RejectClosed(s)
    BY <2>2, <1>b DEF RejectClosed, Settled, openings, TypeOK, Stages, Outcomes
  <2>3. CASE WriteTemp(s)
    BY <2>3 DEF WriteTemp, openings, TypeOK, Stages
  <2>4. CASE WriteFails(s)
    BY <2>4, <1>b DEF WriteFails, Settled, openings, TypeOK, Stages, Outcomes
  <2>5. CASE Rename(s)
    <3>1. Draft(s) \in Seq(Updates)
      BY <2>5, <1>b DEF Rename, TypeOK
    <3> QED BY <2>5, <3>1 DEF Rename, openings, TypeOK, Stages
  <2>6. CASE Settle(s)
    BY <2>6, <1>b DEF Settle, Settled, openings, TypeOK, Stages, Outcomes
  <2> QED BY <1>4, <2>1, <2>2, <2>3, <2>4, <2>5, <2>6 DEF Task
<1>5. ASSUME NEW s \in Stores, Close(s) PROVE TypeOK'
  <2>1. ToSet(chain[s]) \subseteq Updates
    BY DEF ToSet, TypeOK
  <2> QED BY <1>5, <2>1 DEF Close, openings, TypeOK, Phases
<1>6. ASSUME NEW s \in Stores, CloseResolves(s) PROVE TypeOK'
  BY <1>6 DEF CloseResolves, openings, TypeOK, Phases
<1>7. CASE Crash
  BY <1>7, <1>a DEF Crash, TypeOK, Phases, Stages, Outcomes, openings
<1>8. CASE UNCHANGED vars
  BY <1>8 DEF vars, TypeOK
<1>9. ASSUME NEW s \in Stores, StartFails(s) PROVE TypeOK'
  BY <1>9 DEF StartFails, fileVars, TypeOK
<1> QED BY <1>1, <1>2, <1>3, <1>4, <1>5, <1>6, <1>7, <1>8, <1>9 DEF Next

\* Taking the running update off a chain keeps the chains free of repetitions
\* and leaves that update on none of them.
LEMMA Dequeued ==
    ASSUME TypeOK, QueuedOnce, NEW s \in Stores, chain[s] # <<>>,
           chain' = [chain EXCEPT ![s] = Tail(@)]
    PROVE  /\ \A r, t \in Stores :
                \A i \in 1..Len(chain'[r]), j \in 1..Len(chain'[t]) :
                    chain'[r][i] = chain'[t][j] => r = t /\ i = j
           /\ \A t \in Stores : ToSet(chain'[t]) \subseteq ToSet(chain[t]) \ {Running(s)}
<1>1. /\ chain \in [Stores -> Seq(Updates)]
      /\ \A t \in Stores : chain'[t] = IF t = s THEN Tail(chain[s]) ELSE chain[t]
  BY DEF TypeOK
<1>2. /\ Len(chain[s]) \in Nat \ {0}
      /\ Len(Tail(chain[s])) = Len(chain[s]) - 1
      /\ \A i \in 1..(Len(chain[s]) - 1) : Tail(chain[s])[i] = chain[s][i + 1]
      /\ Running(s) = chain[s][1]
  BY <1>1 DEF Running
<1>3. \A t \in Stores : Len(chain[t]) \in Nat /\ DOMAIN chain[t] = 1..Len(chain[t])
  BY <1>1
<1>4. /\ DOMAIN Tail(chain[s]) = 1..(Len(chain[s]) - 1)
      /\ \A i \in 1..(Len(chain[s]) - 1) : i + 1 \in 1..Len(chain[s])
  BY <1>1, <1>2
<1> DEFINE off(t) == IF t = s THEN 1 ELSE 0
<1>5. \A t \in Stores : \A i \in 1..Len(chain'[t]) :
          i + off(t) \in 1..Len(chain[t]) /\ chain'[t][i] = chain[t][i + off(t)]
  BY <1>1, <1>2, <1>3, <1>4
<1>6. \A t \in Stores : DOMAIN chain'[t] = 1..Len(chain'[t]) /\ Len(chain'[t]) \in Nat
  BY <1>1, <1>2, <1>3, <1>4
<1>7. \A r, t \in Stores :
        \A i \in 1..Len(chain'[r]), j \in 1..Len(chain'[t]) :
            chain'[r][i] = chain'[t][j] => r = t /\ i = j
  <2> SUFFICES ASSUME NEW r \in Stores, NEW t \in Stores,
                      NEW i \in 1..Len(chain'[r]), NEW j \in 1..Len(chain'[t]),
                      chain'[r][i] = chain'[t][j]
               PROVE  r = t /\ i = j
    OBVIOUS
  <2>1. /\ i + off(r) \in 1..Len(chain[r])
        /\ j + off(t) \in 1..Len(chain[t])
        /\ chain[r][i + off(r)] = chain[t][j + off(t)]
    BY <1>5
  <2>2. r = t /\ i + off(r) = j + off(t)
    <3> HIDE DEF off
    <3> QED BY <2>1, Zenon DEF QueuedOnce
  <2>3. i \in Nat /\ j \in Nat /\ off(r) \in Nat /\ off(r) = off(t)
    BY <1>6, <2>2
  <2>4. i = j
    <3> HIDE DEF off
    <3> QED BY <2>2, <2>3
  <2> QED BY <2>2, <2>4
<1>8. ASSUME NEW t \in Stores, NEW u \in ToSet(chain'[t])
      PROVE  u \in ToSet(chain[t]) /\ u # Running(s)
  <2>1. PICK i \in 1..Len(chain'[t]) : u = chain'[t][i]
    BY <1>6 DEF ToSet
  <2>2. i + off(t) \in 1..Len(chain[t]) /\ u = chain[t][i + off(t)]
    BY <1>5, <2>1
  <2>3. u \in ToSet(chain[t])
    BY <1>3, <2>2 DEF ToSet
  <2>4. t # s \/ i + off(t) # 1
    BY <2>1, <1>6
  <2>5. 1 \in 1..Len(chain[s])
    BY <1>2
  <2>6. u # chain[s][1]
    BY <2>2, <2>4, <2>5 DEF QueuedOnce
  <2> QED BY <2>3, <2>6, <1>2
<1> QED BY <1>7, <1>8

\* Adding an update that is on no chain keeps the chains free of repetitions.
LEMMA Enqueued ==
    ASSUME TypeOK, QueuedOnce, NEW s \in Stores, NEW u \in Updates,
           \A t \in Stores : u \notin ToSet(chain[t]),
           chain' = [chain EXCEPT ![s] = Append(@, u)]
    PROVE  \A r, t \in Stores :
              \A i \in 1..Len(chain'[r]), j \in 1..Len(chain'[t]) :
                  chain'[r][i] = chain'[t][j] => r = t /\ i = j
<1>1. /\ chain \in [Stores -> Seq(Updates)]
      /\ \A t \in Stores : chain'[t] = IF t = s THEN Append(chain[s], u) ELSE chain[t]
  BY DEF TypeOK
<1>2. /\ Len(Append(chain[s], u)) = Len(chain[s]) + 1 /\ Len(chain[s]) \in Nat
      /\ \A k \in 1..Len(chain[s]) : Append(chain[s], u)[k] = chain[s][k]
      /\ Append(chain[s], u)[Len(chain[s]) + 1] = u
  BY <1>1
<1>3. ASSUME NEW x \in Stores, NEW k \in 1..Len(chain[x]) PROVE chain[x][k] # u
  <2>1. chain[x][k] \in ToSet(chain[x])
    BY <1>1 DEF ToSet
  <2> QED BY <2>1
<1>4. ASSUME NEW x \in Stores, NEW k \in 1..Len(chain'[x])
      PROVE  \/ /\ k \in 1..Len(chain[x]) /\ chain'[x][k] = chain[x][k]
                /\ chain[x][k] # u
             \/ x = s /\ k = Len(chain[s]) + 1 /\ chain'[x][k] = u
  <2>1. CASE x = s
    BY <1>1, <1>2, <1>3, <2>1
  <2>2. CASE x # s
    BY <1>1, <1>3, <2>2
  <2> QED BY <2>1, <2>2
<1>5. SUFFICES ASSUME NEW r \in Stores, NEW t \in Stores,
                      NEW i \in 1..Len(chain'[r]), NEW j \in 1..Len(chain'[t]),
                      chain'[r][i] = chain'[t][j]
               PROVE  r = t /\ i = j
  OBVIOUS
<1>6. CASE chain'[r][i] = u
  BY <1>4, <1>5, <1>6
<1>7. CASE chain'[r][i] # u
  <2>1. /\ i \in 1..Len(chain[r]) /\ j \in 1..Len(chain[t])
        /\ chain[r][i] = chain[t][j]
    BY <1>4, <1>5, <1>7
  <2>2. \A x, y \in Stores : \A k \in 1..Len(chain[x]), l \in 1..Len(chain[y]) :
            chain[x][k] = chain[y][l] => x = y /\ k = l
    BY DEF QueuedOnce
  <2> QED BY <2>1, <2>2
<1> QED BY <1>6, <1>7

\* An update at the head of a chain is in no file and no memory before its
\* rename.
LEMMA NotYetRenamed ==
    ASSUME TypeOK, QueuedOnce, NEW s \in Stores,
           chain[s] # <<>>, stage[s] # "renamed"
    PROVE  ~Renamed(Running(s))
<1>1. SUFFICES ASSUME Renamed(Running(s)) PROVE FALSE
  OBVIOUS
<1>2. ASSUME NEW t \in Stores, chain[t] # <<>>
      PROVE  /\ Running(t) \in ToSet(chain[t])
             /\ Len(chain[t]) \in Nat \ {0} /\ Running(t) = chain[t][1]
  <2>1. chain[t] \in Seq(Updates)
    BY DEF TypeOK
  <2> QED BY <1>2, <2>1, ToSetTail DEF Running
<1>3. outcome[Running(s)] = "pending"
  BY <1>2 DEF QueuedOnce
<1>4. PICK t \in Stores : stage[t] = "renamed" /\ Running(t) = Running(s)
  BY <1>1, <1>3 DEF Renamed
<1>5. chain[t] # <<>>
  BY <1>4 DEF TypeOK
<1>6. t = s
  <2>1. /\ 1 \in 1..Len(chain[s]) /\ 1 \in 1..Len(chain[t])
        /\ chain[s][1] = chain[t][1]
    BY <1>2, <1>4, <1>5
  <2> QED BY <2>1 DEF QueuedOnce
<1> QED BY <1>4, <1>6

\* What is in a file or in a memory is an update.
LEMMA LoggedAreUpdates ==
    ASSUME TypeOK
    PROVE  /\ ToSet(disk.log) \subseteq Updates
           /\ \A s \in Stores : ToSet(memory[s]) \subseteq Updates
BY DEF TypeOK, ToSet

\* A caller that was told its update failed is told the truth.
LEMMA RejectedIsGone ==
    ASSUME TypeOK, QueuedOnce, NEW u \in Updates, outcome[u] = "rejected"
    PROVE  ~Renamed(u)
<1>1. ASSUME NEW s \in Stores, stage[s] = "renamed", Running(s) = u PROVE FALSE
  <2>1. chain[s] \in Seq(Updates) /\ chain[s] # <<>>
    BY <1>1 DEF TypeOK
  <2>2. u \in ToSet(chain[s])
    BY <1>1, <2>1, ToSetTail DEF Running
  <2> QED BY <2>2 DEF QueuedOnce
<1> QED BY <1>1 DEF Renamed

\* LogOfOutcome holds on when file and memories stay as they are, the renamed
\* updates stay renamed and nothing else is resolved.
LEMMA LogKept ==
    ASSUME TypeOK, LogOfOutcome,
           UNCHANGED <<disk, memory, shared>>,
           \A u \in Updates : Renamed(u) => Renamed(u)',
           \A u \in Updates : outcome'[u] = "resolved" => outcome[u] = "resolved"
    PROVE  LogOfOutcome'
BY LoggedAreUpdates DEF LogOfOutcome

\* Every step keeps the invariant.
LEMMA InvariantStep == IInv /\ [Next]_vars => IInv'
<1> SUFFICES ASSUME IInv, [Next]_vars PROVE IInv'
  OBVIOUS
<1>t. TypeOK
  BY DEF IInv
<1>i. OneInUse /\ RunningInUse /\ QueuedOnce /\ FileOfPhase /\ MemoryOfFile /\ LogOfOutcome
  BY DEF IInv
<1>u. TypeOK'
  BY <1>t, TypeStep
<1>l. /\ ToSet(disk.log) \subseteq Updates
      /\ \A s \in Stores : ToSet(memory[s]) \subseteq Updates
  BY <1>t, LoggedAreUpdates
<1>1. ASSUME NEW s \in Stores, Open(s) PROVE IInv'
  <2>1. /\ phase[s] = "unopened"
        /\ ~shared' => ~shared /\ \A t \in Stores : ~InUse(t)
        /\ shared => shared'
    BY <1>1, <1>t DEF Open, OpenExisting, OpenTorn, CreateStart, MayOpen, TypeOK
  <2>2. /\ \A t \in Stores : phase'[t] = phase[t] \/ t = s
        /\ phase'[s] \in {"open", "refused", "creating"}
        /\ phase'[s] = "open" => disk'.kind = "whole"
        /\ phase'[s] = "creating" => disk.kind = "absent" /\ disk'.kind = "torn"
        /\ UNCHANGED <<chain, stage, drained, outcome>>
        /\ disk'.log = disk.log /\ (disk'.kind = disk.kind \/ phase'[s] = "creating")
        /\ \A t \in Stores : memory'[t] \in {memory[t], disk.log}
        /\ phase'[s] = "open" => memory'[s] = disk.log
        /\ \A t \in Stores : t # s => memory'[t] = memory[t]
    BY <1>1, <1>t DEF Open, OpenExisting, OpenTorn, CreateStart, MayOpen, TypeOK
  <2>3. chain[s] = <<>> /\ stage[s] = "idle"
    BY <1>i, <1>t, <2>1 DEF QueuedOnce, TypeOK
  <2>4. OneInUse' /\ RunningInUse'
    <3>1. RunningInUse'
      BY <1>i, <2>2, <2>3 DEF RunningInUse, Running
    <3>2. OneInUse'
      BY <2>1, <2>2 DEF OneInUse, InUse
    <3> QED BY <3>1, <3>2
  <2>6. QueuedOnce'
    BY <1>i, <2>2, <2>3 DEF QueuedOnce
  <2>7. FileOfPhase'
    BY <1>i, <2>1, <2>2 DEF FileOfPhase
  <2>8. MemoryOfFile'
    <3>1. \A t \in Stores : ~shared' => phase[t] \notin {"creating", "open", "closing"}
      BY <2>1 DEF InUse
    <3> QED BY <1>t, <2>1, <2>2, <2>3, <3>1 DEF MemoryOfFile
  <2>9. LogOfOutcome'
    <3>1. \A u \in Updates : Renamed(u)' = Renamed(u)
      BY <2>2 DEF Renamed, Running
    <3>2. disk'.kind # "whole" => disk.kind # "whole"
      BY <2>2
    <3>3. \A t \in Stores : \A u \in ToSet(memory'[t]) : u \in Updates /\ Renamed(u)
      BY <1>i, <1>l, <2>2 DEF LogOfOutcome
    <3> QED BY <1>i, <1>l, <2>1, <2>2, <3>1, <3>2, <3>3 DEF LogOfOutcome
  <2> QED BY <1>u, <2>4, <2>6, <2>7, <2>8, <2>9 DEF IInv
<1>2. ASSUME NEW s \in Stores, Create(s) PROVE IInv'
  <2>1. /\ phase[s] = "creating" /\ disk.kind = "torn"
        /\ phase'[s] \in {"open", "refused"}
        /\ \A t \in Stores : t # s => phase'[t] = phase[t]
        /\ UNCHANGED <<chain, stage, drained, outcome, orphans, shared>>
        /\ disk.log = <<>> /\ disk'.log = <<>>
        /\ phase'[s] = "open" => disk'.kind = "whole" /\ memory'[s] = <<>>
        /\ phase'[s] = "refused" => disk'.kind = "torn"
        /\ \A t \in Stores : memory'[t] \in {memory[t], <<>>}
    <3>1. CASE CreateFinish(s)
      BY <1>i, <3>1, <1>t DEF CreateFinish, FileOfPhase, TypeOK, openings
    <3>2. CASE CreateFails(s)
      BY <1>i, <3>2, <1>t DEF CreateFails, FileOfPhase, TypeOK, openings
    <3> QED BY <1>2, <3>1, <3>2 DEF Create
  <2>3. /\ \A t \in Stores : phase[t] \notin {"open", "closing"}
        /\ \A t \in Stores : phase[t] = "creating" => t = s
        /\ \A t \in Stores : stage[t] = "idle"
        /\ chain[s] = <<>>
    BY <1>i, <2>1 DEF FileOfPhase, RunningInUse, QueuedOnce
  <2>4. OneInUse' /\ RunningInUse'
    BY <1>i, <2>1, <2>3 DEF OneInUse, RunningInUse, InUse
  <2>5. QueuedOnce'
    BY <1>i, <2>1, <2>3 DEF QueuedOnce
  <2>6. FileOfPhase' /\ MemoryOfFile'
    BY <2>1, <2>3 DEF FileOfPhase, MemoryOfFile
  <2>7. LogOfOutcome'
    <3>1. \A u \in Updates : Renamed(u)' = Renamed(u)
      BY <2>1 DEF Renamed, Running
    <3>2. ToSet(<<>>) = {}
      BY DEF ToSet
    <3>3. \A t \in Stores : \A u \in ToSet(memory'[t]) : u \in Updates /\ Renamed(u)
      BY <1>i, <1>l, <2>1, <3>2 DEF LogOfOutcome
    <3>4. \A u \in Updates : outcome'[u] # "resolved"
      BY <1>i, <2>1 DEF LogOfOutcome
    <3> QED BY <1>i, <1>l, <2>1, <3>1, <3>3, <3>4 DEF LogOfOutcome
  <2> QED BY <1>u, <2>4, <2>5, <2>6, <2>7 DEF IInv
<1>3. ASSUME NEW s \in Stores, NEW u \in Updates, Update(s, u) PROVE IInv'
  <2>1. /\ phase[s] \in {"open", "closing", "closed"} /\ outcome[u] = "none"
        /\ \A v \in Updates : outcome'[v] = IF v = u THEN "pending" ELSE outcome[v]
        /\ \A t \in Stores : chain'[t] = IF t = s THEN Append(chain[s], u) ELSE chain[t]
        /\ UNCHANGED <<disk, phase, memory, stage, drained, orphans, shared>>
    BY <1>3, <1>t DEF Update, TypeOK, openings
  <2>2. /\ ToSet(Append(chain[s], u)) = ToSet(chain[s]) \cup {u}
        /\ Append(chain[s], u) # <<>>
        /\ chain[s] # <<>> => Head(Append(chain[s], u)) = Head(chain[s])
    <3>1. chain[s] \in Seq(Updates)
      BY <1>t DEF TypeOK
    <3> QED BY <3>1, ToSetAppend, AppendFacts
  <2>3. \A t \in Stores : u \notin ToSet(chain[t]) /\ ToSet(chain[t]) \subseteq Updates
    <3>1. \A t \in Stores : chain[t] \in Seq(Updates)
      BY <1>t DEF TypeOK
    <3>2. \A t \in Stores : ToSet(chain[t]) \subseteq Updates
      BY <3>1 DEF ToSet
    <3> QED BY <1>i, <2>1, <3>2 DEF QueuedOnce
  <2>4. \A t \in Stores : stage[t] # "idle" => Head(chain'[t]) = Head(chain[t])
    BY <1>t, <2>1, <2>2 DEF TypeOK
  <2>5. OneInUse' /\ RunningInUse'
    BY <1>i, <2>1, <2>4 DEF OneInUse, RunningInUse, InUse, Running
  <2>6. QueuedOnce'
    <3>1. \A r, t \in Stores :
            \A i \in 1..Len(chain'[r]), j \in 1..Len(chain'[t]) :
                chain'[r][i] = chain'[t][j] => r = t /\ i = j
      BY <1>t, <1>i, <1>3, <2>3, Enqueued DEF Update
    <3>2. \A t \in Stores : \A v \in ToSet(chain'[t]) : outcome'[v] = "pending"
      BY <1>i, <2>1, <2>2, <2>3 DEF QueuedOnce
    <3> QED BY <1>i, <2>1, <2>2, <3>1, <3>2 DEF QueuedOnce
  <2>7. FileOfPhase'
    BY <1>i, <2>1 DEF FileOfPhase
  <2>8. MemoryOfFile'
    BY <1>i, <1>t, <2>1, <2>4 DEF MemoryOfFile, Draft, Running, TypeOK
  <2>9. LogOfOutcome'
    <3>1. \A v \in Updates : Renamed(v) => Renamed(v)'
      BY <2>1, <2>4 DEF Renamed, Running
    <3>2. \A v \in Updates : outcome'[v] = "resolved" => outcome[v] = "resolved"
      BY <2>1
    <3> QED BY <1>i, <1>t, <2>1, <3>1, <3>2, LogKept
  <2> QED BY <1>u, <2>5, <2>6, <2>7, <2>8, <2>9 DEF IInv
<1>4. ASSUME NEW s \in Stores, StartTask(s) \/ WriteTemp(s) PROVE IInv'
  <2>1. /\ \E p \in {"writing", "written"} : stage' = [stage EXCEPT ![s] = p]
        /\ stage[s] \in {"idle", "writing"}
        /\ UNCHANGED <<disk, phase, memory, chain, drained, outcome, orphans, shared>>
        /\ chain[s] # <<>>
        /\ phase[s] \in {"open", "closing"}
        /\ phase[s] = "closing" => Running(s) \in drained[s]
    BY <1>4, <1>t, <1>i DEF StartTask, WriteTemp, IsClosed, RunningInUse, QueuedOnce, TypeOK, openings
  <2>2. \A t \in Stores : IF t = s THEN stage'[t] \in {"writing", "written"}
                                   ELSE stage'[t] = stage[t]
    BY <1>t, <2>1 DEF TypeOK
  <2>3. OneInUse' /\ RunningInUse'
    BY <1>i, <2>1, <2>2 DEF OneInUse, RunningInUse, InUse, Running
  <2>4. QueuedOnce' /\ FileOfPhase'
    BY <1>i, <2>1 DEF QueuedOnce, FileOfPhase
  <2>5. MemoryOfFile'
    BY <1>i, <2>1, <2>2 DEF MemoryOfFile, Draft, Running
  <2>6. LogOfOutcome'
    <3>1. \A v \in Updates : Renamed(v) => Renamed(v)'
      BY <2>1, <2>2 DEF Renamed, Running
    <3> QED BY <1>i, <1>t, <2>1, <3>1, LogKept
  <2> QED BY <1>u, <2>3, <2>4, <2>5, <2>6 DEF IInv
<1>5. ASSUME NEW s \in Stores, RejectClosed(s) \/ WriteFails(s) PROVE IInv'
  <2>1. /\ stage[s] # "renamed" /\ chain[s] # <<>>
        /\ Settled(s, "rejected")
        /\ UNCHANGED <<disk, phase, memory, drained, orphans, shared>>
        /\ phase[s] \in {"open", "closing", "closed"}
    BY <1>5, <1>t, <1>i DEF RejectClosed, WriteFails, IsClosed, TypeOK, QueuedOnce, openings
  <2>2. /\ chain[s] \in Seq(Updates) /\ Running(s) \in Updates
        /\ Running(s) \in ToSet(chain[s])
    BY <1>t, <2>1, ToSetTail DEF TypeOK, Running
  <2>3. /\ \A t \in Stores : stage'[t] = IF t = s THEN "idle" ELSE stage[t]
        /\ \A t \in Stores : t # s => chain'[t] = chain[t]
        /\ \A v \in Updates : outcome'[v] = IF v = Running(s) THEN "rejected" ELSE outcome[v]
    BY <1>t, <2>1 DEF Settled, TypeOK
  <2>4. OneInUse' /\ RunningInUse'
    BY <1>i, <2>1, <2>3 DEF OneInUse, RunningInUse, InUse, Running
  <2>5. QueuedOnce'
    <3>1. /\ \A r, t \in Stores :
                \A i \in 1..Len(chain'[r]), j \in 1..Len(chain'[t]) :
                    chain'[r][i] = chain'[t][j] => r = t /\ i = j
          /\ \A t \in Stores : ToSet(chain'[t]) \subseteq ToSet(chain[t]) \ {Running(s)}
      BY <1>t, <1>i, <2>1, Dequeued DEF Settled
    <3>2. \A t \in Stores : ToSet(chain[t]) \subseteq Updates
      BY <1>t DEF TypeOK, ToSet
    <3>3. \A t \in Stores : \A v \in ToSet(chain'[t]) : outcome'[v] = "pending"
      BY <1>i, <2>3, <3>1, <3>2 DEF QueuedOnce
    <3>4. \A t \in Stores : chain'[t] # <<>> => phase'[t] \in {"open", "closing", "closed"}
      BY <1>i, <2>1, <2>3 DEF QueuedOnce
    <3> QED BY <3>1, <3>3, <3>4 DEF QueuedOnce
  <2>6. FileOfPhase'
    BY <1>i, <2>1 DEF FileOfPhase
  <2>7. MemoryOfFile'
    BY <1>i, <2>1, <2>3 DEF MemoryOfFile, Draft, Running
  <2>8. ~Renamed(Running(s))
    BY <1>t, <1>i, <2>1, NotYetRenamed
  <2>9. LogOfOutcome'
    <3>1. \A v \in Updates : Renamed(v) => Renamed(v)'
      BY <2>1, <2>3, <2>8 DEF Renamed, Running
    <3>2. \A v \in Updates : outcome'[v] = "resolved" => outcome[v] = "resolved"
      BY <2>3
    <3> QED BY <1>i, <1>t, <2>1, <3>1, <3>2, LogKept
  <2> QED BY <1>u, <2>4, <2>5, <2>6, <2>7, <2>9 DEF IInv
<1>6. ASSUME NEW s \in Stores, stage[s] # "idle"
      PROVE  /\ chain[s] \in Seq(Updates) /\ chain[s] # <<>>
             /\ Running(s) \in Updates /\ Running(s) \in ToSet(chain[s])
             /\ phase[s] \in {"open", "closing"}
             /\ outcome[Running(s)] = "pending"
             /\ ~shared => \A t \in Stores :
                   t # s => /\ stage[t] = "idle"
                            /\ phase[t] \notin {"creating", "open", "closing"}
  <2>1. chain[s] \in Seq(Updates) /\ chain[s] # <<>> /\ phase[s] \in {"open", "closing"}
    BY <1>6, <1>t, <1>i DEF TypeOK, RunningInUse
  <2>2. Running(s) \in Updates /\ Running(s) \in ToSet(chain[s])
    BY <2>1, ToSetTail DEF Running
  <2>3. outcome[Running(s)] = "pending"
    BY <1>i, <2>2 DEF QueuedOnce
  <2>4. ~shared => \A t \in Stores : t # s => phase[t] \notin {"creating", "open", "closing"}
    BY <1>i, <2>1 DEF OneInUse, InUse
  <2>5. ~shared => \A t \in Stores : t # s => stage[t] = "idle"
    BY <1>i, <2>4 DEF RunningInUse
  <2> QED BY <2>1, <2>2, <2>3, <2>4, <2>5
<1>7. ASSUME NEW s \in Stores, Rename(s) PROVE IInv'
  <2>1. /\ stage[s] = "written"
        /\ disk'.kind = "whole" /\ disk'.log = Draft(s)
        /\ \A t \in Stores : stage'[t] = IF t = s THEN "renamed" ELSE stage[t]
        /\ UNCHANGED <<phase, memory, chain, drained, outcome, orphans, shared>>
    BY <1>7, <1>t DEF Rename, TypeOK, openings
  <2>2. /\ Running(s) \in Updates /\ outcome[Running(s)] = "pending"
        /\ phase[s] \in {"open", "closing"} /\ disk.kind = "whole"
        /\ ~shared => memory[s] = disk.log
        /\ ~shared => \A t \in Stores :
              t # s => /\ stage[t] = "idle"
                       /\ phase[t] \notin {"creating", "open", "closing"}
    BY <1>6, <1>i, <2>1 DEF MemoryOfFile, FileOfPhase
  <2>3. OneInUse' /\ RunningInUse'
    BY <1>i, <2>1, <2>2 DEF OneInUse, RunningInUse, InUse, Running
  <2>4. QueuedOnce' /\ FileOfPhase'
    BY <1>i, <2>1, <2>2 DEF QueuedOnce, FileOfPhase
  <2>5. MemoryOfFile'
    BY <2>1, <2>2 DEF MemoryOfFile, Draft, Running
  <2>6. ToSet(disk'.log) = ToSet(memory[s]) \cup {Running(s)}
    <3>1. memory[s] \in Seq(Updates)
      BY <1>t DEF TypeOK
    <3> QED BY <2>1, <2>2, <3>1, ToSetAppend DEF Draft
  <2>7. LogOfOutcome'
    <3>1. \A v \in Updates : Renamed(v) => Renamed(v)'
      BY <2>1 DEF Renamed, Running
    <3>2. \A v : v = Running(s) => Renamed(v)'
      BY <2>1 DEF Renamed, Running
    <3>3. \A v \in ToSet(disk'.log) : Renamed(v)'
      BY <1>i, <1>l, <2>6, <3>1, <3>2 DEF LogOfOutcome
    <3>4. \A t \in Stores : \A v \in ToSet(memory'[t]) : Renamed(v)'
      BY <1>i, <1>l, <2>1, <3>1 DEF LogOfOutcome
    <3> QED BY <1>i, <2>1, <2>2, <2>6, <3>3, <3>4 DEF LogOfOutcome
  <2> QED BY <1>u, <2>3, <2>4, <2>5, <2>7 DEF IInv
<1>8. ASSUME NEW s \in Stores, Settle(s) PROVE IInv'
  <2>1. /\ stage[s] = "renamed"
        /\ chain' = [chain EXCEPT ![s] = Tail(@)]
        /\ \A t \in Stores : memory'[t] = IF t = s THEN Draft(s) ELSE memory[t]
        /\ \A t \in Stores : stage'[t] = IF t = s THEN "idle" ELSE stage[t]
        /\ \A v \in Updates : outcome'[v] = IF v = Running(s) THEN "resolved" ELSE outcome[v]
        /\ \A t \in Stores : t # s => chain'[t] = chain[t]
        /\ UNCHANGED <<phase, disk, drained, orphans, shared>>
    BY <1>8, <1>t DEF Settle, Settled, TypeOK, openings
  <2>2. /\ chain[s] # <<>>
        /\ Running(s) \in Updates /\ outcome[Running(s)] = "pending"
        /\ phase[s] \in {"open", "closing"} /\ disk.kind = "whole"
        /\ ~shared => disk.log = Draft(s)
        /\ ~shared => \A t \in Stores :
              t # s => /\ stage[t] = "idle"
                       /\ phase[t] \notin {"creating", "open", "closing"}
    BY <1>6, <1>i, <2>1 DEF MemoryOfFile, FileOfPhase
  <2>3. OneInUse' /\ RunningInUse'
    BY <1>i, <2>1, <2>2 DEF OneInUse, RunningInUse, InUse, Running
  <2>4. QueuedOnce'
    <3>1. /\ \A r, t \in Stores :
                \A i \in 1..Len(chain'[r]), j \in 1..Len(chain'[t]) :
                    chain'[r][i] = chain'[t][j] => r = t /\ i = j
          /\ \A t \in Stores : ToSet(chain'[t]) \subseteq ToSet(chain[t]) \ {Running(s)}
      BY <1>t, <1>i, <2>1, <2>2, Dequeued
    <3>2. \A t \in Stores : ToSet(chain[t]) \subseteq Updates
      BY <1>t DEF TypeOK, ToSet
    <3>3. \A t \in Stores : \A v \in ToSet(chain'[t]) : outcome'[v] = "pending"
      BY <1>i, <2>1, <3>1, <3>2 DEF QueuedOnce
    <3>4. \A t \in Stores : chain'[t] # <<>> => phase'[t] \in {"open", "closing", "closed"}
      BY <1>i, <2>1, <2>2 DEF QueuedOnce
    <3> QED BY <3>1, <3>3, <3>4 DEF QueuedOnce
  <2>5. FileOfPhase'
    BY <1>i, <2>1 DEF FileOfPhase
  <2>6. MemoryOfFile'
    BY <2>1, <2>2 DEF MemoryOfFile
  <2>7. ToSet(Draft(s)) = ToSet(memory[s]) \cup {Running(s)}
    <3>1. memory[s] \in Seq(Updates)
      BY <1>t DEF TypeOK
    <3> QED BY <2>2, <3>1, ToSetAppend DEF Draft
  <2>8. LogOfOutcome'
    <3>1. \A v \in Updates : Renamed(v) => Renamed(v)'
      BY <2>1 DEF Renamed, Running
    <3>2. \A v : v = Running(s) => Renamed(v)'
      BY <2>1, <2>2 DEF Renamed
    <3>3. \A v \in ToSet(disk'.log) : Renamed(v)'
      BY <1>i, <1>l, <2>1, <3>1 DEF LogOfOutcome
    <3>4. \A t \in Stores : \A v \in ToSet(memory'[t]) : Renamed(v)'
      BY <1>i, <1>l, <2>1, <2>7, <3>1, <3>2 DEF LogOfOutcome
    <3> QED BY <1>i, <2>1, <2>2, <2>7, <3>3, <3>4 DEF LogOfOutcome
  <2> QED BY <1>u, <2>3, <2>4, <2>5, <2>6, <2>8 DEF IInv
<1>9. ASSUME NEW s \in Stores, Close(s) PROVE IInv'
  <2>1. /\ phase[s] = "open"
        /\ \A t \in Stores : phase'[t] = IF t = s THEN "closing" ELSE phase[t]
        /\ \A t \in Stores : drained'[t] = IF t = s THEN ToSet(chain[s]) ELSE drained[t]
        /\ UNCHANGED <<disk, memory, chain, stage, outcome, orphans, shared>>
    BY <1>9, <1>t DEF Close, TypeOK, openings
  <2>2. OneInUse'
    BY <1>i, <2>1 DEF OneInUse, InUse
  <2>3. RunningInUse'
    BY <1>i, <1>6, <2>1 DEF RunningInUse, Running
  <2>4. QueuedOnce' /\ FileOfPhase'
    BY <1>i, <2>1 DEF QueuedOnce, FileOfPhase
  <2>5. MemoryOfFile' /\ LogOfOutcome'
    BY <1>i, <2>1 DEF MemoryOfFile, LogOfOutcome, Renamed, Draft, Running
  <2> QED BY <1>u, <2>2, <2>3, <2>4, <2>5 DEF IInv
<1>10. ASSUME NEW s \in Stores, CloseResolves(s) PROVE IInv'
  <2>1. /\ phase[s] = "closing"
        /\ drained[s] \cap ToSet(chain[s]) = {}
        /\ \A t \in Stores : phase'[t] = IF t = s THEN "closed" ELSE phase[t]
        /\ UNCHANGED <<disk, memory, chain, stage, drained, outcome, orphans, shared>>
    BY <1>10, <1>t DEF CloseResolves, TypeOK, openings
  <2>2. stage[s] = "idle"
    BY <1>6, <1>i, <2>1 DEF RunningInUse
  <2>3. OneInUse' /\ RunningInUse'
    BY <1>i, <2>1, <2>2 DEF OneInUse, RunningInUse, InUse, Running
  <2>4. QueuedOnce' /\ FileOfPhase'
    BY <1>i, <2>1 DEF QueuedOnce, FileOfPhase
  <2>5. MemoryOfFile' /\ LogOfOutcome'
    BY <1>i, <2>1 DEF MemoryOfFile, LogOfOutcome, Renamed, Draft, Running
  <2> QED BY <1>u, <2>3, <2>4, <2>5 DEF IInv
<1>11. CASE Crash
  <2>1. /\ \A t \in Stores : phase'[t] \in {"unopened", "dead"} /\ stage'[t] = "idle"
        /\ \A t \in Stores : chain'[t] = <<>>
        /\ \A v \in Updates : outcome'[v] = IF outcome[v] = "pending" THEN "lost" ELSE outcome[v]
        /\ UNCHANGED <<disk, memory, orphans, shared>>
    BY <1>11 DEF Crash, openings
  <2>2. OneInUse' /\ RunningInUse'
    BY <2>1 DEF OneInUse, RunningInUse, InUse
  <2>3. QueuedOnce'
    <3>1. ToSet(<<>>) = {} /\ Len(<<>>) = 0
      BY DEF ToSet
    <3> QED BY <2>1, <3>1 DEF QueuedOnce
  <2>4. FileOfPhase' /\ MemoryOfFile'
    BY <1>i, <2>1 DEF FileOfPhase, MemoryOfFile
  <2>5. LogOfOutcome'
    <3>1. \A v \in Updates : Renamed(v) => outcome[v] \in {"resolved", "lost", "pending"}
      BY <1>6 DEF Renamed
    <3>2. \A v \in Updates : Renamed(v) => Renamed(v)'
      BY <2>1, <3>1 DEF Renamed
    <3>3. \A v \in Updates : outcome'[v] = "resolved" => outcome[v] = "resolved"
      BY <2>1
    <3> QED BY <1>i, <1>t, <2>1, <3>2, <3>3, LogKept
  <2> QED BY <1>u, <2>2, <2>3, <2>4, <2>5 DEF IInv
<1>12. CASE UNCHANGED <<fileVars, shared>>
  <2>1. UNCHANGED <<disk, phase, memory, chain, stage, drained, outcome, shared>>
    BY <1>12 DEF fileVars
  <2>2. OneInUse' /\ RunningInUse' /\ QueuedOnce'
    BY <1>i, <2>1 DEF OneInUse, InUse, RunningInUse, Running, QueuedOnce
  <2>3. FileOfPhase' /\ MemoryOfFile' /\ LogOfOutcome'
    BY <1>i, <2>1 DEF FileOfPhase, MemoryOfFile, LogOfOutcome, Renamed, Draft, Running
  <2> QED BY <1>u, <2>2, <2>3 DEF IInv
<1> QED
  <2>1. ASSUME NEW s \in Stores, Task(s) PROVE IInv'
    BY <1>4, <1>5, <1>7, <1>8, <2>1 DEF Task
  <2>2. ASSUME NEW s \in Stores, StartFails(s) PROVE IInv'
    BY <1>12, <2>2 DEF StartFails
  <2>3. CASE UNCHANGED vars
    BY <1>12, <2>3 DEF vars, fileVars
  <2> QED BY <1>1, <1>2, <1>3, <1>9, <1>10, <1>11, <2>1, <2>2, <2>3 DEF Next

-----------------------------------------------------------------------------
(* The theorems.                                                           *)

\* The invariant holds in every reachable state.
LEMMA Invariant == Spec => []IInv
<1> QED BY Initial, InvariantStep, PTL DEF Spec

\* The types of the store's variables hold in every reachable state.
THEOREM TypesHold == Spec => []TypeOK
<1>1. IInv => TypeOK
  BY DEF IInv
<1> QED BY Invariant, <1>1, PTL

\* "An awaited mutation is durable": what update() told its callers stays
\* true in the file, across closes, reopenings, failed writes and crashes; a
\* rejection always, a resolution until two stores share the file.
THEOREM OutcomesHold == Spec => []OutcomesAreTrue
<1>1. IInv => OutcomesAreTrue
  <2> SUFFICES ASSUME IInv PROVE OutcomesAreTrue
    OBVIOUS
  <2>i. TypeOK /\ QueuedOnce /\ RunningInUse /\ FileOfPhase /\ LogOfOutcome
    BY DEF IInv
  <2>1. ASSUME NEW u \in Updates, outcome[u] = "resolved"
        PROVE  disk.kind = "whole" /\ (shared \/ u \in ToSet(disk.log))
    BY <2>i, <2>1 DEF LogOfOutcome
  <2>2. ASSUME NEW u \in Updates, outcome[u] = "rejected"
        PROVE  u \notin ToSet(disk.log)
    BY <2>i, <2>2, RejectedIsGone DEF LogOfOutcome
  <2> QED BY <2>1, <2>2 DEF OutcomesAreTrue
<1> QED BY Invariant, <1>1, PTL

\* What requests read from memory was never refused; until the file is shared
\* it is what the file holds, or one rename behind it.
THEOREM ReadsHold == Spec => []ReadsMatchDisk
<1>1. IInv => ReadsMatchDisk
  <2> SUFFICES ASSUME IInv, NEW s \in Stores, phase[s] \in {"open", "closing"}
               PROVE  /\ \A u \in ToSet(memory[s]) : outcome[u] # "rejected"
                      /\ ~shared => IsPrefix(memory[s], disk.log)
                      /\ ~shared => (stage[s] # "renamed" => memory[s] = disk.log)
    BY DEF ReadsMatchDisk
  <2>1. memory[s] \in Seq(Updates) /\ chain[s] \in Seq(Updates)
    BY DEF IInv, TypeOK
  <2>2. \A u \in ToSet(memory[s]) : outcome[u] # "rejected"
    <3>1. TypeOK /\ QueuedOnce /\ LogOfOutcome
      BY DEF IInv
    <3>2. \A u \in ToSet(memory[s]) : u \in Updates /\ Renamed(u)
      BY <3>1, LoggedAreUpdates DEF LogOfOutcome
    <3> QED BY <3>1, <3>2, RejectedIsGone
  <2>3. CASE stage[s] = "renamed" /\ ~shared
    <3>1. chain[s] # <<>> /\ disk.log = Draft(s)
      BY <2>3 DEF IInv, TypeOK, MemoryOfFile
    <3>2. Running(s) \in Updates
      BY <2>1, <3>1, ToSetTail DEF Running
    <3> QED BY <2>1, <2>2, <2>3, <3>1, <3>2, PrefixOfAppend DEF Draft
  <2>4. CASE stage[s] # "renamed" /\ ~shared
    BY <2>1, <2>2, <2>4, PrefixOfSelf DEF IInv, MemoryOfFile
  <2> QED BY <2>2, <2>3, <2>4
<1> QED BY Invariant, <1>1, PTL

\* A store whose close() resolved has nothing running on the file.
THEOREM QuietHolds == Spec => []QuietAfterClose
<1>1. IInv => QuietAfterClose
  BY DEF IInv, RunningInUse, QuietAfterClose
<1> QED BY Invariant, <1>1, PTL

\* Until the file is shared a rename appends one update to the log: pending,
\* and not in it before.
LEMMA Committed ==
    ASSUME IInv, ~shared, NEW s \in Stores, Rename(s)
    PROVE  /\ Running(s) \in Updates
           /\ outcome[Running(s)] = "pending"
           /\ Running(s) \notin ToSet(disk.log)
           /\ disk'.log = Append(disk.log, Running(s))
<1>t. TypeOK /\ RunningInUse /\ QueuedOnce /\ MemoryOfFile /\ LogOfOutcome
  BY DEF IInv
<1>1. stage[s] = "written" /\ disk'.log = Draft(s)
  BY DEF Rename
<1>2. chain[s] \in Seq(Updates) /\ chain[s] # <<>>
  BY <1>t, <1>1 DEF TypeOK
<1>3. Running(s) \in Updates /\ Running(s) \in ToSet(chain[s])
  BY <1>2, ToSetTail DEF Running
<1>4. memory[s] = disk.log
  BY <1>t, <1>1 DEF RunningInUse, MemoryOfFile
<1>5. Running(s) \notin ToSet(disk.log)
  BY <1>t, <1>1, <1>2, NotYetRenamed DEF LogOfOutcome
<1>6. outcome[Running(s)] = "pending"
  BY <1>t, <1>3 DEF QueuedOnce
<1> QED BY <1>1, <1>3, <1>4, <1>5, <1>6 DEF Draft

\* Once shared, a file counts as shared for ever.
LEMMA SharedStays ==
    ASSUME [Next]_vars, ~shared' PROVE ~shared
<1>1. ASSUME NEW s \in Stores, Open(s) PROVE ~shared
  BY <1>1 DEF Open, OpenExisting, OpenTorn, CreateStart, MayOpen
<1>2. ASSUME NEW s \in Stores, ~Open(s),
             \/ Create(s) \/ StartFails(s) \/ Task(s) \/ Close(s) \/ CloseResolves(s)
             \/ \E u \in Updates : Update(s, u)
      PROVE  ~shared
  BY <1>2 DEF Create, CreateFinish, CreateFails, StartFails, Task, StartTask, RejectClosed,
     WriteTemp, WriteFails, Rename, Settle, Close, CloseResolves, Update, openings
<1>3. CASE Crash \/ UNCHANGED vars
  BY <1>3 DEF Crash, vars, openings
<1> QED BY <1>1, <1>2, <1>3 DEF Next

\* A rename is the only step that changes the log.
LEMMA LogStep ==
    ASSUME IInv, [Next]_vars
    PROVE  disk'.log = disk.log \/ \E s \in Stores : Rename(s)
<1>t. TypeOK /\ FileOfPhase
  BY DEF IInv
<1>1. ASSUME NEW s \in Stores, Open(s) PROVE disk'.log = disk.log
  BY <1>1, <1>t DEF Open, OpenExisting, OpenTorn, CreateStart, TypeOK
<1>2. ASSUME NEW s \in Stores, Create(s) PROVE disk'.log = disk.log
  BY <1>2, <1>t DEF Create, CreateFinish, CreateFails, FileOfPhase
<1>3. ASSUME NEW s \in Stores, StartFails(s) PROVE disk'.log = disk.log
  BY <1>3 DEF StartFails, fileVars
<1>4. ASSUME NEW s \in Stores, Task(s), ~Rename(s) PROVE disk'.log = disk.log
  BY <1>4 DEF Task, StartTask, RejectClosed, WriteTemp, WriteFails, Settle
<1>5. ASSUME NEW s \in Stores, Close(s) \/ CloseResolves(s) PROVE disk'.log = disk.log
  BY <1>5 DEF Close, CloseResolves
<1>6. ASSUME NEW s \in Stores, NEW u \in Updates, Update(s, u) PROVE disk'.log = disk.log
  BY <1>6 DEF Update
<1>7. CASE Crash \/ UNCHANGED vars
  BY <1>7 DEF Crash, vars
<1> QED BY <1>1, <1>2, <1>3, <1>4, <1>5, <1>6, <1>7 DEF Next

\* No step of any store drops or reorders an update that is already durable,
\* until two stores share the file.
THEOREM LogGrows == Spec => LogOnlyGrows
<1>1. IInv /\ [Next]_vars => [IsPrefix(disk.log, disk'.log) \/ shared']_vars
  <2> SUFFICES ASSUME IInv, [Next]_vars, ~shared' PROVE IsPrefix(disk.log, disk'.log)
    OBVIOUS
  <2>1. disk.log \in Seq(Updates)
    BY DEF IInv, TypeOK
  <2>2. CASE disk'.log = disk.log
    BY <2>1, <2>2, PrefixOfSelf
  <2>3. ASSUME NEW s \in Stores, Rename(s) PROVE IsPrefix(disk.log, disk'.log)
    <3>1. Running(s) \in Updates /\ disk'.log = Append(disk.log, Running(s))
      BY <2>3, Committed, SharedStays
    <3> QED BY <2>1, <3>1, PrefixOfAppend
  <2> QED BY <2>2, <2>3, LogStep
<1> QED BY Invariant, <1>1, PTL DEF Spec, LogOnlyGrows

\* The initial states of the store are initial states of the promised log.
LEMMA PromiseInitial == Init => Promise!Init
BY DEF Init, Promise!Init

\* Until the file is shared, every step of the store is a step of the promised
\* log or none at all.
LEMMA PromiseStep == IInv /\ [Next]_vars => [Promise!Next \/ shared']_(Promise!logVars)
<1> SUFFICES ASSUME IInv, [Next]_vars, ~shared'
             PROVE  Promise!Next \/ UNCHANGED <<disk.log, outcome>>
  BY DEF Promise!logVars
<1>n. ~shared
  BY SharedStays
<1>t. TypeOK /\ RunningInUse /\ QueuedOnce /\ FileOfPhase /\ MemoryOfFile /\ LogOfOutcome
  BY DEF IInv
<1>1. ASSUME NEW s \in Stores, Rename(s) PROVE Promise!Next
  <2>1. /\ Running(s) \in Updates
        /\ outcome[Running(s)] = "pending"
        /\ Running(s) \notin ToSet(disk.log)
        /\ disk'.log = Append(disk.log, Running(s))
    BY <1>1, <1>n, Committed
  <2>2. UNCHANGED outcome
    BY <1>1 DEF Rename
  <2>3. Promise!Commit(Running(s))
    BY <2>1, <2>2 DEF Promise!Commit, Promise!ToSet, ToSet
  <2> QED BY <2>1, <2>3 DEF Promise!Next
<1>2. ASSUME NEW s \in Stores, Settle(s) PROVE Promise!Next
  <2>1. /\ stage[s] = "renamed"
        /\ outcome' = [outcome EXCEPT ![Running(s)] = "resolved"]
        /\ UNCHANGED disk
    BY <1>2 DEF Settle, Settled
  <2>2. chain[s] \in Seq(Updates) /\ chain[s] # <<>>
    BY <1>t, <2>1 DEF TypeOK
  <2>3. Running(s) \in Updates /\ Running(s) \in ToSet(chain[s])
    BY <2>2, ToSetTail DEF Running
  <2>4. outcome[Running(s)] = "pending"
    BY <1>t, <2>3 DEF QueuedOnce
  <2>5. Running(s) \in ToSet(disk.log)
    <3>1. disk.log = Draft(s) /\ memory[s] \in Seq(Updates)
      BY <1>n, <1>t, <2>1 DEF RunningInUse, MemoryOfFile, TypeOK
    <3> QED BY <2>3, <3>1, ToSetAppend DEF Draft
  <2>6. Promise!Acknowledge(Running(s))
    BY <2>1, <2>4, <2>5 DEF Promise!Acknowledge, Promise!ToSet, ToSet
  <2> QED BY <2>3, <2>6 DEF Promise!Next
<1>3. ASSUME NEW s \in Stores, RejectClosed(s) \/ WriteFails(s) PROVE Promise!Next
  <2>1. /\ stage[s] # "renamed" /\ chain[s] # <<>>
        /\ outcome' = [outcome EXCEPT ![Running(s)] = "rejected"]
        /\ UNCHANGED disk
    BY <1>3, <1>t DEF RejectClosed, WriteFails, Settled, TypeOK
  <2>2. chain[s] \in Seq(Updates)
    BY <1>t DEF TypeOK
  <2>3. Running(s) \in Updates /\ Running(s) \in ToSet(chain[s])
    BY <2>1, <2>2, ToSetTail DEF Running
  <2>4. outcome[Running(s)] = "pending"
    BY <1>t, <2>3 DEF QueuedOnce
  <2>5. Running(s) \notin ToSet(disk.log)
    BY <1>t, <2>1, NotYetRenamed DEF LogOfOutcome
  <2>6. Promise!Refuse(Running(s))
    BY <2>1, <2>4, <2>5 DEF Promise!Refuse, Promise!ToSet, ToSet
  <2> QED BY <2>3, <2>6 DEF Promise!Next
<1>4. ASSUME NEW s \in Stores, NEW u \in Updates, Update(s, u) PROVE Promise!Next
  <2>1. Promise!Call(u)
    BY <1>4 DEF Update, Promise!Call
  <2> QED BY <2>1 DEF Promise!Next
<1>5. CASE Crash
  <2> DEFINE lost == {u \in Updates : outcome[u] = "pending"}
  <2>1. Promise!Abandon(lost)
    BY <1>5 DEF Crash, Promise!Abandon
  <2>2. lost \in SUBSET Updates
    OBVIOUS
  <2> QED BY <2>1, <2>2 DEF Promise!Next
<1>6. ASSUME NEW s \in Stores, Open(s) \/ Create(s) PROVE UNCHANGED <<disk.log, outcome>>
  <2>1. CASE Open(s)
    BY <1>t, <2>1 DEF Open, OpenExisting, OpenTorn, CreateStart, TypeOK
  <2>2. CASE Create(s)
    BY <1>t, <2>2 DEF Create, CreateFinish, CreateFails, FileOfPhase
  <2> QED BY <1>6, <2>1, <2>2
<1>7. ASSUME NEW s \in Stores, StartTask(s) \/ WriteTemp(s) \/ Close(s) \/ CloseResolves(s)
      PROVE  UNCHANGED <<disk.log, outcome>>
  BY <1>7 DEF StartTask, WriteTemp, Close, CloseResolves
<1>8. CASE UNCHANGED vars
  BY <1>8 DEF vars
<1>9. ASSUME NEW s \in Stores, StartFails(s) PROVE UNCHANGED <<disk.log, outcome>>
  BY <1>9 DEF StartFails, fileVars
<1> QED
  <2>1. ASSUME NEW s \in Stores, Task(s)
        PROVE  Promise!Next \/ UNCHANGED <<disk.log, outcome>>
    BY <1>1, <1>2, <1>3, <1>7, <2>1 DEF Task
  <2> QED BY <1>4, <1>5, <1>6, <1>7, <1>8, <1>9, <2>1 DEF Next

\* Until two stores share the file, the chain of file operations implements
\* the durable log: a call commits at its rename, is acknowledged only after it
\* and refused only without it.
THEOREM StoreImplementsLog == Spec => ImplementsDurableLog
<1>1. Spec => []IInv /\ Init /\ [][Next]_vars
  BY Invariant, PTL DEF Spec
<1> QED BY <1>1, PromiseInitial, PromiseStep, PTL DEF ImplementsDurableLog

=============================================================================
