-------------------------- MODULE SupervisorProofs ---------------------------
(***************************************************************************)
(* One relay at a time, for any configurations, ports, faults and number   *)
(* of edits.                                                               *)
(***************************************************************************)
EXTENDS Supervisor, TLAPS

PartNames == {"routes", "advert", "compat", "primary", "store"}

Starting == {"store", "certificate", "primary", "compat", "advert"}

Types ==
    /\ generation \in 0..MaxGeneration
    /\ applied \in Configs \cup {None}
    /\ chain \in Seq(Generations)
    /\ config \in [Generations -> Coherent \cup {None}]
    /\ stage \in {"queued", "stopping"} \cup Starting
    /\ running \in Generations \cup {None}
    /\ held \in [Generations -> SUBSET PartNames]
    /\ failed \subseteq Generations
    /\ unload \in {"no", "waiting", "stopping", "done"}

\* A transition past its beginning is the first of the chain; nothing is
\* stopped that is not there, and nothing starts beside a relay that runs.
StagesFit ==
    /\ stage # "queued" => chain # <<>>
    /\ stage = "stopping" => running # None
    /\ stage \in Starting => running = None

\* Whatever is held belongs to the running relay, to the one that is starting,
\* or to a start that failed.
OwnersKnown ==
    \A g \in Generations \ failed :
        held[g] # {} => g = running \/ (stage \in Starting /\ g = Mine)

\* The newest transition is the last of the chain, until it has run.
NewestIsLast ==
    unload = "no" =>
        /\ generation < MaxGeneration
        /\ generation > 0 => config[generation] = applied
        /\ chain # <<>> => chain[Len(chain)] = generation
        /\ chain = <<>> /\ generation > 0 => generation \in failed \/ running = generation

\* The disposer goes on when the chain is quiet, and it stays so.
DisposerIsLast ==
    /\ unload \in {"stopping", "done"} => chain = <<>>
    /\ unload = "done" => running = None

SupervisorInv == Types /\ StagesFit /\ OwnersKnown /\ NewestIsLast /\ DisposerIsLast

-----------------------------------------------------------------------------
(* The chain.                                                              *)

LEMMA Constants ==
  /\ MaxGeneration \in Nat /\ MaxGeneration >= 1
  /\ None \notin Nat /\ None \notin Configs /\ None \notin Generations
  /\ Coherent \subseteq Configs
BY BoundsAssumption, ConfigsAssumption DEF Generations, Coherent

LEMMA AppendIs ==
  ASSUME NEW S, NEW c \in Seq(S), NEW g \in S
  PROVE  /\ Append(c, g) \in Seq(S)
         /\ Append(c, g) # <<>>
         /\ Append(c, g)[Len(Append(c, g))] = g
         /\ c # <<>> => Head(Append(c, g)) = Head(c)
<1>1. /\ Append(c, g) \in Seq(S)
      /\ Len(c) \in Nat /\ Len(Append(c, g)) = Len(c) + 1
      /\ \A i \in 1..Len(c) : Append(c, g)[i] = c[i]
      /\ Append(c, g)[Len(c) + 1] = g
  OBVIOUS
<1>2. Append(c, g) # <<>>
  BY <1>1
<1>3. ASSUME c # <<>> PROVE Head(Append(c, g)) = Head(c)
  <2>1. 1 \in 1..Len(c) /\ Head(c) = c[1]
    BY <1>3
  <2>2. Head(Append(c, g)) = Append(c, g)[1]
    BY <1>1, <1>2
  <2> QED BY <1>1, <2>1, <2>2
<1> QED BY <1>1, <1>2, <1>3

LEMMA TailIs ==
  ASSUME NEW S, NEW c \in Seq(S), c # <<>>
  PROVE  /\ Head(c) \in S
         /\ Tail(c) \in Seq(S)
         /\ Tail(c) = <<>> => Head(c) = c[Len(c)]
         /\ Tail(c) # <<>> => Tail(c)[Len(Tail(c))] = c[Len(c)]
<1>1. /\ Head(c) \in S /\ Head(c) = c[1]
      /\ Len(c) \in Nat \ {0}
      /\ Tail(c) \in Seq(S) /\ Len(Tail(c)) = Len(c) - 1
      /\ \A i \in 1..Len(Tail(c)) : Tail(c)[i] = c[i + 1]
  OBVIOUS
<1>2. ASSUME Tail(c) = <<>> PROVE Head(c) = c[Len(c)]
  <2>1. Len(<<>>) = 0
    OBVIOUS
  <2>2. Len(Tail(c)) = 0
    BY <1>2, <2>1
  <2>3. ASSUME NEW n \in Nat \ {0}, n - 1 = 0 PROVE n = 1
    BY <2>3
  <2>4. Len(c) = 1
    BY <1>1, <2>2, <2>3
  <2> QED BY <1>1, <2>4
<1>3. ASSUME Tail(c) # <<>> PROVE Tail(c)[Len(Tail(c))] = c[Len(c)]
  <2>1. Len(Tail(c)) # 0
    BY <1>1, <1>3
  <2>2. Len(Tail(c)) \in 1..Len(Tail(c)) /\ Len(Tail(c)) + 1 = Len(c)
    BY <1>1, <2>1
  <2> QED BY <1>1, <2>2
<1> QED BY <1>1, <1>2, <1>3

LEMMA MineIs ==
  ASSUME Types, chain # <<>>
  PROVE  Mine \in Generations
BY TailIs DEF Types, Mine

-----------------------------------------------------------------------------
(* The invariant.                                                          *)

LEMMA InitialInvariant == Init => SupervisorInv
<1> SUFFICES ASSUME Init PROVE SupervisorInv
  OBVIOUS
<1>1. chain = <<>> /\ <<>> \in Seq(Generations)
  BY DEF Init
<1>2. Types
  BY <1>1, Constants DEF Init, Types
<1>3. StagesFit /\ OwnersKnown /\ NewestIsLast /\ DisposerIsLast
  BY Constants DEF Init, StagesFit, OwnersKnown, NewestIsLast, DisposerIsLast
<1> QED BY <1>2, <1>3 DEF SupervisorInv

\* Acquiring a part leaves the chain alone and concerns its first transition.
LEMMA AcquireIs ==
  ASSUME Types, NEW parts \in SUBSET PartNames, NEW at, NEW then, Acquire(at, parts, then)
  PROVE  /\ chain # <<>> /\ stage = at /\ stage' = then
         /\ Mine \in Generations
         /\ held' \in [Generations -> SUBSET PartNames]
         /\ \A g \in Generations \ {Mine} : held'[g] = held[g]
         /\ UNCHANGED <<generation, applied, chain, config, running, failed, unload>>
<1>1. /\ chain # <<>> /\ stage = at /\ stage' = then
      /\ held' = [held EXCEPT ![Mine] = @ \cup parts]
      /\ UNCHANGED <<generation, applied, chain, config, running, failed, unload>>
  BY DEF Acquire, AtStage
<1>2. Mine \in Generations
  BY <1>1, MineIs
<1> QED BY <1>1, <1>2 DEF Types

\* Each step of start() that succeeds leads to the next.
StartStep ==
    \E parts \in SUBSET PartNames, at, then \in Starting : Acquire(at, parts, then)

LEMMA StartIs ==
  OpenStore \/ LoadCertificate \/ BindPrimary \/ BindPlain => StartStep
<1>1. OpenStore => Acquire("store", {"store"}, "certificate")
  BY DEF OpenStore
<1>2. LoadCertificate => Acquire("certificate", {}, "primary")
  BY DEF LoadCertificate
<1>3. BindPrimary =>
         \/ Acquire("primary", {"primary", "routes"}, "advert")
         \/ Acquire("primary", {"primary"}, "compat")
  <2>1. {"primary"} \cup {"routes"} = {"primary", "routes"} /\ {"primary"} \cup {} = {"primary"}
    OBVIOUS
  <2> QED BY <2>1 DEF BindPrimary
<1>4. BindPlain => Acquire("compat", {"compat", "routes"}, "advert")
  BY DEF BindPlain
<1>5. /\ {"store"} \in SUBSET PartNames /\ {} \in SUBSET PartNames
      /\ {"primary", "routes"} \in SUBSET PartNames /\ {"primary"} \in SUBSET PartNames
      /\ {"compat", "routes"} \in SUBSET PartNames
      /\ {"store", "certificate", "primary", "compat", "advert"} \subseteq Starting
  BY DEF PartNames, Starting
<1> QED BY <1>1, <1>2, <1>3, <1>4, <1>5, Zenon DEF StartStep

\* Letting go only ever takes away.
LEMMA LetGoIs ==
  ASSUME Types, NEW g \in Generations, LetGo(g)
  PROVE  /\ held' \in [Generations -> SUBSET PartNames]
         /\ \A h \in Generations : held'[h] \subseteq held[h]
BY DEF Types, LetGo

\* The steps of the supervisor.
LEMMA NextIs ==
  ASSUME Types, [Next]_vars
  PROVE  \/ \E c \in Configs : followSettings(c)
         \/ DropOut \/ Begin \/ StopPart \/ Stopped \/ StartStep
         \/ \E at \in Starting : StartFails(at)
         \/ \E advert \in SUBSET PartNames : Started(advert)
         \/ Unload \/ ChainSettled \/ LastStopPart \/ LastStopped
         \/ UNCHANGED vars
<1>1. Start => StartStep \/ \E advert \in SUBSET PartNames : Started(advert)
  BY StartIs DEF Start, advertise, PartNames
<1>2. Fails => \E at \in Starting : StartFails(at)
  BY DEF Fails, Starting
<1> QED BY <1>1, <1>2 DEF Next, Transition, Dispose, Stop

\* The chain after its first transition has settled.
LEMMA SettlesIs ==
  ASSUME Types, chain # <<>>, Settles
  PROVE  /\ Mine \in Generations
         /\ chain' \in Seq(Generations) /\ stage' = "queued"
         /\ chain' = <<>> => Mine = chain[Len(chain)]
         /\ chain' # <<>> => chain'[Len(chain')] = chain[Len(chain)]
<1> DEFINE c == chain
<1>1. c \in Seq(Generations) /\ c # <<>>
  BY DEF Types
<1>2. /\ Head(c) \in Generations
      /\ Tail(c) \in Seq(Generations)
      /\ Tail(c) = <<>> => Head(c) = c[Len(c)]
      /\ Tail(c) # <<>> => Tail(c)[Len(Tail(c))] = c[Len(c)]
  <2> HIDE DEF c
  <2> QED BY <1>1, TailIs
<1> QED BY <1>2 DEF Settles, Mine

LEMMA TypesStep ==
  Types /\ StagesFit /\ NewestIsLast /\ [Next]_vars => Types'
<1> SUFFICES ASSUME Types, StagesFit, NewestIsLast, [Next]_vars PROVE Types'
  OBVIOUS
<1>1. ASSUME NEW c \in Configs, followSettings(c) PROVE Types'
  <2>1. unload = "no" /\ generation + 1 \in Generations
    BY <1>1, Constants DEF followSettings, Apply, Types, Generations
  <2>2. /\ chain' \in Seq(Generations) /\ chain' # <<>>
        /\ chain'[Len(chain')] = generation'
        /\ chain # <<>> => Head(chain') = Head(chain)
    BY <1>1, <2>1, AppendIs DEF followSettings, Apply, Types
  <2> QED BY <1>1, <2>1, <2>2, Constants DEF followSettings, Apply, Types
<1>2. CASE DropOut
  <2>1. chain # <<>> /\ Settles
    BY <1>2 DEF DropOut, AtStage
  <2> QED BY <1>2, <2>1, SettlesIs DEF DropOut, Types
<1>3. CASE Begin
  BY <1>3 DEF Begin, Types, Starting
<1>4. CASE StopPart
  <2>1. running \in Generations
    BY <1>4 DEF StopPart, AtStage, StagesFit, Types
  <2> QED BY <1>4, <2>1, LetGoIs DEF StopPart, Types
<1>5. CASE Stopped
  <2>1. CASE Superseded
    BY <1>5, <2>1, SettlesIs DEF Stopped, AtStage, Types
  <2>2. CASE ~Superseded
    BY <1>5, <2>2 DEF Stopped, Types, Starting
  <2> QED BY <2>1, <2>2
<1>6. CASE StartStep
  BY <1>6, AcquireIs DEF StartStep, Types, Starting
<1>7. ASSUME NEW at \in Starting, StartFails(at) PROVE Types'
  <2>1. chain # <<>> /\ Settles /\ stage \in Starting
    BY <1>7 DEF StartFails, AtStage
  <2> QED BY <1>7, <2>1, SettlesIs DEF StartFails, Types
<1>8. ASSUME NEW advert \in SUBSET PartNames, Started(advert) PROVE Types'
  <2>1. chain # <<>> /\ Settles /\ stage = "advert"
    BY <1>8 DEF Started, AtStage
  <2> QED BY <1>8, <2>1, SettlesIs DEF Started, Types
<1>9. CASE Unload
  BY <1>9, Constants DEF Unload, Types, NewestIsLast
<1>10. CASE ChainSettled
  BY <1>10 DEF ChainSettled, Types
<1>11. CASE LastStopPart
  <2>1. running \in Generations
    BY <1>11 DEF LastStopPart, Types
  <2> QED BY <1>11, <2>1, LetGoIs DEF LastStopPart, Types
<1>12. CASE LastStopped
  BY <1>12 DEF LastStopped, Types
<1>13. CASE UNCHANGED vars
  BY <1>13 DEF vars, Types
<1> QED BY <1>1, <1>2, <1>3, <1>4, <1>5, <1>6, <1>7, <1>8, <1>9, <1>10, <1>11, <1>12, <1>13, NextIs

LEMMA StagesStep ==
  Types /\ StagesFit /\ DisposerIsLast /\ [Next]_vars => StagesFit'
<1> SUFFICES ASSUME Types, StagesFit, DisposerIsLast, [Next]_vars PROVE StagesFit'
  OBVIOUS
<1>1. ASSUME NEW c \in Configs, followSettings(c) PROVE StagesFit'
  <2>1. unload = "no" /\ generation + 1 \in Generations
    BY <1>1, Constants DEF followSettings, Apply, Types, Generations
  <2>2. /\ chain' \in Seq(Generations) /\ chain' # <<>>
        /\ chain'[Len(chain')] = generation'
        /\ chain # <<>> => Head(chain') = Head(chain)
    BY <1>1, <2>1, AppendIs DEF followSettings, Apply, Types
  <2> QED BY <1>1, <2>1, <2>2, Constants DEF followSettings, Apply, StagesFit
<1>2. CASE DropOut
  <2>1. chain # <<>> /\ Settles
    BY <1>2 DEF DropOut, AtStage
  <2> QED BY <1>2, <2>1, SettlesIs DEF DropOut, AtStage, StagesFit
<1>3. CASE Begin
  BY <1>3 DEF Begin, AtStage, StagesFit, Starting
<1>4. CASE StopPart
  <2>1. running \in Generations
    BY <1>4 DEF StopPart, AtStage, StagesFit, Types
  <2> QED BY <1>4, <2>1, LetGoIs DEF StopPart, StagesFit
<1>5. CASE Stopped
  <2>1. CASE Superseded
    BY <1>5, <2>1, SettlesIs DEF Stopped, AtStage, StagesFit
  <2>2. CASE ~Superseded
    BY <1>5, <2>2 DEF Stopped, AtStage, StagesFit
  <2> QED BY <2>1, <2>2
<1>6. CASE StartStep
  BY <1>6, AcquireIs DEF StartStep, StagesFit, Starting
<1>7. ASSUME NEW at \in Starting, StartFails(at) PROVE StagesFit'
  <2>1. chain # <<>> /\ Settles /\ stage \in Starting
    BY <1>7 DEF StartFails, AtStage
  <2> QED BY <1>7, <2>1, SettlesIs DEF StartFails, StagesFit
<1>8. ASSUME NEW advert \in SUBSET PartNames, Started(advert) PROVE StagesFit'
  <2>1. chain # <<>> /\ Settles /\ stage = "advert"
    BY <1>8 DEF Started, AtStage
  <2> QED BY <1>8, <2>1, SettlesIs DEF StagesFit, Starting
<1>9. CASE Unload
  BY <1>9 DEF Unload, StagesFit
<1>10. CASE ChainSettled
  BY <1>10 DEF ChainSettled, StagesFit
<1>11. CASE LastStopPart
  <2>1. running \in Generations
    BY <1>11 DEF LastStopPart, Types
  <2> QED BY <1>11, <2>1, LetGoIs DEF LastStopPart, StagesFit
<1>12. CASE LastStopped
  BY <1>12 DEF LastStopped, Types, StagesFit, DisposerIsLast, Starting
<1>13. CASE UNCHANGED vars
  BY <1>13 DEF vars, StagesFit
<1> QED BY <1>1, <1>2, <1>3, <1>4, <1>5, <1>6, <1>7, <1>8, <1>9, <1>10, <1>11, <1>12, <1>13, NextIs

LEMMA OwnersStep ==
  Types /\ StagesFit /\ OwnersKnown /\ [Next]_vars => OwnersKnown'
<1> SUFFICES ASSUME Types, StagesFit, OwnersKnown, [Next]_vars,
                    NEW g \in Generations, g \notin failed', held'[g] # {}
             PROVE  g = running' \/ (stage' \in Starting /\ g = Mine')
  BY DEF OwnersKnown
<1>a. g \notin failed /\ held[g] # {} =>
        g = running \/ (stage \in Starting /\ chain # <<>> /\ g = Head(chain))
  BY DEF OwnersKnown, StagesFit, Starting, Mine
<1>b. stage \in Starting => running = None
  BY DEF StagesFit
<1>c. "queued" \notin Starting /\ "stopping" \notin Starting
  BY DEF Starting
<1>d. g # None /\ Mine' = Head(chain')
  BY Constants DEF Mine
<1>1. ASSUME NEW c \in Configs, followSettings(c)
      PROVE  g = running' \/ (stage' \in Starting /\ g = Mine')
  <2>1. chain' = Append(chain, generation') /\ generation' \in Generations
        /\ UNCHANGED <<stage, running, held, failed>>
    BY <1>1, Constants DEF followSettings, Apply, Types, Generations
  <2>2. chain # <<>> => Head(chain') = Head(chain)
    BY <2>1, AppendIs DEF Types
  <2> QED BY <1>a, <1>d, <2>1, <2>2
<1>2. CASE DropOut
  <2>1. stage = "queued" /\ stage' = "queued" /\ UNCHANGED <<running, held, failed>>
    BY <1>2 DEF DropOut, AtStage, Settles
  <2> QED BY <1>a, <1>c, <2>1
<1>3. CASE Begin
  <2>1. stage = "queued" /\ UNCHANGED <<running, held, failed>>
    BY <1>3 DEF Begin, AtStage
  <2> QED BY <1>a, <1>c, <2>1
<1>4. CASE StopPart
  <2>1. stage = "stopping" /\ LetGo(running) /\ UNCHANGED <<stage, running, failed>>
    BY <1>4 DEF StopPart, AtStage
  <2>2. running \in Generations
    BY <2>1 DEF StagesFit, Types
  <2>3. held'[g] \subseteq held[g]
    BY <2>1, <2>2, LetGoIs
  <2> QED BY <1>a, <1>c, <2>1, <2>3
<1>5. CASE Stopped
  <2>1. stage = "stopping" /\ held[running] = {} /\ UNCHANGED <<held, failed>>
    BY <1>5 DEF Stopped, AtStage
  <2> QED BY <1>a, <1>c, <2>1
<1>6. CASE StartStep
  <2>1. PICK parts \in SUBSET PartNames, at \in Starting, then \in Starting :
          Acquire(at, parts, then)
    BY <1>6 DEF StartStep
  <2>2. /\ stage = at /\ stage' = then
        /\ \A h \in Generations \ {Mine} : held'[h] = held[h]
        /\ UNCHANGED <<chain, running, failed>>
    BY <2>1, AcquireIs
  <2> QED BY <1>a, <1>b, <1>d, <2>2 DEF Mine
<1>7. ASSUME NEW at \in Starting, StartFails(at)
      PROVE  g = running' \/ (stage' \in Starting /\ g = Mine')
  <2>1. /\ stage = at /\ failed' = failed \cup {Head(chain)}
        /\ UNCHANGED <<running, held>>
    BY <1>7 DEF StartFails, AtStage, Mine
  <2> QED BY <1>a, <2>1
<1>8. ASSUME NEW advert \in SUBSET PartNames, Started(advert)
      PROVE  g = running' \/ (stage' \in Starting /\ g = Mine')
  <2>1. /\ chain # <<>> /\ stage = "advert" /\ running' = Mine
        /\ held' = [held EXCEPT ![Mine] = @ \cup advert]
        /\ UNCHANGED failed
    BY <1>8 DEF Started, AtStage
  <2>2. Mine \in Generations
    BY <2>1, MineIs
  <2>3. g # Mine => held'[g] = held[g]
    BY <2>1, <2>2 DEF Types
  <2> QED BY <1>a, <1>b, <1>d, <2>1, <2>3 DEF Mine, Starting
<1>9. CASE Unload \/ ChainSettled \/ UNCHANGED vars
  <2>1. UNCHANGED <<chain, stage, running, held, failed>>
    BY <1>9 DEF Unload, ChainSettled, vars
  <2> QED BY <1>a, <1>d, <2>1
<1>10. CASE LastStopPart
  <2>1. LetGo(running) /\ running \in Generations /\ UNCHANGED <<chain, stage, running, failed>>
    BY <1>10 DEF LastStopPart, Types
  <2>2. held'[g] \subseteq held[g]
    BY <2>1, LetGoIs
  <2> QED BY <1>a, <1>d, <2>1, <2>2
<1>11. CASE LastStopped
  <2>1. (running # None => held[running] = {}) /\ UNCHANGED <<chain, stage, held, failed>>
    BY <1>11 DEF LastStopped
  <2> QED BY <1>a, <1>d, <2>1
<1> QED BY <1>1, <1>2, <1>3, <1>4, <1>5, <1>6, <1>7, <1>8, <1>9, <1>10, <1>11, NextIs

LEMMA NewestStep ==
  Types /\ StagesFit /\ DisposerIsLast /\ NewestIsLast /\ [Next]_vars => NewestIsLast'
<1> SUFFICES ASSUME Types, StagesFit, DisposerIsLast, NewestIsLast, [Next]_vars
             PROVE  NewestIsLast'
  OBVIOUS
<1>1. ASSUME NEW c \in Configs, followSettings(c) PROVE NewestIsLast'
  <2>1. unload = "no" /\ generation + 1 \in Generations
    BY <1>1, Constants DEF followSettings, Apply, Types, Generations
  <2>2. /\ chain' \in Seq(Generations) /\ chain' # <<>>
        /\ chain'[Len(chain')] = generation'
        /\ chain # <<>> => Head(chain') = Head(chain)
    BY <1>1, <2>1, AppendIs DEF followSettings, Apply, Types
  <2> QED BY <1>1, <2>1, <2>2, Constants DEF followSettings, Apply, Types, NewestIsLast
<1>2. CASE DropOut
  <2>1. chain # <<>> /\ Settles
    BY <1>2 DEF DropOut, AtStage
  <2> QED BY <1>2, <2>1, SettlesIs DEF DropOut, Superseded, NewestIsLast
<1>3. CASE Begin
  BY <1>3 DEF Begin, NewestIsLast
<1>4. CASE StopPart
  <2>1. running \in Generations
    BY <1>4 DEF StopPart, AtStage, StagesFit, Types
  <2> QED BY <1>4, <2>1, LetGoIs DEF StopPart, NewestIsLast
<1>5. CASE Stopped
  <2>1. CASE Superseded
    BY <1>5, <2>1, SettlesIs DEF Stopped, AtStage, Superseded, NewestIsLast
  <2>2. CASE ~Superseded
    BY <1>5, <2>2 DEF Stopped, AtStage, NewestIsLast
  <2> QED BY <2>1, <2>2
<1>6. CASE StartStep
  BY <1>6, AcquireIs DEF StartStep, NewestIsLast
<1>7. ASSUME NEW at \in Starting, StartFails(at) PROVE NewestIsLast'
  <2>1. chain # <<>> /\ Settles /\ stage \in Starting
    BY <1>7 DEF StartFails, AtStage
  <2> QED BY <1>7, <2>1, SettlesIs DEF StartFails, NewestIsLast
<1>8. ASSUME NEW advert \in SUBSET PartNames, Started(advert) PROVE NewestIsLast'
  <2>1. chain # <<>> /\ Settles /\ stage = "advert"
    BY <1>8 DEF Started, AtStage
  <2> QED BY <1>8, <2>1, SettlesIs DEF Started, NewestIsLast
<1>9. CASE Unload
  BY <1>9 DEF Unload, NewestIsLast
<1>10. CASE ChainSettled
  BY <1>10 DEF ChainSettled, NewestIsLast
<1>11. CASE LastStopPart
  <2>1. running \in Generations
    BY <1>11 DEF LastStopPart, Types
  <2> QED BY <1>11, <2>1, LetGoIs DEF LastStopPart, NewestIsLast
<1>12. CASE LastStopped
  BY <1>12 DEF LastStopped, NewestIsLast
<1>13. CASE UNCHANGED vars
  BY <1>13 DEF vars, NewestIsLast
<1> QED BY <1>1, <1>2, <1>3, <1>4, <1>5, <1>6, <1>7, <1>8, <1>9, <1>10, <1>11, <1>12, <1>13, NextIs

LEMMA DisposerStep ==
  Types /\ StagesFit /\ DisposerIsLast /\ [Next]_vars => DisposerIsLast'
<1> SUFFICES ASSUME Types, StagesFit, DisposerIsLast, [Next]_vars PROVE DisposerIsLast'
  OBVIOUS
<1>1. ASSUME NEW c \in Configs, followSettings(c) PROVE DisposerIsLast'
  <2>1. unload = "no" /\ generation + 1 \in Generations
    BY <1>1, Constants DEF followSettings, Apply, Types, Generations
  <2>2. /\ chain' \in Seq(Generations) /\ chain' # <<>>
        /\ chain'[Len(chain')] = generation'
        /\ chain # <<>> => Head(chain') = Head(chain)
    BY <1>1, <2>1, AppendIs DEF followSettings, Apply, Types
  <2> QED BY <1>1, <2>1, <2>2, Constants DEF followSettings, Apply, DisposerIsLast
<1>2. CASE DropOut
  <2>1. chain # <<>> /\ Settles
    BY <1>2 DEF DropOut, AtStage
  <2> QED BY <1>2, <2>1, SettlesIs DEF DropOut, DisposerIsLast
<1>3. CASE Begin
  BY <1>3 DEF Begin, DisposerIsLast
<1>4. CASE StopPart
  <2>1. running \in Generations
    BY <1>4 DEF StopPart, AtStage, StagesFit, Types
  <2> QED BY <1>4, <2>1, LetGoIs DEF StopPart, DisposerIsLast
<1>5. CASE Stopped
  <2>1. CASE Superseded
    BY <1>5, <2>1, SettlesIs DEF Stopped, AtStage, DisposerIsLast
  <2>2. CASE ~Superseded
    BY <1>5, <2>2 DEF Stopped, DisposerIsLast
  <2> QED BY <2>1, <2>2
<1>6. CASE StartStep
  BY <1>6, AcquireIs DEF StartStep, Types, DisposerIsLast
<1>7. ASSUME NEW at \in Starting, StartFails(at) PROVE DisposerIsLast'
  <2>1. chain # <<>> /\ Settles /\ stage \in Starting
    BY <1>7 DEF StartFails, AtStage
  <2> QED BY <1>7, <2>1, SettlesIs DEF StartFails, Types, DisposerIsLast
<1>8. ASSUME NEW advert \in SUBSET PartNames, Started(advert) PROVE DisposerIsLast'
  <2>1. chain # <<>> /\ Settles /\ stage = "advert"
    BY <1>8 DEF Started, AtStage
  <2> QED BY <1>8, <2>1, SettlesIs DEF Started, Types, DisposerIsLast
<1>9. CASE Unload
  BY <1>9 DEF Unload, Types, DisposerIsLast
<1>10. CASE ChainSettled
  BY <1>10 DEF ChainSettled, Types, DisposerIsLast
<1>11. CASE LastStopPart
  <2>1. running \in Generations
    BY <1>11 DEF LastStopPart, Types
  <2> QED BY <1>11, <2>1, LetGoIs DEF LastStopPart, Types, DisposerIsLast
<1>12. CASE LastStopped
  BY <1>12 DEF LastStopped, Types, DisposerIsLast
<1>13. CASE UNCHANGED vars
  BY <1>13 DEF vars, Types, DisposerIsLast
<1> QED BY <1>1, <1>2, <1>3, <1>4, <1>5, <1>6, <1>7, <1>8, <1>9, <1>10, <1>11, <1>12, <1>13, NextIs

LEMMA Invariant == Spec => []SupervisorInv
<1>1. SupervisorInv /\ [Next]_vars => SupervisorInv'
  BY TypesStep, StagesStep, OwnersStep, NewestStep, DisposerStep DEF SupervisorInv
<1> QED BY InitialInvariant, <1>1, PTL DEF Spec

-----------------------------------------------------------------------------
(* The theorems.                                                           *)

\* Every variable of the supervisor has its type (src/index.ts).
THEOREM SupervisorTypesHold == Spec => []TypeOK
<1>1. ToSet(Parts) = PartNames
  <2>1. Len(Parts) = 5 /\ DOMAIN Parts = 1..5
    BY DEF Parts
  <2> QED BY <2>1 DEF ToSet, Parts, PartNames
<1>2. SupervisorInv => TypeOK
  BY <1>1, Zenon DEF SupervisorInv, Types, StagesFit, TypeOK, Starting
<1> QED BY <1>2, Invariant, PTL

\* Relays that started never hold a store or a port at the same time, in
\* whatever order edits and the unload meet the awaits of stopping and starting
\* (src/index.ts:192-204).
THEOREM OneRelayHolds == Spec => []OneRelay
<1>1. SupervisorInv => OneRelay
  BY Constants DEF SupervisorInv, OwnersKnown, StagesFit, OneRelay
<1> QED BY <1>1, Invariant, PTL

\* When the chain is quiet, the configuration last asked for runs, or its start
\* failed (src/index.ts:190-204).
THEOREM LastEditHolds == Spec => []LastEditWins
<1>1. SupervisorInv => LastEditWins
  BY DEF SupervisorInv, NewestIsLast, LastEditWins
<1> QED BY <1>1, Invariant, PTL

\* After the disposer has resolved nothing is left of any relay that started
\* (src/index.ts:208-220).
THEOREM UnloadHolds == Spec => []NothingOutlivesUnload
<1>1. SupervisorInv => NothingOutlivesUnload
  BY Constants DEF SupervisorInv, OwnersKnown, StagesFit, DisposerIsLast, Starting,
       NothingOutlivesUnload
<1> QED BY <1>1, Invariant, PTL

=============================================================================
