----------------------------- MODULE ProxyProofs -----------------------------
(***************************************************************************)
(* Sockets are minded and misses forgotten, for any number of requests and *)
(* upgrades.                                                               *)
(***************************************************************************)
EXTENDS Proxy, TLAPS

Types ==
    /\ secure \in BOOLEAN
    /\ credentials \in {"detached", "empty", "holding"}
    /\ session \in BOOLEAN
    /\ pending \in {None, "unread", "missed", "found"}
    /\ stage \in [Connections -> Stages]
    /\ client \in [Connections -> {"none", "open", "ended", "destroyed", "closed"}]
    /\ upstream \in [Connections -> {"none", "open", "destroyed", "closed"}]
    /\ cookie \in [Connections -> BOOLEAN]
    /\ owed \in [Connections -> BOOLEAN]
    /\ heard \in [Connections -> SUBSET {"early", "abandon", "peer"}]
    /\ ledger \subseteq Sockets
    /\ listener \in {"listening", "closing", "closed"}
    /\ late \subseteq Upgrades

\* One read serves everyone who waits, and there is none for nobody.
ReadIsShared == pending # None <=> Waiting # {}

\* A connection has a socket to the harness from the moment it connects, and
\* that of an upgrade is whole until the handshake.  A stillborn pair has a
\* closed client.
StagesFit ==
    /\ \A c \in Connections :
         /\ stage[c] \in {"idle", "session"} => upstream[c] = "none"
         /\ stage[c] \in {"connecting", "sent", "streaming"} => upstream[c] # "none"
    /\ \A c \in Upgrades :
         /\ stage[c] = "connecting" => upstream[c] = "open"
         /\ stage[c] \in {"fenced", "connecting"} => client[c] # "none"
         /\ stage[c] = "stillborn" => client[c] = "closed"

\* Only pairs are tracked.
OnlyPairsTracked ==
    \A c \in Upgrades :
        <<c, "client">> \in ledger \/ <<c, "upstream">> \in ledger
            => stage[c] \in {"piped", "stillborn"}

\* Whoever is owed the session and still waits will get it: the read has found
\* it, or is to look where it is.
ReadIsOwed ==
    \A c \in Connections :
        owed[c] /\ stage[c] = "session" =>
            pending = "found" \/ (pending = "unread" /\ credentials = "holding")

ProxyInv ==
    /\ Types /\ ReadIsShared /\ StagesFit /\ OnlyPairsTracked /\ ReadIsOwed
    /\ SocketsAreMinded /\ MissIsNotRemembered

-----------------------------------------------------------------------------
(* Lemmas.                                                                 *)

LEMMA ConnectionsAre ==
  /\ Requests \subseteq Connections /\ Upgrades \subseteq Connections
  /\ Requests \cap Upgrades = {}
  /\ None \notin {"unread", "missed", "found"}
BY ConnectionsAssumption DEF Connections

LEMMA InitialInvariant == Init => ProxyInv
<1> SUFFICES ASSUME Init PROVE ProxyInv
  OBVIOUS
<1> USE ConnectionsAre DEF Init
<1>1. Types
  BY DEF Types, Stages
<1>2. ReadIsShared /\ ReadIsOwed
  BY DEF ReadIsShared, ReadIsOwed, Waiting
<1>3. StagesFit /\ OnlyPairsTracked
  BY DEF StagesFit, OnlyPairsTracked
<1>4. SocketsAreMinded
  BY DEF SocketsAreMinded, ErrorsAreHeard, LedgerExact, Alive
<1>5. MissIsNotRemembered
  BY DEF MissIsNotRemembered
<1> QED BY <1>1, <1>2, <1>3, <1>4, <1>5 DEF ProxyInv

LEMMA TypesStep ==
  Types /\ [Next]_vars => Types'
<1> SUFFICES ASSUME Types, [Next]_vars PROVE Types'
  OBVIOUS
<1> USE ConnectionsAre DEF Types, Stages
<1>1. CASE HarnessStarts
  BY <1>1 DEF HarnessStarts
<1>2. CASE readRecord
  BY <1>2 DEF readRecord
<1>3. CASE ReadResolves
  BY <1>3 DEF ReadResolves, Resume
<1>4. CASE Close
  BY <1>4 DEF Close, Destroyed
<1>5. CASE Closed
  BY <1>5 DEF Closed
<1>6. ASSUME NEW c \in Connections, cookieFor(c) PROVE Types'
  BY <1>6 DEF cookieFor, early
<1>7. ASSUME NEW c \in Requests, forward(c) PROVE Types'
  <2>1. CASE BodyEnds(c)
    BY <2>1 DEF BodyEnds, Proceed, Unchanged
  <2>2. CASE Responds(c)
    BY <2>2 DEF Responds, Proceed, Unchanged
  <2>3. CASE ResponseEnds(c)
    BY <2>3 DEF ResponseEnds, Proceed, Unchanged
  <2>4. CASE UpstreamFails(c)
    BY <2>4 DEF UpstreamFails, UpstreamLost, Proceed, Unchanged
  <2>5. CASE TimerFires(c)
    BY <2>5 DEF TimerFires, UpstreamLost, Proceed, Unchanged
  <2>6. CASE ClientLeaves(c)
    BY <2>6 DEF ClientLeaves, ClientClosed, Proceed, Unchanged
  <2> QED BY <1>7, <2>1, <2>2, <2>3, <2>4, <2>5, <2>6 DEF forward
<1>8. ASSUME NEW c \in Upgrades, serveUpgrade(c) PROVE Types'
  BY <1>8 DEF serveUpgrade, Proceed, Unchanged
<1>9. ASSUME NEW c \in Upgrades, forwardUpgrade(c) PROVE Types'
  <2>1. CASE UpgradeArrives(c)
    BY <2>1 DEF UpgradeArrives, Proceed, track, Sockets, Unchanged
  <2>2. CASE rejectUpgrade(c)
    BY <2>2 DEF rejectUpgrade, Proceed, Unchanged
  <2>3. CASE HarnessLeaves(c)
    BY <2>3 DEF HarnessLeaves, Destroyed, Unchanged
  <2>4. CASE ClientEnds(c)
    BY <2>4 DEF ClientEnds, Unchanged
  <2>5. CASE ClientErrs(c)
    BY <2>5 DEF ClientErrs, Proceed, Destroyed, Unchanged
  <2>6. CASE UpstreamClosed(c)
    BY <2>6 DEF UpstreamClosed, Destroyed, Unchanged
  <2>7. CASE SocketClosed(c)
    BY <2>7 DEF SocketClosed, Destroyed, Unchanged
  <2> QED BY <1>9, <2>1, <2>2, <2>3, <2>4, <2>5, <2>6, <2>7 DEF forwardUpgrade
<1>10. CASE UNCHANGED vars
  BY <1>10 DEF vars
<1> QED BY <1>1, <1>2, <1>3, <1>4, <1>5, <1>6, <1>7, <1>8, <1>9, <1>10 DEF Next

LEMMA ReadStep ==
  Types /\ ReadIsShared /\ [Next]_vars => ReadIsShared'
<1> SUFFICES ASSUME Types, ReadIsShared, [Next]_vars PROVE ReadIsShared'
  OBVIOUS
<1> USE ConnectionsAre DEF Types, Stages, ReadIsShared, Waiting
<1>1. CASE HarnessStarts
  BY <1>1 DEF HarnessStarts
<1>2. CASE readRecord
  BY <1>2 DEF readRecord
<1>3. CASE ReadResolves
  BY <1>3 DEF ReadResolves, Resume
<1>4. CASE Close
  BY <1>4 DEF Close, Destroyed
<1>5. CASE Closed
  BY <1>5 DEF Closed
<1>6. ASSUME NEW c \in Connections, cookieFor(c) PROVE ReadIsShared'
  BY <1>6 DEF cookieFor, early
<1>7. ASSUME NEW c \in Requests, forward(c) PROVE ReadIsShared'
  <2>1. CASE BodyEnds(c)
    BY <2>1 DEF BodyEnds, Proceed, Unchanged
  <2>2. CASE Responds(c)
    BY <2>2 DEF Responds, Proceed, Unchanged
  <2>3. CASE ResponseEnds(c)
    BY <2>3 DEF ResponseEnds, Proceed, Unchanged
  <2>4. CASE UpstreamFails(c)
    BY <2>4 DEF UpstreamFails, UpstreamLost, Proceed, Unchanged
  <2>5. CASE TimerFires(c)
    BY <2>5 DEF TimerFires, UpstreamLost, Proceed, Unchanged
  <2>6. CASE ClientLeaves(c)
    BY <2>6 DEF ClientLeaves, ClientClosed, Proceed, Unchanged
  <2> QED BY <1>7, <2>1, <2>2, <2>3, <2>4, <2>5, <2>6 DEF forward
<1>8. ASSUME NEW c \in Upgrades, serveUpgrade(c) PROVE ReadIsShared'
  BY <1>8 DEF serveUpgrade, Proceed, Unchanged
<1>9. ASSUME NEW c \in Upgrades, forwardUpgrade(c) PROVE ReadIsShared'
  <2>1. CASE UpgradeArrives(c)
    BY <2>1 DEF UpgradeArrives, Proceed, Unchanged
  <2>2. CASE rejectUpgrade(c)
    BY <2>2 DEF rejectUpgrade, Proceed, Unchanged
  <2>3. CASE HarnessLeaves(c)
    BY <2>3 DEF HarnessLeaves, Unchanged
  <2>4. CASE ClientEnds(c)
    BY <2>4 DEF ClientEnds, Unchanged
  <2>5. CASE ClientErrs(c)
    BY <2>5 DEF ClientErrs, Proceed, Unchanged
  <2>6. CASE UpstreamClosed(c)
    BY <2>6 DEF UpstreamClosed, Unchanged
  <2>7. CASE SocketClosed(c)
    BY <2>7 DEF SocketClosed, Unchanged
  <2> QED BY <1>9, <2>1, <2>2, <2>3, <2>4, <2>5, <2>6, <2>7 DEF forwardUpgrade
<1>10. CASE UNCHANGED vars
  BY <1>10 DEF vars
<1> QED BY <1>1, <1>2, <1>3, <1>4, <1>5, <1>6, <1>7, <1>8, <1>9, <1>10 DEF Next

LEMMA StagesStep ==
  Types /\ StagesFit /\ OnlyPairsTracked /\ [Next]_vars => StagesFit'
<1> SUFFICES ASSUME Types, StagesFit, OnlyPairsTracked, [Next]_vars PROVE StagesFit'
  OBVIOUS
<1> USE ConnectionsAre DEF Types, Stages, StagesFit, OnlyPairsTracked, Alive, Waiting
<1>1. CASE HarnessStarts
  BY <1>1 DEF HarnessStarts
<1>2. CASE readRecord
  BY <1>2 DEF readRecord
<1>3. CASE ReadResolves
  BY <1>3 DEF ReadResolves, Resume
<1>4. CASE Close
  BY <1>4 DEF Close, Destroyed
<1>5. CASE Closed
  BY <1>5 DEF Closed
<1>6. ASSUME NEW c \in Connections, cookieFor(c) PROVE StagesFit'
  BY <1>6 DEF cookieFor, early
<1>7. ASSUME NEW c \in Requests, forward(c) PROVE StagesFit'
  <2>1. CASE BodyEnds(c)
    BY <2>1 DEF BodyEnds, Proceed, Unchanged
  <2>2. CASE Responds(c)
    BY <2>2 DEF Responds, Proceed, Unchanged
  <2>3. CASE ResponseEnds(c)
    BY <2>3 DEF ResponseEnds, Proceed, Unchanged
  <2>4. CASE UpstreamFails(c)
    BY <2>4 DEF UpstreamFails, UpstreamLost, Proceed
  <2>5. CASE TimerFires(c)
    BY <2>5 DEF TimerFires, UpstreamLost, Proceed
  <2>6. CASE ClientLeaves(c)
    BY <2>6 DEF ClientLeaves, ClientClosed, Proceed
  <2> QED BY <1>7, <2>1, <2>2, <2>3, <2>4, <2>5, <2>6 DEF forward
<1>8. ASSUME NEW c \in Upgrades, serveUpgrade(c) PROVE StagesFit'
  BY <1>8 DEF serveUpgrade, Proceed, Unchanged
<1>9. ASSUME NEW c \in Upgrades, forwardUpgrade(c) PROVE StagesFit'
  <2>1. CASE UpgradeArrives(c)
    BY <2>1 DEF UpgradeArrives, Proceed, Unchanged
  <2>2. CASE rejectUpgrade(c)
    BY <2>2 DEF rejectUpgrade, Proceed, Unchanged
  <2>3. CASE HarnessLeaves(c)
    BY <2>3 DEF HarnessLeaves, Destroyed, Unchanged
  <2>4. CASE ClientEnds(c)
    BY <2>4 DEF ClientEnds, Unchanged
  <2>5. CASE ClientErrs(c)
    BY <2>5 DEF ClientErrs, Proceed, Destroyed
  <2>6. CASE UpstreamClosed(c)
    BY <2>6 DEF UpstreamClosed, Destroyed, Unchanged
  <2>7. CASE SocketClosed(c)
    BY <2>7 DEF SocketClosed, Destroyed, Unchanged
  <2> QED BY <1>9, <2>1, <2>2, <2>3, <2>4, <2>5, <2>6, <2>7 DEF forwardUpgrade
<1>10. CASE UNCHANGED vars
  BY <1>10 DEF vars
<1> QED BY <1>1, <1>2, <1>3, <1>4, <1>5, <1>6, <1>7, <1>8, <1>9, <1>10 DEF Next

LEMMA PairsStep ==
  Types /\ StagesFit /\ OnlyPairsTracked /\ [Next]_vars => OnlyPairsTracked'
<1> SUFFICES ASSUME Types, StagesFit, OnlyPairsTracked, [Next]_vars PROVE OnlyPairsTracked'
  OBVIOUS
<1> USE ConnectionsAre DEF Types, Stages, StagesFit, OnlyPairsTracked, Waiting, Alive
<1>1. CASE HarnessStarts
  BY <1>1 DEF HarnessStarts
<1>2. CASE readRecord
  BY <1>2 DEF readRecord
<1>3. CASE ReadResolves
  BY <1>3 DEF ReadResolves, Resume
<1>4. CASE Close
  BY <1>4 DEF Close, Destroyed
<1>5. CASE Closed
  BY <1>5 DEF Closed
<1>6. ASSUME NEW c \in Connections, cookieFor(c) PROVE OnlyPairsTracked'
  BY <1>6 DEF cookieFor, early
<1>7. ASSUME NEW c \in Requests, forward(c) PROVE OnlyPairsTracked'
  <2>1. CASE BodyEnds(c)
    BY <2>1 DEF BodyEnds, Proceed, Unchanged
  <2>2. CASE Responds(c)
    BY <2>2 DEF Responds, Proceed, Unchanged
  <2>3. CASE ResponseEnds(c)
    BY <2>3 DEF ResponseEnds, Proceed, Unchanged
  <2>4. CASE UpstreamFails(c)
    BY <2>4 DEF UpstreamFails, UpstreamLost, Proceed, Unchanged
  <2>5. CASE TimerFires(c)
    BY <2>5 DEF TimerFires, UpstreamLost, Proceed, Unchanged
  <2>6. CASE ClientLeaves(c)
    BY <2>6 DEF ClientLeaves, ClientClosed, Proceed, Unchanged
  <2> QED BY <1>7, <2>1, <2>2, <2>3, <2>4, <2>5, <2>6 DEF forward
<1>8. ASSUME NEW c \in Upgrades, serveUpgrade(c) PROVE OnlyPairsTracked'
  BY <1>8 DEF serveUpgrade, Proceed, Unchanged
<1>9. ASSUME NEW c \in Upgrades, forwardUpgrade(c) PROVE OnlyPairsTracked'
  <2>1. CASE UpgradeArrives(c)
    BY <2>1 DEF UpgradeArrives, Proceed, track
  <2>2. CASE rejectUpgrade(c)
    BY <2>2 DEF rejectUpgrade, Proceed, Unchanged
  <2>3. CASE HarnessLeaves(c)
    BY <2>3 DEF HarnessLeaves, Destroyed, Unchanged
  <2>4. CASE ClientEnds(c)
    BY <2>4 DEF ClientEnds, Unchanged
  <2>5. CASE ClientErrs(c)
    BY <2>5 DEF ClientErrs, Proceed, Unchanged
  <2>6. CASE UpstreamClosed(c)
    BY <2>6 DEF UpstreamClosed, Destroyed, Unchanged
  <2>7. CASE SocketClosed(c)
    BY <2>7 DEF SocketClosed, Destroyed, Unchanged
  <2> QED BY <1>9, <2>1, <2>2, <2>3, <2>4, <2>5, <2>6, <2>7 DEF forwardUpgrade
<1>10. CASE UNCHANGED vars
  BY <1>10 DEF vars
<1> QED BY <1>1, <1>2, <1>3, <1>4, <1>5, <1>6, <1>7, <1>8, <1>9, <1>10 DEF Next

LEMMA OwedStep ==
  Types /\ ReadIsShared /\ StagesFit /\ ReadIsOwed /\ [Next]_vars => ReadIsOwed'
<1> SUFFICES ASSUME Types, ReadIsShared, StagesFit, ReadIsOwed, [Next]_vars PROVE ReadIsOwed'
  OBVIOUS
<1> USE ConnectionsAre DEF Types, Stages, ReadIsShared, StagesFit, ReadIsOwed, Waiting
<1>1. CASE HarnessStarts
  BY <1>1 DEF HarnessStarts
<1>2. CASE readRecord
  BY <1>2 DEF readRecord
<1>3. CASE ReadResolves
  BY <1>3 DEF ReadResolves, Resume
<1>4. CASE Close
  BY <1>4 DEF Close, Destroyed
<1>5. CASE Closed
  BY <1>5 DEF Closed
<1>6. ASSUME NEW c \in Connections, cookieFor(c) PROVE ReadIsOwed'
  BY <1>6 DEF cookieFor, early
<1>7. ASSUME NEW c \in Requests, forward(c) PROVE ReadIsOwed'
  <2>1. CASE BodyEnds(c)
    BY <2>1 DEF BodyEnds, Proceed, Unchanged
  <2>2. CASE Responds(c)
    BY <2>2 DEF Responds, Proceed, Unchanged
  <2>3. CASE ResponseEnds(c)
    BY <2>3 DEF ResponseEnds, Proceed, Unchanged
  <2>4. CASE UpstreamFails(c)
    BY <2>4 DEF UpstreamFails, UpstreamLost, Proceed, Unchanged
  <2>5. CASE TimerFires(c)
    BY <2>5 DEF TimerFires, UpstreamLost, Proceed, Unchanged
  <2>6. CASE ClientLeaves(c)
    BY <2>6 DEF ClientLeaves, ClientClosed, Proceed, Unchanged
  <2> QED BY <1>7, <2>1, <2>2, <2>3, <2>4, <2>5, <2>6 DEF forward
<1>8. ASSUME NEW c \in Upgrades, serveUpgrade(c) PROVE ReadIsOwed'
  BY <1>8 DEF serveUpgrade, Proceed, Unchanged
<1>9. ASSUME NEW c \in Upgrades, forwardUpgrade(c) PROVE ReadIsOwed'
  <2>1. CASE UpgradeArrives(c)
    BY <2>1 DEF UpgradeArrives, Proceed, Unchanged
  <2>2. CASE rejectUpgrade(c)
    BY <2>2 DEF rejectUpgrade, Proceed, Unchanged
  <2>3. CASE HarnessLeaves(c)
    BY <2>3 DEF HarnessLeaves, Destroyed, Unchanged
  <2>4. CASE ClientEnds(c)
    BY <2>4 DEF ClientEnds, Unchanged
  <2>5. CASE ClientErrs(c)
    BY <2>5 DEF ClientErrs, Proceed, Unchanged
  <2>6. CASE UpstreamClosed(c)
    BY <2>6 DEF UpstreamClosed, Destroyed, Unchanged
  <2>7. CASE SocketClosed(c)
    BY <2>7 DEF SocketClosed, Destroyed, Unchanged
  <2> QED BY <1>9, <2>1, <2>2, <2>3, <2>4, <2>5, <2>6, <2>7 DEF forwardUpgrade
<1>10. CASE UNCHANGED vars
  BY <1>10 DEF vars
<1> QED BY <1>1, <1>2, <1>3, <1>4, <1>5, <1>6, <1>7, <1>8, <1>9, <1>10 DEF Next

LEMMA MissStep ==
  Types /\ StagesFit /\ ReadIsOwed /\ MissIsNotRemembered /\ [Next]_vars => MissIsNotRemembered'
<1> SUFFICES ASSUME Types, StagesFit, ReadIsOwed, MissIsNotRemembered, [Next]_vars
             PROVE  MissIsNotRemembered'
  OBVIOUS
<1> USE ConnectionsAre DEF Types, Stages, StagesFit, ReadIsOwed, MissIsNotRemembered, Waiting
<1>1. CASE HarnessStarts
  BY <1>1 DEF HarnessStarts
<1>2. CASE readRecord
  BY <1>2 DEF readRecord
<1>3. CASE ReadResolves
  BY <1>3 DEF ReadResolves, Resume
<1>4. CASE Close
  BY <1>4 DEF Close, Destroyed
<1>5. CASE Closed
  BY <1>5 DEF Closed
<1>6. ASSUME NEW c \in Connections, cookieFor(c) PROVE MissIsNotRemembered'
  BY <1>6 DEF cookieFor, early
<1>7. ASSUME NEW c \in Requests, forward(c) PROVE MissIsNotRemembered'
  <2>1. CASE BodyEnds(c)
    BY <2>1 DEF BodyEnds, Proceed, Unchanged
  <2>2. CASE Responds(c)
    BY <2>2 DEF Responds, Proceed, Unchanged
  <2>3. CASE ResponseEnds(c)
    BY <2>3 DEF ResponseEnds, Proceed, Unchanged
  <2>4. CASE UpstreamFails(c)
    BY <2>4 DEF UpstreamFails, UpstreamLost, Unchanged
  <2>5. CASE TimerFires(c)
    BY <2>5 DEF TimerFires, UpstreamLost, Unchanged
  <2>6. CASE ClientLeaves(c)
    BY <2>6 DEF ClientLeaves, ClientClosed, Unchanged
  <2> QED BY <1>7, <2>1, <2>2, <2>3, <2>4, <2>5, <2>6 DEF forward
<1>8. ASSUME NEW c \in Upgrades, serveUpgrade(c) PROVE MissIsNotRemembered'
  BY <1>8 DEF serveUpgrade, Proceed, Unchanged
<1>9. ASSUME NEW c \in Upgrades, forwardUpgrade(c) PROVE MissIsNotRemembered'
  <2>1. CASE UpgradeArrives(c)
    BY <2>1 DEF UpgradeArrives, Unchanged
  <2>2. CASE rejectUpgrade(c)
    BY <2>2 DEF rejectUpgrade, Proceed, Unchanged
  <2>3. CASE HarnessLeaves(c)
    BY <2>3 DEF HarnessLeaves, Destroyed, Unchanged
  <2>4. CASE ClientEnds(c)
    BY <2>4 DEF ClientEnds, Unchanged
  <2>5. CASE ClientErrs(c)
    BY <2>5 DEF ClientErrs, Destroyed, Unchanged
  <2>6. CASE UpstreamClosed(c)
    BY <2>6 DEF UpstreamClosed, Destroyed, Unchanged
  <2>7. CASE SocketClosed(c)
    BY <2>7 DEF SocketClosed, Destroyed, Unchanged
  <2> QED BY <1>9, <2>1, <2>2, <2>3, <2>4, <2>5, <2>6, <2>7 DEF forwardUpgrade
<1>10. CASE UNCHANGED vars
  BY <1>10 DEF vars
<1> QED BY <1>1, <1>2, <1>3, <1>4, <1>5, <1>6, <1>7, <1>8, <1>9, <1>10 DEF Next

LEMMA HeardStep ==
  Types /\ ErrorsAreHeard /\ [Next]_vars => ErrorsAreHeard'
<1> SUFFICES ASSUME Types, ErrorsAreHeard, [Next]_vars PROVE ErrorsAreHeard'
  OBVIOUS
<1> USE ConnectionsAre DEF Types, Stages, ErrorsAreHeard, Alive
<1>1. CASE HarnessStarts
  BY <1>1 DEF HarnessStarts
<1>2. CASE readRecord
  BY <1>2 DEF readRecord
<1>3. CASE ReadResolves
  BY <1>3 DEF ReadResolves, Resume
<1>4. CASE Close
  BY <1>4 DEF Close, Destroyed
<1>5. CASE Closed
  BY <1>5 DEF Closed
<1>6. ASSUME NEW c \in Connections, cookieFor(c) PROVE ErrorsAreHeard'
  BY <1>6 DEF cookieFor, early
<1>7. ASSUME NEW c \in Requests, forward(c) PROVE ErrorsAreHeard'
  <2>1. CASE BodyEnds(c)
    BY <2>1 DEF BodyEnds, Proceed, Unchanged
  <2>2. CASE Responds(c)
    BY <2>2 DEF Responds, Proceed, Unchanged
  <2>3. CASE ResponseEnds(c)
    BY <2>3 DEF ResponseEnds, Proceed, Unchanged
  <2>4. CASE UpstreamFails(c)
    BY <2>4 DEF UpstreamFails, UpstreamLost, Proceed, Unchanged
  <2>5. CASE TimerFires(c)
    BY <2>5 DEF TimerFires, UpstreamLost, Proceed, Unchanged
  <2>6. CASE ClientLeaves(c)
    BY <2>6 DEF ClientLeaves, ClientClosed, Proceed, Unchanged
  <2> QED BY <1>7, <2>1, <2>2, <2>3, <2>4, <2>5, <2>6 DEF forward
<1>8. ASSUME NEW c \in Upgrades, serveUpgrade(c) PROVE ErrorsAreHeard'
  BY <1>8 DEF serveUpgrade, Proceed, Unchanged
<1>9. ASSUME NEW c \in Upgrades, forwardUpgrade(c) PROVE ErrorsAreHeard'
  <2>1. CASE UpgradeArrives(c)
    BY <2>1 DEF UpgradeArrives, Proceed, Unchanged
  <2>2. CASE rejectUpgrade(c)
    BY <2>2 DEF rejectUpgrade, Proceed, Unchanged
  <2>3. CASE HarnessLeaves(c)
    BY <2>3 DEF HarnessLeaves, Destroyed, Unchanged
  <2>4. CASE ClientEnds(c)
    BY <2>4 DEF ClientEnds, Unchanged
  <2>5. CASE ClientErrs(c)
    BY <2>5 DEF ClientErrs, Proceed, Unchanged
  <2>6. CASE UpstreamClosed(c)
    BY <2>6 DEF UpstreamClosed, Destroyed, Unchanged
  <2>7. CASE SocketClosed(c)
    BY <2>7 DEF SocketClosed, Destroyed, Unchanged
  <2> QED BY <1>9, <2>1, <2>2, <2>3, <2>4, <2>5, <2>6, <2>7 DEF forwardUpgrade
<1>10. CASE UNCHANGED vars
  BY <1>10 DEF vars
<1> QED BY <1>1, <1>2, <1>3, <1>4, <1>5, <1>6, <1>7, <1>8, <1>9, <1>10 DEF Next

LEMMA LedgerStep ==
  Types /\ StagesFit /\ OnlyPairsTracked /\ LedgerExact /\ [Next]_vars => LedgerExact'
<1> SUFFICES ASSUME Types, StagesFit, OnlyPairsTracked, LedgerExact, [Next]_vars PROVE LedgerExact'
  OBVIOUS
<1> USE ConnectionsAre DEF Types, Stages, StagesFit, OnlyPairsTracked, LedgerExact, Alive, Waiting
<1>1. CASE HarnessStarts
  BY <1>1 DEF HarnessStarts
<1>2. CASE readRecord
  BY <1>2 DEF readRecord
<1>3. CASE ReadResolves
  BY <1>3 DEF ReadResolves, Resume
<1>4. CASE Close
  BY <1>4 DEF Close, Destroyed
<1>5. CASE Closed
  BY <1>5 DEF Closed
<1>6. ASSUME NEW c \in Connections, cookieFor(c) PROVE LedgerExact'
  BY <1>6 DEF cookieFor, early
<1>7. ASSUME NEW c \in Requests, forward(c) PROVE LedgerExact'
  <2>1. CASE BodyEnds(c)
    BY <2>1 DEF BodyEnds, Proceed, Unchanged
  <2>2. CASE Responds(c)
    BY <2>2 DEF Responds, Proceed, Unchanged
  <2>3. CASE ResponseEnds(c)
    BY <2>3 DEF ResponseEnds, Proceed, Unchanged
  <2>4. CASE UpstreamFails(c)
    BY <2>4 DEF UpstreamFails, UpstreamLost, Proceed, Unchanged
  <2>5. CASE TimerFires(c)
    BY <2>5 DEF TimerFires, UpstreamLost, Proceed, Unchanged
  <2>6. CASE ClientLeaves(c)
    BY <2>6 DEF ClientLeaves, ClientClosed, Proceed, Unchanged
  <2> QED BY <1>7, <2>1, <2>2, <2>3, <2>4, <2>5, <2>6 DEF forward
<1>8. ASSUME NEW c \in Upgrades, serveUpgrade(c) PROVE LedgerExact'
  BY <1>8 DEF serveUpgrade, Proceed, Unchanged
<1>9. ASSUME NEW c \in Upgrades, forwardUpgrade(c) PROVE LedgerExact'
  <2>1. CASE UpgradeArrives(c)
    BY <2>1 DEF UpgradeArrives, Proceed, track, Unchanged
  <2>2. CASE rejectUpgrade(c)
    BY <2>2 DEF rejectUpgrade, Proceed, Unchanged
  <2>3. CASE HarnessLeaves(c)
    BY <2>3 DEF HarnessLeaves, Destroyed, Unchanged
  <2>4. CASE ClientEnds(c)
    BY <2>4 DEF ClientEnds, Unchanged
  <2>5. CASE ClientErrs(c)
    BY <2>5 DEF ClientErrs, Proceed, Destroyed, Unchanged
  <2>6. CASE UpstreamClosed(c)
    BY <2>6 DEF UpstreamClosed, Destroyed, Unchanged
  <2>7. CASE SocketClosed(c)
    BY <2>7 DEF SocketClosed, Destroyed, Unchanged
  <2> QED BY <1>9, <2>1, <2>2, <2>3, <2>4, <2>5, <2>6, <2>7 DEF forwardUpgrade
<1>10. CASE UNCHANGED vars
  BY <1>10 DEF vars
<1> QED BY <1>1, <1>2, <1>3, <1>4, <1>5, <1>6, <1>7, <1>8, <1>9, <1>10 DEF Next

LEMMA Invariant == Spec => []ProxyInv
<1>1. ProxyInv /\ [Next]_vars => ProxyInv'
  BY TypesStep, ReadStep, StagesStep, PairsStep, OwedStep, MissStep, HeardStep, LedgerStep
     DEF ProxyInv, SocketsAreMinded
<1> QED BY InitialInvariant, <1>1, PTL DEF Spec

-----------------------------------------------------------------------------
(* The theorems.                                                           *)

\* Every variable of the proxy has its type, and a read of the store is in
\* flight exactly while somebody waits for it (src/harness-session.ts:176-201).
THEOREM ProxyTypesHold == Spec => []TypeOK
<1>1. ProxyInv => TypeOK
  BY DEF ProxyInv, Types, ReadIsShared, Waiting, TypeOK
<1> QED BY <1>1, Invariant, PTL

\* No socket of an upgrade that the proxy took is forgotten, on a plain listener
\* or a TLS one: its errors have a listener, and the ledger holds both sockets
\* of a pair from the handshake to their close and no longer, but for a client
\* that had closed before the handshake (src/proxy/ws.ts:24-47, 93-176).
THEOREM SocketsAreAlwaysMinded == Spec => []SocketsAreMinded
<1>1. ProxyInv => SocketsAreMinded
  BY DEF ProxyInv
<1> QED BY <1>1, Invariant, PTL

\* Whoever begins to wait after the secret exists, with no older read to join
\* and no failed read, goes upstream with the session
\* (src/harness-session.ts:163-201).
THEOREM MissesAreForgotten == Spec => []MissIsNotRemembered
<1>1. ProxyInv => MissIsNotRemembered
  BY DEF ProxyInv
<1> QED BY <1>1, Invariant, PTL

=============================================================================
