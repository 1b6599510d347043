------------------------------- MODULE Proxy --------------------------------
(***************************************************************************)
(* The proxy behind the gates (src/harness-session.ts, src/proxy/http.ts,  *)
(* src/proxy/ws.ts) and the shutdown of its listener (src/server.ts).      *)
(*                                                                         *)
(* An admitted request or upgrade waits for the harness session -- one     *)
(* read of the store serves everyone who waits -- and opens a connection   *)
(* of its own to the harness.  A response streams back; an upgrade ends in *)
(* two sockets piped into each other, kept in a ledger because the server  *)
(* forgets them.  Clients leave, the harness fails, timers fire and the    *)
(* listener is closed at any of these points.  A destroyed socket emits    *)
(* its close event in a later turn.  A client that ends its side leaves    *)
(* its socket half-open on a plain listener and closes it on a TLS one,    *)
(* with a close event and no error.                                        *)
(***************************************************************************)
EXTENDS FiniteSets

CONSTANTS
    Requests,  \* connections that carry one request, body and response
    Upgrades,  \* connections that carry one upgrade
    None

ASSUME ConnectionsAssumption ==
    Requests \cap Upgrades = {} /\ None \notin {"unread", "missed", "found"}

Connections == Requests \cup Upgrades

VARIABLES
    secure,      \* the listener speaks TLS
    credentials, \* the harness's store: no service yet, no secret yet, or one
    session,     \* #session is found
    pending,     \* #pending: what the one read in flight has seen
    stage,       \* how far each connection has come
    client,      \* its socket on this side
    upstream,    \* and to the harness
    cookie,      \* it went upstream with the harness session
    owed,        \* the secret was there to be read when it began to wait
    heard,       \* who listens for errors of the client socket
    ledger,      \* the sockets the ledger tracks
    listener,    \* RelayListener
    late         \* the upgrades it left open, untracked, when it was closed

vars == <<secure, credentials, session, pending, stage, client, upstream, cookie,
          owed, heard, ledger, listener, late>>

Sockets == Connections \X {"client", "upstream"}

\* fenced: refused by the gates; sent: connecting, and the request read to its
\* end; stillborn: piped to a socket that had closed before.
Stages == {"idle", "fenced", "session", "connecting", "sent", "streaming", "piped",
           "stillborn", "refused", "over"}

TypeOK ==
    /\ secure \in BOOLEAN
    /\ credentials \in {"detached", "empty", "holding"}
    /\ session \in BOOLEAN
    /\ pending \in {None, "unread", "missed", "found"}
    /\ stage \in [Connections -> Stages]
    /\ client \in [Connections -> {"none", "open", "ended", "destroyed", "closed"}]
    /\ upstream \in [Connections -> {"none", "open", "destroyed", "closed"}]
    /\ cookie \in [Connections -> BOOLEAN]
    /\ owed \in [Connections -> BOOLEAN]
    /\ heard \in [Connections -> SUBSET {"early", "abandon", "peer"}]
    /\ ledger \subseteq Sockets
    /\ listener \in {"listening", "closing", "closed"}
    /\ late \subseteq Upgrades
    /\ pending # None <=> \E c \in Connections : stage[c] = "session"

Init ==
    /\ secure \in BOOLEAN
    /\ credentials \in {"detached", "empty", "holding"}
    /\ session = FALSE /\ pending = None
    /\ stage = [c \in Connections |-> "idle"]
    /\ client = [c \in Connections |-> "none"]
    /\ upstream = [c \in Connections |-> "none"]
    /\ cookie = [c \in Connections |-> FALSE]
    /\ owed = [c \in Connections |-> FALSE]
    /\ heard = [c \in Connections |-> {}]
    /\ ledger = {} /\ listener = "listening" /\ late = {}

Alive(c) == client[c] \in {"open", "ended"}

-----------------------------------------------------------------------------
(* The harness session.                                                    *)

\* The service attaches; the connection plugin writes its secret.
HarnessStarts ==
    /\ \/ credentials = "detached" /\ credentials' = "empty"
       \/ credentials = "empty" /\ credentials' = "holding"
    /\ UNCHANGED <<secure, session, pending, stage, client, upstream, cookie, owed,
                   heard, ledger, listener, late>>

\* The connections in cs go on: the gone are dropped, the others go upstream.
Resume(cs, found) ==
    /\ stage' = [c \in Connections |->
         IF c \notin cs THEN stage[c] ELSE IF Alive(c) THEN "connecting" ELSE "over"]
    /\ upstream' = [c \in Connections |->
         IF c \in cs /\ Alive(c) THEN "open" ELSE upstream[c]]
    /\ cookie' = [c \in Connections |-> IF c \in cs /\ Alive(c) THEN found ELSE cookie[c]]
    /\ heard' = [c \in Connections |->
         IF c \in cs \cap Upgrades /\ Alive(c) THEN {"abandon"} ELSE heard[c]]

Waiting == {c \in Connections : stage[c] = "session"}

\* The error listener of an upgrade that waits for the session.
early == {"early"}

\* A connection is admitted and asks for the cookie: it has the session, joins
\* the read in flight, or begins one.  Without a credentials service a read
\* misses within the same turn.
cookieFor(c) ==
    /\ listener = "listening"
    /\ stage[c] = "idle"
    /\ client' = [client EXCEPT ![c] = "open"]
    /\ owed' = [owed EXCEPT ![c] =
         session \/ (credentials = "holding" /\ Waiting = {})]
    /\ IF session \/ credentials = "detached"
       THEN /\ stage' = [stage EXCEPT ![c] = "connecting"]
            /\ upstream' = [upstream EXCEPT ![c] = "open"]
            /\ cookie' = [cookie EXCEPT ![c] = session]
            /\ heard' = [heard EXCEPT ![c] = IF c \in Upgrades THEN {"abandon"} ELSE {}]
            /\ UNCHANGED pending
       ELSE /\ stage' = [stage EXCEPT ![c] = "session"]
            /\ heard' = [heard EXCEPT ![c] = IF c \in Upgrades THEN early ELSE {}]
            /\ pending' = IF pending = None THEN "unread" ELSE pending
            /\ UNCHANGED <<upstream, cookie>>
    /\ UNCHANGED <<secure, credentials, session, ledger, listener, late>>

\* readRecord looks at the store; a read that fails counts as a miss.
readRecord ==
    /\ pending = "unread"
    /\ \/ /\ pending' = IF credentials = "holding" THEN "found" ELSE "missed"
          /\ UNCHANGED owed
       \/ /\ pending' = "missed"
          /\ owed' = [c \in Connections |-> owed[c] /\ c \notin Waiting]
    /\ UNCHANGED <<secure, credentials, session, stage, client, upstream, cookie,
                   heard, ledger, listener, late>>

\* Faulty variant: the read is remembered whatever it found.
ReadResolvesOnce ==
    /\ pending \in {"missed", "found"} /\ Waiting # {}
    /\ session' = (pending = "found")
    /\ Resume(Waiting, session')
    /\ UNCHANGED <<secure, credentials, pending, client, owed, ledger, listener, late>>

ReadResolves ==
    /\ pending \in {"missed", "found"}
    /\ pending' = None
    /\ session' = (pending = "found")
    /\ Resume(Waiting, session')
    /\ UNCHANGED <<secure, credentials, client, owed, ledger, listener, late>>

-----------------------------------------------------------------------------
(* Requests.                                                               *)

Proceed(c, to) == stage' = [stage EXCEPT ![c] = to]

Unchanged(rest) ==
    UNCHANGED <<secure, credentials, session, pending, cookie, owed, listener, late, rest>>

\* The request has been read to its end, which matters until the response.
BodyEnds(c) ==
    /\ stage[c] = "connecting" /\ client[c] = "open"
    /\ Proceed(c, "sent")
    /\ Unchanged(<<client, upstream, heard, ledger>>)

Responds(c) ==
    /\ stage[c] \in {"connecting", "sent"}
    /\ Proceed(c, "streaming")
    /\ Unchanged(<<client, upstream, heard, ledger>>)

ResponseEnds(c) ==
    /\ stage[c] = "streaming"
    /\ Proceed(c, "over")
    /\ upstream' = [upstream EXCEPT ![c] = "closed"]
    /\ Unchanged(<<client, heard, ledger>>)

\* fail(): a 502 as long as nothing was sent, afterwards the response is cut.
UpstreamLost(c) ==
    /\ upstream' = [upstream EXCEPT ![c] = "closed"]
    /\ Proceed(c, "over")
    /\ client' = IF stage[c] = "streaming" /\ client[c] = "open"
                 THEN [client EXCEPT ![c] = "destroyed"] ELSE client
    /\ Unchanged(<<heard, ledger>>)

UpstreamFails(c) == stage[c] \in {"connecting", "sent", "streaming"} /\ UpstreamLost(c)

\* Faulty variant: no timer.
NoTimer(c) == FALSE

\* The timer of the upstream socket measures silence, before and during the response.
TimerFires(c) == stage[c] \in {"connecting", "sent", "streaming"} /\ UpstreamLost(c)

\* The client socket of a request closes: req fails unless it was read to its
\* end, and res closes, which the proxy hears once the response has begun.
ClientClosed(c) ==
    /\ client' = [client EXCEPT ![c] = "closed"]
    /\ IF stage[c] \in {"connecting", "streaming"}
       THEN Proceed(c, "over") /\ upstream' = [upstream EXCEPT ![c] = "closed"]
       ELSE UNCHANGED <<stage, upstream>>
    /\ Unchanged(<<heard, ledger>>)

ClientLeaves(c) == client[c] \in {"open", "destroyed"} /\ ClientClosed(c)

-----------------------------------------------------------------------------
(* Upgrades.                                                               *)

Destroyed(socket) == IF socket \in {"open", "ended"} THEN "destroyed" ELSE socket

\* Faulty variant: only the client's half of the pair is tracked.
trackClient(c) == {<<c, "client">>}

track(c) == {<<c, "client">>, <<c, "upstream">>}

\* The gates refuse an upgrade before the proxy listens to its socket.
serveUpgrade(c) ==
    /\ listener = "listening" /\ stage[c] = "idle"
    /\ Proceed(c, "fenced")
    /\ client' = [client EXCEPT ![c] = "open"]
    /\ Unchanged(<<upstream, heard, ledger>>)

\* The harness switches protocols, whatever has become of the client's socket:
\* the listeners of one that has closed already never run.
UpgradeArrives(c) ==
    /\ stage[c] = "connecting"
    /\ Proceed(c, IF client[c] = "closed" THEN "stillborn" ELSE "piped")
    /\ heard' = [heard EXCEPT ![c] = {"peer"}]
    /\ ledger' = ledger \cup track(c)
    /\ Unchanged(<<client, upstream>>)

\* rejectUpgrade ends the client socket; it closes when the client ends too.
rejectUpgrade(c) ==
    /\ stage[c] = "connecting"
    /\ Proceed(c, "refused")
    /\ client' = [client EXCEPT ![c] = IF @ = "ended" THEN "destroyed" ELSE @]
    /\ upstream' = [upstream EXCEPT ![c] = "closed"]
    /\ Unchanged(<<heard, ledger>>)

\* The client ends its side.  TLS sockets are not half-open, nor is one that
\* was ended here: they close, and no error listener hears of it.
ClientEnds(c) ==
    /\ client[c] = "open"
    /\ client' = [client EXCEPT ![c] =
         IF secure \/ stage[c] \in {"fenced", "refused"} THEN "destroyed" ELSE "ended"]
    /\ Unchanged(<<stage, upstream, heard, ledger>>)

\* The client resets: whoever listens destroys the other side as well.
ClientErrs(c) ==
    /\ Alive(c) /\ heard[c] # {}
    /\ client' = [client EXCEPT ![c] = "destroyed"]
    /\ IF stage[c] = "connecting"
       THEN Proceed(c, "over") /\ upstream' = [upstream EXCEPT ![c] = "closed"]
       ELSE /\ UNCHANGED stage
            /\ upstream' = [upstream EXCEPT ![c] = Destroyed(@)]
    /\ Unchanged(<<heard, ledger>>)

\* The harness closes its socket, or fails: abandon() destroys both at once.
HarnessLeaves(c) ==
    /\ stage[c] \in {"piped", "stillborn"} /\ upstream[c] = "open"
    /\ upstream' = [upstream EXCEPT ![c] = "destroyed"]
    /\ \/ UNCHANGED client
       \/ client' = [client EXCEPT ![c] = Destroyed(@)]
    /\ Unchanged(<<stage, heard, ledger>>)

\* Faulty variant: the end of the upstream socket is left to the pipe.
UpstreamClosedAlone(c) ==
    /\ upstream[c] = "destroyed"
    /\ upstream' = [upstream EXCEPT ![c] = "closed"]
    /\ ledger' = ledger \ {<<c, "upstream">>}
    /\ Unchanged(<<stage, client, heard>>)

\* The close events of a pair: each forgets its socket and destroys the other.
UpstreamClosed(c) ==
    /\ upstream[c] = "destroyed"
    /\ upstream' = [upstream EXCEPT ![c] = "closed"]
    /\ client' = [client EXCEPT ![c] = Destroyed(@)]
    /\ ledger' = ledger \ {<<c, "upstream">>}
    /\ Unchanged(<<stage, heard>>)

SocketClosed(c) ==
    /\ client[c] = "destroyed"
    /\ client' = [client EXCEPT ![c] = "closed"]
    /\ upstream' = [upstream EXCEPT ![c] = IF stage[c] = "piped" THEN Destroyed(@) ELSE @]
    /\ ledger' = ledger \ {<<c, "client">>}
    /\ Unchanged(<<stage, heard>>)

-----------------------------------------------------------------------------
(* The listener.                                                           *)

\* Faulty variant: teardown without the ledger.
CloseUntracked ==
    /\ listener = "listening"
    /\ listener' = "closing"
    /\ client' = [c \in Connections |-> IF c \in Requests THEN Destroyed(client[c]) ELSE client[c]]
    /\ late' = {c \in Upgrades : Alive(c) /\ stage[c] # "piped"}
    /\ UNCHANGED <<secure, credentials, session, pending, stage, upstream, cookie, owed,
                   heard, ledger>>

\* destroyAll() reaches what the ledger tracks, closeAllConnections() what the
\* server knows: every connection that is not an upgrade.
Close ==
    /\ listener = "listening"
    /\ listener' = "closing"
    /\ client' = [c \in Connections |->
         IF c \in Requests \/ <<c, "client">> \in ledger THEN Destroyed(client[c]) ELSE client[c]]
    /\ upstream' = [c \in Connections |->
         IF <<c, "upstream">> \in ledger THEN Destroyed(upstream[c]) ELSE upstream[c]]
    /\ ledger' = {}
    /\ late' = {c \in Upgrades : Alive(c) /\ stage[c] # "piped"}
    /\ UNCHANGED <<secure, credentials, session, pending, stage, cookie, owed, heard>>

\* server.close() calls back when the last socket it accepted has closed.
Closed ==
    /\ listener = "closing"
    /\ \A c \in Connections : client[c] \in {"none", "closed"}
    /\ listener' = "closed"
    /\ UNCHANGED <<secure, credentials, session, pending, stage, client, upstream, cookie,
                   owed, heard, ledger, late>>

forward(c) ==
    \/ BodyEnds(c) \/ Responds(c) \/ ResponseEnds(c)
    \/ UpstreamFails(c) \/ TimerFires(c) \/ ClientLeaves(c)

forwardUpgrade(c) ==
    \/ UpgradeArrives(c) \/ rejectUpgrade(c) \/ HarnessLeaves(c)
    \/ ClientEnds(c) \/ ClientErrs(c) \/ UpstreamClosed(c) \/ SocketClosed(c)

Next ==
    \/ HarnessStarts \/ readRecord \/ ReadResolves \/ Close \/ Closed
    \/ \E c \in Connections : cookieFor(c)
    \/ \E c \in Requests : forward(c)
    \/ \E c \in Upgrades : serveUpgrade(c) \/ forwardUpgrade(c)

\* The store answers, close events come, and the upstream connection of a
\* client that is gone falls silent, as nothing is sent to it and nobody reads
\* from it, and times out.  Nothing is assumed of clients or harness.
Fairness ==
    /\ WF_vars(readRecord) /\ WF_vars(ReadResolves) /\ WF_vars(Closed)
    /\ \A c \in Requests :
         /\ WF_vars(client[c] = "destroyed" /\ ClientLeaves(c))
         /\ WF_vars(client[c] = "closed" /\ TimerFires(c))
    /\ \A c \in Upgrades : WF_vars(UpstreamClosed(c)) /\ WF_vars(SocketClosed(c))

Spec == Init /\ [][Next]_vars /\ Fairness

-----------------------------------------------------------------------------
(* What the proxy promises.                                                *)

\* An upgrade's socket that can still fail has a listener for it, from the
\* moment the proxy takes it to the end of the pipe: an unheard error event
\* would end the process (src/proxy/ws.ts:93-96).  An upgrade that the gates
\* refuse is never the proxy's, and nothing hears it.
ErrorsAreHeard ==
    \A c \in Upgrades : Alive(c) /\ stage[c] # "fenced" => heard[c] # {}

\* While the listener serves, both sockets of every pair that could stay open
\* are tracked, and no closed socket is: teardown reaches all of them and the
\* ledger does not grow with the traffic (src/proxy/ws.ts:24-47).  The one
\* exception is the client of a stillborn pair, which was closed when tracked.
LedgerExact ==
    /\ listener = "listening" =>
         \A c \in Upgrades : stage[c] \in {"piped", "stillborn"} =>
            /\ client[c] # "closed" => <<c, "client">> \in ledger
            /\ upstream[c] # "closed" => <<c, "upstream">> \in ledger
    /\ \A c \in Upgrades :
         /\ client[c] = "closed" /\ stage[c] # "stillborn" => <<c, "client">> \notin ledger
         /\ upstream[c] = "closed" => <<c, "upstream">> \notin ledger

\* No socket of an upgrade is forgotten: by an error listener as long as it can
\* fail, by the ledger from the handshake to its close.
SocketsAreMinded == ErrorsAreHeard /\ LedgerExact

\* A miss is never remembered: whoever began to wait after the secret existed,
\* with no older read to join and no failed read, goes upstream with the
\* session (src/harness-session.ts:163-165).
MissIsNotRemembered ==
    \A c \in Connections : owed[c] /\ upstream[c] # "none" => cookie[c]

\* A TLS client that ended its side while its upgrade was connecting: its
\* socket closed with no error, and nobody listened for anything else.
Unheard(c) ==
    secure /\ c \in Upgrades /\ client[c] = "closed" /\ stage[c] \in {"connecting", "stillborn"}

\* A connection to the harness does not outlive its client: what is stalled
\* because nobody reads it is cut by the timer (src/proxy/http.ts:63-69), and
\* an upgrade is destroyed, unless its client closed unheard.
GoneClientsFreeTheHarness ==
    \A c \in Connections :
        client[c] = "closed" ~> upstream[c] \in {"none", "closed"} \/ Unheard(c)

\* Neither half of a pair outlives the other (src/proxy/ws.ts:172-176), from
\* the handshake on if both lived to see it.
PairsEndTogether ==
    \A c \in Upgrades :
        (\/ stage[c] = "piped" /\ "closed" \in {client[c], upstream[c]}
         \/ stage[c] = "stillborn" /\ upstream[c] = "closed")
          ~> client[c] = "closed" /\ upstream[c] = "closed"

\* Closing the listener ends every connection it should, so that the port is
\* free for the next relay (src/server.ts:402-405), as soon as the upgrades
\* that it left open are let go: those on their way at that moment, and those
\* refused whose clients have not ended their side.
ClosesWhenPiped ==
    listener = "closing" ~>
        listener = "closed" \/ \E c \in late : client[c] # "closed"

\* "Close the listener and force every connection, upgraded ones included."
\* (src/server.ts:379)
CloseFinishes == listener = "closing" ~> listener = "closed"
=============================================================================
