----------------------------- MODULE Supervisor -----------------------------
(***************************************************************************)
(* The supervisor that replaces one relay by the next (src/index.ts).      *)
(*                                                                         *)
(* Every settings edit that changes the configuration appends a transition *)
(* to one promise chain: stop the running relay, start the next.  Starting *)
(* acquires the store, the listeners and the registrations one await after *)
(* the other and may fail at each; stopping releases them in reverse.  An  *)
(* edit or the unload of the plugin may arrive at any await.  A transition *)
(* and the relay it starts are named by the generation it captured.        *)
(***************************************************************************)
EXTENDS Naturals, Sequences, FiniteSets, SequencesExt

CONSTANTS
    Configs,       \* the configurations somebody may choose
    Malformed,     \* those with TLS files but no paths to them, or a bad extra path
    PrimaryPort,   \* config.port of each
    PlainPort,     \* config.compat.plainPort of each, or None
    None,          \* undefined
    Faults,        \* "io": store, certificate; "bind": somebody else's port
    MaxGeneration  \* bound: transitions and the unload

ASSUME ConfigsAssumption ==
    /\ Malformed \subseteq Configs /\ None \notin Configs
    /\ DOMAIN PrimaryPort = Configs /\ DOMAIN PlainPort = Configs
    /\ \A c \in Configs : PrimaryPort[c] # None

ASSUME BoundsAssumption ==
    /\ MaxGeneration \in Nat \ {0} /\ None \notin Nat
    /\ Faults \subseteq {"io", "bind"}

VARIABLES
    generation,    \* #generation
    applied,       \* #applied: the configuration of the last transition asked for
    chain,         \* #chain: generations whose transition has not settled
    config,        \* the configuration each transition captured
    stage,         \* where the first transition of the chain stands
    running,       \* #running
    held,          \* what each relay holds
    failed,        \* the relays whose start threw
    unload         \* how far the disposer of the plugin has come

vars == <<generation, applied, chain, config, stage, running, held, failed, unload>>

Generations == 1..MaxGeneration

\* What assertCoherent() accepts.
Coherent == {c \in Configs \ Malformed : PlainPort[c] # PrimaryPort[c]}

\* What a relay holds, in the order in which stop() lets go of it.
Parts == <<"routes", "advert", "compat", "primary", "store">>

TypeOK ==
    /\ generation \in 0..MaxGeneration
    /\ applied \in Configs \cup {None}
    /\ chain \in Seq(Generations)
    /\ config \in [Generations -> Coherent \cup {None}]
    /\ stage \in {"queued", "stopping", "store", "certificate", "primary", "compat", "advert"}
    /\ running \in Generations \cup {None}
    /\ held \in [Generations -> SUBSET ToSet(Parts)]
    /\ failed \subseteq Generations
    /\ unload \in {"no", "waiting", "stopping", "done"}
    /\ stage # "queued" => chain # <<>>

Init ==
    /\ generation = 0
    /\ applied = None
    /\ chain = <<>>
    /\ config = [g \in Generations |-> None]
    /\ stage = "queued"
    /\ running = None
    /\ held = [g \in Generations |-> {}]
    /\ failed = {}
    /\ unload = "no"

-----------------------------------------------------------------------------
(* Asking for a relay.                                                     *)

\* Faulty variant: an unusable configuration is remembered as the applied one.
ApplyUnchecked(c) ==
    /\ c # applied
    /\ generation < MaxGeneration - 1
    /\ applied' = c
    /\ IF c \notin Coherent THEN UNCHANGED <<generation, chain, config>>
       ELSE /\ generation' = generation + 1
            /\ chain' = Append(chain, generation')
            /\ config' = [config EXCEPT ![generation'] = c]
    /\ UNCHANGED <<stage, running, held, failed, unload>>

\* Supervisor.apply(): an unusable configuration and the one already asked
\* for change nothing.
Apply(c) ==
    /\ c \in Coherent
    /\ c # applied
    /\ generation < MaxGeneration - 1
    /\ generation' = generation + 1
    /\ applied' = c
    /\ chain' = Append(chain, generation')
    /\ config' = [config EXCEPT ![generation'] = c]
    /\ UNCHANGED <<stage, running, held, failed, unload>>

\* The mount and every settings event apply, until the plugin unloads.
followSettings(c) == unload = "no" /\ Apply(c)

-----------------------------------------------------------------------------
(* The first transition of the chain.                                      *)

Mine == Head(chain)
Superseded == Mine # generation

\* Faulty variant: the next transition does not begin at its beginning.
SettlesInPlace ==
    /\ chain' = Tail(chain)
    /\ UNCHANGED stage

\* Its promise settles, whichever way, and the next one's turn comes.
Settles ==
    /\ chain' = Tail(chain)
    /\ stage' = "queued"

AtStage(s) == chain # <<>> /\ stage = s

\* A superseded transition drops out before it touches anything.
DropOut ==
    /\ AtStage("queued")
    /\ Superseded
    /\ Settles
    /\ UNCHANGED <<generation, applied, config, running, held, failed, unload>>

\* Faulty variant: the transition starts its relay beside the running one.
BeginBeside ==
    /\ AtStage("queued")
    /\ ~Superseded
    /\ stage' = "store"
    /\ UNCHANGED <<generation, applied, chain, config, running, held, failed, unload>>

Begin ==
    /\ AtStage("queued")
    /\ ~Superseded
    /\ stage' = IF running = None THEN "store" ELSE "stopping"
    /\ UNCHANGED <<generation, applied, chain, config, running, held, failed, unload>>

\* stop() of a relay lets go of one part after the other.
FirstHeld(g) == SelectSeq(Parts, LAMBDA part : part \in held[g])[1]

LetGo(g) ==
    /\ held[g] # {}
    /\ held' = [held EXCEPT ![g] = @ \ {FirstHeld(g)}]

StopPart ==
    /\ AtStage("stopping")
    /\ LetGo(running)
    /\ UNCHANGED <<generation, applied, chain, config, stage, running, failed, unload>>

\* stop() resolves; a transition superseded meanwhile starts nothing.
Stopped ==
    /\ AtStage("stopping")
    /\ held[running] = {}
    /\ running' = None
    /\ IF Superseded THEN Settles ELSE stage' = "store" /\ UNCHANGED chain
    /\ UNCHANGED <<generation, applied, config, held, failed, unload>>

\* The parts start() acquires, each at an await of its own.
Acquire(at, parts, then) ==
    /\ AtStage(at)
    /\ held' = [held EXCEPT ![Mine] = @ \cup parts]
    /\ stage' = then
    /\ UNCHANGED <<generation, applied, chain, config, running, failed, unload>>

OpenStore == Acquire("store", {"store"}, "certificate")
LoadCertificate == Acquire("certificate", {}, "primary")

PortOf(g, part) ==
    CASE part = "primary" -> PrimaryPort[config[g]]
      [] part = "compat"  -> PlainPort[config[g]]

\* The relays of this process that listen on a port.
Listening(port) ==
    {g \in Generations : \E part \in held[g] \cap {"primary", "compat"} : PortOf(g, part) = port}

\* The registrations on the harness web server follow the last bind in the
\* same turn.
BindPrimary ==
    LET single == PlainPort[config[Mine]] = None
    IN  /\ chain # <<>>
        /\ Listening(PortOf(Mine, "primary")) = {}
        /\ Acquire("primary", {"primary"} \cup (IF single THEN {"routes"} ELSE {}),
                   IF single THEN "advert" ELSE "compat")

BindPlain ==
    /\ AtStage("compat")
    /\ Listening(PortOf(Mine, "compat")) = {}
    /\ Acquire("compat", {"compat", "routes"}, "advert")

\* start() throws: the store or the certificate cannot be read, or a port is
\* taken.  The transition logs it; nothing releases what was acquired.
StartFails(at) ==
    /\ AtStage(at)
    /\ \/ at \in {"store", "certificate"} /\ "io" \in Faults
       \/ at \in {"primary", "compat"} /\ ("bind" \in Faults \/ Listening(PortOf(Mine, at)) # {})
    /\ failed' = failed \cup {Mine}
    /\ Settles
    /\ UNCHANGED <<generation, applied, config, running, held, unload>>

\* What advertise() leaves to withdraw: a record, or nothing if the responder
\* cannot be had, publishing throws or is turned off.  An error after that is an
\* event with a listener.
advertise == {{}, {"advert"}}

\* Faulty variant: the handle of the started relay is not kept.
StartedUnkept(advert) ==
    /\ AtStage("advert")
    /\ held' = [held EXCEPT ![Mine] = @ \cup advert]
    /\ Settles
    /\ UNCHANGED <<generation, applied, config, running, failed, unload>>

\* Advertising is best effort; start() returns the handle that stop() uses.
Started(advert) ==
    /\ AtStage("advert")
    /\ held' = [held EXCEPT ![Mine] = @ \cup advert]
    /\ running' = Mine
    /\ Settles
    /\ UNCHANGED <<generation, applied, config, failed, unload>>

-----------------------------------------------------------------------------
(* The unload of the plugin: Supervisor.stop().                            *)

\* Faulty variant: the running relay is stopped without awaiting the chain.
UnloadAtOnce ==
    /\ unload = "no"
    /\ unload' = "stopping"
    /\ generation' = generation + 1
    /\ UNCHANGED <<applied, chain, config, stage, running, held, failed>>

Unload ==
    /\ unload = "no"
    /\ unload' = "waiting"
    /\ generation' = generation + 1
    /\ UNCHANGED <<applied, chain, config, stage, running, held, failed>>

\* Faulty variant: the disposer counts on a relay being there.
ChainSettledUnguarded ==
    /\ unload = "waiting"
    /\ chain = <<>>
    /\ running # None
    /\ unload' = "stopping"
    /\ UNCHANGED <<generation, applied, chain, config, stage, running, held, failed>>

ChainSettled ==
    /\ unload = "waiting"
    /\ chain = <<>>
    /\ unload' = IF running = None THEN "done" ELSE "stopping"
    /\ UNCHANGED <<generation, applied, chain, config, stage, running, held, failed>>

LastStopPart ==
    /\ unload = "stopping"
    /\ running # None
    /\ LetGo(running)
    /\ UNCHANGED <<generation, applied, chain, config, stage, running, failed, unload>>

LastStopped ==
    /\ unload = "stopping"
    /\ running # None => held[running] = {}
    /\ running' = None
    /\ unload' = "done"
    /\ UNCHANGED <<generation, applied, chain, config, stage, held, failed>>

-----------------------------------------------------------------------------
Stop  == StopPart \/ Stopped
Start == OpenStore \/ LoadCertificate \/ BindPrimary \/ BindPlain
         \/ \E advert \in advertise : Started(advert)
Fails == \E at \in {"store", "certificate", "primary", "compat"} : StartFails(at)
Transition == DropOut \/ Begin \/ Stop \/ Start \/ Fails
Dispose    == ChainSettled \/ LastStopPart \/ LastStopped

Next ==
    \/ \E c \in Configs : followSettings(c)
    \/ Transition
    \/ Unload
    \/ Dispose

Spec == Init /\ [][Next]_vars

\* A stop() waits for the close of a listener, which calls back once no client
\* has a socket left on it: an upgrade on its way may keep it for ever.
AwaitsListener ==
    /\ running # None
    /\ stage = "stopping" \/ unload = "stopping"
    /\ held[running] # {} /\ FirstHeld(running) \in {"compat", "primary"}

\* Node runs every continuation and completes every bind and file operation of
\* a transition and of the disposer.  Nobody owes an edit or an unload, and
\* clients do not owe a listener their sockets.
LiveSpec ==
    /\ Spec
    /\ WF_vars(Transition /\ ~AwaitsListener)
    /\ WF_vars(Dispose /\ ~AwaitsListener)

-----------------------------------------------------------------------------
(* Properties.                                                             *)

\* "Keeps exactly one relay running": whatever edits overlap, relays never
\* hold a store or a port at the same time, but for what failed starts left.
OneRelay ==
    \A g, h \in Generations \ failed : held[g] # {} /\ held[h] # {} => g = h

\* A superseded transition starts nothing and none is forgotten: when the
\* chain is quiet, the configuration last asked for runs or failed to start.
LastEditWins ==
    chain = <<>> /\ unload = "no" /\ generation > 0 =>
        /\ config[generation] = applied
        /\ generation \in failed \/ running = generation

\* Once the disposer has resolved, no relay it ever started is left, and
\* there is none of which nobody knows.
NothingOutlivesUnload ==
    unload = "done" => \A g \in Generations \ failed : held[g] = {}

\* The disposer resolves, whatever transition it arrives in, unless a listener
\* that it or the transition stops never closes (`Proxy` says when).
UnloadFinishes == unload = "waiting" ~> (unload = "done" \/ []AwaitsListener)

\* "A config edit, or a hot reload closes the listeners ... without leaving a
\* port bound."
NoPortLeftBound ==
    unload = "done" => \A g \in Generations : held[g] \cap {"primary", "compat"} = {}

=============================================================================
