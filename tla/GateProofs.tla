----------------------------- MODULE GateProofs -----------------------------
(***************************************************************************)
(* What the gates promise together, for every set of requests that agrees  *)
(* with RequestAssumption and BrowserAssumption, and for any declared      *)
(* authorities.                                                            *)
(*                                                                         *)
(* The properties speak about a request that is over, and each gate was    *)
(* passed some steps before: GateInv carries along what the gates behind a *)
(* request have established.                                               *)
(***************************************************************************)
EXTENDS Gate, TLAPS

Behind(gates) == stage \in gates \/ Served

UpgradeGates == {"fence", "classify", "admit", "forward", "over"}

\* The verdict that this listener takes.
Classified(r) ==
    IF identify(r).credential \in accepts(r.listener)
    THEN identify(r) ELSE [credential |-> "none", privileged |-> FALSE]

FenceBehind ==
    Behind({"url", "classify", "routes", "scope", "admit", "pin", "forward"})
        => FencePasses(request)

FencedBehind == answer = "fenced" => ~FencePasses(request)

\* A route of the relay is reached by requests only.
VerdictBehind ==
    Behind({"routes", "scope", "admit", "pin", "forward"}) => identity = Classified(request)

AdmissionBehind ==
    stage \in {"pin", "forward"} \/ answer = "forwarded" => isAuthenticated

PinBehind ==
    (stage = "forward" \/ answer = "forwarded") /\ request.kind = "request"
        => ~isPinnedMethod(request)

RouteBehind ==
    answer = "route" =>
        /\ request.kind = "request"
        /\ request.listener = "compat" => request.path = "health"

GateInv ==
    /\ TypeOK
    /\ request \in Requests
    /\ request.kind = "upgrade" => stage \in UpgradeGates
    /\ FenceBehind /\ VerdictBehind /\ AdmissionBehind
    /\ PinBehind /\ RouteBehind /\ FencedBehind

\* What classify() finds has the type of a verdict.
LEMMA VerdictType ==
    ASSUME NEW r
    PROVE  /\ identify(r) \in [credential : Credentials, privileged : BOOLEAN]
           /\ Classified(r) \in [credential : Credentials, privileged : BOOLEAN]
  BY DEF identify, Classified, Credentials

\* A refusal keeps the invariant: nothing is served.
LEMMA RefusalKeeps ==
    ASSUME GateInv, stage # "over", NEW as \in Refusals, Refuse(as),
           as = "fenced" => ~FencePasses(request)
    PROVE  GateInv'
  <1>1. answer' # "route" /\ answer' # "forwarded" /\ answer' # None
    BY NoneAssumption DEF Refuse, Refusals
  <1>2. TypeOK'
    BY <1>1, NoneAssumption DEF GateInv, TypeOK, Refuse
  <1>3. stage' = "over" /\ request' = request
    BY DEF Refuse
  <1>4. FencedBehind'
    BY <1>3 DEF Refuse, FencedBehind, FencePasses, TrustedHost, OriginAdmitted,
       matchesAuthority, isReadNavigation
  <1> QED
    BY <1>1, <1>2, <1>3, <1>4 DEF GateInv, Refuse, UpgradeGates, FenceBehind, VerdictBehind,
       AdmissionBehind, PinBehind, RouteBehind, Behind, Served

LEMMA InitHolds == Init => GateInv
  <1> SUFFICES ASSUME Init PROVE GateInv
    OBVIOUS
  <1>1. TypeOK
    BY NoneAssumption DEF Init, TypeOK, Credentials
  <1> QED
    BY <1>1, NoneAssumption, RequestAssumption DEF Init, GateInv, UpgradeGates, FenceBehind,
       VerdictBehind, AdmissionBehind, PinBehind, RouteBehind, FencedBehind, Refusals,
       Behind, Served

\* Every gate keeps what those behind the request have established.
LEMMA StepHolds == GateInv /\ [Next]_vars => GateInv'
  <1> SUFFICES ASSUME GateInv, [Next]_vars PROVE GateInv'
    OBVIOUS
  <1> USE DEF GateInv
  <1>kind. request \in Requests /\ request.kind \in {"request", "upgrade"}
    BY RequestAssumption
  <1>open. stage # "over" => answer = None /\ upstream = None /\ ~Served
    BY NoneAssumption DEF TypeOK, Served
  <1>1. ASSUME Pass, stage \notin {"classify", "forward", "over"},
               stage = "fence" => FencePasses(request),
               stage = "admit" => isAuthenticated,
               stage = "pin" => ~isPinnedMethod(request)
        PROVE  GateInv'
    <2>1. UNCHANGED <<privilegedMethods, request, answer, identity, upstream>>
      BY <1>1 DEF Pass
    <2>2. stage' \in {"fence", "url", "classify", "routes", "scope", "admit", "pin", "forward"}
      BY <1>1, <1>kind DEF Pass, NextGate, serve, serveUpgrade, TypeOK, UpgradeGates
    <2>3. /\ stage' \in {"url", "classify"} => stage \in {"fence", "url"}
          /\ stage' = "fence" => stage = "rate"
          /\ stage' \in {"routes", "scope"} => stage \in {"classify", "routes"}
          /\ stage' = "admit" => stage \in {"scope", "classify"}
          /\ stage' = "pin" => stage = "admit"
          /\ stage' = "forward" => stage = "pin" \/ (stage = "admit" /\ request.kind = "upgrade")
      BY <1>1, <1>kind DEF Pass, NextGate, serve, serveUpgrade, TypeOK, UpgradeGates
    <2>4. request.kind = "upgrade" => stage' \in UpgradeGates
      BY <1>1, <1>kind DEF Pass, NextGate, serveUpgrade, UpgradeGates
    <2>5. TypeOK'
      BY <1>1, <1>open, <2>1, <2>2 DEF TypeOK
    <2>6. FencePasses(request)' = FencePasses(request)
          /\ Classified(request)' = Classified(request)
          /\ isPinnedMethod(request)' = isPinnedMethod(request)
      BY <2>1 DEF FencePasses, TrustedHost, OriginAdmitted, matchesAuthority,
         isReadNavigation, Classified, identify, isPinnedMethod
    <2>7. answer' = None /\ ~Served'
      BY <1>1, <1>open, <2>1, NoneAssumption DEF Served
    <2>8. stage' \in {"url", "classify", "routes", "scope", "admit", "pin", "forward"}
            => FencePasses(request)
      BY <1>1, <2>2, <2>3 DEF FenceBehind, Behind, TypeOK
    <2> QED
      BY <1>1, <1>kind, <2>1, <2>2, <2>3, <2>4, <2>5, <2>6, <2>7, <2>8, NoneAssumption
      DEF FenceBehind, VerdictBehind, AdmissionBehind, PinBehind, RouteBehind, FencedBehind,
          Refusals, Behind, Served, isAuthenticated
  <1>2. CASE RateLimit
    BY <1>1, <1>2, RefusalKeeps DEF RateLimit, Refusals
  <1>3. CASE checkFence
    BY <1>1, <1>3, RefusalKeeps DEF checkFence, Refusals
  <1>4. CASE ParseUrl
    BY <1>1, <1>4, RefusalKeeps DEF ParseUrl, Refusals
  <1>5. CASE classify
    <2>1. stage = "classify" /\ UNCHANGED <<privilegedMethods, request, answer, upstream>>
      BY <1>5 DEF classify
    <2>2. stage' = IF request.kind = "upgrade" THEN "admit" ELSE "routes"
      BY <1>5 DEF classify, NextGate, serve, serveUpgrade
    <2>3. identity' = Classified(request)
      BY <1>5 DEF classify, Classified
    <2>4. TypeOK'
      BY <2>1, <2>2, <2>3, <1>open, VerdictType DEF TypeOK
    <2>5. FencePasses(request)' /\ Classified(request)' = Classified(request)
      BY <2>1 DEF FenceBehind, Behind, FencePasses, TrustedHost, OriginAdmitted,
         matchesAuthority, isReadNavigation, Classified, identify
    <2>6. answer' = None /\ ~Served'
      BY <1>open, <2>1, NoneAssumption DEF Served
    <2> QED
      BY <2>1, <2>2, <2>3, <2>4, <2>5, <2>6, NoneAssumption
      DEF FenceBehind, VerdictBehind, AdmissionBehind, PinBehind, RouteBehind,
          FencedBehind, Refusals, Behind, UpgradeGates
  <1>6. CASE RelayRoutes
    <2>1. CASE request.path \in {"health", "relay"} /\ Refuse("route")
      <3>1. stage = "routes" /\ ~(request.listener = "compat" /\ request.path # "health")
        BY <1>6, <2>1 DEF RelayRoutes, Refuse
      <3>2. /\ stage' = "over" /\ answer' = "route"
            /\ UNCHANGED <<privilegedMethods, request, identity, upstream>>
        BY <2>1 DEF Refuse
      <3>3. TypeOK'
        BY <3>1, <3>2, <1>open, NoneAssumption DEF TypeOK, Refusals
      <3>4. FencePasses(request)' /\ identity' = Classified(request)'
        BY <3>1, <3>2 DEF FenceBehind, VerdictBehind, Behind, FencePasses, TrustedHost,
           OriginAdmitted, matchesAuthority, isReadNavigation, Classified, identify
      <3>5. request.kind = "request"
        BY <3>1, <1>kind DEF UpgradeGates
      <3> QED
        BY <2>1, <3>1, <3>2, <3>3, <3>4, <3>5
        DEF FenceBehind, VerdictBehind, AdmissionBehind, PinBehind, RouteBehind,
          FencedBehind, Refusals, Behind, UpgradeGates
    <2>2. CASE Refuse("not found")
      BY <1>6, <2>2, RefusalKeeps DEF RelayRoutes, Refusals
    <2>3. CASE Pass
      BY <1>1, <1>6, <2>3 DEF RelayRoutes
    <2> QED
      BY <1>6, <2>1, <2>2, <2>3 DEF RelayRoutes
  <1>7. CASE ScopeWrites
    BY <1>1, <1>7, RefusalKeeps DEF ScopeWrites, Refusals
  <1>8. CASE Admit
    BY <1>1, <1>8, RefusalKeeps DEF Admit, Refusals
  <1>9. CASE Pin
    BY <1>1, <1>9, RefusalKeeps DEF Pin, Refusals
  <1>10. CASE Forward
    <2>1. /\ stage = "forward" /\ stage' = "over" /\ answer' = "forwarded"
          /\ UNCHANGED <<privilegedMethods, request, identity>>
      BY <1>10 DEF Forward
    <2>2. TypeOK'
      BY <2>1, NoneAssumption DEF TypeOK
    <2>3. FencePasses(request)' /\ identity' = Classified(request)'
      BY <2>1 DEF FenceBehind, VerdictBehind, Behind, FencePasses, TrustedHost,
         OriginAdmitted, matchesAuthority, isReadNavigation, Classified, identify
    <2>4. isAuthenticated' /\ (request.kind = "request" => ~isPinnedMethod(request)')
      BY <2>1 DEF AdmissionBehind, PinBehind, isAuthenticated, isPinnedMethod
    <2> QED
      BY <2>1, <2>2, <2>3, <2>4
      DEF FenceBehind, VerdictBehind, AdmissionBehind, PinBehind, RouteBehind,
          FencedBehind, Refusals, Behind, UpgradeGates
  <1>11. CASE UNCHANGED vars
    <2>1. UNCHANGED <<privilegedMethods, request, stage, answer, identity, upstream>>
      BY <1>11 DEF vars
    <2>2. TypeOK' /\ request' \in Requests
      BY <2>1 DEF TypeOK
    <2>3. /\ FencePasses(request)' = FencePasses(request)
          /\ Classified(request)' = Classified(request)
          /\ isPinnedMethod(request)' = isPinnedMethod(request)
      BY <2>1 DEF FencePasses, TrustedHost, OriginAdmitted, matchesAuthority,
         isReadNavigation, Classified, identify, isPinnedMethod
    <2> QED
      BY <2>1, <2>2, <2>3 DEF FenceBehind, VerdictBehind, AdmissionBehind, PinBehind,
         RouteBehind, FencedBehind, Behind, Served, isAuthenticated, UpgradeGates
  <1> QED
    BY <1>2, <1>3, <1>4, <1>5, <1>6, <1>7, <1>8, <1>9, <1>10, <1>11 DEF Next

LEMMA InvariantHolds == Spec => []GateInv
  BY InitHolds, StepHolds, PTL DEF Spec

-----------------------------------------------------------------------------
(* The promises.                                                           *)

\* Every variable but the request keeps its type, and a request is answered
\* once (src/server.ts:152-264).
THEOREM TypesHold == Spec => []TypeOK
  <1>1. GateInv => TypeOK
    BY DEF GateInv
  <1> QED
    BY <1>1, InvariantHolds, PTL

\* No page but the relay's own, at an authority the relay was told of, makes
\* it change anything (src/fence.ts:264-306): the origin a browser sends with
\* a write is that of its page, it equals the authority the request is for,
\* and that authority is trusted by name.
THEOREM ForeignPagesNeverWrite == Spec => []NoForeignWrite
  <1>1. ASSUME GateInv, Served, Mutates(request), request.page # None
        PROVE  /\ request.page # Opaque
               /\ OwnName(request.page.name)
               /\ HostOf(request.page.name, request.page.port, request.page.scheme)
                    = ParsedHost(request.host)
    <2>1. FencePasses(request) /\ request \in Requests
      BY <1>1 DEF GateInv, FenceBehind, Behind
    <2>2. request.origin \in {request.page, Opaque}
      BY <1>1, <2>1, BrowserAssumption
    <2>3. request.origin = request.page /\ request.page # Opaque
          /\ HostOf(request.page.name, request.page.port, request.page.scheme)
               = ParsedHost(request.host)
      BY <1>1, <2>1, <2>2, NoneAssumption DEF FencePasses, OriginAdmitted
    <2>4. request.page.name = request.host.name
      BY <2>3 DEF HostOf, ParsedHost
    <2>5. TrustedHost(request)
      BY <2>1 DEF FencePasses
    <2>6. OwnName(request.host.name)
      <3>1. CASE matchesAuthority(request.host)
        <4>1. PICK d \in relayAuthorities :
                IF d.port = None THEN d.name = request.host.name
                ELSE ParsedHost(d) = ParsedHost(request.host)
          BY <3>1 DEF matchesAuthority
        <4>2. d.name = request.host.name
          BY <4>1 DEF ParsedHost, HostOf
        <4> QED
          BY <4>2 DEF OwnName
      <3> QED
        BY <2>5, <3>1 DEF TrustedHost, OwnName
    <2> QED
      BY <2>3, <2>4, <2>6
  <1>2. GateInv => NoForeignWrite
    BY <1>1 DEF NoForeignWrite
  <1> QED
    BY <1>2, InvariantHolds, PTL

\* Where browsers mark their requests, another site can only navigate a person
\* here (src/fence.ts:284-294).
THEOREM OtherSitesOnlyNavigate == Spec => []CrossSiteOnlyNavigates
  <1>1. GateInv => CrossSiteOnlyNavigates
    BY BrowserAssumption DEF GateInv, CrossSiteOnlyNavigates, FenceBehind, Behind,
       FencePasses, isReadNavigation
  <1> QED
    BY <1>1, InvariantHolds, PTL

\* The pinned methods are served to this machine, or where the operator allows
\* it to who holds a token or a session; never to an address
\* (src/server.ts:250-257, src/auth/index.ts:155-204).
THEOREM PinnedMethodsStayHome == Spec => []PinnedStaysHome
  <1>1. ASSUME GateInv, answer = "forwarded", request.kind = "request", request.path = "pinned"
        PROVE  \/ Direct(request)
               \/ /\ privilegedMethods = "allow-authenticated"
                  /\ request.holds \cap {"token", "session"} # {}
    <2>1. identity = Classified(request) /\ ~isPinnedMethod(request)
      BY <1>1 DEF GateInv, VerdictBehind, PinBehind, Behind, Served
    <2>2. Classified(request).privileged
      BY <1>1, <2>1 DEF isPinnedMethod, apiMethodOf, PRIVILEGED_METHODS
    <2>3. identify(request).privileged
      BY <2>2 DEF Classified
    <2> QED
      BY <2>3 DEF identify
  <1>2. GateInv => PinnedStaysHome
    BY <1>1 DEF PinnedStaysHome
  <1> QED
    BY <1>2, InvariantHolds, PTL

\* The unencrypted listener serves neither sessions nor the routes of the
\* relay (src/server.ts:85-90, 202-220).
THEOREM PlainHopServesDevices == Spec => []PlainHopIsForDevices
  <1>1. ASSUME GateInv, answer = "forwarded", request.listener = "compat"
        PROVE  identity.credential \in {"loopback", "device", "address-grant"}
    <2>1. identity = Classified(request) /\ identity.credential # "none"
      BY <1>1 DEF GateInv, VerdictBehind, AdmissionBehind, Behind, Served, isAuthenticated
    <2>2. identity.credential \in Credentials \ {"session"}
      BY <1>1, <2>1, VerdictType DEF Classified, accepts
    <2> QED
      BY <2>1, <2>2 DEF Credentials
  <1>2. GateInv => PlainHopIsForDevices
    BY <1>1 DEF PlainHopIsForDevices, GateInv, RouteBehind, Served
  <1> QED
    BY <1>2, InvariantHolds, PTL

\* A person and a page of the same authority are not locked out: what they
\* send to loopback, or to a name declared without a port, passes the fence
\* (src/fence.ts:242-306).
THEOREM PagesAreNotLockedOut == Spec => []OwnPagesPass
  <1>1. ASSUME NEW r \in Requests, r.url # None, r.page \in {None, r.url}, r.origin # Opaque,
               ~(r.url.scheme = "https" /\ r.url.port = DefaultPort["http"]),
               \/ r.url.name \in LoopbackNames
               \/ [name |-> r.url.name, port |-> None] \in relayAuthorities
        PROVE  FencePasses(r)
    <2>1. /\ r.url.scheme \in {"http", "https"}
          /\ r.host = HostOf(r.url.name, r.url.port, r.url.scheme)
          /\ r.host \notin {None, Unparsable}
          /\ r.origin \in {None, r.url}
          /\ r.site # "cross-site"
      BY <1>1, BrowserAssumption
    <2>2. r.host.name = r.url.name
      BY <2>1 DEF HostOf
    <2>3. TrustedHost(r)
      BY <1>1, <2>2 DEF TrustedHost, matchesAuthority
    <2>4. ParsedHost(r.host) = r.host
      BY <1>1, <2>1 DEF ParsedHost, HostOf
    <2>5. OriginAdmitted(r)
      BY <1>1, <2>1, <2>4 DEF OriginAdmitted
    <2> QED
      BY <2>1, <2>3, <2>5 DEF FencePasses
  <1>2. GateInv => OwnPagesPass
    BY <1>1 DEF GateInv, FencedBehind, OwnPagesPass
  <1> QED
    BY <1>2, InvariantHolds, PTL
=============================================================================
