-------------------------------- MODULE Gate --------------------------------
(***************************************************************************)
(* The gates one request passes (src/server.ts, src/fence.ts).             *)
(*                                                                         *)
(* The order of the gates is the security model: rate limit, trust fence,  *)
(* credential, the relay's own routes, write scoping, admission, pinned    *)
(* methods, and then the proxy, which presents whatever is left to the     *)
(* harness as loopback.  An upgrade passes the fence, the credential and   *)
(* admission only.                                                         *)
(*                                                                         *)
(* Who sent a request -- a native client, or a browser that shows some     *)
(* page -- is not visible to the relay.  It is kept in the field "page",   *)
(* which no action reads, beside the "url" it was sent to: the properties  *)
(* are about these, and BrowserAssumption says what headers a browser      *)
(* makes of them.                                                          *)
(***************************************************************************)
EXTENDS Naturals

CONSTANTS
    Requests,        \* the requests that may arrive
    LoopbackNames,   \* localhost, ::1 and 127/8
    Alias,           \* EMULATOR_HOST_ALIAS
    LocalAddresses,  \* localAddresses(): this machine on its networks
    PublicHostnames, \* config.publicHostnames
    TrustedHosts,    \* config.trustedHosts, records [name, port]
    DefaultPort,     \* the port of each scheme that a URL leaves out
    Opaque,          \* the origin "null"
    Unparsable,      \* a Host or a path that the URL parser refuses
    None             \* an absent header; no page

\* A request that changes something, or opens a stream into the harness.
Mutates(r) ==
    r.kind = "upgrade" \/ r.method \notin {"GET", "HEAD", "OPTIONS"}

\* A name and a port as an authority spells them under a scheme.
HostOf(name, port, scheme) ==
    [name |-> name, port |-> IF port = DefaultPort[scheme] THEN None ELSE port]

\* The authorities the relay answers to, beside loopback.
relayAuthorities ==
    [name : LocalAddresses \cup PublicHostnames, port : {None}] \cup TrustedHosts

\* Where a browser marks its requests with Sec-Fetch-Site, -Mode and -Dest.
Trustworthy(url) == url.scheme = "https" \/ url.name \in LoopbackNames

Foreign(r) == r.page = Opaque \/ r.page.name # r.url.name

\* The URL and Fetch standards: Host is the authority of the URL, whatever it
\* resolves to; Origin names the page or is "null", and what mutates carries
\* it; what goes to a trustworthy URL is marked, and neither a person nor a
\* page of the same origin is marked cross-site.
ASSUME BrowserAssumption ==
    \A r \in Requests :
        /\ r.page # None => r.url # None
        /\ r.url # None =>
              /\ r.url.scheme \in {"http", "https"}
              /\ r.host = HostOf(r.url.name, r.url.port, r.url.scheme)
              /\ r.host \notin {None, Unparsable}
              /\ r.origin \in {None, Opaque, r.page}
              /\ r.page \in {None, r.url} => r.site # "cross-site"
        /\ r.page # None /\ Mutates(r) => r.origin \in {r.page, Opaque}
        /\ r.page # None /\ Trustworthy(r.url) /\ Foreign(r) => r.site = "cross-site"

ASSUME RequestAssumption ==
    \A r \in Requests :
        r.kind \in {"request", "upgrade"} /\ r.listener \in {"primary", "compat"}

VARIABLES
    privilegedMethods, \* the configuration
    request,   \* the request being served
    stage,     \* the gate it stands before
    answer,    \* what became of it, None until it is over
    identity,  \* the verdict of classify()
    upstream   \* what the harness is sent: the authority and the credentials

vars == <<privilegedMethods, request, stage, answer, identity, upstream>>

Credentials == {"loopback", "session", "device", "address-grant", "none"}

Refusals == {"too many requests", "fenced", "bad request", "not found",
             "login", "forbidden", "pinned"}

ASSUME NoneAssumption ==
    /\ None # Opaque /\ None # Unparsable /\ Opaque # Unparsable
    /\ None \notin Refusals \cup {"route", "forwarded"}

TypeOK ==
    /\ privilegedMethods \in {"loopback-only", "allow-authenticated"}
    /\ stage \in {"rate", "fence", "url", "classify", "routes", "scope", "admit",
                  "pin", "forward", "over"}
    /\ answer \in Refusals \cup {"route", "forwarded", None}
    /\ identity \in [credential : Credentials, privileged : BOOLEAN]
    /\ stage = "over" <=> answer # None
    /\ upstream # None => answer = "forwarded"

Init ==
    /\ privilegedMethods \in {"loopback-only", "allow-authenticated"}
    /\ request \in Requests
    /\ stage = IF request.kind = "upgrade" THEN "fence" ELSE "rate"
    /\ answer = None
    /\ identity = [credential |-> "none", privileged |-> FALSE]
    /\ upstream = None

-----------------------------------------------------------------------------
(* The gates in their order: each refuses, or hands on to the next.        *)

serve ==
    [rate |-> "fence", fence |-> "url", url |-> "classify", classify |-> "routes",
     routes |-> "scope", scope |-> "admit", admit |-> "pin", pin |-> "forward"]

serveUpgrade == [fence |-> "classify", classify |-> "admit", admit |-> "forward"]

NextGate == IF request.kind = "upgrade" THEN serveUpgrade[stage] ELSE serve[stage]

Refuse(as) ==
    /\ stage' = "over"
    /\ answer' = as
    /\ UNCHANGED <<privilegedMethods, request, identity, upstream>>

Pass ==
    /\ stage' = NextGate
    /\ UNCHANGED <<privilegedMethods, request, answer, identity, upstream>>

Direct(r) == r.local /\ ~r.forwarded

\* Faulty variant: the refusal does not return.
RateLimitGoesOn ==
    /\ stage = "rate"
    /\ \/ Pass
       \/ /\ ~Direct(request)
          /\ answer' = "too many requests"
          /\ stage' = NextGate
          /\ UNCHANGED <<privilegedMethods, request, identity, upstream>>

\* The throttle decides whether the address is over its limit.
RateLimit ==
    /\ stage = "rate"
    /\ \/ Pass
       \/ ~Direct(request) /\ Refuse("too many requests")

-----------------------------------------------------------------------------
(* The fence.                                                              *)

\* Authorities are parsed under http:, whatever the listener speaks.
ParsedHost(host) == HostOf(host.name, host.port, "http")

matchesAuthority(host) ==
    \E d \in relayAuthorities :
        IF d.port = None THEN d.name = host.name ELSE ParsedHost(d) = ParsedHost(host)

\* Faulty variant: every request of this machine itself is trusted.
TrustedHostFromLoopback(r) ==
    \/ r.host.name \in LoopbackNames
    \/ Direct(r)
    \/ matchesAuthority(r.host)

TrustedHost(r) ==
    \/ r.host.name \in LoopbackNames
    \/ Direct(r) /\ r.host.name = Alias
    \/ matchesAuthority(r.host)

\* Faulty variant: a frame counts as a navigation too.
isNavigation(r) == r.method \in {"GET", "HEAD"} /\ r.mode = "navigate"

isReadNavigation(r) ==
    /\ r.method \in {"GET", "HEAD"}
    /\ r.mode = "navigate"
    /\ r.dest \in {None, "document"}

OriginAdmitted(r) ==
    \/ r.origin = None
    \/ /\ r.origin # Opaque
       /\ HostOf(r.origin.name, r.origin.port, r.origin.scheme) = ParsedHost(r.host)

\* Faulty variant: only a request that is marked same-origin or unmarked passes.
FencePassesSameOrigin(r) ==
    /\ r.host \notin {None, Unparsable}
    /\ TrustedHost(r)
    /\ r.site \in {None, "same-origin"}
    /\ OriginAdmitted(r)

FencePasses(r) ==
    /\ r.host \notin {None, Unparsable}
    /\ TrustedHost(r)
    /\ r.site = "cross-site" => isReadNavigation(r)
    /\ OriginAdmitted(r)

checkFence ==
    /\ stage = "fence"
    /\ IF FencePasses(request) THEN Pass ELSE Refuse("fenced")

ParseUrl ==
    /\ stage = "url"
    /\ IF request.path = Unparsable THEN Refuse("bad request") ELSE Pass

-----------------------------------------------------------------------------
(* The credential.                                                         *)

\* A client holds some of "token" (bearer), "session" (cookie) and "grant"
\* (its address); only valid ones count, Authenticator says which those are.
identify(r) ==
    LET verdict(credential, privileged) ==
            [credential |-> credential, privileged |-> privileged]
        allowPrivileged == privilegedMethods = "allow-authenticated"
    IN  IF Direct(r) THEN verdict("loopback", TRUE)
        ELSE IF "token" \in r.holds THEN verdict("device", allowPrivileged)
        ELSE IF "session" \in r.holds THEN verdict("session", allowPrivileged)
        ELSE IF "grant" \in r.holds THEN verdict("address-grant", FALSE)
        ELSE verdict("none", FALSE)

accepts(listener) ==
    IF listener = "primary" THEN Credentials ELSE Credentials \ {"session"}

classify ==
    /\ stage = "classify"
    /\ LET found == identify(request) IN
       identity' = IF found.credential \in accepts(request.listener)
                   THEN found ELSE [credential |-> "none", privileged |-> FALSE]
    /\ stage' = NextGate
    /\ UNCHANGED <<privilegedMethods, request, answer, upstream>>

-----------------------------------------------------------------------------
(* Routes, scoping, admission, pinned methods.                             *)

RelayRoutes ==
    /\ stage = "routes"
    /\ IF request.path \in {"health", "relay"}
       THEN Refuse(IF request.listener = "compat" /\ request.path # "health"
                   THEN "not found" ELSE "route")
       ELSE Pass

writeAllowed(r) == r.path \in {"api", "pinned", "extra"}

ScopeWrites ==
    /\ stage = "scope"
    /\ IF Mutates(request) /\ ~writeAllowed(request)
       THEN Refuse("not found") ELSE Pass

wantsDocument(r) == r.accept = "html"

isAuthenticated == identity.credential # "none"

Admit ==
    /\ stage = "admit"
    /\ IF isAuthenticated
       THEN Pass
       ELSE Refuse(IF /\ request.kind = "request"
                      /\ wantsDocument(request) /\ request.listener = "primary"
                   THEN "login" ELSE "forbidden")

\* The endpoints of /api/ fall in two classes.
apiMethodOf(r) == IF r.path \in {"api", "pinned"} THEN r.path ELSE None

PRIVILEGED_METHODS == {"pinned"}

\* Faulty variant: whoever proved who he is may use the pinned methods.
isPinnedForStrangers(r) == apiMethodOf(r) \in PRIVILEGED_METHODS /\ ~isAuthenticated

isPinnedMethod(r) == apiMethodOf(r) \in PRIVILEGED_METHODS /\ ~identity.privileged

Pin ==
    /\ stage = "pin"
    /\ IF isPinnedMethod(request) THEN Refuse("pinned") ELSE Pass

-----------------------------------------------------------------------------
(* The proxy.                                                              *)

\* host:port of the harness.
loopbackAuthority == [name |-> "127.0.0.1", port |-> None]

RELAY_ONLY == {"token", "session"}

\* A grant is not a header: it rests on the address of the client.
upstreamHeaders(r) ==
    [host |-> loopbackAuthority,
     origin |-> IF r.origin = None THEN None ELSE loopbackAuthority,
     carries |-> ((r.holds \ {"grant"}) \ RELAY_ONLY) \cup {"harness session"}]

\* Beforehand a device is touched: Access of Authenticator.
Forward ==
    /\ stage = "forward"
    /\ stage' = "over"
    /\ answer' = "forwarded"
    /\ upstream' = upstreamHeaders(request)
    /\ UNCHANGED <<privilegedMethods, request, identity>>

Next ==
    \/ RateLimit \/ checkFence \/ ParseUrl \/ classify
    \/ RelayRoutes \/ ScopeWrites \/ Admit \/ Pin \/ Forward

Spec == Init /\ [][Next]_vars

-----------------------------------------------------------------------------
(* What the gates promise together.                                        *)

Served == answer \in {"route", "forwarded"}

\* A name the relay answers to, as this request reached it.
OwnName(name) ==
    \/ name \in LoopbackNames
    \/ Direct(request) /\ name = Alias
    \/ \E d \in relayAuthorities : d.name = name

\* No web page but one at the relay's own authority, under a name the relay
\* was told of, makes it change anything or opens a stream -- neither from
\* another site nor by pointing its own name at the relay's address
\* (src/fence.ts:4-10, src/docs/SECURITY.md:19).
NoForeignWrite ==
    Served /\ Mutates(request) /\ request.page # None =>
        /\ request.page # Opaque
        /\ OwnName(request.page.name)
        /\ HostOf(request.page.name, request.page.port, request.page.scheme)
             = ParsedHost(request.host)

\* Where browsers mark their requests, a page of another site only ever sends
\* a person here: nothing it could read or run is served (src/fence.ts:284-291).
CrossSiteOnlyNavigates ==
    Served /\ request.page # None /\ Foreign(request) /\ Trustworthy(request.url) =>
        request.method \in {"GET", "HEAD"} /\ request.dest \in {None, "document"}

\* The operator and the pages of the relay are not locked out: a request of
\* a person or of a page of the same authority to a name that is declared
\* without a port, or loopback, is never fenced.  TLS on port 80 is apart:
\* there Host and Origin are parsed under different schemes.
OwnPagesPass ==
    (/\ request.url # None /\ request.page \in {None, request.url}
     /\ request.origin # Opaque
     /\ ~(request.url.scheme = "https" /\ request.url.port = DefaultPort["http"])
     /\ \/ request.url.name \in LoopbackNames
        \/ [name |-> request.url.name, port |-> None] \in relayAuthorities)
        => answer # "fenced"

\* The pinned methods are served to this machine only, or to a client that
\* itself proved who it is where the operator allowed that; an address never
\* does (src/privileged.ts, src/auth/index.ts:58-63).
PinnedStaysHome ==
    answer = "forwarded" /\ request.kind = "request" /\ request.path = "pinned" =>
        \/ Direct(request)
        \/ /\ privilegedMethods = "allow-authenticated"
           /\ request.holds \cap {"token", "session"} # {}

\* Over the unencrypted listener nothing is served to a session, and no route
\* of the relay but its liveness (src/server.ts:76-90).
PlainHopIsForDevices ==
    Served /\ request.listener = "compat" =>
        \/ request.kind = "request" /\ request.path = "health"
        \/ identity.credential \in {"loopback", "device", "address-grant"}
=============================================================================
