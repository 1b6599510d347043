-------------------------------- MODULE Pages --------------------------------
(***************************************************************************)
(* A person with a browser in front of the relay's own pages               *)
(* (src/pages/views.ts, src/routes.ts, the dispatch of src/server.ts and   *)
(* the redirect and the links that src/index.ts, src/badge.ts and          *)
(* src/client/RelayCard.tsx put into the harness).                         *)
(*                                                                         *)
(* The browser shows a page or follows a request; each answer of the relay *)
(* is one step and may be a redirect.  Between two steps anything may      *)
(* happen elsewhere: a session ends, a password is set, a code is used,    *)
(* others at the same address make requests.  What overlapping handlers do *)
(* to one another is in module Authenticator, what the fence refuses in    *)
(* module Gate: here a handler is one step and requests are same-origin.   *)
(*                                                                         *)
(* The person is on the machine that runs the harness, behind a reverse    *)
(* proxy on that machine, or elsewhere on the network; or there is nobody, *)
(* and only others make requests.                                          *)
(***************************************************************************)
EXTENDS Throttle, FiniteSets

CONSTANTS
    Local,          \* the loopback address
    Lan,            \* the address of a machine on the network
    Tls,            \* whether the primary listener terminates TLS
    AddressGrants,  \* config.compat.addressGrants
    MaxHops,        \* bound: redirects counted
    Crowded,        \* bound: where others use the loopback address
    Overlapping     \* bound: where guesses of others overlap

ASSUME PagesAssumption ==
    /\ Addresses = {Local, Lan} /\ Local # Lan
    /\ {Tls, AddressGrants} \subseteq BOOLEAN
    /\ MaxHops \in Nat
    /\ Overlapping \subseteq Crowded
    /\ Crowded \subseteq {"nobody", "machine", "tunnel"}

VARIABLES
    place,        \* where the person is
    hasPassword,  \* whether a password is set
    session,      \* whether the browser's cookie is a valid session
    granted,      \* whether a grant admits the browser's address
    code,         \* whether a pairing code is live
    page,         \* what the browser shows
    request,      \* the request it is following, or None
    hops,         \* history: redirects followed for it so far
    calm,         \* history: nothing happened elsewhere since the page was
                  \* shown, or since an address was typed
    wanted,       \* history: the page the sign-in form on show stands in for
    goal          \* history: where the redirect under way is meant to lead

relay   == <<hasPassword, session, granted, code>>
history == <<calm, wanted, goal>>
vars == <<throttle, place, relay, page, request, hops, history>>

-----------------------------------------------------------------------------
(* Values.                                                                 *)

Places == {"nobody", "machine", "tunnel", "network"}
Ports  == {"primary", "compat", "harness"}

HarnessPaths == {"/", "/chat"}
Routes == {"/relay/login", "/relay/logout", "/relay/password", "/relay/pair",
           "/relay/pair/new", "/relay/devices", "/relay/devices/revoke",
           "/relay/signout-everywhere", "/relay/health"}
\* Stands for every relay path without a page, that of a form included.
Unknown == "/relay/unknown"
Paths == HarnessPaths \cup Routes \cup {Unknown}

\* Where a `next` may lead.
NextPaths == {"/", "/chat", "/relay/login"}

\* `next` is that of the query or of the form, "/" where there is none.
Request == [method : {"GET", "POST"}, port : Ports, path : Paths, next : Paths]

Get(port, path, next)  == [method |-> "GET", port |-> port, path |-> path, next |-> next]
Post(port, path, next) == [method |-> "POST", port |-> port, path |-> path, next |-> next]

\* The pages of views.ts ("setup" is the password page before there is one),
\* the harness's own, and answers without a control.
PageNames ==
    {"login", "setup", "password", "pair", "claim", "paired", "devices",
     "message", "harness", "throttled", "bare"}

\* `path` is the path of a harness page, the `next` of a form.
Page == [name : PageNames, port : Ports, path : Paths]

\* undefined is none of the values it stands in for.
ASSUME NoneAssumption == None \notin Request /\ None \notin Paths

TypeOK ==
    /\ ThrottleTypeOK
    /\ place \in Places
    /\ {hasPassword, session, granted, code, calm} \subseteq BOOLEAN
    /\ page \in Page
    /\ request \in Request \cup {None}
    /\ hops \in 0..MaxHops
    /\ {wanted, goal} \subseteq Paths \cup {None}
    /\ session => hasPassword

-----------------------------------------------------------------------------
(* The controls of the pages: every form and link a person can follow.     *)

Link(p, path) == Get(p.port, path, "/")
Form(p, path) == Post(p.port, path, "/")

\* Faulty variant: the form loses the path it was shown for.
loginPageBlank(p) == {Form(p, "/relay/login")}

\* A hidden field of the form carries the path.
loginPage(p) == {Post(p.port, "/relay/login", p.path)}

\* The first one has no link to the devices.
passwordPage(p) ==
    {Post(p.port, "/relay/password", p.path)}
        \cup (IF p.name = "password" THEN {Link(p, "/relay/devices")} ELSE {})

pairPage(p) == {Form(p, "/relay/pair/new"), Link(p, "/relay/devices"), Link(p, "/")}

claimPage(p) == {Form(p, "/relay/pair")}

pairedPage(p) == {Link(p, "/"), Link(p, "/relay/devices")}

devicesPage(p) ==
    {Form(p, path) : path \in
        {"/relay/pair/new", "/relay/devices/revoke", "/relay/signout-everywhere"}}
        \cup {Link(p, "/relay/password"), Link(p, "/")}

messagePage(p) == {Link(p, "/")}

\* The badge in the corner of every harness page.
Badge(p) == {Link(p, "/relay/devices")}

\* The settings card, shown on the machine.
RelayCard(p) == {Link(p, path) : path \in {"/relay/pair", "/relay/devices", "/relay/password"}}

Controls(p) ==
    CASE p.name = "login"    -> loginPage(p)
      [] p.name \in {"setup", "password"} -> passwordPage(p)
      [] p.name = "pair"     -> pairPage(p)
      [] p.name = "claim"    -> claimPage(p)
      [] p.name = "paired"   -> pairedPage(p)
      [] p.name = "devices"  -> devicesPage(p)
      [] p.name = "message"  -> messagePage(p)
      [] p.name = "harness"  -> Badge(p) \cup (IF place = "machine" THEN RelayCard(p) ELSE {})
      [] p.name \in {"throttled", "bare"} -> {}

-----------------------------------------------------------------------------
(* The person.                                                             *)

Settled == request = None

\* The harness listens on loopback; the reverse proxy fronts one listener.
Reaches(port) ==
    CASE place = "machine" -> TRUE
      [] place = "tunnel"  -> port = "primary"
      [] place = "network" -> port # "harness"
      [] place = "nobody"  -> FALSE

Typed ==
    HarnessPaths \cup {"/relay/login", "/relay/password", "/relay/pair",
                      "/relay/devices", "/relay/health", Unknown}

\* A path is typed or bookmarked, or a script calls for a sign-out, which no
\* page has a control for.
Visit ==
    /\ Settled
    /\ \E port \in Ports, path \in Typed, next \in NextPaths :
         /\ Reaches(port)
         /\ next # "/" => path \in {"/relay/login", "/relay/password"}
         /\ request' \in {Get(port, path, next), Post("primary", "/relay/logout", "/")}
    /\ page' = [name |-> "bare", port |-> "primary", path |-> "/"]
    /\ calm' = TRUE
    /\ wanted' = None
    /\ UNCHANGED <<throttle, place, relay, hops, goal>>

\* A control of the page is used; the page stays until the answer is there.
Press ==
    /\ Settled
    /\ \E control \in Controls(page) : request' = control
    /\ UNCHANGED <<throttle, place, relay, page, hops, history>>

-----------------------------------------------------------------------------
(* The request at the relay.                                               *)

Peer == IF place = "network" THEN Lan ELSE Local

\* Faulty variant: the machine's own requests are throttled.
CountedAlways == TRUE

\* A forwarded request is throttled though its peer is loopback.
Counted == place # "machine"

\* Cookies do not tell ports apart; Secure ones stay off the plain listener.
CookieSent == session /\ ~(request.port = "compat" /\ Tls)

Accepted ==
    IF request.port = "compat" THEN {"loopback", "device", "address-grant"}
    ELSE {"loopback", "session", "device", "address-grant"}

\* classify(): identify() downgraded to what the listener accepts.
Identity ==
    LET found == CASE place = "machine" -> "loopback"
                   [] place # "machine" /\ CookieSent -> "session"
                   [] place # "machine" /\ ~CookieSent /\ granted -> "address-grant"
                   [] OTHER -> "none"
    IN  IF found \in Accepted THEN found ELSE "none"

isOperator == Identity \in {"loopback", "session"}
isAuthenticated == Identity # "none"

\* The browser shows the answer.
Show(name, path) ==
    /\ page' = [name |-> name, port |-> request.port, path |-> path]
    /\ request' = None
    /\ hops' = 0
    /\ calm' = TRUE
    /\ wanted' = IF name = "login" THEN wanted ELSE None
    /\ goal' = None

\* The browser follows the answer, on the same listener.
sendRedirect(path, next) ==
    /\ request' = Get(request.port, path, next)
    /\ hops' = IF hops < MaxHops THEN hops + 1 ELSE hops
    /\ UNCHANGED <<page, calm>>

Redirect(path, next) == sendRedirect(path, next) /\ UNCHANGED <<wanted, goal>>

\* 429 before anything else is looked at.
TooMany ==
    /\ ~Settled /\ request.port # "harness"
    /\ Refuse(Peer, Counted)
    /\ Show("throttled", "/")
    /\ UNCHANGED <<place, relay>>

\* A request that is no guess passes the window and is dispatched.
Passed == ~Settled /\ request.port # "harness" /\ Serve(Peer, Counted) /\ UNCHANGED place

\* The liveness probe, on both listeners.
Health ==
    /\ Passed
    /\ request.method = "GET" /\ request.path = "/relay/health"
    /\ Show("bare", "/")
    /\ UNCHANGED relay

\* The compatibility listener serves no other route.
CompatHidesRoutes ==
    /\ Passed
    /\ request.port = "compat"
    /\ request.path \notin HarnessPaths \cup {"/relay/health"}
    /\ Show("bare", "/")
    /\ UNCHANGED relay

\* Anything else is proxied for whoever is authenticated.
Proxied ==
    /\ Passed
    /\ request.path \in HarnessPaths
    /\ isAuthenticated
    /\ Show("harness", request.path)
    /\ UNCHANGED relay

\* A document asked for without a credential: to the sign-in page, and back.
ToSignIn ==
    /\ Passed
    /\ request.path \in HarnessPaths
    /\ ~isAuthenticated /\ request.port = "primary"
    /\ sendRedirect("/relay/login", request.path)
    /\ wanted' = request.path
    /\ UNCHANGED <<relay, goal>>

NotSignedIn ==
    /\ Passed
    /\ request.path \in HarnessPaths
    /\ ~isAuthenticated /\ request.port = "compat"
    /\ Show("message", "/")
    /\ UNCHANGED relay

\* Faulty variant: the redirect names the port it was asked on.
HarnessRedirectsHome ==
    /\ ~Settled
    /\ request.port = "harness" /\ request.path \notin HarnessPaths
    /\ hops' = IF hops < MaxHops THEN hops + 1 ELSE hops
    /\ UNCHANGED <<throttle, place, relay, page, request, history>>

\* The route registered on the harness's own server answers for the whole
\* prefix, and keeps the query.
HarnessRedirects ==
    /\ ~Settled
    /\ request.port = "harness" /\ request.path \notin HarnessPaths
    /\ request' = [request EXCEPT !.port = "primary"]
    /\ hops' = IF hops < MaxHops THEN hops + 1 ELSE hops
    /\ UNCHANGED <<throttle, place, relay, page, history>>

\* The harness itself, without the relay.
HarnessServes ==
    /\ ~Settled
    /\ request.port = "harness" /\ request.path \in HarnessPaths
    /\ Show("harness", request.path)
    /\ UNCHANGED <<throttle, place, relay>>

-----------------------------------------------------------------------------
(* handleRelayRoute().                                                     *)

Asks(method, path) ==
    /\ ~Settled
    /\ request.port = "primary" /\ request.method = method /\ request.path = path

\* A route that is no guess.
Route(method, path) == Passed /\ Asks(method, path)

refuse == Show("message", "/") /\ UNCHANGED relay

\* Faulty variant: whoever is authenticated is sent on, set up or not.
SetupFirstNever == FALSE

\* Setup comes before the redirect.
SetupFirst == ~hasPassword /\ isOperator

\* History: whoever can set the first password is to be shown the form.
GoalAtSignIn == IF place = "machine" /\ ~hasPassword THEN "/relay/password" ELSE goal

LoginPage ==
    /\ Route("GET", "/relay/login")
    /\ UNCHANGED relay
    /\ \/ /\ isAuthenticated
          /\ IF SetupFirst THEN sendRedirect("/relay/password", "/")
                           ELSE sendRedirect(request.next, "/")
          /\ goal' = GoalAtSignIn
          /\ UNCHANGED wanted
       \/ ~isAuthenticated /\ ~hasPassword /\ Show("message", "/")
       \/ ~isAuthenticated /\ hasPassword /\ Show("login", request.next)

\* Faulty variant: the password is a matter for the machine, set or not.
MaySetPasswordHere == Identity = "loopback"

MaySetPassword == IF hasPassword THEN isOperator ELSE Identity = "loopback"

PasswordPageName == IF hasPassword THEN "password" ELSE "setup"

PasswordPage ==
    /\ Route("GET", "/relay/password")
    /\ \/ ~MaySetPassword /\ refuse
       \/ MaySetPassword /\ Show(PasswordPageName, request.next) /\ UNCHANGED relay

\* The password is too short, does not match its repetition, or is set.
PasswordPost ==
    /\ Route("POST", "/relay/password")
    /\ \/ ~MaySetPassword /\ refuse
       \/ MaySetPassword /\ Show(PasswordPageName, request.next) /\ UNCHANGED relay
       \/ /\ MaySetPassword
          /\ hasPassword' = TRUE
          /\ Redirect(request.next, "/")
          /\ UNCHANGED <<session, granted, code>>

\* A guess at the password: nothing to guess, locked out, wrong, right.
LoginPost ==
    /\ Asks("POST", "/relay/login")
    /\ UNCHANGED place
    /\ \/ ~hasPassword /\ Serve(Peer, Counted) /\ refuse
       \/ /\ hasPassword
          /\ GuessLockedOut(Peer, Counted, "password") \/ GuessWrong(Peer, Counted)
          /\ Show("login", request.next)
          /\ UNCHANGED relay
       \/ /\ hasPassword
          /\ GuessRight(Peer, Counted)
          /\ session' = TRUE
          /\ sendRedirect(request.next, "/")
          /\ goal' = wanted
          /\ UNCHANGED <<hasPassword, granted, code, wanted>>

Logout ==
    /\ Route("POST", "/relay/logout")
    /\ session' = FALSE
    /\ Redirect("/relay/login", "/")
    /\ UNCHANGED <<hasPassword, granted, code>>

NewCode ==
    /\ Route("POST", "/relay/pair/new")
    /\ \/ ~isOperator /\ refuse
       \/ /\ isOperator
          /\ code' = TRUE
          /\ Redirect("/relay/pair", "/")
          /\ UNCHANGED <<hasPassword, session, granted>>

\* The operator is shown a code, issued now if none is live; a device the form.
PairPage ==
    /\ Route("GET", "/relay/pair")
    /\ code' = (isOperator \/ code)
    /\ Show(IF isOperator THEN "pair" ELSE "claim", "/")
    /\ UNCHANGED <<hasPassword, session, granted>>

\* A guess at the code.  The one that is right enrols the device, may grant
\* its address, and takes the browser's session away; the code is used up even
\* if the write fails then.
PairPost ==
    /\ Asks("POST", "/relay/pair")
    /\ UNCHANGED place
    /\ \/ /\ GuessLockedOut(Peer, Counted, "code") \/ GuessWrong(Peer, Counted)
          /\ Show("claim", "/")
          /\ UNCHANGED relay
       \/ /\ code
          /\ GuessRight(Peer, Counted)
          /\ code' = FALSE
          /\ session' = FALSE
          /\ granted' = (granted \/ (AddressGrants /\ place = "network"))
          /\ Show("paired", "/")
          /\ UNCHANGED hasPassword
       \/ /\ code
          /\ GuessRight(Peer, Counted)
          /\ code' = FALSE
          /\ Show("bare", "/")
          /\ UNCHANGED <<hasPassword, session, granted>>

DevicesPage ==
    /\ Route("GET", "/relay/devices")
    /\ UNCHANGED relay
    /\ Show(IF isOperator THEN "devices" ELSE "message", "/")

\* Revoking the device behind the grant ends it.
Revoke ==
    /\ Route("POST", "/relay/devices/revoke")
    /\ \/ ~isOperator /\ refuse
       \/ /\ isOperator
          /\ granted' \in {granted, FALSE}
          /\ Redirect("/relay/devices", "/")
          /\ UNCHANGED <<hasPassword, session, code>>

SignOutEverywhere ==
    /\ Route("POST", "/relay/signout-everywhere")
    /\ \/ ~isOperator /\ refuse
       \/ /\ isOperator
          /\ session' = FALSE /\ granted' = FALSE /\ code' = FALSE
          /\ Redirect("/relay/login", "/")
          /\ UNCHANGED hasPassword

\* No such endpoint, or none for this method.
NoSuchRoute ==
    /\ Passed
    /\ request.port = "primary" /\ request.path = Unknown
    /\ refuse

\* The write behind any other form fails: the handler rejects, 500.
WriteFails ==
    /\ Passed
    /\ request.port = "primary" /\ request.method = "POST"
    /\ \/ request.path = "/relay/password" /\ MaySetPassword
       \/ request.path \in {"/relay/devices/revoke", "/relay/signout-everywhere"} /\ isOperator
    /\ Show("bare", "/")
    /\ UNCHANGED relay

-----------------------------------------------------------------------------
(* Everybody else.                                                         *)

\* Another browser of the operator, a device or the clock changes what this
\* browser's requests are worth.  On the machine a cookie adds nothing.
Elsewhere ==
    /\ calm' = FALSE
    /\ \/ ~hasPassword /\ hasPassword' = TRUE /\ UNCHANGED <<session, granted, code>>
       \/ /\ hasPassword /\ place # "machine"
          /\ session' = ~session
          /\ UNCHANGED <<hasPassword, granted, code>>
       \/ /\ AddressGrants /\ place = "network"
          /\ granted' = ~granted
          /\ UNCHANGED <<hasPassword, session, code>>
       \/ code' = ~code /\ UNCHANGED <<hasPassword, session, granted>>
       \/ /\ session' = FALSE /\ granted' = FALSE /\ code' = FALSE
          /\ session \/ granted \/ code
          /\ UNCHANGED hasPassword
    /\ UNCHANGED <<throttle, place, page, request, hops, wanted, goal>>

\* Clients behind the reverse proxy and the programs of the machine share the
\* loopback address, with each other and with the person.
Neighbour ==
    /\ place \in Crowded
    /\ \/ \E counted \in BOOLEAN : Handled(Local, counted)
       \/ \E s \in Slots : Continued(s)
    /\ place \notin Overlapping => UNCHANGED guesses
    /\ UNCHANGED <<place, relay, page, request, hops, history>>

\* A settings edit replaces the relay, or it is restarted: the code and the
\* counters are in memory only.
RelayRestarts ==
    /\ Restart
    /\ code' = FALSE
    /\ calm' = FALSE
    /\ UNCHANGED <<place, hasPassword, session, granted, page, request, hops, wanted, goal>>

TimePasses ==
    /\ Sweep \/ Tick
    /\ UNCHANGED <<place, relay, page, request, hops, history>>

-----------------------------------------------------------------------------
Init ==
    /\ ThrottleInit
    /\ place \in Places
    /\ hasPassword \in BOOLEAN
    /\ session = FALSE /\ granted = FALSE /\ code = FALSE
    /\ page = [name |-> "bare", port |-> "primary", path |-> "/"]
    /\ request = None
    /\ hops = 0
    /\ calm = TRUE
    /\ wanted = None
    /\ goal = None

Person == Visit \/ Press

Dispatch ==
    \/ TooMany \/ Health \/ CompatHidesRoutes
    \/ Proxied \/ ToSignIn \/ NotSignedIn
    \/ HarnessRedirects \/ HarnessServes

handleRelayRoute ==
    \/ LoginPage \/ LoginPost \/ Logout
    \/ PasswordPage \/ PasswordPost
    \/ PairPage \/ NewCode \/ PairPost
    \/ DevicesPage \/ Revoke \/ SignOutEverywhere
    \/ NoSuchRoute \/ WriteFails

Next ==
    \/ Person
    \/ Dispatch
    \/ handleRelayRoute
    \/ Elsewhere
    \/ Neighbour
    \/ RelayRestarts
    \/ TimePasses

Spec == Init /\ [][Next]_vars

-----------------------------------------------------------------------------
(* Properties.                                                             *)

\* The browser has its answer, on a page and in a relay nobody else touched.
Answered == ~Settled /\ Settled' /\ calm

\* Nobody is sent in circles: three redirects lead from any request to a page.
\* Two listeners, the harness's own server and three routes send a browser to
\* each other, by verdicts they take apart.
RedirectsEnd == calm => hops <= 3

\* A redirect leads where it is meant to.  Who was sent to sign in ends where
\* they wanted to be, after any number of tries, the path travelling through a
\* query, a hidden field and two redirects; and "setup comes before the
\* redirect" (src/routes.ts:118-121): the person on the machine who comes to
\* the sign-in page, by a link or after signing out, gets the form for the
\* first password, whatever others do from the same address.
GoalsAreReached ==
    [][Answered =>
         /\ goal \in HarnessPaths =>
              \/ page'.name = "harness" /\ page'.path = goal
              \/ page'.name = "throttled"
         /\ goal = "/relay/password" => page'.name = "setup"]_vars

\* Whose links inside the harness lead to pages for operators.
OperatorsHarness == page.name = "harness" /\ (place = "machine" \/ session)

\* Answers that turn the person away; the one on the machine is not to be
\* asked to sign in, to enrol or to wait either.
TurnsAway ==
    {"message"} \cup (IF place = "machine" THEN {"login", "claim", "throttled"} ELSE {})

\* Who is shown a control may use it: the page and the handler agree about the
\* rules.  The forms and links of the relay's pages are not refused, nor are
\* those inside the harness refused to an operator, whatever the neighbours at
\* an address do.
ControlsWork ==
    [][(/\ Answered
        /\ \/ page.name \in {"login", "setup", "password", "pair", "claim", "devices"}
           \/ OperatorsHarness /\ page.port # "compat")
       => page'.name \notin TurnsAway]_vars
=============================================================================
