----------------------------- MODULE PagesProofs -----------------------------
(***************************************************************************)
(* What the throttle promises, a browser in front of the relay's pages     *)
(* gets: every step of Pages is a step of Throttle or leaves it alone.     *)
(* Redirects end and lead where they are meant to, and what a page offers  *)
(* works, for any limits and any number of neighbours.                     *)
(***************************************************************************)
EXTENDS Pages, ThrottleProofs

LEMMA PeerIs == Peer \in Addresses /\ Counted \in BOOLEAN
BY PagesAssumption DEF Peer, Counted

LEMMA PersonIsNoRequest == Person => UNCHANGED throttle
BY DEF Person, Visit, Press, throttle

LEMMA DispatchIsHandled == Dispatch => ThrottleNext \/ UNCHANGED throttle
<1>1. Passed => Handled(Peer, Counted)
  BY DEF Passed, Handled
<1>2. TooMany => Handled(Peer, Counted)
  BY DEF TooMany, Handled
<1>3. HarnessRedirects \/ HarnessServes => UNCHANGED throttle
  BY DEF HarnessRedirects, HarnessServes
<1>4. Handled(Peer, Counted) => ThrottleNext
  BY PeerIs DEF ThrottleNext
<1> QED BY <1>1, <1>2, <1>3, <1>4
    DEF Dispatch, Health, CompatHidesRoutes, Proxied, ToSignIn, NotSignedIn

LEMMA RouteIsHandled == handleRelayRoute => ThrottleNext
<1>1. Passed => Handled(Peer, Counted)
  BY DEF Passed, Handled
<1>2. LoginPost => Handled(Peer, Counted)
  BY DEF LoginPost, Handled
<1>3. PairPost => Handled(Peer, Counted)
  BY DEF PairPost, Handled
<1>4. Handled(Peer, Counted) => ThrottleNext
  BY PeerIs DEF ThrottleNext
<1> QED BY <1>1, <1>2, <1>3, <1>4
    DEF handleRelayRoute, Route, LoginPage, Logout, PasswordPage, PasswordPost, PairPage,
        NewCode, DevicesPage, Revoke, SignOutEverywhere, NoSuchRoute, WriteFails

LEMMA OthersAreThrottled ==
  Elsewhere \/ Neighbour \/ RelayRestarts \/ TimePasses => ThrottleNext \/ UNCHANGED throttle
<1>1. Elsewhere => UNCHANGED throttle
  BY DEF Elsewhere
<1>2. Neighbour => ThrottleNext
  BY PagesAssumption DEF Neighbour, ThrottleNext
<1>3. RelayRestarts \/ TimePasses => ThrottleNext
  BY DEF RelayRestarts, TimePasses, ThrottleNext
<1> QED BY <1>1, <1>2, <1>3

\* The pages run on the throttle: the requests of the person and of everybody
\* at the same address go through the window and the lockout, whichever route,
\* redirect or refusal answers them (server.ts:163-170).
THEOREM PagesImplementThrottle == Spec => ThrottleSpec
<1>1. Init => ThrottleInit
  BY DEF Init
<1>2. [Next]_vars => [ThrottleNext]_throttle
  <2>1. UNCHANGED vars => UNCHANGED throttle
    BY DEF vars
  <2> QED BY <2>1, PersonIsNoRequest, DispatchIsHandled, RouteIsHandled, OthersAreThrottled
      DEF Next
<1> QED BY <1>1, <1>2, PTL DEF Spec, ThrottleSpec

\* Both limits of an address hold for a person on the pages.
THEOREM PagesKeepLimits == Spec => []LimitsHold
BY PagesImplementThrottle, LimitsAlwaysHold, PTL

\* A person who comes back when the last 429 said is not told to wait again.
THEOREM PagesHonourRetryAfter == Spec => []RetryAfterIsEnough
BY PagesImplementThrottle, RetryAfterHolds, PTL

-----------------------------------------------------------------------------
(* The invariant.                                                          *)

PagesTypes ==
    /\ place \in Places
    /\ hasPassword \in BOOLEAN /\ session \in BOOLEAN /\ granted \in BOOLEAN
    /\ code \in BOOLEAN /\ calm \in BOOLEAN
    /\ page \in Page
    /\ request \in Request \cup {None}
    /\ hops \in 0..MaxHops
    /\ {wanted, goal} \subseteq Paths \cup {None}
    /\ session => hasPassword

\* The relay's own forms are shown by the primary listener, and a `next` is one
\* of the paths it may be.
PathsFit ==
    /\ page.name \in {"login", "setup", "password", "pair", "claim", "devices"} =>
         page.port = "primary" /\ page.path \in NextPaths
    /\ page.port = "harness" => page.name = "harness"
    /\ ~Settled => request.next \in NextPaths

\* Whom the primary listener lets through to the harness, and to the pages of
\* the operator.
Admitted == place = "machine" \/ session \/ granted
Operator == place = "machine" \/ session

\* The redirects that are left at most, if nothing happens elsewhere.
RankAtHome(r, allowed) ==
    CASE r.path \in HarnessPaths -> IF allowed THEN 0 ELSE 1
      [] r.path \notin HarnessPaths /\ r.method = "POST" -> 2
      [] r.path = "/relay/login" /\ r.method = "GET" ->
           IF ~allowed THEN 0 ELSE IF r.next = "/relay/login" THEN 2 ELSE 1
      [] OTHER -> 0

Rank(r, allowed) ==
    CASE r.port = "primary" -> RankAtHome(r, allowed)
      [] r.port = "harness" -> IF r.path \in HarnessPaths THEN 0 ELSE 1 + RankAtHome(r, allowed)
      [] r.port = "compat"  -> 0

HopsFit ==
    /\ Settled => hops = 0
    /\ calm /\ ~Settled => hops + Rank(request, Admitted) <= 3

AtHome(method, path) ==
    ~Settled /\ request.method = method /\ request.port = "primary" /\ request.path = path

\* The path a sign-in form stands in for is in the form, in the request that
\* posts it, and in the redirects before and after.
WantedFits ==
    wanted # None =>
      /\ wanted \in HarnessPaths
      /\ Settled => page.name = "login" /\ page.path = wanted
      /\ ~Settled =>
           /\ request.port = "primary"
           /\ \/ request.path = "/relay/login" /\ request.next = wanted
              \/ request.path = "/relay/password" /\ request.method = "GET"
              \/ request.path = wanted /\ request.method = "GET"

\* A redirect with a goal is at its last request, with what that asks for.
GoalFits ==
    /\ Settled => goal = None
    /\ goal \in HarnessPaths \cup {"/relay/password", None}
    /\ calm /\ goal \in HarnessPaths => AtHome("GET", goal) /\ session /\ hasPassword
    /\ calm /\ goal = "/relay/password" =>
         AtHome("GET", "/relay/password") /\ place = "machine" /\ ~hasPassword

\* Whoever is shown a page is one it is meant for, as long as nothing happens
\* elsewhere; some pages are meant for one place only.
PageFits ==
    /\ page.name = "login" => place # "machine" /\ hasPassword
    /\ page.name = "claim" => place # "machine"
    /\ page.name = "setup" => place = "machine"
    /\ calm /\ Settled /\ page.name = "password" => Operator /\ hasPassword
    /\ calm /\ Settled /\ page.name \in {"pair", "devices"} => Operator

Asking(paths) == request.method = "GET" /\ request.port = "primary" /\ request.path \in paths

\* What a control has started, redirects included, page by page.
LoginFits ==
    \/ AtHome("POST", "/relay/login")
    \/ Asking(NextPaths) /\ Operator /\ hasPassword

SetupFits ==
    \/ AtHome("POST", "/relay/password")
    \/ Asking(NextPaths) /\ hasPassword

PasswordFits ==
    /\ Operator /\ hasPassword
    /\ AtHome("POST", "/relay/password") \/ Asking(NextPaths \cup {"/relay/devices"})

PairFits ==
    /\ Operator
    /\ AtHome("POST", "/relay/pair/new") \/ Asking({"/relay/devices", "/relay/pair", "/"})

DevicesFits ==
    \/ /\ Operator
       /\ \/ AtHome("POST", "/relay/pair/new") \/ AtHome("POST", "/relay/devices/revoke")
          \/ AtHome("POST", "/relay/signout-everywhere")
          \/ Asking({"/relay/devices", "/relay/pair", "/relay/password", "/"})
    \/ /\ AtHome("GET", "/relay/login") /\ request.next = "/"
       /\ place = "machine" \/ (hasPassword /\ ~session /\ ~granted)

HarnessFits ==
    /\ request.method = "GET" /\ request.port # "compat"
    /\ request.path \in {"/relay/devices", "/relay/pair", "/relay/password"}

RequestFits ==
    ~Settled =>
      /\ request.method = "POST" /\ request.path = "/relay/login" => page.name = "login"
      /\ request.method = "POST" /\ request.path = "/relay/pair" => page.name = "claim"
      /\ calm /\ page.name = "login" => LoginFits
      /\ calm /\ page.name = "setup" => SetupFits
      /\ calm /\ page.name = "password" => PasswordFits
      /\ calm /\ page.name = "pair" => PairFits
      /\ calm /\ page.name = "claim" => AtHome("POST", "/relay/pair")
      /\ calm /\ page.name = "devices" => DevicesFits
      /\ calm /\ page.name = "harness" /\ page.port # "compat" => HarnessFits

\* Inductive together: a request follows from the page it was made on, and the
\* goal of a redirect from the form it answers.
PagesInv ==
    /\ PagesTypes
    /\ PathsFit
    /\ HopsFit
    /\ WantedFits
    /\ GoalFits
    /\ PageFits
    /\ RequestFits

-----------------------------------------------------------------------------
(* Lemmas.                                                                 *)

LEMMA Bounds == MaxHops \in Nat
BY PagesAssumption

LEMMA NoneIs == None \notin Request /\ None \notin Paths
BY NoneAssumption

LEMMA AuthenticatedIs ==
  ASSUME PagesTypes, request.port = "primary"
  PROVE  /\ isAuthenticated <=> Admitted
         /\ isOperator <=> Operator
         /\ Identity = "loopback" <=> place = "machine"
BY DEF isAuthenticated, isOperator, Identity, Accepted, CookieSent, Admitted, Operator

\* What the browser holds after an answer, a redirect, a control.
LEMMA ShownIs ==
  ASSUME NEW name, NEW path, Show(name, path)
  PROVE  /\ page' = [name |-> name, port |-> request.port, path |-> path]
         /\ Settled' /\ request' = None /\ hops' = 0 /\ calm' = TRUE
         /\ wanted' = IF name = "login" THEN wanted ELSE None
         /\ goal' = None
BY DEF Show, Settled

LEMMA RedirectedIs ==
  ASSUME PagesTypes, ~Settled, NEW path \in Paths, NEW next \in Paths, sendRedirect(path, next)
  PROVE  /\ request' \in Request /\ ~Settled'
         /\ request'.method = "GET" /\ request'.port = request.port
         /\ request'.path = path /\ request'.next = next
         /\ hops' \in 0..MaxHops /\ hops' <= hops + 1
         /\ UNCHANGED <<page, calm>>
<1>1. request \in Request
  BY DEF PagesTypes, Settled
<1>2. request' = [method |-> "GET", port |-> request.port, path |-> path, next |-> next]
  BY DEF sendRedirect, Get
<1>3. request' \in Request
  BY <1>1, <1>2 DEF Request
<1>4. hops' \in 0..MaxHops /\ hops' <= hops + 1
  BY Bounds DEF sendRedirect, PagesTypes
<1> QED BY <1>2, <1>3, <1>4, NoneIs DEF sendRedirect, Settled

LEMMA ForwardedIs ==
  ASSUME PagesTypes, HarnessRedirects
  PROVE  /\ request' \in Request /\ ~Settled' /\ request.port = "harness"
         /\ request.path \notin HarnessPaths /\ request'.port = "primary"
         /\ request'.method = request.method /\ request'.path = request.path
         /\ request'.next = request.next
         /\ hops' \in 0..MaxHops /\ hops' <= hops + 1
         /\ UNCHANGED <<place, relay, page, history>>
<1>1. request \in Request /\ request' = [request EXCEPT !.port = "primary"]
  BY DEF HarnessRedirects, PagesTypes, Settled
<1>2. /\ request' \in Request /\ request'.port = "primary"
      /\ request'.method = request.method /\ request'.path = request.path
      /\ request'.next = request.next
  BY <1>1 DEF Request, Ports
<1>3. hops' \in 0..MaxHops /\ hops' <= hops + 1
  BY Bounds DEF HarnessRedirects, PagesTypes
<1> QED BY <1>2, <1>3, NoneIs DEF HarnessRedirects, Settled

\* The controls of a page, by the page.
MayPress(control) ==
    /\ page.name = "login" =>
         control.method = "POST" /\ control.path = "/relay/login" /\ control.next = page.path
    /\ page.name # "login" =>
         (control.method = "POST" => control.path \notin {"/relay/login"})
    /\ page.name = "setup" => control.method = "POST" /\ control.path = "/relay/password"
    /\ page.name = "password" =>
         \/ control.method = "POST" /\ control.path = "/relay/password"
         \/ control.method = "GET" /\ control.path = "/relay/devices"
    /\ page.name = "pair" =>
         \/ control.method = "POST" /\ control.path = "/relay/pair/new"
         \/ control.method = "GET" /\ control.path \in {"/relay/devices", "/"}
    /\ page.name = "claim" => control.method = "POST" /\ control.path = "/relay/pair"
    /\ page.name = "devices" =>
         \/ /\ control.method = "POST"
            /\ control.path \in {"/relay/pair/new", "/relay/devices/revoke",
                                 "/relay/signout-everywhere"}
         \/ control.method = "GET" /\ control.path \in {"/relay/password", "/"}
    /\ page.name \in {"paired", "message"} =>
         control.method = "GET" /\ control.path \in {"/relay/devices", "/"}
    /\ page.name = "harness" =>
         /\ control.method = "GET"
         /\ control.path \in {"/relay/pair", "/relay/devices", "/relay/password"}
    /\ page.name \notin {"throttled", "bare"}

LEMMA ControlsAre ==
  ASSUME PagesTypes, PathsFit, NEW control \in Controls(page)
  PROVE  /\ control \in Request /\ control.port = page.port /\ control.next \in NextPaths
         /\ MayPress(control)
<1>1. page \in Page /\ page.name \in PageNames /\ page.port \in Ports /\ page.path \in Paths
  BY DEF PagesTypes, Page
<1>2. /\ "/" \in NextPaths /\ NextPaths \subseteq Paths
      /\ {"/relay/login", "/relay/password", "/relay/pair", "/relay/pair/new", "/relay/devices",
          "/relay/devices/revoke", "/relay/signout-everywhere", "/"} \subseteq Paths
  BY DEF NextPaths, Paths, HarnessPaths, Routes
<1>3. ASSUME NEW method \in {"GET", "POST"}, NEW path \in Paths, NEW next \in NextPaths,
             control = [method |-> method, port |-> page.port, path |-> path, next |-> next]
      PROVE  /\ control \in Request /\ control.port = page.port /\ control.next = next
             /\ control.method = method /\ control.path = path /\ control.next \in NextPaths
  BY <1>1, <1>2, <1>3 DEF Request
<1> USE DEF Link, Form, Get, Post, MayPress
<1>4. CASE page.name = "login"
  <2>1. control \in loginPage(page)
    BY <1>4 DEF Controls
  <2>2. page.path \in NextPaths
    BY <1>4 DEF PathsFit
  <2> QED BY <1>2, <1>3, <1>4, <2>1, <2>2 DEF loginPage
<1>5. CASE page.name \in {"setup", "password"}
  <2>1. control \in passwordPage(page)
    BY <1>5 DEF Controls
  <2>2. page.path \in NextPaths
    BY <1>5 DEF PathsFit
  <2> QED BY <1>2, <1>3, <1>5, <2>1, <2>2 DEF passwordPage
<1>6. CASE page.name = "pair"
  <2>1. control \in pairPage(page)
    BY <1>6 DEF Controls
  <2> QED BY <1>2, <1>3, <1>6, <2>1 DEF pairPage
<1>7. CASE page.name = "claim"
  <2>1. control \in claimPage(page)
    BY <1>7 DEF Controls
  <2> QED BY <1>2, <1>3, <1>7, <2>1 DEF claimPage
<1>8. CASE page.name = "devices"
  <2>1. control \in devicesPage(page)
    BY <1>8 DEF Controls
  <2> QED BY <1>2, <1>3, <1>8, <2>1 DEF devicesPage
<1>9. CASE page.name \in {"paired", "message"}
  <2>1. control \in pairedPage(page) \cup messagePage(page)
    BY <1>9 DEF Controls
  <2> QED BY <1>2, <1>3, <1>9, <2>1 DEF pairedPage, messagePage
<1>10. CASE page.name = "harness"
  <2>1. control \in Badge(page) \cup RelayCard(page)
    BY <1>10 DEF Controls
  <2> QED BY <1>2, <1>3, <1>10, <2>1 DEF Badge, RelayCard
<1>11. CASE page.name \in {"throttled", "bare"}
  <2>1. control \in {}
    BY <1>11 DEF Controls
  <2> QED BY <2>1
<1> QED BY <1>1, <1>4, <1>5, <1>6, <1>7, <1>8, <1>9, <1>10, <1>11 DEF PageNames

-----------------------------------------------------------------------------
(* What a step can be.                                                     *)

\* A person makes a request.
Asked ==
    /\ Settled /\ ~Settled' /\ request' \in Request /\ request'.next \in NextPaths
    /\ UNCHANGED <<place, relay, hops, goal>>
    /\ \/ /\ page' = [name |-> "bare", port |-> "primary", path |-> "/"]
          /\ request'.method = "POST" => request'.path = "/relay/logout"
          /\ calm' = TRUE /\ wanted' = None
       \/ /\ MayPress(request') /\ request'.port = page.port
          /\ UNCHANGED <<page, calm, wanted>>

FormNames == {"login", "setup", "password", "pair", "claim", "devices"}

\* What has to be so for an answer to be the page of that name.
Answer(name, path) ==
    /\ name \in FormNames => request.port = "primary" /\ path \in NextPaths
    /\ request.port = "harness" => name = "harness"
    /\ name = "login" =>
         /\ request.path = "/relay/login" /\ path = request.next
         /\ hasPassword /\ (request.method = "GET" => ~Admitted)
    /\ name = "setup" => place = "machine"
    /\ name = "password" => Operator /\ hasPassword
    /\ name \in {"pair", "devices"} => Operator
    /\ name \in FormNames => UNCHANGED <<hasPassword, session>>
    /\ name = "claim" => ~Operator \/ AtHome("POST", "/relay/pair")
    /\ name = "throttled" => place # "machine"
    /\ name = "message" =>
         \/ request.port = "compat"
         \/ AtHome("GET", "/relay/login") /\ ~Admitted /\ ~hasPassword
         \/ AtHome("POST", "/relay/login") /\ ~hasPassword
         \/ request.path = "/relay/password" /\ (~hasPassword \/ ~Operator) /\ place # "machine"
         \/ /\ request.path \in {"/relay/pair/new", "/relay/devices", "/relay/devices/revoke",
                                 "/relay/signout-everywhere"}
            /\ ~Operator
         \/ request.path = Unknown
    /\ request.port = "primary" /\ request.path \in HarnessPaths =>
         name = "throttled" \/ (name = "harness" /\ path = request.path)
    /\ AtHome("GET", "/relay/password") /\ place = "machine" /\ ~hasPassword => name = "setup"

\* An answer is shown.
Shown ==
    \E name \in PageNames, path \in Paths :
        ~Settled /\ Show(name, path) /\ Answer(name, path)

\* A redirect of the relay: a document asked for without a credential, the
\* sign-in page asked for with one, a form that was accepted.
NotSignedInYet ==
    /\ ~Settled /\ request.port = "primary" /\ request.path \in HarnessPaths /\ ~Admitted
    /\ sendRedirect("/relay/login", request.path)
    /\ wanted' = request.path
    /\ UNCHANGED <<place, relay, goal>>

SignedInAlready ==
    /\ AtHome("GET", "/relay/login") /\ Admitted
    /\ sendRedirect(IF ~hasPassword /\ Operator THEN "/relay/password" ELSE request.next, "/")
    /\ goal' = GoalAtSignIn
    /\ UNCHANGED <<place, relay, wanted>>

Accepting(path, next) ==
    /\ AtHome("POST", path)
    /\ sendRedirect(next, "/")
    /\ UNCHANGED <<place, wanted>>

FormAccepted ==
    \/ /\ Accepting("/relay/login", request.next) /\ goal' = wanted
       /\ hasPassword /\ hasPassword' /\ session'
    \/ /\ Accepting("/relay/password", request.next) /\ UNCHANGED <<session, goal>>
       /\ hasPassword'
    \/ Accepting("/relay/logout", "/relay/login") /\ UNCHANGED <<hasPassword, goal>>
    \/ /\ Accepting("/relay/pair/new", "/relay/pair")
       /\ UNCHANGED <<hasPassword, session, goal>>
    \/ /\ Accepting("/relay/devices/revoke", "/relay/devices")
       /\ UNCHANGED <<hasPassword, session, goal>>
    \/ /\ Accepting("/relay/signout-everywhere", "/relay/login") /\ Operator
       /\ UNCHANGED <<hasPassword, goal>> /\ ~session' /\ ~granted'

Redirected == NotSignedInYet \/ SignedInAlready \/ FormAccepted

\* Somebody else does something, which the browser does not notice.
Unnoticed ==
    /\ UNCHANGED <<place, page, request, hops, wanted, goal>>
    /\ calm' = FALSE \/ UNCHANGED <<relay, calm>>

LEMMA PersonIs ==
  ASSUME PagesTypes, PathsFit, Person PROVE Asked
<1>1. CASE Visit
  <2>1. PICK port \in Ports, path \in Typed, next \in NextPaths :
          request' \in {Get(port, path, next), Post("primary", "/relay/logout", "/")}
    BY <1>1 DEF Visit
  <2>2. /\ Typed \subseteq Paths /\ NextPaths \subseteq Paths /\ "/relay/logout" \in Paths
        /\ "/" \in NextPaths /\ "primary" \in Ports
    BY DEF Typed, NextPaths, Paths, HarnessPaths, Routes, Ports
  <2>3. request' \in Request /\ request'.next \in NextPaths
    BY <2>1, <2>2 DEF Request, Get, Post
  <2>4. request'.method = "POST" => request'.path = "/relay/logout"
    BY <2>1 DEF Get, Post
  <2> QED BY <1>1, <2>3, <2>4, NoneIs DEF Visit, Asked, Settled
<1>2. CASE Press
  <2>1. /\ request' \in Request /\ request'.port = page.port /\ request'.next \in NextPaths
        /\ MayPress(request')
    BY <1>2, ControlsAre DEF Press
  <2> QED BY <1>2, <2>1, NoneIs DEF Press, Asked, Settled, history
<1> QED BY <1>1, <1>2 DEF Person

LEMMA OthersAre ==
  ASSUME Elsewhere \/ Neighbour \/ RelayRestarts \/ TimePasses PROVE Unnoticed
BY DEF Elsewhere, Neighbour, RelayRestarts, TimePasses, Unnoticed, history

LEMMA PathsAre ==
  /\ NextPaths \subseteq Paths /\ HarnessPaths \subseteq NextPaths /\ "/" \in HarnessPaths
  /\ "/relay/login" \in NextPaths /\ "/relay/login" \notin HarnessPaths
  /\ {"/relay/password", "/relay/pair", "/relay/devices"} \subseteq Paths \ HarnessPaths
BY DEF NextPaths, Paths, HarnessPaths, Routes

LEMMA DispatchIs ==
  ASSUME PagesTypes, PathsFit, Dispatch PROVE Shown \/ Redirected \/ HarnessRedirects
<1> USE PathsAre
<1>1. ~Settled => request.port \in Ports /\ request.path \in Paths
  BY DEF PagesTypes, Settled, Request
<1>2. CASE TooMany
  <2>1. place # "machine"
    BY <1>2 DEF TooMany, Refuse, OverRate, Counted
  <2>2. ~Settled /\ request.port # "harness" /\ Show("throttled", "/")
    BY <1>2 DEF TooMany
  <2> QED BY <2>1, <2>2 DEF Shown, Answer, PageNames, FormNames
<1>3. CASE Health \/ CompatHidesRoutes
  <2>1. /\ ~Settled /\ request.port # "harness" /\ Show("bare", "/")
        /\ request.path \notin HarnessPaths
        /\ ~AtHome("GET", "/relay/password")
    BY <1>3 DEF Health, CompatHidesRoutes, Passed, AtHome, HarnessPaths
  <2> QED BY <2>1 DEF Shown, Answer, PageNames, FormNames
<1>4. CASE NotSignedIn
  BY <1>4 DEF NotSignedIn, Passed, Shown, Answer, AtHome, PageNames, FormNames
<1>5. CASE Proxied \/ HarnessServes
  <2>1. ~Settled /\ request.path \in HarnessPaths /\ Show("harness", request.path)
    BY <1>5 DEF Proxied, HarnessServes, Passed
  <2> QED BY <1>1, <2>1 DEF Shown, Answer, AtHome, PageNames, FormNames
<1>6. CASE ToSignIn
  BY <1>6, AuthenticatedIs DEF ToSignIn, Passed, Redirected, NotSignedInYet
<1> QED BY <1>2, <1>3, <1>4, <1>5, <1>6 DEF Dispatch

LEMMA RouteIs ==
  ASSUME PagesTypes, PathsFit, handleRelayRoute PROVE Shown \/ Redirected
<1> USE PathsAre
<1>1. /\ ~Settled /\ request.port = "primary" /\ request.next \in NextPaths
      /\ request.path \notin HarnessPaths
  BY DEF handleRelayRoute, LoginPage, LoginPost, Logout, PasswordPage, PasswordPost,
       PairPage, NewCode, PairPost, DevicesPage, Revoke, SignOutEverywhere, NoSuchRoute,
       WriteFails, Route, Passed, Asks, PathsFit, HarnessPaths, Unknown
<1>2. ASSUME NEW name \in PageNames, NEW path \in NextPaths,
             Show(name, path), Answer(name, path)
      PROVE  Shown
  BY <1>1, <1>2 DEF Shown
<1>3. ASSUME Show("bare", "/"), ~AtHome("GET", "/relay/password") PROVE Shown
  BY <1>1, <1>2, <1>3 DEF Answer, PageNames, FormNames
<1>4. ASSUME Show("message", "/"), ~AtHome("GET", "/relay/password") \/ place # "machine",
             \/ AtHome("GET", "/relay/login") /\ ~Admitted /\ ~hasPassword
             \/ AtHome("POST", "/relay/login") /\ ~hasPassword
             \/ /\ request.path = "/relay/password"
                /\ ~hasPassword \/ ~Operator
                /\ place # "machine"
             \/ /\ request.path \in {"/relay/pair/new", "/relay/devices", "/relay/devices/revoke",
                                     "/relay/signout-everywhere"}
                /\ ~Operator
             \/ request.path = Unknown
      PROVE  Shown
  BY <1>1, <1>2, <1>4 DEF Answer, PageNames, FormNames
<1>5. /\ isAuthenticated <=> Admitted
      /\ isOperator <=> Operator
      /\ Identity = "loopback" <=> place = "machine"
  BY <1>1, AuthenticatedIs
<1>6. MaySetPassword <=> Operator /\ (place = "machine" \/ hasPassword)
  BY <1>5 DEF MaySetPassword, Operator
<1>7. CASE LoginPage
  <2>1. AtHome("GET", "/relay/login") /\ UNCHANGED <<place, relay>>
    BY <1>7 DEF LoginPage, Route, Passed, Asks, AtHome
  <2>2. CASE isAuthenticated
    BY <1>5, <1>7, <2>1, <2>2 DEF LoginPage, SetupFirst, Redirected, SignedInAlready
  <2>3. CASE ~isAuthenticated /\ ~hasPassword
    BY <1>4, <1>5, <1>7, <2>1, <2>3 DEF LoginPage, AtHome
  <2>4. CASE ~isAuthenticated /\ hasPassword
    <3>1. Show("login", request.next)
      BY <1>7, <2>4 DEF LoginPage
    <3>2. Answer("login", request.next)
      BY <1>1, <1>5, <2>1, <2>4 DEF Answer, AtHome, relay
    <3> QED BY <1>1, <1>2, <3>1, <3>2 DEF PageNames
  <2> QED BY <2>2, <2>3, <2>4
<1>8. CASE PasswordPage \/ PasswordPost
  <2>1. request.path = "/relay/password" /\ place' = place
    BY <1>8 DEF PasswordPage, PasswordPost, Route, Passed, Asks
  <2>2. ASSUME ~MaySetPassword, refuse PROVE Shown
    BY <1>4, <1>6, <2>1, <2>2 DEF refuse, Operator
  <2>3. ASSUME MaySetPassword, Show(PasswordPageName, request.next), UNCHANGED relay PROVE Shown
    <3>1. Answer(PasswordPageName, request.next)
      BY <1>1, <1>6, <2>3 DEF Answer, relay, PasswordPageName
    <3> QED BY <1>1, <1>2, <2>3, <3>1 DEF PageNames, PasswordPageName
  <2>4. CASE PasswordPost /\ Redirect(request.next, "/") /\ hasPassword' = TRUE
                          /\ UNCHANGED <<session, granted, code>>
    BY <2>1, <2>4 DEF PasswordPost, Redirect, Route, Asks, Redirected, FormAccepted,
         Accepting, AtHome
  <2> QED BY <1>8, <2>2, <2>3, <2>4 DEF PasswordPage, PasswordPost
<1>9. CASE LoginPost
  <2>1. AtHome("POST", "/relay/login") /\ place' = place
    BY <1>9 DEF LoginPost, Asks, AtHome
  <2>2. CASE ~hasPassword
    BY <1>4, <1>9, <2>1, <2>2 DEF LoginPost, refuse, AtHome
  <2>3. CASE hasPassword /\ Show("login", request.next) /\ UNCHANGED relay
    <3>1. Answer("login", request.next)
      BY <1>1, <2>1, <2>3 DEF Answer, AtHome, relay
    <3> QED BY <1>1, <1>2, <2>3, <3>1 DEF PageNames
  <2>4. CASE /\ hasPassword /\ session' = TRUE /\ sendRedirect(request.next, "/")
             /\ goal' = wanted /\ UNCHANGED <<hasPassword, wanted>>
    BY <2>1, <2>4 DEF Redirected, FormAccepted, Accepting
  <2> QED BY <1>9, <2>2, <2>3, <2>4 DEF LoginPost
<1>10. CASE Logout
  BY <1>10 DEF Logout, Route, Passed, Asks, Redirect, Redirected, FormAccepted,
       Accepting, AtHome
<1>11. CASE NewCode \/ Revoke \/ SignOutEverywhere
  <2>1. ASSUME ~isOperator, refuse PROVE Shown
    <3>1. request.path \in {"/relay/pair/new", "/relay/devices/revoke",
                            "/relay/signout-everywhere"}
      BY <1>11 DEF NewCode, Revoke, SignOutEverywhere, Route, Asks
    <3> QED BY <1>4, <1>5, <2>1, <3>1 DEF refuse, AtHome
  <2>2. CASE NewCode /\ isOperator
    BY <2>2 DEF NewCode, Route, Passed, Asks, Redirect, Redirected, FormAccepted,
         Accepting, AtHome
  <2>3. CASE Revoke /\ isOperator
    BY <2>3 DEF Revoke, Route, Passed, Asks, Redirect, Redirected, FormAccepted,
         Accepting, AtHome
  <2>4. CASE SignOutEverywhere /\ isOperator
    BY <1>5, <2>4 DEF SignOutEverywhere, Route, Passed, Asks, Redirect, Redirected,
         FormAccepted, Accepting, AtHome
  <2> QED BY <1>11, <2>1, <2>2, <2>3, <2>4 DEF NewCode, Revoke, SignOutEverywhere
<1>12. CASE PairPage
  <2>1. /\ AtHome("GET", "/relay/pair") /\ UNCHANGED <<hasPassword, session>>
        /\ Show(IF isOperator THEN "pair" ELSE "claim", "/")
    BY <1>12 DEF PairPage, Route, Asks, AtHome
  <2>2. Answer(IF isOperator THEN "pair" ELSE "claim", "/")
    BY <1>1, <1>5, <2>1 DEF Answer, AtHome, FormNames
  <2> QED BY <1>2, <2>1, <2>2 DEF PageNames
<1>13. CASE PairPost
  <2>1. AtHome("POST", "/relay/pair")
    BY <1>13 DEF PairPost, Asks, AtHome
  <2>2. CASE Show("claim", "/") /\ UNCHANGED relay
    <3>1. Answer("claim", "/")
      BY <1>1, <2>1, <2>2 DEF Answer, AtHome, relay
    <3> QED BY <1>2, <2>2, <3>1 DEF PageNames
  <2>3. CASE Show("paired", "/")
    <3>1. Answer("paired", "/")
      BY <1>1, <2>1 DEF Answer, AtHome, FormNames
    <3> QED BY <1>2, <2>3, <3>1 DEF PageNames
  <2>4. CASE Show("bare", "/")
    BY <1>3, <2>1, <2>4 DEF AtHome
  <2> QED BY <1>13, <2>2, <2>3, <2>4 DEF PairPost
<1>14. CASE DevicesPage
  <2>1. /\ AtHome("GET", "/relay/devices") /\ UNCHANGED relay
        /\ Show(IF isOperator THEN "devices" ELSE "message", "/")
    BY <1>14 DEF DevicesPage, Route, Asks, AtHome
  <2>2. Answer(IF isOperator THEN "devices" ELSE "message", "/")
    BY <1>1, <1>5, <2>1 DEF Answer, AtHome, relay
  <2> QED BY <1>2, <2>1, <2>2 DEF PageNames
<1>15. CASE NoSuchRoute
  BY <1>4, <1>15 DEF NoSuchRoute, refuse, AtHome, Unknown
<1>16. CASE WriteFails
  BY <1>3, <1>16 DEF WriteFails, AtHome
<1> QED BY <1>7, <1>8, <1>9, <1>10, <1>11, <1>12, <1>13, <1>14, <1>15, <1>16
    DEF handleRelayRoute

LEMMA RedirectedTo ==
  ASSUME PagesTypes, PathsFit, Redirected
  PROVE  /\ ~Settled /\ request.port = "primary" /\ request' \in Request /\ ~Settled'
         /\ request'.method = "GET" /\ request'.port = "primary" /\ request'.next \in NextPaths
         /\ hops' \in 0..MaxHops /\ hops' <= hops + 1
         /\ UNCHANGED <<place, page, calm>>
<1> USE PathsAre
<1>1. ~Settled /\ request.port = "primary" /\ request.next \in NextPaths
  BY DEF Redirected, NotSignedInYet, SignedInAlready, FormAccepted, Accepting, AtHome,
       PathsFit
<1>2. PICK path \in Paths, next \in NextPaths : sendRedirect(path, next)
  <2>1. CASE NotSignedInYet
    BY <2>1 DEF NotSignedInYet
  <2>2. CASE SignedInAlready
    BY <1>1, <2>2 DEF SignedInAlready
  <2>3. CASE FormAccepted
    BY <1>1, <2>3 DEF FormAccepted, Accepting
  <2> QED BY <2>1, <2>2, <2>3 DEF Redirected
<1>3. place' = place
  BY DEF Redirected, NotSignedInYet, SignedInAlready, FormAccepted, Accepting
<1> QED BY <1>1, <1>2, <1>3, RedirectedIs

LEMMA StepIs ==
  ASSUME PagesTypes, PathsFit, [Next]_vars
  PROVE  Asked \/ Shown \/ Redirected \/ HarnessRedirects \/ Unnoticed
<1>1. UNCHANGED vars => Unnoticed
  BY DEF vars, history, Unnoticed
<1> QED BY <1>1, PersonIs, OthersAre, DispatchIs, RouteIs DEF Next

LEMMA RelayTyped ==
  ASSUME PagesTypes, PathsFit, [Next]_vars
  PROVE  /\ hasPassword' \in BOOLEAN /\ session' \in BOOLEAN
         /\ granted' \in BOOLEAN /\ code' \in BOOLEAN
<1> USE DEF PagesTypes, relay
<1>1. CASE Person
  BY <1>1, PersonIs DEF Asked
<1>2. CASE Dispatch
  BY <1>2 DEF Dispatch, TooMany, Health, CompatHidesRoutes, Proxied, ToSignIn,
       NotSignedIn, HarnessRedirects, HarnessServes
<1>3. CASE LoginPage \/ LoginPost \/ Logout
  BY <1>3 DEF LoginPage, LoginPost, Logout, refuse
<1>4. CASE PasswordPage \/ PasswordPost
  BY <1>4 DEF PasswordPage, PasswordPost, refuse
<1>5. CASE PairPage \/ NewCode \/ PairPost
  <2>1. PairPage => isOperator \in BOOLEAN
    BY DEF isOperator
  <2> QED BY <1>5, <2>1, PagesAssumption DEF PairPage, NewCode, PairPost, refuse
<1>6. CASE DevicesPage \/ Revoke \/ SignOutEverywhere
  BY <1>6 DEF DevicesPage, Revoke, SignOutEverywhere, refuse
<1>7. CASE NoSuchRoute \/ WriteFails
  BY <1>7 DEF NoSuchRoute, WriteFails, refuse
<1>8. CASE Elsewhere \/ RelayRestarts
  BY <1>8 DEF Elsewhere, RelayRestarts
<1>9. CASE Neighbour \/ TimePasses \/ UNCHANGED vars
  BY <1>9 DEF Neighbour, TimePasses, vars
<1> QED BY <1>1, <1>2, <1>3, <1>4, <1>5, <1>6, <1>7, <1>8, <1>9 DEF Next,
             handleRelayRoute

\* Nobody moves, and a password once set stays.
RelayFits ==
    place' = place /\ (session' => hasPassword') /\ (hasPassword => hasPassword')

LEMMA RelayKeeps ==
  ASSUME PagesTypes, PathsFit, [Next]_vars PROVE RelayFits
<1>1. CASE Person
  <2>1. UNCHANGED <<place, relay>>
    BY <1>1, PersonIs DEF Asked
  <2> QED BY <2>1 DEF relay, PagesTypes, RelayFits
<1> USE DEF PagesTypes, relay, RelayFits
<1>2. CASE Dispatch
  BY <1>2 DEF Dispatch, TooMany, Health, CompatHidesRoutes, Proxied, ToSignIn,
       NotSignedIn, HarnessRedirects, HarnessServes, Passed
<1>3. CASE LoginPage
  BY <1>3 DEF LoginPage, Route, Passed
<1>4. CASE LoginPost
  BY <1>4 DEF LoginPost, refuse
<1>11. CASE Logout
  BY <1>11 DEF Logout, Route, Passed
<1>5. CASE PasswordPage \/ PasswordPost
  BY <1>5 DEF PasswordPage, PasswordPost, Route, Passed, refuse
<1>6. CASE PairPage \/ NewCode \/ PairPost
  BY <1>6 DEF PairPage, NewCode, PairPost, Route, Passed, refuse
<1>7. CASE DevicesPage
  BY <1>7 DEF DevicesPage, Route, Passed
<1>12. CASE Revoke
  <2>1. place' = place /\ UNCHANGED <<hasPassword, session>>
    BY <1>12 DEF Revoke, Route, Passed, refuse
  <2> QED BY <2>1
<1>13. CASE SignOutEverywhere
  <2>1. place' = place /\ UNCHANGED hasPassword /\ (session' = FALSE \/ UNCHANGED session)
    BY <1>13 DEF SignOutEverywhere, Route, Passed, refuse
  <2> QED BY <2>1
<1>8. CASE NoSuchRoute \/ WriteFails
  BY <1>8 DEF NoSuchRoute, WriteFails, Passed, refuse
<1>9. CASE Elsewhere
  <2>1. place' = place
    BY <1>9 DEF Elsewhere
  <2>2. session' => hasPassword'
    BY <1>9 DEF Elsewhere
  <2>3. hasPassword => hasPassword'
    BY <1>9 DEF Elsewhere
  <2> QED BY <2>1, <2>2, <2>3
<1>10. CASE RelayRestarts \/ Neighbour \/ TimePasses \/ UNCHANGED vars
  BY <1>10 DEF RelayRestarts, Neighbour, TimePasses, vars
<1> QED BY <1>1, <1>2, <1>3, <1>4, <1>5, <1>6, <1>7, <1>8, <1>9, <1>10, <1>11, <1>12,
    <1>13 DEF Next, handleRelayRoute

-----------------------------------------------------------------------------
(* Types and paths.                                                        *)

LEMMA GoalsTyped ==
  ASSUME PagesTypes, PathsFit, [Next]_vars
  PROVE  wanted' \in Paths \cup {None} /\ goal' \in Paths \cup {None}
<1>1. wanted \in Paths \cup {None} /\ goal \in Paths \cup {None} /\ "/relay/password" \in Paths
  BY PathsAre DEF PagesTypes
<1>2. ~Settled => request.path \in Paths
  BY DEF PagesTypes, Settled, Request
<1>3. ASSUME NEW name, NEW path, Show(name, path)
      PROVE  wanted' \in Paths \cup {None} /\ goal' \in Paths \cup {None}
  BY <1>1, <1>3, ShownIs
<1>4. CASE Person
  BY <1>1, <1>4, PersonIs DEF Asked
<1>5. CASE Dispatch
  BY <1>1, <1>2, <1>3, <1>5 DEF Dispatch, TooMany, Health, CompatHidesRoutes, Proxied,
       ToSignIn, NotSignedIn, HarnessRedirects, HarnessServes, Passed, history
<1>6. CASE handleRelayRoute
  BY <1>1, <1>3, <1>6
     DEF handleRelayRoute, LoginPage, LoginPost, Logout, PasswordPage, PasswordPost, PairPage,
         NewCode, PairPost, DevicesPage, Revoke, SignOutEverywhere, NoSuchRoute, WriteFails,
         refuse, Redirect, GoalAtSignIn
<1>7. CASE Unnoticed
  BY <1>1, <1>7 DEF Unnoticed
<1> QED BY <1>4, <1>5, <1>6, <1>7, OthersAre DEF Next, Unnoticed, vars, history

LEMMA PagesTypesStep ==
  PagesTypes /\ PathsFit /\ [Next]_vars => PagesTypes'
<1> SUFFICES ASSUME PagesTypes, PathsFit, [Next]_vars PROVE PagesTypes'
  OBVIOUS
<1>1. place' \in Places /\ (session' => hasPassword')
  BY RelayKeeps DEF RelayFits, PagesTypes
<1>2. /\ hasPassword' \in BOOLEAN /\ session' \in BOOLEAN
      /\ granted' \in BOOLEAN /\ code' \in BOOLEAN
  BY RelayTyped
<1>3. /\ calm' \in BOOLEAN /\ page' \in Page
      /\ request' \in Request \cup {None} /\ hops' \in 0..MaxHops
  <2>1. CASE Asked
    <3>1. [name |-> "bare", port |-> "primary", path |-> "/"] \in Page
      BY DEF Page, PageNames, Ports, Paths, HarnessPaths
    <3> QED BY <2>1, <3>1 DEF Asked, PagesTypes
  <2>2. CASE Shown
    <3>1. PICK name \in PageNames, path \in Paths : ~Settled /\ Show(name, path)
      BY <2>2 DEF Shown
    <3>2. request.port \in Ports
      BY <3>1 DEF PagesTypes, Settled, Request
    <3>3. [name |-> name, port |-> request.port, path |-> path] \in Page
      BY <3>1, <3>2 DEF Page
    <3>4. page' \in Page /\ request' = None /\ hops' = 0 /\ calm' = TRUE
      BY <3>1, <3>3, ShownIs
    <3> QED BY <3>4, Bounds
  <2>3. CASE Redirected
    BY <2>3, RedirectedTo DEF PagesTypes
  <2>4. CASE HarnessRedirects
    BY <2>4, ForwardedIs DEF PagesTypes, history
  <2>5. CASE Unnoticed
    BY <2>5 DEF Unnoticed, PagesTypes
  <2> QED BY <2>1, <2>2, <2>3, <2>4, <2>5, StepIs
<1>4. wanted' \in Paths \cup {None} /\ goal' \in Paths \cup {None}
  BY GoalsTyped
<1> QED BY <1>1, <1>2, <1>3, <1>4 DEF PagesTypes

LEMMA PathsStep ==
  PagesTypes /\ PathsFit /\ [Next]_vars => PathsFit'
<1> SUFFICES ASSUME PagesTypes, PathsFit, [Next]_vars PROVE PathsFit'
  OBVIOUS
<1>1. CASE Asked
  BY <1>1 DEF Asked, PathsFit
<1>2. CASE Shown
  <2>1. PICK name \in PageNames, path \in Paths :
          /\ Show(name, path)
          /\ name \in {"login", "setup", "password", "pair", "claim", "devices"} =>
               request.port = "primary" /\ path \in NextPaths
          /\ request.port = "harness" => name = "harness"
    BY <1>2 DEF Shown, Answer, FormNames
  <2>3. page' = [name |-> name, port |-> request.port, path |-> path] /\ Settled'
    BY <2>1, ShownIs
  <2>2. page'.name = name /\ page'.port = request.port /\ page'.path = path /\ Settled'
    BY <2>3
  <2> QED BY <2>1, <2>2 DEF PathsFit
<1>3. CASE Redirected
  BY <1>3, RedirectedTo DEF PathsFit
<1>4. CASE HarnessRedirects
  <2>1. request'.next = request.next /\ ~Settled /\ UNCHANGED page
    BY <1>4, ForwardedIs DEF HarnessRedirects
  <2> QED BY <2>1 DEF PathsFit
<1>5. CASE Unnoticed
  BY <1>5 DEF Unnoticed, PathsFit, Settled
<1> QED BY <1>1, <1>2, <1>3, <1>4, <1>5, StepIs

-----------------------------------------------------------------------------
(* Redirects end.                                                          *)

LEMMA RankIs ==
  ASSUME NEW r \in Request, NEW allowed \in BOOLEAN
  PROVE  /\ Rank(r, allowed) \in 0..3
         /\ r.port = "primary" => Rank(r, allowed) = RankAtHome(r, allowed)
         /\ RankAtHome(r, allowed) \in 0..2
         /\ r.method = "GET" /\ r.next = "/" => RankAtHome(r, allowed) <= 1
<1>1. r.port \in {"primary", "compat", "harness"} /\ r.method \in {"GET", "POST"}
  BY DEF Request, Ports
<1>2. RankAtHome(r, allowed) \in 0..2
  BY DEF RankAtHome
<1>3. r.method = "GET" /\ r.next = "/" => RankAtHome(r, allowed) <= 1
  BY DEF RankAtHome
<1> QED BY <1>1, <1>2, <1>3 DEF Rank

LEMMA HopsStep ==
  PagesTypes /\ PathsFit /\ HopsFit /\ [Next]_vars => HopsFit'
<1> SUFFICES ASSUME PagesTypes, PathsFit, HopsFit, [Next]_vars PROVE HopsFit'
  OBVIOUS
<1>1. hops \in Nat /\ hops' \in Nat /\ PagesTypes'
  BY PagesTypesStep, Bounds DEF PagesTypes
<1>2. Admitted \in BOOLEAN /\ Admitted' \in BOOLEAN
  BY <1>1 DEF PagesTypes, Admitted
<1>3. ~Settled => request \in Request
  BY DEF PagesTypes, Settled
<1>4. CASE Asked
  <2>1. hops' = 0 /\ ~Settled' /\ request' \in Request
    BY <1>4 DEF Asked, HopsFit
  <2>2. Rank(request', Admitted') \in 0..3
    BY <1>2, <2>1, RankIs
  <2> QED BY <2>1, <2>2 DEF HopsFit
<1>5. CASE Shown
  BY <1>5, ShownIs DEF Shown, HopsFit
<1>6. CASE Redirected
  <2>1. /\ ~Settled /\ request.port = "primary" /\ request' \in Request /\ ~Settled'
        /\ request'.method = "GET" /\ request'.port = "primary"
        /\ hops' <= hops + 1 /\ UNCHANGED <<place, calm>>
    BY <1>6, RedirectedTo
  <2>2. calm => hops + RankAtHome(request, Admitted) <= 3
    BY <1>2, <1>3, <2>1, RankIs DEF HopsFit
  <2>3. RankAtHome(request', Admitted') + 1 <= RankAtHome(request, Admitted)
    <3>1. CASE NotSignedInYet
      <4>1. RankAtHome(request, Admitted) = 1
        BY <3>1, PathsAre DEF NotSignedInYet, RankAtHome
      <4>2. request'.path = "/relay/login" /\ ~Admitted'
        BY <2>1, <3>1 DEF NotSignedInYet, sendRedirect, Get, Admitted, relay
      <4> QED BY <2>1, <4>1, <4>2, PathsAre DEF RankAtHome
    <3>2. CASE SignedInAlready
      <4>1. /\ request.path = "/relay/login" /\ request.method = "GET"
            /\ Admitted /\ Admitted' /\ request.next \in NextPaths
        BY <3>2 DEF SignedInAlready, AtHome, Admitted, relay, PathsFit
      <4>2. /\ RankAtHome(request, Admitted) = IF request.next = "/relay/login" THEN 2 ELSE 1
        BY <4>1, PathsAre DEF RankAtHome
      <4>3. request'.path \in {"/relay/password", request.next} /\ request'.next = "/"
        BY <3>2 DEF SignedInAlready, sendRedirect, Get
      <4>4. RankAtHome(request', Admitted') = IF request'.path = "/relay/login" THEN 1 ELSE 0
        <5>1. request'.path \in HarnessPaths \cup {"/relay/password", "/relay/login"}
          BY <4>1, <4>3 DEF NextPaths, HarnessPaths
        <5> QED BY <2>1, <4>1, <4>3, <5>1, PathsAre DEF RankAtHome
      <4> QED BY <4>2, <4>3, <4>4
    <3>3. CASE FormAccepted
      <4>1. /\ request.method = "POST" /\ request.path \notin HarnessPaths
            /\ request'.next = "/"
        BY <3>3 DEF FormAccepted, Accepting, AtHome, HarnessPaths, sendRedirect, Get
      <4>2. RankAtHome(request, Admitted) = 2
        BY <4>1 DEF RankAtHome
      <4>3. RankAtHome(request', Admitted') \in 0..2 /\ RankAtHome(request', Admitted') <= 1
        BY <1>2, <2>1, <4>1, RankIs
      <4> QED BY <4>2, <4>3
    <3> QED BY <1>6, <3>1, <3>2, <3>3 DEF Redirected
  <2>4. RankAtHome(request, Admitted) \in Nat /\ RankAtHome(request', Admitted') \in Nat
    BY <1>2, <1>3, <2>1, RankIs
  <2>5. Rank(request', Admitted') = RankAtHome(request', Admitted')
    BY <1>2, <2>1, RankIs
  <2> QED BY <1>1, <2>1, <2>2, <2>3, <2>4, <2>5 DEF HopsFit
<1>7. CASE HarnessRedirects
  <2>1. /\ ~Settled /\ request' \in Request /\ ~Settled' /\ request.port = "harness"
        /\ request.path \notin HarnessPaths /\ request'.port = "primary"
        /\ request'.method = request.method /\ request'.path = request.path
        /\ request'.next = request.next /\ hops' <= hops + 1
        /\ UNCHANGED <<place, session, granted, calm>>
    BY <1>7, ForwardedIs DEF relay, history, HarnessRedirects
  <2>2. Admitted' = Admitted
    BY <2>1 DEF Admitted
  <2>3. RankAtHome(request', Admitted') = RankAtHome(request, Admitted)
    BY <2>1, <2>2 DEF RankAtHome
  <2>4. Rank(request, Admitted) = 1 + RankAtHome(request, Admitted)
    BY <2>1 DEF Rank
  <2>5. Rank(request', Admitted') = RankAtHome(request', Admitted')
    BY <2>1 DEF Rank
  <2>6. RankAtHome(request, Admitted) \in Nat
    BY <1>2, <1>3, <2>1, RankIs
  <2> QED BY <1>1, <2>1, <2>3, <2>4, <2>5, <2>6 DEF HopsFit
<1>8. CASE Unnoticed
  <2>1. CASE calm' = FALSE
    BY <1>8, <2>1 DEF Unnoticed, HopsFit, Settled
  <2>2. CASE UNCHANGED <<relay, calm>>
    BY <1>8, <2>2 DEF Unnoticed, HopsFit, Settled, relay, Admitted
  <2> QED BY <1>8, <2>1, <2>2 DEF Unnoticed
<1> QED BY <1>4, <1>5, <1>6, <1>7, <1>8, StepIs

-----------------------------------------------------------------------------
(* Goals.                                                                  *)

LEMMA WantedStep ==
  PagesTypes /\ PathsFit /\ WantedFits /\ [Next]_vars => WantedFits'
<1> SUFFICES ASSUME PagesTypes, PathsFit, WantedFits, [Next]_vars, wanted' # None
             PROVE  WantedFits'
  BY DEF WantedFits
<1>1. CASE Asked
  BY <1>1 DEF Asked, MayPress, WantedFits, PathsFit
<1>2. CASE Shown
  <2>1. PICK name \in PageNames, path \in Paths : ~Settled /\ Show(name, path) /\ Answer(name, path)
    BY <1>2 DEF Shown
  <2>2. /\ page' = [name |-> name, port |-> request.port, path |-> path] /\ Settled'
        /\ wanted' = IF name = "login" THEN wanted ELSE None
    BY <2>1, ShownIs
  <2>3. name = "login" /\ wanted' = wanted
    BY <2>2
  <2>4. request.path = "/relay/login" /\ path = request.next
    BY <2>1, <2>3 DEF Answer
  <2>5. wanted \in HarnessPaths /\ request.next = wanted
    BY <2>1, <2>3, <2>4, PathsAre DEF WantedFits
  <2> QED BY <2>2, <2>3, <2>4, <2>5 DEF WantedFits
<1>3. CASE Redirected
  <2>1. /\ ~Settled /\ ~Settled' /\ request'.method = "GET" /\ request'.port = "primary"
    BY <1>3, RedirectedTo
  <2>2. CASE NotSignedInYet
    BY <2>1, <2>2 DEF NotSignedInYet, sendRedirect, Get, WantedFits
  <2>3. CASE SignedInAlready
    BY <2>1, <2>3, PathsAre DEF SignedInAlready, AtHome, sendRedirect, Get, WantedFits
  <2>4. CASE FormAccepted
    <3>1. request.method = "POST" /\ wanted' = wanted
      BY <2>4 DEF FormAccepted, Accepting, AtHome
    <3>2. request.path = "/relay/login" /\ request.next = wanted /\ wanted \in HarnessPaths
      BY <2>1, <3>1 DEF WantedFits
    <3>3. request'.path = wanted
      BY <2>4, <3>2 DEF FormAccepted, Accepting, AtHome, sendRedirect, Get
    <3> QED BY <2>1, <3>1, <3>2, <3>3 DEF WantedFits
  <2> QED BY <1>3, <2>2, <2>3, <2>4 DEF Redirected
<1>4. CASE HarnessRedirects
  BY <1>4, ForwardedIs DEF HarnessRedirects, history, WantedFits
<1>5. CASE Unnoticed
  BY <1>5 DEF Unnoticed, WantedFits, Settled
<1> QED BY <1>1, <1>2, <1>3, <1>4, <1>5, StepIs

LEMMA GoalStep ==
  PagesTypes /\ PathsFit /\ WantedFits /\ GoalFits /\ [Next]_vars => GoalFits'
<1> SUFFICES ASSUME PagesTypes, PathsFit, WantedFits, GoalFits, [Next]_vars PROVE GoalFits'
  OBVIOUS
<1>1. None \notin HarnessPaths \cup {"/relay/password"}
  BY NoneIs, PathsAre
<1>2. CASE Asked
  BY <1>1, <1>2 DEF Asked, GoalFits
<1>3. CASE Shown
  BY <1>1, <1>3, ShownIs DEF Shown, GoalFits
<1>4. CASE Redirected
  <2>1. /\ ~Settled /\ ~Settled' /\ request'.method = "GET" /\ request'.port = "primary"
        /\ UNCHANGED <<place, calm>>
    BY <1>4, RedirectedTo
  <2>2. CASE NotSignedInYet
    <3>1. calm => goal = None
      BY <2>2, PathsAre DEF NotSignedInYet, GoalFits, Admitted
    <3> QED BY <1>1, <2>1, <2>2, <3>1 DEF NotSignedInYet, GoalFits
  <2>3. CASE SignedInAlready
    <3>1. calm => goal = None
      BY <2>3, PathsAre DEF SignedInAlready, GoalFits, AtHome
    <3>2. CASE place = "machine" /\ ~hasPassword
      <4>1. /\ goal' = "/relay/password" /\ request'.path = "/relay/password"
            /\ UNCHANGED <<place, hasPassword>>
        BY <2>3, <3>2 DEF SignedInAlready, GoalAtSignIn, Operator, sendRedirect, Get,
             relay
      <4> QED BY <2>1, <3>2, <4>1, PathsAre DEF GoalFits, AtHome
    <3>3. CASE ~(place = "machine" /\ ~hasPassword)
      <4>1. goal' = goal
        BY <2>3, <3>3 DEF SignedInAlready, GoalAtSignIn
      <4> QED BY <1>1, <2>1, <3>1, <4>1 DEF GoalFits
    <3> QED BY <3>2, <3>3
  <2>4. CASE FormAccepted
    <3>1. calm => goal = None
      BY <2>4 DEF FormAccepted, Accepting, GoalFits, AtHome
    <3>2. CASE goal' = goal
      BY <1>1, <2>1, <3>1, <3>2 DEF GoalFits
    <3>3. CASE goal' # goal
      <4>1. /\ request.path = "/relay/login" /\ request.method = "POST" /\ goal' = wanted
            /\ hasPassword' /\ session' /\ request'.path = request.next
        BY <2>4, <3>3 DEF FormAccepted, Accepting, AtHome, sendRedirect, Get
      <4>2. wanted # None => wanted \in HarnessPaths /\ request.next = wanted
        BY <2>1, <4>1 DEF WantedFits
      <4> QED BY <1>1, <2>1, <4>1, <4>2, PathsAre DEF GoalFits, AtHome
    <3> QED BY <3>2, <3>3
  <2> QED BY <1>4, <2>2, <2>3, <2>4 DEF Redirected
<1>5. CASE HarnessRedirects
  <2>1. request.port = "harness" /\ ~Settled' /\ UNCHANGED <<goal, calm>>
    BY <1>5, ForwardedIs DEF history
  <2>2. calm => goal = None
    BY <2>1 DEF GoalFits, AtHome
  <2> QED BY <1>1, <2>1, <2>2 DEF GoalFits
<1>6. CASE Unnoticed
  <2>1. CASE calm' = FALSE
    BY <1>6, <2>1 DEF Unnoticed, GoalFits, Settled
  <2>2. CASE UNCHANGED <<relay, calm>>
    BY <1>6, <2>2 DEF Unnoticed, GoalFits, Settled, relay, AtHome
  <2> QED BY <1>6, <2>1, <2>2 DEF Unnoticed
<1> QED BY <1>2, <1>3, <1>4, <1>5, <1>6, StepIs

-----------------------------------------------------------------------------
(* Pages, and the requests made on them.                                   *)

LEMMA PageStep ==
  PagesTypes /\ PathsFit /\ PageFits /\ RequestFits /\ [Next]_vars => PageFits'
<1> SUFFICES ASSUME PagesTypes, PathsFit, PageFits, RequestFits, [Next]_vars PROVE PageFits'
  OBVIOUS
<1>1. place' = place /\ (hasPassword => hasPassword')
  BY RelayKeeps DEF RelayFits
<1>2. CASE Asked
  BY <1>1, <1>2 DEF Asked, PageFits
<1>3. CASE Shown
  <2>1. PICK name \in PageNames, path \in Paths : ~Settled /\ Show(name, path) /\ Answer(name, path)
    BY <1>3 DEF Shown
  <2>2. page'.name = name
    <3>1. page' = [name |-> name, port |-> request.port, path |-> path]
      BY <2>1, ShownIs
    <3> QED BY <3>1
  <2>3. name = "login" => place # "machine" /\ hasPassword
    BY <2>1 DEF Answer, RequestFits, PageFits, PagesTypes, Settled, Request, Admitted
  <2>4. name = "claim" => place # "machine"
    BY <2>1 DEF Answer, RequestFits, PageFits, AtHome, Operator
  <2>5. name = "setup" => place = "machine"
    BY <2>1 DEF Answer
  <2>6. name \in {"password", "pair", "devices"} => Operator /\ UNCHANGED <<hasPassword, session>>
    BY <2>1 DEF Answer, FormNames
  <2>7. name = "password" => hasPassword
    BY <2>1 DEF Answer
  <2> QED BY <1>1, <2>2, <2>3, <2>4, <2>5, <2>6, <2>7 DEF PageFits, Operator
<1>4. CASE Redirected
  BY <1>1, <1>4, RedirectedTo DEF PageFits
<1>5. CASE HarnessRedirects
  BY <1>1, <1>5, ForwardedIs DEF PageFits
<1>6. CASE Unnoticed
  <2>1. CASE calm' = FALSE
    BY <1>1, <1>6, <2>1 DEF Unnoticed, PageFits
  <2>2. CASE UNCHANGED <<relay, calm>>
    BY <1>6, <2>2 DEF Unnoticed, PageFits, Settled, relay, Operator
  <2> QED BY <1>6, <2>1, <2>2 DEF Unnoticed
<1> QED BY <1>2, <1>3, <1>4, <1>5, <1>6, StepIs

\* A control is pressed on a page that nobody has outdated.
LEMMA RequestAsked ==
  ASSUME PagesTypes, PathsFit, PageFits, Asked PROVE RequestFits'
<1>1. CASE /\ page' = [name |-> "bare", port |-> "primary", path |-> "/"]
           /\ request'.method = "POST" => request'.path = "/relay/logout"
  <2>1. page'.name = "bare"
    BY <1>1
  <2> QED BY <1>1, <2>1 DEF RequestFits
<1>2. ASSUME MayPress(request'), request'.port = page.port, UNCHANGED <<page, calm>>
      PROVE  RequestFits'
  <2>1. /\ Settled /\ ~Settled' /\ UNCHANGED <<place, relay>> /\ page.name \in PageNames
        /\ page.port \in Ports
    BY DEF Asked, PagesTypes, Page
  <2>2. /\ Operator' = Operator /\ hasPassword' = hasPassword
    BY <2>1 DEF Operator, relay
  <2>3. page.name \in FormNames => request'.port = "primary"
    BY <1>2 DEF PathsFit, FormNames
  <2>4. request'.method = "POST" /\ request'.path \in {"/relay/login"} => page.name = "login"
    BY <1>2 DEF MayPress
  <2>5. request'.method = "POST" /\ request'.path = "/relay/pair" => page.name = "claim"
    BY <1>2, <2>1 DEF MayPress, PageNames
  <2>6. page.name = "login" => LoginFits'
    BY <1>2, <2>1, <2>3 DEF MayPress, LoginFits, AtHome, FormNames
  <2>7. page.name = "setup" => SetupFits'
    BY <1>2, <2>1, <2>3 DEF MayPress, SetupFits, AtHome, FormNames
  <2>8. calm /\ page.name = "password" => PasswordFits'
    BY <1>2, <2>1, <2>2, <2>3
       DEF MayPress, PasswordFits, AtHome, Asking, FormNames, PageFits, NextPaths
  <2>9. calm /\ page.name = "pair" => PairFits'
    BY <1>2, <2>1, <2>2, <2>3 DEF MayPress, PairFits, AtHome, Asking, FormNames,
         PageFits
  <2>10. page.name = "claim" => AtHome("POST", "/relay/pair")'
    BY <1>2, <2>1, <2>3 DEF MayPress, AtHome, FormNames
  <2>11. calm /\ page.name = "devices" => DevicesFits'
    BY <1>2, <2>1, <2>2, <2>3 DEF MayPress, DevicesFits, AtHome, Asking, FormNames,
         PageFits
  <2>12. page.name = "harness" /\ page.port # "compat" => HarnessFits'
    BY <1>2 DEF MayPress, HarnessFits
  <2> QED BY <1>2, <2>4, <2>5, <2>6, <2>7, <2>8, <2>9, <2>10, <2>11, <2>12
             DEF RequestFits
<1> QED BY <1>1, <1>2 DEF Asked

\* A request is redirected.
LEMMA RequestRedirected ==
  ASSUME PagesTypes, PathsFit, PageFits, RequestFits, RelayFits, Redirected PROVE RequestFits'
<1>1. /\ ~Settled /\ ~Settled' /\ request'.method = "GET" /\ request'.port = "primary"
      /\ request.port = "primary" /\ request.next \in NextPaths
      /\ UNCHANGED <<place, page, calm>>
  BY RedirectedTo DEF PathsFit
<1>2. CASE NotSignedInYet
  <2>1. request.path \in HarnessPaths /\ ~Operator /\ request.path # "/relay/login"
        /\ request.path \notin {"/relay/devices", "/relay/pair", "/relay/password",
                "/relay/pair/new", "/relay/devices/revoke", "/relay/signout-everywhere"}
    BY <1>2, PathsAre DEF NotSignedInYet, Admitted, Operator, HarnessPaths
  <2>2. page.name = "setup" => Operator
    BY DEF PageFits, Operator
  <2>3. ~calm \/ page.name \notin {"login", "setup", "password", "pair", "claim", "devices"}
    BY <1>1, <2>1, <2>2 DEF RequestFits, LoginFits, PasswordFits, PairFits, DevicesFits,
         AtHome
  <2>4. ~calm \/ page.name # "harness" \/ page.port = "compat"
    BY <1>1, <2>1 DEF RequestFits, HarnessFits
  <2> QED BY <1>1, <2>3, <2>4 DEF RequestFits
<1>3. CASE SignedInAlready
  <2>1. /\ AtHome("GET", "/relay/login") /\ Admitted /\ UNCHANGED <<place, relay>>
        /\ request'.path = IF ~hasPassword /\ Operator THEN "/relay/password" ELSE request.next
        /\ Operator' = Operator
    BY <1>3 DEF SignedInAlready, sendRedirect, Get, Operator, relay
  <2>2. ~calm \/ page.name # "login" \/ LoginFits'
    BY <1>1, <2>1, PathsAre DEF RequestFits, LoginFits, AtHome, Asking, relay
  <2>3. ~calm \/ page.name # "setup" \/ SetupFits'
    BY <1>1, <2>1, PathsAre DEF RequestFits, SetupFits, AtHome, Asking, relay
  <2>4. ~calm \/ page.name # "password" \/ PasswordFits'
    BY <1>1, <2>1, PathsAre DEF RequestFits, PasswordFits, Asking, relay
  <2>5. ~calm \/ page.name \notin {"pair", "claim"}
    BY <1>1, <2>1, PathsAre DEF RequestFits, PairFits, AtHome, Asking
  <2>6. ~calm \/ page.name # "devices" \/ DevicesFits'
    <3>1. SUFFICES ASSUME calm, page.name = "devices" PROVE DevicesFits'
      OBVIOUS
    <3>2. place = "machine" /\ request.next = "/"
      BY <1>1, <2>1, <3>1 DEF RequestFits, DevicesFits, AtHome, Asking, Admitted
    <3>3. Operator' /\ request'.path \in {"/relay/password", "/"}
      BY <2>1, <3>2 DEF Operator
    <3> QED BY <1>1, <3>3 DEF DevicesFits, Asking
  <2>7. ~calm \/ page.name # "harness" \/ page.port = "compat"
    BY <1>1, <2>1 DEF RequestFits, HarnessFits, AtHome
  <2> QED BY <1>1, <2>2, <2>3, <2>4, <2>5, <2>6, <2>7 DEF RequestFits
<1>4. CASE FormAccepted
  <2>1. request.method = "POST"
    BY <1>4 DEF FormAccepted, Accepting, AtHome
  <2>2. ~calm \/ page.name # "login" \/ LoginFits'
    <3>1. SUFFICES ASSUME calm, page.name = "login" PROVE LoginFits'
      OBVIOUS
    <3>2. request.path = "/relay/login"
      BY <1>1, <2>1, <3>1 DEF RequestFits, LoginFits, AtHome, Asking
    <3>3. request'.path = request.next /\ session' /\ hasPassword'
      BY <1>4, <3>2 DEF FormAccepted, Accepting, AtHome, sendRedirect, Get
    <3> QED BY <1>1, <3>3 DEF LoginFits, Asking, Operator
  <2>3. ~calm \/ page.name # "setup" \/ SetupFits'
    <3>1. SUFFICES ASSUME calm, page.name = "setup" PROVE SetupFits'
      OBVIOUS
    <3>2. request.path = "/relay/password"
      BY <1>1, <2>1, <3>1 DEF RequestFits, SetupFits, AtHome, Asking
    <3>3. request'.path = request.next /\ hasPassword'
      BY <1>4, <3>2 DEF FormAccepted, Accepting, AtHome, sendRedirect, Get
    <3> QED BY <1>1, <3>3 DEF SetupFits, Asking
  <2>4. ~calm \/ page.name # "password" \/ PasswordFits'
    <3>1. SUFFICES ASSUME calm, page.name = "password" PROVE PasswordFits'
      OBVIOUS
    <3>2. request.path = "/relay/password" /\ Operator /\ hasPassword
      BY <1>1, <2>1, <3>1 DEF RequestFits, PasswordFits, AtHome, Asking
    <3>3. request'.path = request.next /\ hasPassword' /\ session' = session
      BY <1>4, <3>2 DEF FormAccepted, Accepting, AtHome, sendRedirect, Get
    <3>4. Operator'
      BY <1>1, <3>2, <3>3 DEF Operator
    <3> QED BY <1>1, <3>3, <3>4 DEF PasswordFits, Asking
  <2>5. ~calm \/ page.name # "pair" \/ PairFits'
    <3>1. SUFFICES ASSUME calm, page.name = "pair" PROVE PairFits'
      OBVIOUS
    <3>2. request.path = "/relay/pair/new" /\ Operator
      BY <1>1, <2>1, <3>1 DEF RequestFits, PairFits, AtHome, Asking
    <3>3. request'.path = "/relay/pair" /\ session' = session
      BY <1>4, <3>2 DEF FormAccepted, Accepting, AtHome, sendRedirect, Get
    <3>4. Operator'
      BY <1>1, <3>2, <3>3 DEF Operator
    <3> QED BY <1>1, <3>3, <3>4 DEF PairFits, Asking
  <2>6. ~calm \/ page.name # "claim"
    BY <1>1, <1>4 DEF RequestFits, AtHome, FormAccepted, Accepting
  <2>7. ~calm \/ page.name # "devices" \/ DevicesFits'
    <3>1. SUFFICES ASSUME calm, page.name = "devices" PROVE DevicesFits'
      OBVIOUS
    <3>2. /\ Operator
          /\ request.path \in {"/relay/pair/new", "/relay/devices/revoke",
                               "/relay/signout-everywhere"}
      BY <1>1, <2>1, <3>1 DEF RequestFits, DevicesFits, AtHome, Asking
    <3>3. CASE request.path \in {"/relay/pair/new", "/relay/devices/revoke"}
      <4>1. request'.path \in {"/relay/pair", "/relay/devices"} /\ session' = session
        BY <1>4, <3>3 DEF FormAccepted, Accepting, AtHome, sendRedirect, Get
      <4>2. Operator'
        BY <1>1, <3>2, <4>1 DEF Operator
      <4> QED BY <1>1, <4>1, <4>2 DEF DevicesFits, Asking
    <3>4. CASE request.path = "/relay/signout-everywhere"
      <4>1. /\ request'.path = "/relay/login" /\ request'.next = "/"
            /\ hasPassword' = hasPassword /\ ~session' /\ ~granted'
        BY <1>4, <3>4 DEF FormAccepted, Accepting, AtHome, sendRedirect, Get
      <4>2. place = "machine" \/ hasPassword
        BY <3>2 DEF Operator, PagesTypes
      <4> QED BY <1>1, <4>1, <4>2 DEF DevicesFits, AtHome
    <3> QED BY <3>2, <3>3, <3>4
  <2>8. ~calm \/ page.name # "harness" \/ page.port = "compat"
    BY <1>1, <2>1 DEF RequestFits, HarnessFits
  <2> QED BY <1>1, <2>2, <2>3, <2>4, <2>5, <2>6, <2>7, <2>8 DEF RequestFits
<1> QED BY <1>2, <1>3, <1>4 DEF Redirected

LEMMA RequestStep ==
  PagesTypes /\ PathsFit /\ PageFits /\ RequestFits /\ [Next]_vars => RequestFits'
<1> SUFFICES ASSUME PagesTypes, PathsFit, PageFits, RequestFits, [Next]_vars PROVE RequestFits'
  OBVIOUS
<1>1. CASE Asked
  BY <1>1, RequestAsked
<1>2. CASE Shown
  BY <1>2, ShownIs DEF Shown, RequestFits
<1>3. CASE Redirected
  BY <1>3, RelayKeeps, RequestRedirected
<1>4. CASE HarnessRedirects
  <2>1. /\ ~Settled /\ request.port = "harness" /\ request'.port = "primary"
        /\ request'.method = request.method /\ request'.path = request.path
        /\ UNCHANGED <<page, calm>>
    BY <1>4, ForwardedIs DEF HarnessRedirects, history
  <2>2. ~calm \/ page.name \notin FormNames
    BY <2>1 DEF RequestFits, FormNames, LoginFits, SetupFits, PasswordFits, PairFits,
         DevicesFits, AtHome, Asking
  <2> QED BY <2>1, <2>2 DEF RequestFits, FormNames, HarnessFits
<1>5. CASE Unnoticed
  <2>1. CASE calm' = FALSE
    BY <1>5, <2>1 DEF Unnoticed, RequestFits, Settled
  <2>2. CASE UNCHANGED <<relay, calm>>
    BY <1>5, <2>2 DEF Unnoticed, RequestFits, Settled, relay, Operator, LoginFits,
         SetupFits, PasswordFits, PairFits, DevicesFits, HarnessFits, AtHome, Asking
  <2> QED BY <1>5, <2>1, <2>2 DEF Unnoticed
<1> QED BY <1>1, <1>2, <1>3, <1>4, <1>5, StepIs

-----------------------------------------------------------------------------
(* The theorems.                                                           *)

LEMMA PagesInitially == Init => PagesInv
<1> SUFFICES ASSUME Init PROVE PagesInv
  OBVIOUS
<1>1. Settled /\ hops = 0 /\ wanted = None /\ goal = None /\ page.name = "bare"
      /\ page.port = "primary"
  BY DEF Init, Settled
<1>2. PagesTypes
  <2>1. [name |-> "bare", port |-> "primary", path |-> "/"] \in Page
    BY DEF Page, PageNames, Ports, Paths, HarnessPaths
  <2>2. page \in Page /\ request \in Request \cup {None} /\ hops \in 0..MaxHops
        /\ {wanted, goal} \subseteq Paths \cup {None}
    BY <1>1, <2>1, Bounds DEF Init
  <2>3. /\ place \in Places /\ hasPassword \in BOOLEAN /\ session \in BOOLEAN
        /\ granted \in BOOLEAN /\ code \in BOOLEAN /\ calm \in BOOLEAN /\ ~session
    BY DEF Init
  <2> QED BY <2>2, <2>3 DEF PagesTypes
<1>3. PathsFit /\ HopsFit
  BY <1>1 DEF PathsFit, HopsFit
<1>4. WantedFits /\ GoalFits
  BY <1>1, NoneIs, PathsAre DEF WantedFits, GoalFits
<1>5. PageFits /\ RequestFits
  BY <1>1 DEF PageFits, RequestFits
<1> QED BY <1>2, <1>3, <1>4, <1>5 DEF PagesInv

LEMMA PagesInvHolds == Spec => []PagesInv
<1>1. PagesInv /\ [Next]_vars => PagesInv'
  BY PagesTypesStep, PathsStep, HopsStep, WantedStep, GoalStep, PageStep, RequestStep
     DEF PagesInv
<1> QED BY <1>1, PagesInitially, PTL DEF Spec

\* What the browser shows and follows, and what the relay holds for it, are of
\* their types, the counters included; only with a password is there a session
\* (src/auth/index.ts:232-254).
THEOREM PagesTypesHold == Spec => []TypeOK
<1>1. PagesInv /\ ThrottleTypeOK => TypeOK
  BY DEF PagesInv, PagesTypes, TypeOK
<1> QED BY <1>1, PagesInvHolds, PagesImplementThrottle, ThrottleTypesHold, PTL

\* Nobody is sent in circles between the listeners, the harness and the routes
\* (src/server.ts:231-236, src/routes.ts:118-129, src/index.ts:320-336).
THEOREM RedirectsAlwaysEnd == Spec => []RedirectsEnd
<1>1. PagesInv => RedirectsEnd
  <2> SUFFICES ASSUME PagesInv PROVE calm => hops <= 3
    BY DEF RedirectsEnd
  <2>1. Settled => hops = 0
    BY DEF PagesInv, HopsFit
  <2>2. Admitted \in BOOLEAN /\ hops \in Nat
    BY Bounds DEF PagesInv, PagesTypes, Admitted
  <2>3. ~Settled => Rank(request, Admitted) \in 0..3
    BY <2>2, RankIs DEF PagesInv, PagesTypes, Settled
  <2> QED BY <2>1, <2>2, <2>3 DEF PagesInv, HopsFit
<1> QED BY <1>1, PagesInvHolds, PTL

LEMMA AnswerIs ==
  ASSUME PagesInv, [Next]_vars, ~Settled, Settled'
  PROVE  \E name \in PageNames, path \in Paths :
           /\ Answer(name, path)
           /\ page' = [name |-> name, port |-> request.port, path |-> path]
<1>1. ~Asked /\ ~Unnoticed
  BY DEF Asked, Unnoticed, Settled
<1>2. ~Redirected /\ ~HarnessRedirects
  BY RedirectedTo, ForwardedIs DEF PagesInv
<1>3. Shown
  BY <1>1, <1>2, StepIs DEF PagesInv
<1> QED BY <1>3, ShownIs DEF Shown

\* Who was sent to sign in ends where they wanted to be, and the person on the
\* machine gets the form for the first password (src/routes.ts:118-121).
THEOREM GoalsAreAlwaysReached == Spec => GoalsAreReached
<1>1. PagesInv /\ [Next]_vars =>
        [Answered =>
           /\ goal \in HarnessPaths =>
                \/ page'.name = "harness" /\ page'.path = goal
                \/ page'.name = "throttled"
           /\ goal = "/relay/password" => page'.name = "setup"]_vars
  <2> SUFFICES ASSUME PagesInv, [Next]_vars, Answered
               PROVE  /\ goal \in HarnessPaths =>
                           \/ page'.name = "harness" /\ page'.path = goal
                           \/ page'.name = "throttled"
                      /\ goal = "/relay/password" => page'.name = "setup"
    OBVIOUS
  <2>1. PICK name \in PageNames, path \in Paths :
          /\ Answer(name, path)
          /\ page' = [name |-> name, port |-> request.port, path |-> path]
    BY AnswerIs DEF Answered
  <2>2. page'.name = name /\ page'.path = path
    BY <2>1
  <2>3. goal \in HarnessPaths => request.port = "primary" /\ request.path = goal
    BY DEF PagesInv, GoalFits, Answered, AtHome
  <2>4. goal = "/relay/password" =>
          AtHome("GET", "/relay/password") /\ place = "machine" /\ ~hasPassword
    BY DEF PagesInv, GoalFits, Answered
  <2> QED BY <2>1, <2>2, <2>3, <2>4 DEF Answer
<1> QED BY <1>1, PagesInvHolds, PTL DEF Spec, GoalsAreReached

\* What a page of the relay offers, and what an operator is offered inside the
\* harness, is not refused by the handler it leads to (src/pages/views.ts and
\* src/routes.ts:110-347).
THEOREM ControlsAlwaysWork == Spec => ControlsWork
<1>1. PagesInv /\ [Next]_vars =>
        [(/\ Answered
          /\ \/ page.name \in {"login", "setup", "password", "pair", "claim", "devices"}
             \/ OperatorsHarness /\ page.port # "compat")
         => page'.name \notin TurnsAway]_vars
  <2> SUFFICES ASSUME PagesInv, [Next]_vars, Answered,
                      \/ page.name \in FormNames
                      \/ OperatorsHarness /\ page.port # "compat"
               PROVE  page'.name \notin TurnsAway
    BY DEF FormNames
  <2>1. PICK name \in PageNames, path \in Paths :
          /\ Answer(name, path)
          /\ page' = [name |-> name, port |-> request.port, path |-> path]
    BY AnswerIs DEF Answered
  <2>2. page'.name = name
    BY <2>1
  <2>3. PageFits /\ RequestFits /\ (session => hasPassword) /\ ~Settled /\ calm
    BY DEF PagesInv, PagesTypes, Answered
  <2>4. request.method \in {"GET", "POST"}
    BY <2>3 DEF PagesInv, PagesTypes, Settled, Request
  <2>5. name # "message"
    <3> SUFFICES ASSUME name = "message" PROVE FALSE
      OBVIOUS
    <3>1. CASE page.name = "login"
      <4>1. LoginFits /\ hasPassword /\ place # "machine"
        BY <2>3, <3>1 DEF RequestFits, PageFits
      <4> QED BY <2>1, <4>1 DEF Answer, LoginFits, AtHome, Asking, NextPaths, Unknown
    <3>2. CASE page.name = "setup"
      <4>1. SetupFits /\ place = "machine"
        BY <2>3, <3>2 DEF RequestFits, PageFits
      <4> QED BY <2>1, <4>1 DEF Answer, SetupFits, AtHome, Asking, NextPaths, Unknown
    <3>3. CASE page.name = "password"
      <4>1. PasswordFits
        BY <2>3, <3>3 DEF RequestFits
      <4> QED BY <2>1, <4>1 DEF Answer, PasswordFits, AtHome, Asking, NextPaths, Unknown
    <3>4. CASE page.name = "pair"
      <4>1. PairFits
        BY <2>3, <3>4 DEF RequestFits
      <4> QED BY <2>1, <4>1 DEF Answer, PairFits, AtHome, Asking, Unknown
    <3>5. CASE page.name = "claim"
      <4>1. AtHome("POST", "/relay/pair")
        BY <2>3, <3>5 DEF RequestFits
      <4> QED BY <2>1, <4>1 DEF Answer, AtHome, Unknown
    <3>6. CASE page.name = "devices"
      <4>1. DevicesFits
        BY <2>3, <3>6 DEF RequestFits
      <4> QED BY <2>1, <2>3, <4>1 DEF Answer, DevicesFits, AtHome, Asking, Unknown,
                   Operator, Admitted
    <3>7. CASE OperatorsHarness /\ page.port # "compat"
      <4>1. HarnessFits /\ Operator
        BY <2>3, <3>7 DEF RequestFits, OperatorsHarness, Operator
      <4> QED BY <2>1, <2>3, <4>1 DEF Answer, HarnessFits, AtHome, Unknown, Operator
    <3> QED BY <3>1, <3>2, <3>3, <3>4, <3>5, <3>6, <3>7 DEF FormNames
  <2>6. place = "machine" => name \notin {"login", "claim", "throttled"}
    <3> SUFFICES ASSUME place = "machine" PROVE name \notin {"login", "claim", "throttled"}
      OBVIOUS
    <3>1. page.name \notin {"login", "claim"}
      BY <2>3 DEF PageFits
    <3> QED BY <2>1, <2>3, <2>4, <3>1 DEF Answer, RequestFits, AtHome, Admitted,
                 Operator
  <2> QED BY <2>2, <2>5, <2>6 DEF TurnsAway
<1> QED BY <1>1, PagesInvHolds, PTL DEF Spec, ControlsWork

=============================================================================
