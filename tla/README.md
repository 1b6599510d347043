# A verification of dsh-relay

TLA+ specifications of the DSH relay, the plugin that puts a harness that
listens on loopback behind passwords, paired devices and TLS. The modules model
the TypeScript under `src/`; TLC checks them on small instances, and TLAPS
proves the main results for every value of the constants.

Paths below are relative to the relay's own repository: `state.ts` is
`src/state.ts`, `auth/index.ts` is `src/auth/index.ts`, `SECURITY.md` is
`docs/SECURITY.md`.

## 1. The system and its parts

One Node process serves browsers and phones on a primary listener (TLS unless
it is turned off) and, if configured, on a plain compatibility listener.
Everything runs on one event loop: two handlers interleave only where one of
them awaits. There is no lock; what is read before an `await` and used after it
may be stale.

| Part | State | Operations | Talks to | What is hard | What makes it correct |
|---|---|---|---|---|---|
| **Store** `state.ts` | the state file, `#state`, `#chain`, `#closed` | `open`, `update`, `close` | called by the authenticator and by start | a write that fails within a chain, a crash around the rename, close racing the queue | answers are true, memory matches the file, a closed store is quiet |
| **Authenticator** `auth/index.ts`, `auth/tokens.ts`, `auth/pairing.ts`, `auth/password.ts` | token index, pairing code, sign-in counters; devices, grants, key and password in the store | `identify`, `signIn`, `setPassword`, `pair`, `touch`, `revoke`, `signOutEverywhere` | store; called by routes and by the pipeline | every mutation is queued: revocations overtake touches, key rotations overtake pairings | revoked credentials stay dead, codes enrol once, the index is exact |
| **Throttle** `auth/ratelimit.ts` | per address: the times of its requests, failures, the end of a lockout | `exceedsRate`, `recordFailure`, `recordSuccess`, the sweep, `dispose` | called by the pipeline and by the authenticator | one record for two limits, dropped whole by a timer; refused requests count as well | both limits hold in every span, a 429 says when to come back |
| **Routes** `routes.ts`, `wire.ts` | none | login, password, pairing, devices, sign-out | authenticator | guards are evaluated before the body has arrived | the first password is set on the machine itself |
| **Pipeline** `server.ts`, `fence.ts`, `privileged.ts`, `proxy/rewrite.ts` | none | the order of gates for a request and for an upgrade | authenticator, routes, proxy | rules that are sound alone and in this order only | no foreign page changes anything, pinned methods stay at home |
| **Proxy** `proxy/http.ts`, `proxy/ws.ts`, `harness-session.ts`; `close` of `server.ts` | session, pending read, sockets, ledger | `forward`, `forwardUpgrade`, `cookieFor`, `close` | harness, its credentials store | events of two sockets in any order, close against upgrades on their way | no error unheard, no socket lost, everything ends |
| **Supervisor** `index.ts`, `settings-section.ts`, `config.ts` | generation, chain, running relay | `apply`, `stop`, `start` | all of the above | edits and the unload overlap with starts that fail half-way | one relay at a time, the last edit wins, unload leaves nothing |
| **Certificate** `tls.ts`, `index.ts` | two files, a record in the store | `loadCertificate` | start | three writes one after the other, over years and networks | the pinned key never changes |
| **Advertisement** `mdns.ts` | a responder | `advertise`, withdraw | start | errors arrive as events | it never takes the relay down |
| **Pages** `pages/views.ts`, `badge.ts`, links of `client/RelayCard.tsx`, the redirect of `index.ts` | what the browser shows, the path it carries along | forms, links, redirects | routes, pipeline | a page, its handler and the redirects between them decide by rules of their own, at different moments | nobody is sent in circles, redirects lead where they are meant to, what is offered works |
| Shim, theme, layout, client | none | rendering | | | |

## 2. The modules

```
 DurableLog <--implements-- RelayStore      RelayStoreProofs     MCRelayStore
                             (one chain of updates, in use by)
 Enrolment  <--implements-- Authenticator   AuthenticatorProofs  MCAuthenticator
 Throttle   <--implements-- Pages           PagesProofs          MCPages
   ThrottleProofs
                            Gate            GateProofs           MCGate
                            Proxy           ProxyProofs          MCProxy
                            Supervisor      SupervisorProofs     MCSupervisor
                            Certificate     CertificateProofs    MCCertificate
```

Each component has a module of its own; the `MC` modules give its constants
values, the `Proofs` modules hold its theorems. The components meet at narrow
interfaces, and each module takes its neighbour at that interface:

- **RelayStore / DurableLog.** Variables are the file, and for every store its
  phase, memory, chain, and the stage of the running task. One action per
  continuation of `open`, `update` and `close`. The content of the file is the
  sequence of updates that produced it. `DurableLog` says what a caller may
  rely on: an update becomes durable at one instant and only then is it
  answered. Transitions stop one relay before they start the next (`OneRelay`
  of Supervisor), so a store opens beside another only after a start that
  failed: `StartFails` makes the store an orphan that may go on being called
  and that nobody closes, `MayOpen` lets the next one open beside it, and
  `shared` records that it happened. From then on an answered update may be
  overwritten.
- **Authenticator.** The store is `saved` and `queue`, which is what RelayStore
  promises: mutations are applied in order, each to the state its predecessor
  left, and a failed one leaves no trace. That holds while one store has the
  file, so all of Authenticator is about a relay no start of which has failed
  behind its store. Requests in flight have a stage per
  `await` of their handler (body, hashing, the dynamic import, the queue) and
  carry the time and the verdict captured on arrival, as the code does. The
  continuation after a successful write is in one action with the commit: no
  other handler runs between the assignment of `#state` and the continuations
  of its promise that reads what they write. The history variables `barred`,
  `codeOf` and `wrongs` record what was promised to whom.
- **Enrolment.** What the authenticator promises about a device: it claims a
  code nobody else has or will have, is admitted at one instant and learns its
  token then, or never; it ends once, and a revocation is answered when it has
  ended. Nothing is said of records, hashes, requests or the chain. A crash may
  complete the one change that was being written. `Life` at the end of
  Authenticator maps one to the other: a device whose record waits on the
  chain has claimed, one whose record is live is enrolled.
- **Throttle.** The counters per address, one action per way a request ends:
  refused by the window, served, and for a guess locked out, wrong or right;
  the sweep, a restart, the clock. The array of a window keeps its newest
  `RequestsPerMinute + 1` entries, which is all that is ever asked of it. A
  guess among others is under way in one of the `Slots`: it arrives, its body
  is awaited, the lockout is looked at as of its arrival, a password is hashed,
  and the failure is recorded with the time of arrival, so that a lockout may
  be set anew, to end earlier or later. A guess alone takes all these steps at
  once (`GuessWrong`, `GuessRight`, `GuessLockedOut`). `admitted`, `lockout`
  and `told` record what was served, until when a lockout lasts at least, and
  what a 429 said.
- **Pages.** Extends Throttle with a person and a browser: on the machine,
  behind a reverse proxy on it, or on the network. The browser shows a page, or
  follows a request; a page is the set of its `Controls`, a control is a
  request. One action per route, per gate of `serve` a browser meets, and for
  the redirect in the harness's own server; each that the window looks at is a
  step of Throttle. `Elsewhere`, `Neighbour` and `RelayRestarts` are everybody
  else; the guesses of neighbours overlap at the places `Overlapping`. `nobody`
  is the place of no person: there the neighbours are alone with the throttle.
  The verdicts on sessions, grants and codes are single facts here, which
  others may change between any two steps; how they come about is
  Authenticator. `calm` says whether they did.
- **Gate.** One request travels through the gates of `serve` or `serveUpgrade`,
  one action per gate. A request is a record of what the relay can see, and of
  two things it cannot: the page that made a browser send it and the URL it was
  sent to. `BrowserAssumption` is all that is assumed about browsers and about
  what a `Host` and an `Origin` can be.
  `holds` names valid credentials; which ones are valid is Authenticator.
- **Proxy.** One function per socket fact over connections; actions are the
  event handlers of `forward`, `startUpgrade`, the session resolver and
  `close`. Destroying a socket and its close event are two steps. `secure` says
  whether the listener speaks TLS: there a client that ends its side closes its
  socket, without an error that anybody would hear; on a plain listener the
  socket stays half-open. An upgrade may be refused by the gates (`fenced`),
  and a handshake may arrive for a client that has closed (`stillborn`). `late`
  are the upgrades a closing listener leaves open.
- **Supervisor.** The chain of transitions, and what each generation's relay
  holds; `AwaitsListener` is the wait of a stop for a listener that closes only
  when its last client has gone. Starting is one action per `await`, each may
  fail; the advertisement is published at its end or, its errors being events,
  not. `Coherent` is what `assertCoherent` accepts, `followSettings` the guard
  of a settings event.
- **Certificate.** One start after the other on two files and a record: one
  action per `await` of `loadCertificate` and of the part of `start` that
  records the result.

Operators named for a faulty variant (`SettleRejected`, `NeverLocked`, ...)
stand beside the definitions they vary. No specification uses them; they exist
to show that the property named for them in `PROJECT.json` would fail if the
code had that bug.

### Plan

1. Core, done: RelayStore and DurableLog, Authenticator, Supervisor, Gate,
   Proxy, Certificate, and proofs for the first two, Gate and Certificate.
2. Extensions, done: Throttle with its window, sweep and clock; Pages, which
   runs on it; the advertisement as a part of Supervisor; proofs for Throttle
   and for what Pages takes from it.
3. Proofs, done: Supervisor, Proxy, `GuessBudget`, the redirects and controls
   of Pages, `OwnPagesPass`; Enrolment, and that the authenticator implements
   it.
4. Possible later: an abstract specification of Supervisor (one register
   holding the configuration that runs), the headers of `rewrite.ts`, the
   authenticator on a file that two stores share.

## 3. The runs

| Run | Instance | Shows |
|---|---|---|
| `store` | 3 updates, 2 stores on one file, one after the other or beside an orphan, failing writes and starts, crashes | A refused update is never in the file or in memory, a closed store is quiet, a failed write wedges nothing behind it, every call is answered; until two stores share the file an answered update stays in it, memory is the file or one rename behind, and the whole refines `DurableLog`. |
| `auth_devices` | 2 devices, 2 addresses, 2 codes, 2 requests with bodies in flight beside touches, failing writes, crashes; one instant | Types; the index is exact; no grant outlives its device; no revoked credential is accepted again; the whole refines `Enrolment`: one device per code, admitted once, ended for good. |
| `auth_sessions` | 2 requests in flight from one address, direct or forwarded, 2 passwords, lockout after 2 failures, failing writes, crashes, one tick, which ends lockouts and sessions | The number of guesses in a lockout period, sign-out against cookies, the first password, handlers finish. |
| `pages` | a person in each of the three places, or nobody and 2 guesses of others at a time; 2 requests per window of 2 ticks, lockouts of 2 after one failure, 4 instants | Types; redirects end; they lead where they are meant to; what a page offers works; both limits hold; a 429 says when to come back. |
| `gate` | every request of the browser model on 5 names under 2 schemes and 3 ports, from 9 pages, an opaque one and a person; native clients with every credential | The promises of the gates, `OwnPagesPass` among them: the fence does not lock out the relay's own pages. |
| `proxy` | 2 requests and an upgrade, on a plain listener and on a TLS one | Sockets are minded (their errors heard, the ledger exact), misses are forgotten; the harness is let go, but by a TLS client that ended while connecting; pairs end together; a close finishes once the upgrades it left open are gone. |
| `supervisor` | 4 edits over 5 configurations, two of which `assertCoherent` refuses, and an unload, failing at each await | One relay, the last edit wins, the unload leaves nothing, and finishes unless a listener never closes. |
| `certificate` | 3 keys, 2 places, 3 ticks of a validity of 1 | The pin and the pair, across modes, moves, crashes, failing and torn writes and lost files. |
| `auth_dead_hash`, `supervisor_leak`, `proxy_close`, `certificate_renewal` | minimal | What a comment says and the code does not do, see section 6. |

**Why the bounds are enough.** The hazards need two of a kind: two updates so
that one may fail before another, two devices at one address, two requests in
flight around one `await`, two waiting for one read of the secret, two edits
and an unload. A third update and a third key show that nothing is particular
about the second. Times count in units of the shortest span; every deadline
falls inside the bound and is reached exactly, before and after. One connection
carries one request or upgrade in Proxy: keep-alive hands the next request to
the same handlers, and no state is carried over but the session.

In `auth_devices` time stands still, so that two handlers with bodies, touches
and faults fit: the clock can only make a credential expire, which takes from
what is accepted, and all that the run checks is proved for every clock. Throttle
has no run of its own: `pages` checks its properties while the requests come
from the places they do come from, and its neighbours make the requests a
throttle alone would be given; where there is nobody they make guesses that
overlap as well. There a window of two requests fills, slides and
is swept while it is full; a lockout outlasts the idle time; one more address
would be a copy. `MaxHops` is one more than `RedirectsEnd` allows.

**Bounds in guards.** `MaxClock`, `MaxKeys` (rotations), `MaxCodes`,
`MaxTouches` (touches waiting on the chain; the code has no limit) in
Authenticator; `MaxGeneration` in Supervisor; `MaxClock` in Certificate;
`MaxClock`, `MaxHops` (redirects counted), `Slots` (guesses under way at a
time), `Crowded` (where others use the address of the person: in the run the
loopback address, as seen from the machine, and where there is nobody) and
`Overlapping` (where the guesses of those others overlap: in the run where there
is nobody) in Throttle and Pages. The proofs hold for each value of them.

**Deadlock** is not reported: in every instance the work may be over, the
clients gone, the plugin unloaded, the request answered or the supply of
updates and connections used up.

**Symmetry** is used in runs without liveness properties only.

### Fairness

Only steps the process or Node itself owes are fair, each weakly:

- `store`: the task at the head of the chain goes on: file operations complete
  or fail, promise continuations run. Opening, calling and closing is up to
  others.
- `auth_sessions`: handlers resume after their own awaits, the chain goes on,
  and a crashed process is started again. Bodies need never arrive:
  `HandlersFinish` starts after the body.
- `supervisor`: a transition and the disposer go on, except while they wait for
  a listener to close (`AwaitsListener`), which its clients may prevent for
  ever (`proxy_close`). Edits and the unload owe nothing.
- `proxy`: a read of the store returns, a destroyed socket emits its close
  event, `server.close()` calls back when its sockets are gone, and an upstream
  connection whose client is gone times out: nothing is sent on it and nobody
  reads from it, so its inactivity timer runs down. Clients and harness owe
  nothing.
- The other runs state safety only.

## 4. What is proved

TLAPS checks these for all values of the constants; the assumptions are those
declared in the modules, which TLC evaluates in every run.

- **RelayStoreProofs.** `TypesHold`, `OutcomesHold`, `ReadsHold`, `QuietHolds`,
  `LogGrows`, `StoreImplementsLog`. The invariant `IInv` adds to the types that
  one store at most is in use until the file is shared (`OneInUse`), that only
  a store in use runs a task, that a queued update is pending and on one chain
  once, and how file, memory and outcome relate in each stage of the running
  task. The properties alone are not inductive: whether an answer is true
  depends on the stage in which a crash found the task. A step of the store is
  a step of `DurableLog` at the rename, at the answer and at a crash, and a
  stutter everywhere else, until two stores share the file. What is proved
  beyond that point: types, a refused update leaves no trace in the file or in
  memory, and a closed store is quiet.
- **AuthenticatorProofs.** `TypesHold`, `IndexHolds`, `GrantsHold`,
  `RevocationHolds`, `OneDeviceHolds`, `LatestCodeEnrols`,
  `FirstPasswordHolds`, `GuessesHold`, `AuthenticatorImplementsEnrolment`. A
  credential is safe because of what is still on the chain: `PairsAreNew` says
  a queued pairing is the first thing that ever happens to its device,
  `BarredAreDead` that whatever a revocation covers is gone, revoked, or signed
  with a key that is past. The password theorem adds that each mutation on the
  chain belongs to one waiting request, and that one whose guard saw no
  password came from loopback. `GuessBudget` alone is not inductive: it does
  not say what the guesses now in scrypt may still add. `GuessesBounded` does:
  outside a lockout the counter has seen every wrong guess; during one no guess
  starts, and the wrong ones together with those in flight are within the
  budget. It counts requests, so the slots are assumed to be finitely many. The
  refinement needs of the invariant that a device presents its code once and
  that its record is queued once; a commit is then an `Admit`, a `Withdraw` or
  a stutter by the kind of the update that is committed, a write that fails is
  a `Fail`, and a crash around the rename is a `Crash` that completes the first
  change on the chain or none.
- **GateProofs.** `TypesHold`, `ForeignPagesNeverWrite`,
  `OtherSitesOnlyNavigate`, `PinnedMethodsStayHome`, `PlainHopServesDevices`,
  `PagesAreNotLockedOut`. `GateInv` carries along what the gates behind a
  request established; the properties then follow from the fence, the verdict
  and `BrowserAssumption`. They hold for any set of declared authorities, which
  the run cannot enumerate. That no own page is fenced needs of browsers that a
  `Host` is the authority of the URL, that the `Origin` of a page is its own,
  and that what stays on its origin is not marked cross-site.
- **CertificateProofs.** `TypesHold`, `PinHolds`, `PairHolds`, `ExpiryHolds`
  (an expired generated certificate is not taken up again, unless the record
  that vouches for it is one of the operator's files).
  At every await of a start the invariant says which of the two files and the
  record are ahead of which, so that a fault there leaves files the next start
  reads rightly, or refuses.
- **ThrottleProofs.** `ThrottleTypesHold`, `LimitsAlwaysHold`,
  `RetryAfterHolds`. `WindowBound` is not inductive: that the latest served
  requests are spread says nothing of the array that lets the next one through.
  `Covers` connects them: the j-th newest entry of the array is no older than
  the j-th newest request served, for all of those inside the window. A full
  set of served requests inside the window would make the array too long, an
  idle array covers nothing and may be dropped. `RatesFit` says that nothing
  counted came after a refusal. `LocksFit` holds a lockout between two bounds:
  its end is no earlier than LockoutMs from the earliest arrival among the
  passwords that were being verified when it began, and no later than the last
  429 said; each password still under verification will, if it fails, set an
  end between the two.
- **PagesProofs.** `PagesImplementThrottle`, and from it `PagesKeepLimits` and
  `PagesHonourRetryAfter`: every action of Pages is an action of Throttle or
  leaves its variables alone. `PagesTypesHold`, `RedirectsAlwaysEnd`,
  `GoalsAreAlwaysReached`, `ControlsAlwaysWork`: `HopsFit` gives each request a
  rank, the redirects that may still come by what the relay holds now, and says
  that hops and rank together stay within three; each redirect lowers the rank.
  `WantedFits` follows the wanted path through query, field and redirect,
  `GoalFits` and `PageFits` say that while nobody else acts, the verdicts a
  goal or a page was made from still stand when its request is answered.
- **SupervisorProofs.** `SupervisorTypesHold`, `OneRelayHolds`,
  `LastEditHolds`, `UnloadHolds`, for any configurations, ports and number of
  edits. What is held must be followed to an owner before anything can be said
  about two of them: `OwnersKnown` says it is the running relay, the one that
  is starting, or a start that failed, `StagesFit` that the first two never
  meet. `NewestIsLast` says that while edits are taken the newest transition is
  the last of the chain until it has run, `DisposerIsLast` that nothing follows
  the disposer.
- **ProxyProofs.** `ProxyTypesHold`, `SocketsAreAlwaysMinded`,
  `MissesAreForgotten`, for any number of requests and upgrades.
  `SocketsAreMinded` needs to know that an upgrade that connects has a whole
  socket to the harness, and whether its client has closed already, or the pair
  would be tracked after its close events (`StagesFit`, `OnlyPairsTracked`). A
  miss is forgotten because a read is in flight exactly while somebody waits
  (`ReadIsShared`), and whoever is owed the session waits for a read that found
  it or is still to look (`ReadIsOwed`).

**Only model-checked:** the liveness properties `EveryCallIsServed`,
`HandlersFinish`, `UnloadFinishes`, `GoneClientsFreeTheHarness`,
`PairsEndTogether` and `ClosesWhenPiped` (temporal reasoning about fairness is
out of the prover's reach), and the four counterexamples of section 6. Every
invariant, action property and refinement a run checks is a theorem as well.
`LogGrows`, `LatestCodeEnrols`, `PlainHopServesDevices`, `ExpiryHolds` and
`OneDeviceHolds` (which `Enrolment` contains) are proved and not properties of
a run.

**Assumptions about constants** are the least the proofs need: `None` is no
address, number, configuration or page, limits and times are naturals, the
requests in flight are finitely many, requests and upgrades are different, and
browsers and headers are as `BrowserAssumption` says.

## 5. Abstractions

- HMAC, scrypt, random ids, certificates and X.509 are perfect: a token or a
  cookie pairs a key with what was signed, a guess is right or wrong after an
  await, a minted id is new.
- Names are a name and a port; WHATWG spelling, address literals and case are
  left out. `PrivateAddresses` and `OwnAddresses` are constants, though an
  interface may change while the relay runs.
- Paths fall in classes (`health`, `relay`, `api`, `pinned`, `extra`, `asset`,
  one that does not parse). A path is in one class for relay and harness alike;
  percent-encoding, which `URL.pathname` keeps, is left out.
- The clock of the machine never goes back. The throttle's sliding window is
  nondeterministic in Gate: any request of another machine may be over the
  limit. Authenticator has the throttle's failures and lockouts only, Throttle
  and Pages all of it.
- In Pages a handler is one step, requests are same-origin, and a body is in
  time and not too large. Of the paths a `next` may carry there are the
  harness's and the sign-in page; that others become `/` is not modelled. The
  fence and the pinned methods are Gate.
- The temporary file of the store is never read, so it is a stage and not a
  file. Renames and in-place writes are as durable as the file system makes
  them: no loss of a completed write is modelled.
- The checks of `assertCoherent` on single fields are the constant `Malformed`;
  that the two ports differ is modelled.
- The parts of a relay are released in the order of `stop()`, which is assumed
  never to reject; the responder is assumed to call back when it has withdrawn
  its records (`mdns.ts:106-110` waits for it).
- An error of the operating system may occur at every file operation, socket
  bind and upstream connection; running out of memory is left out.

**Not modelled:** the records and answers of the advertisement (a library);
the wording, layout and theme of the pages, the secure-context shim and the
settings form of the browser client (they render, and stage edits with a model
of the harness); paths of files (string templates); the strings `safeNextPath`
refuses, the parsing of fields and the JSON variants of answers; hop-by-hop
headers; the schema of the configuration (declarative); the build.

## 6. Findings

Four runs end in a counterexample. Each is a statement of the repository that
the code does not keep.

- **A device enrolled with a dead hash** (`auth_dead_hash`). `pair` hashes its
  token under the key it reads before its mutation is queued
  (`auth/index.ts:281`). With a "sign out everywhere" ahead of it, the device
  is stored under the new key with a hash of the old one: listed, holding an
  address grant, its token useless. The comment at `auth/index.ts:356-358` says
  records are dropped rather than kept with dead hashes.
- **A port left bound** (`supervisor_leak`). When the compatibility listener
  cannot bind, `start` throws, and with it goes the only handle to the primary
  listener and the store (`index.ts:302-312`). They stay for every later edit
  and after the unload, against `index.ts:16-18`.
- **A close that never finishes** (`proxy_close`). An upgrade that waits for
  the session or for the harness's handshake is in neither the ledger nor
  `closeAllConnections` when the listener closes (`server.ts:406-408`); it is
  piped afterwards and `server.close` waits for it, against `server.ts:379`. So
  does one that was refused, at the gates (`server.ts:321-327`) or by the
  harness (`ws.ts:55-57`), as long as its client keeps its side open.
  `ClosesWhenPiped` of the passing run says these are the only cases.
- **A renewal that is not recorded** (`certificate_renewal`). A re-issue after
  expiry keeps key and names, so `index.ts:266-267` does not persist it: the
  record keeps the old expiry, every later start re-issues again, against
  `index.ts:261-263`.

### Observations from reading the source

Not checked by a run, some of them reproduced by a model:

- The first state is written in place (`state.ts:152`); a crash there leaves a
  file every later open refuses, though `state.ts:12-14` promises atomic
  writes. The certificate's files are written in place as well (`tls.ts:123`):
  a torn key ends every later start.
- Updates queued before `close` are rejected (`state.ts:172`), while
  `state.ts:187-188` speaks of draining queued writes.
- A touch that was queued before a revocation writes a grant for the revoked
  device (`auth/index.ts:319`), although `state.ts:62` says revoking drops it.
  It admits nobody: `RevocationIsFinal`.
- The store of a start that failed goes on serving beside that of the next
  (`index.ts:302-312`, `199-203`). Each writes the whole file from its own
  memory, so an answered update of one is overwritten by the other, against
  `state.ts:119-120`: `OutcomesAreTrue` and `ImplementsDurableLog` end there.
- A TLS client that ends its side while its upgrade connects closes its socket
  without an error, and only errors are listened for (`ws.ts:139-145`): the
  harness keeps the connection until it answers or fails, and no timer is set.
  If it then switches protocols, the closed socket is tracked and, in spite of
  `ws.ts:29`, never forgotten (`ws.ts:169`), nor is the upstream half destroyed
  by it (`ws.ts:176`). `GoneClientsFreeTheHarness`, `LedgerExact` and
  `PairsEndTogether` name it as their exception.
- The promise of `touch` is dropped (`server.ts:260`), so a failed write is an
  unhandled rejection.
- An authority declared with port 443 never matches: the entry keeps its port
  (`fence.ts:242`), the `Host` of `https://name` has none, in spite of
  `fence.ts:228`. A TLS listener on port 80 makes `Host` and `Origin` differ
  in the same way.
- `proxyTimeoutMs` limits silence (`http.ts:67`), in the middle of a streamed
  response too; `config.ts:104` calls it a response deadline.
- A late pairing body is judged by the arrival of its headers
  (`auth/index.ts:272`), so a code may enrol after `expiresAt`.
- Guesses in flight together are all evaluated (`auth/index.ts:242`):
  `GuessBudget` is the limit that does hold.
- A code may be issued by a remote session (`routes.ts:221`); the
  repository's `README.md:38` says only on the machine.
- Upgrades are not rate limited (`server.ts:303`), `SECURITY.md:33` says every
  request is. A refused upgrade has no error listener (`server.ts:321-327`).
- Behind a read of the secret that missed, a request that joined it goes
  upstream without a session even if the secret exists by then
  (`harness-session.ts:193`); the next one has it.
- `forward` does not settle when the client leaves in the middle of a response.
- On the compatibility listener a request with a session and a grant counts as
  neither, since the session is found first and then refused.
- A page on another port or subdomain of the relay's name counts as same-site,
  and its reads pass the fence.
- After a crash between certificate and record, a move back serves a
  certificate naming the other place. After a start on the operator's files,
  the record holds the operator's fingerprint and may be shown for the
  generated certificate; until the operator's expires, an expired generated one
  is taken up again, against `tls.ts:140`.
- The sweep of the throttle looks at requests and lockouts only
  (`ratelimit.ts:119`), so failures below the limit are forgotten with an idle
  address, and at once for a client of the machine, whose requests are not
  counted. The `auth` option of the configuration is read by nothing.
- A refused request is recorded like any other (`ratelimit.ts:74`): a client
  that goes on asking stays refused. The end of a lockout is counted from the
  arrival of the guess, so one that was hashed for long may write an end
  earlier than the one already there (`ratelimit.ts:100`), against
  `ratelimit.ts:39`; one that arrived last sets an end behind what a pairing's
  429 may have told (`routes.ts:263`). `LockoutLasts` and `RetryAfterIsEnough`
  say what is left of either.
- The link "Paired devices" of the page that confirms a pairing is refused to
  the device that was just paired, which is no operator; `ControlsWork` leaves
  that page out. So are the badge's link, for browsers admitted by address, and
  the links of badge and card on the compatibility listener, where they are
  not found.
- No page offers `POST /relay/logout`. Without a password, the page a remote
  visitor is refused with links to the same refusal. The path a person wanted
  is lost when the first password is set on the way.
- A pairing whose write fails has used up its code (`auth/index.ts:272`).
- A transition that rejects is swallowed together with the edit behind it
  (`index.ts:204`), which only a `stop` that rejects could bring about. Saving
  again the configuration of a start that failed starts nothing
  (`index.ts:191`).

## 7. Running the checks

In this directory, `tlc -config <cfg> <MC module>` for each row of `runs` in
`PROJECT.json`, and `tlapm <module>` for each `*Proofs` module. `PROJECT.json`
also maps every definition to the lines it models, lists the hazards of the
code with the properties that watch them, and names for every property a
variant of one definition that violates it.
