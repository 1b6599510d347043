---------------------------- MODULE Authenticator ---------------------------
(***************************************************************************)
(* Who the relay lets in (src/auth/, src/routes.ts and the part of         *)
(* src/server.ts that touches credentials).                                *)
(*                                                                         *)
(* Durable state is the committed content of the state file; a mutation of *)
(* it waits on the store's chain and commits or fails as one step (module  *)
(* RelayStore).  The continuation of a handler after its update resolves   *)
(* runs before any other request is read, so it is part of that step.      *)
(* Handlers yield where the code awaits: while the body arrives, while     *)
(* scrypt runs, on the dynamic import, and while the mutation is queued.   *)
(* Between those points they keep the `now` and the identity captured when *)
(* the request arrived.                                                    *)
(*                                                                         *)
(* A token is named by the device it was minted for, a hash is the pair of *)
(* the key and the token, a cookie is the key it is signed with and its    *)
(* two times, and a pairing code is the number of its issue.               *)
(***************************************************************************)
EXTENDS Integers, Sequences, FiniteSets, SequencesExt

CONSTANTS
    Addresses,         \* normalized source addresses
    Local,             \* the loopback address among them
    PrivateAddresses,  \* those in private, link-local and loopback ranges
    OwnAddresses,      \* localAddresses(): those of this machine on its networks
    AddressGrants,     \* config.compat.addressGrants
    Devices,           \* device ids that may be minted
    Passwords,         \* plaintexts somebody may type
    Slots,             \* requests that may be in flight at once
    Operations,        \* the requests clients make in this instance
    Faults,            \* the faults the environment injects
    None,              \* undefined
    MaxFailures,       \* config.maxFailedAttempts
    LockoutMs,         \* config.lockoutMs
    SessionTtlMs,      \* config.sessionTtlMs
    DeviceTokenTtlMs,  \* config.deviceTokenTtlMs
    GrantTtlMs,        \* config.compat.addressGrantTtlMs
    PairingWindowMs,   \* config.pairingWindowMs
    TouchQuietMs,      \* the 60 s inside which touch() does not write again
    MaxClock,          \* bound: the last instant of a run
    MaxKeys,           \* bound: signing keys
    MaxCodes,          \* bound: pairing codes issued
    MaxTouches         \* bound: mutations queued when touch() adds another

AllOperations == {"password", "login", "pair", "revoke", "signout", "issue", "access"}

ASSUME SetsAssumption ==
    /\ Local \in Addresses
    /\ AddressGrants \in BOOLEAN
    /\ None \notin Devices \cup Passwords \cup Addresses \cup Slots
    /\ Operations \subseteq AllOperations
    /\ Faults \subseteq {"write", "crash"}
    /\ IsFiniteSet(Slots)

ASSUME TimesAssumption ==
    /\ {MaxFailures, LockoutMs, SessionTtlMs, DeviceTokenTtlMs, GrantTtlMs,
        PairingWindowMs, MaxKeys} \subseteq Nat \ {0}
    /\ {TouchQuietMs, MaxCodes, MaxClock, MaxTouches} \subseteq Nat
    /\ TouchQuietMs <= MaxClock

VARIABLES
    clock,        \* Date.now()
    saved,        \* the committed state: [key, password, devices, grants]
    alive,        \* whether the process runs
    tokenIndex,   \* #tokenIndex: pairs of a hash and the device it finds
    code,         \* the pairing window's #current
    issued,       \* how many codes were ever issued
    counters,     \* the throttle's sign-in counters per address
    queue,        \* mutations on the store's chain, the running one first
    requests,     \* the handlers in flight
    tokens,       \* tokens that reached their device
    cookies,      \* session cookies that reached a browser
    barred,       \* history: credentials an acknowledged revocation covers
    codeOf,       \* history: the code each device was enrolled with
    wrongs        \* history: wrong guesses answered since an address was last clear

process == <<tokenIndex, code, counters, queue, requests>>
clients == <<tokens, cookies>>
history == <<barred, codeOf, wrongs>>
vars == <<clock, saved, alive, process, issued, clients, history>>

-----------------------------------------------------------------------------
(* Values.                                                                 *)

Time  == Nat
Keys  == Nat \ {0}
Codes == Nat                      \* 0 is a guess that is no code

DeviceRecord ==
    [hashKey : Keys, createdAt : Time, expiresAt : Time,
     lastAddress : Addresses, lastSeenAt : Time, revoked : BOOLEAN]

AddressGrant ==
    [deviceId : Devices, createdAt : Time, expiresAt : Time]

RelayState ==
    [key : Keys, password : Passwords \cup {None},
     devices : [Devices -> DeviceRecord \cup {None}],
     grants : [Addresses -> AddressGrant \cup {None}]]

Cookie == [key : Keys, issuedAt : Time, expiresAt : Time]

PairingCode == [id : Codes \ {0}, expiresAt : Time]

Counters == [failures : 0..(MaxFailures - 1), lockedUntil : Time]

\* A request in flight.  `now` and `who` are those of its arrival (`who` only
\* where the route reads it); `arg` is what its body asked for, `seen` the
\* password record read before scrypt.
Request ==
    [op : AllOperations, stage : {"body", "hash", "verify", "import", "queued"},
     now : Time, address : Addresses,
     who : {"loopback", "session", "device", "address-grant", "none", None},
     arg : Devices \cup Passwords \cup {None}, seen : Passwords \cup {None}]

\* A mutation handed to store.update().
Mutation ==
    [kind : {"password", "pair", "touch", "revoke", "signout"},
     slot : Slots \cup {None}, device : Devices \cup {None},
     password : Passwords \cup {None}, hashKey : Keys,
     address : Addresses, now : Time]

\* undefined is none of the values it stands in for.
ASSUME NoneAssumption ==
    /\ None \notin DeviceRecord
    /\ None \notin AddressGrant
    /\ None \notin PairingCode
    /\ None \notin Request

TypeOK ==
    /\ clock \in Time
    /\ saved \in RelayState
    /\ alive \in BOOLEAN
    /\ tokenIndex \subseteq (Keys \X Devices) \X Devices
    /\ code \in PairingCode \cup {None}
    /\ issued \in Codes
    /\ counters \in [Addresses -> Counters]
    /\ queue \in Seq(Mutation)
    /\ requests \in [Slots -> Request \cup {None}]
    /\ tokens \subseteq Devices
    /\ cookies \subseteq Cookie
    /\ barred \in [devices : SUBSET Devices, cookies : SUBSET Cookie]
    /\ codeOf \in [Devices -> Codes]
    /\ wrongs \in [Addresses -> Nat]

-----------------------------------------------------------------------------
(* Credentials.                                                            *)

hashToken(key, token) == <<key, token>>

\* #reindex(): the hash of every device that is not revoked.
IndexOf(state) ==
    {<<hashToken(state.devices[d].hashKey, d), d>> :
        d \in {e \in Devices : state.devices[e] # None /\ ~state.devices[e].revoked}}

\* #deviceForToken(): the index finds the device, its record must still admit it.
DeviceForToken(token, now) ==
    {d \in Devices :
        /\ <<hashToken(saved.key, token), d>> \in tokenIndex
        /\ saved.devices[d] # None
        /\ ~saved.devices[d].revoked
        /\ saved.devices[d].createdAt <= now
        /\ now < saved.devices[d].expiresAt}

\* verifySession(): signed with the current key, inside its two times.
SessionValid(cookie, now) ==
    /\ cookie.key = saved.key
    /\ cookie.issuedAt <= now
    /\ now < cookie.expiresAt

\* A grant on loopback would seat every client of a local proxy, one on an
\* address of this machine every container behind it.
isGrantableAddress(address) ==
    address \in (PrivateAddresses \ OwnAddresses) \ {Local}

Grantable == {a \in Addresses : AddressGrants /\ isGrantableAddress(a)}

\* Faulty variant: the grant's device is not looked up.
GrantHoldersUnchecked(address, now) ==
    {d \in Devices :
        /\ address \in Grantable
        /\ saved.grants[address] # None
        /\ saved.grants[address].deviceId = d
        /\ saved.grants[address].createdAt <= now
        /\ now < saved.grants[address].expiresAt}

\* The device an address grant admits: the grant is in its time and names a
\* device that exists and is not revoked.
GrantHolders(address, now) ==
    {d \in Devices :
        /\ address \in Grantable
        /\ saved.grants[address] # None
        /\ saved.grants[address].deviceId = d
        /\ saved.grants[address].createdAt <= now
        /\ now < saved.grants[address].expiresAt
        /\ saved.devices[d] # None
        /\ ~saved.devices[d].revoked}

\* What a request may present: nothing, a bearer token, or a session cookie.
Presented ==
    {[kind |-> "nothing"]}
    \cup [kind : {"bearer"}, token : tokens]
    \cup [kind : {"cookie"}, cookie : cookies]

Verdict(class, holders) ==
    [credential |-> class,
     deviceId |-> IF holders = {} THEN None ELSE CHOOSE d \in holders : TRUE]

\* identify(): the first credential class that holds.  A request forwarded by
\* a proxy on this machine is not the operator's.
identify(presented, address, forwarded, now) ==
    LET bearer  == IF presented.kind = "bearer"
                   THEN DeviceForToken(presented.token, now) ELSE {}
        session == presented.kind = "cookie" /\ SessionValid(presented.cookie, now)
        granted == GrantHolders(address, now)
    IN  IF address = Local /\ ~forwarded THEN Verdict("loopback", {})
        ELSE IF bearer # {} THEN Verdict("device", bearer)
        ELSE IF session THEN Verdict("session", {})
        ELSE IF granted # {} THEN Verdict("address-grant", granted)
        ELSE Verdict("none", {})

isOperator(who) == who \in {"loopback", "session"}
hasPassword == saved.password # None

-----------------------------------------------------------------------------
(* The throttle's sign-in half.                                            *)

Clear == [failures |-> 0, lockedUntil |-> 0]

\* Faulty variant: nobody is ever locked out.
NeverLocked(address, now) == FALSE

\* lockedUntil(): whether sign-in from this address is refused at `now`.
Locked(address, now) == counters[address].lockedUntil > now

\* Faulty variant: one failure too many before the lockout.
AfterFailureLate(counter, now) ==
    IF counter.failures >= MaxFailures
    THEN [failures |-> 0, lockedUntil |-> now + LockoutMs]
    ELSE [counter EXCEPT !.failures = @ + 1]

\* recordFailure(): `now` is the arrival time of the request.
AfterFailure(counter, now) ==
    IF counter.failures + 1 >= MaxFailures
    THEN [failures |-> 0, lockedUntil |-> now + LockoutMs]
    ELSE [counter EXCEPT !.failures = @ + 1]

\* A wrong guess is answered, and counted unless the lockout it leads to is
\* already over.
recordFailure(address, now) ==
    LET after == AfterFailure(counters[address], now)
        over == after.failures = 0 /\ after.lockedUntil <= clock
    IN  /\ counters' = [counters EXCEPT ![address] = after]
        /\ wrongs' = [wrongs EXCEPT ![address] = IF over THEN 0 ELSE @ + 1]

\* recordSuccess(): the address starts afresh, lockout included.
recordSuccess(address) ==
    /\ counters' = [counters EXCEPT ![address] = Clear]
    /\ wrongs' = [wrongs EXCEPT ![address] = 0]

-----------------------------------------------------------------------------
(* Requests arrive.  The verdict on the credential and the time are taken  *)
(* here and used for the rest of the handler.                              *)

Finish(r) == requests' = [requests EXCEPT ![r] = None]

\* Faulty variant: whoever reaches the port first may set the password.
AnyoneMayRequest(op, who) ==
    CASE op = "password" -> hasPassword => isOperator(who)
      [] op \in {"revoke", "signout", "issue"} -> isOperator(who)
      [] OTHER -> TRUE

\* Whether handleRelayRoute goes on with a request from this identity.
\* Setting the first password is for the machine itself.
MayRequest(op, who) ==
    CASE op = "password" -> IF hasPassword THEN isOperator(who) ELSE who = "loopback"
      [] op \in {"revoke", "signout", "issue"} -> isOperator(who)
      [] OTHER -> TRUE

\* Bound: no sign-out that would need a key beyond MaxKeys.
KeysLeft ==
    saved.key + Cardinality({r \in Slots : requests[r] # None /\ requests[r].op = "signout"})
        < MaxKeys

\* A POST arrives and its handler starts reading the body; signing out has
\* none to read and yields on its dynamic import instead.
Arrive(r, op, address, presented, forwarded) ==
    LET who == identify(presented, address, forwarded, clock).credential
    IN  /\ alive /\ op \in Operations \ {"issue", "access"}
        /\ requests[r] = None
        /\ MayRequest(op, who)
        /\ op = "signout" => KeysLeft
        /\ requests' = [requests EXCEPT ![r] =
             [op |-> op, stage |-> IF op = "signout" THEN "import" ELSE "body",
              now |-> clock, address |-> address,
              who |-> IF op \in {"login", "pair"} THEN None ELSE who,
              arg |-> None, seen |-> None]]
        /\ UNCHANGED <<clock, saved, alive, tokenIndex, code, issued, counters,
                       queue, clients, history>>

\* The handler of a request stands at one of its yields.
At(r, op, stage) ==
    /\ alive
    /\ requests[r] # None
    /\ requests[r].op = op
    /\ requests[r].stage = stage

\* The body is too large, fails its checks or never ends.
Drop(r) ==
    /\ alive
    /\ requests[r] # None
    /\ requests[r].stage = "body"
    /\ Finish(r)
    /\ UNCHANGED <<clock, saved, alive, tokenIndex, code, issued, counters,
                   queue, clients, history>>

\* The mutation of request r joins the store's chain.
Enqueue(r, kind, device, password) ==
    /\ requests' = [requests EXCEPT ![r].stage = "queued"]
    /\ queue' = Append(queue,
         [kind |-> kind, slot |-> r, device |-> device, password |-> password,
          hashKey |-> saved.key, address |-> requests[r].address,
          now |-> requests[r].now])

-----------------------------------------------------------------------------
(* POST /relay/password.                                                   *)

PasswordBody(r, password) ==
    /\ At(r, "password", "body")
    /\ requests' = [requests EXCEPT ![r].stage = "hash", ![r].arg = password]
    /\ UNCHANGED <<clock, saved, alive, tokenIndex, code, issued, counters,
                   queue, clients, history>>

setPassword(r) ==
    /\ At(r, "password", "hash")
    /\ Enqueue(r, "password", None, requests[r].arg)
    /\ UNCHANGED <<clock, saved, alive, tokenIndex, code, issued, counters,
                   clients, history>>

-----------------------------------------------------------------------------
(* POST /relay/login.                                                      *)

\* signIn() up to its await: no password, locked out, or scrypt starts on
\* the record of this moment.
LoginBody(r, guess) ==
    /\ At(r, "login", "body")
    /\ IF ~hasPassword \/ Locked(requests[r].address, requests[r].now)
       THEN Finish(r)
       ELSE requests' = [requests EXCEPT ![r].stage = "verify", ![r].arg = guess,
                                         ![r].seen = saved.password]
    /\ UNCHANGED <<clock, saved, alive, tokenIndex, code, issued, counters,
                   queue, clients, history>>

\* scrypt says no: the failure is recorded at the request's arrival time.
LoginWrong(r) ==
    /\ At(r, "login", "verify")
    /\ requests[r].arg # requests[r].seen
    /\ recordFailure(requests[r].address, requests[r].now)
    /\ Finish(r)
    /\ UNCHANGED <<clock, saved, alive, tokenIndex, code, issued, queue,
                   clients, barred, codeOf>>

\* scrypt says yes: the counters clear and a cookie is signed with the key of
\* this moment.
LoginRight(r) ==
    LET now == requests[r].now
    IN  /\ At(r, "login", "verify")
        /\ requests[r].arg = requests[r].seen
        /\ recordSuccess(requests[r].address)
        /\ cookies' = cookies \cup
             {[key |-> saved.key, issuedAt |-> now, expiresAt |-> now + SessionTtlMs]}
        /\ Finish(r)
        /\ UNCHANGED <<clock, saved, alive, tokenIndex, code, issued, queue,
                       tokens, barred, codeOf>>

-----------------------------------------------------------------------------
(* Pairing.                                                                *)

\* PairingWindow.issue() replaces whatever code was outstanding.
issue ==
    /\ issued < MaxCodes
    /\ issued' = issued + 1
    /\ code' = [id |-> issued + 1, expiresAt |-> clock + PairingWindowMs]

\* peek(): the outstanding code, forgotten once it has expired.
Peeked(now) == IF code # None /\ now < code.expiresAt THEN code ELSE None

\* POST /relay/pair/new issues; GET /relay/pair shows the outstanding code
\* and issues only when there is none.
IssueCode(show, address, presented, forwarded) ==
    /\ alive /\ "issue" \in Operations
    /\ MayRequest("issue", identify(presented, address, forwarded, clock).credential)
    /\ show => Peeked(clock) = None
    /\ issue
    /\ UNCHANGED <<clock, saved, alive, tokenIndex, counters, queue, requests,
                   clients, history>>

\* Faulty variant: a code stays outstanding after it was claimed.
ClaimedAndKept(candidate, now) == code

\* What claim() leaves outstanding when the candidate matched.
Claimed(candidate, now) == None

Matches(candidate, now) == Peeked(now) # None /\ candidate = code.id

\* pair() with a wrong, expired or withdrawn code.
PairRefused(r, candidate) ==
    /\ At(r, "pair", "body")
    /\ ~Locked(requests[r].address, requests[r].now)
    /\ ~Matches(candidate, requests[r].now)
    /\ code' = Peeked(requests[r].now)
    /\ recordFailure(requests[r].address, requests[r].now)
    /\ Finish(r)
    /\ UNCHANGED <<clock, saved, alive, tokenIndex, issued, queue, clients,
                   barred, codeOf>>

PairLockedOut(r) ==
    /\ At(r, "pair", "body")
    /\ Locked(requests[r].address, requests[r].now)
    /\ Finish(r)
    /\ UNCHANGED <<clock, saved, alive, tokenIndex, code, issued, counters,
                   queue, clients, history>>

Minted == {d \in Devices : codeOf[d] # 0}

\* pair() with the outstanding code: the code is consumed, a token is minted
\* and hashed with the key of this moment, and the record is queued.
PairClaimed(r, candidate, d) ==
    /\ At(r, "pair", "body")
    /\ ~Locked(requests[r].address, requests[r].now)
    /\ Matches(candidate, requests[r].now)
    /\ d \notin Minted
    /\ code' = Claimed(candidate, requests[r].now)
    /\ recordSuccess(requests[r].address)
    /\ codeOf' = [codeOf EXCEPT ![d] = candidate]
    /\ Enqueue(r, "pair", d, None)
    /\ UNCHANGED <<clock, saved, alive, tokenIndex, issued, clients, barred>>

-----------------------------------------------------------------------------
(* Device management.                                                      *)

Live(d) == saved.devices[d] # None /\ ~saved.devices[d].revoked

revoke(r, d) ==
    /\ At(r, "revoke", "body")
    /\ IF Live(d) THEN Enqueue(r, "revoke", d, None)
                  ELSE Finish(r) /\ UNCHANGED queue
    /\ UNCHANGED <<clock, saved, alive, tokenIndex, code, issued, counters,
                   clients, history>>

signOutEverywhere(r) ==
    /\ At(r, "signout", "import")
    /\ Enqueue(r, "signout", None, None)
    /\ UNCHANGED <<clock, saved, alive, tokenIndex, code, issued, counters,
                   clients, history>>

\* touch() writes unless the device was seen here within the quiet time.
TouchWanted(d, address) ==
    /\ saved.devices[d] # None
    /\ ~ (/\ saved.devices[d].lastAddress = address
          /\ saved.devices[d].lastSeenAt > clock - TouchQuietMs)

\* The touches that wait on the chain.
Touches == {i \in DOMAIN queue : queue[i].kind = "touch"}

\* An admitted request or upgrade that belongs to a device refreshes it; the
\* promise of touch() is not awaited.
Access(address, presented, forwarded) ==
    LET d == identify(presented, address, forwarded, clock).deviceId
    IN  /\ alive /\ "access" \in Operations
        /\ d # None
        /\ TouchWanted(d, address)
        /\ Cardinality(Touches) < MaxTouches
        /\ queue' = Append(queue,
             [kind |-> "touch", slot |-> None, device |-> d, password |-> None,
              hashKey |-> saved.key, address |-> address, now |-> clock])
        /\ UNCHANGED <<clock, saved, alive, tokenIndex, code, issued, counters,
                       requests, clients, history>>

-----------------------------------------------------------------------------
(* The mutations, as the functions update() applies to its draft.          *)

Granted(grants, m) ==
    IF m.address \in Grantable
    THEN [grants EXCEPT ![m.address] =
            [deviceId |-> m.device, createdAt |-> m.now,
             expiresAt |-> m.now + GrantTtlMs]]
    ELSE grants

paired(s, m) ==
    [s EXCEPT
       !.devices[m.device] =
          [hashKey |-> m.hashKey, createdAt |-> m.now,
           expiresAt |-> m.now + DeviceTokenTtlMs, lastAddress |-> m.address,
           lastSeenAt |-> 0, revoked |-> FALSE],
       !.grants = Granted(s.grants, m)]

\* Faulty variant: the grant is written whether or not the record is there.
touchedUnchecked(s, m) ==
    [s EXCEPT !.grants = Granted(s.grants, m)]

touched(s, m) ==
    IF s.devices[m.device] = None THEN s
    ELSE [s EXCEPT
            !.devices[m.device] =
               [@ EXCEPT !.lastSeenAt = m.now, !.lastAddress = m.address],
            !.grants = Granted(s.grants, m)]

\* Faulty variant: the grants go, the record stays as it was.
grantsRevoked(s, m) ==
    [s EXCEPT !.grants = [a \in Addresses |->
                            IF @[a] # None /\ @[a].deviceId = m.device THEN None ELSE @[a]]]

revoked(s, m) ==
    [s EXCEPT
       !.devices[m.device] = IF @ = None THEN None ELSE [@ EXCEPT !.revoked = TRUE],
       !.grants = [a \in Addresses |->
                     IF @[a] # None /\ @[a].deviceId = m.device THEN None ELSE @[a]]]

\* Faulty variant: the devices go, the key stays.
droppedOnly(s) ==
    [s EXCEPT !.devices = [d \in Devices |-> None],
              !.grants = [a \in Addresses |-> None]]

\* The new key is one no credential was ever signed with.
rotated(s) ==
    [s EXCEPT !.key = @ + 1,
              !.devices = [d \in Devices |-> None],
              !.grants = [a \in Addresses |-> None]]

Mutated(s, m) ==
    CASE m.kind = "password" -> [s EXCEPT !.password = m.password]
      [] m.kind = "pair"     -> paired(s, m)
      [] m.kind = "touch"    -> touched(s, m)
      [] m.kind = "revoke"   -> revoked(s, m)
      [] m.kind = "signout"  -> rotated(s)

\* History: the credentials an acknowledged revocation is about.
BarredBy(m) ==
    CASE m.kind = "revoke"  -> [barred EXCEPT !.devices = @ \cup {m.device}]
      [] m.kind = "signout" -> [devices |-> barred.devices \cup tokens,
                                cookies |-> barred.cookies \cup cookies]
      [] OTHER -> barred

\* Faulty variant: the handlers do not rebuild the index after their update.
IndexAfterStale(m) == tokenIndex

\* pair, revoke and signOutEverywhere reindex after their update resolves.
IndexAfter(m) ==
    IF m.kind \in {"pair", "revoke", "signout"} THEN IndexOf(saved') ELSE tokenIndex

\* Faulty variant: the handler waits for ever on its rejected update.
AnsweredNever(m) == UNCHANGED requests

\* The handler that awaited the mutation ends; nobody awaits a touch.
Answered(m) ==
    requests' = IF m.slot = None THEN requests ELSE [requests EXCEPT ![m.slot] = None]

\* The running mutation commits and its caller continues: it reindexes,
\* withdraws the code, hands out the token, answers.
Commit ==
    LET m == Head(queue)
    IN  /\ alive /\ queue # <<>>
        /\ saved' = Mutated(saved, m)
        /\ queue' = Tail(queue)
        /\ tokenIndex' = IndexAfter(m)
        /\ code' = IF m.kind = "signout" THEN None ELSE code
        /\ tokens' = IF m.kind = "pair" THEN tokens \cup {m.device} ELSE tokens
        /\ barred' = BarredBy(m)
        /\ Answered(m)
        /\ UNCHANGED <<clock, alive, issued, counters, cookies, codeOf, wrongs>>

Forgotten ==
    /\ tokenIndex' = {}
    /\ code' = None
    /\ counters' = [a \in Addresses |-> Clear]
    /\ wrongs' = [a \in Addresses |-> 0]
    /\ queue' = <<>>
    /\ requests' = [r \in Slots |-> None]

\* The running mutation fails.  A handler that awaited it answers 500 and does
\* nothing else; touch() was not awaited, its rejection is unhandled and ends
\* the process.
CommitFails ==
    LET m == Head(queue)
    IN  /\ "write" \in Faults
        /\ alive /\ queue # <<>>
        /\ IF m.kind = "touch"
           THEN alive' = FALSE /\ Forgotten
           ELSE /\ queue' = Tail(queue)
                /\ Answered(m)
                /\ UNCHANGED <<alive, tokenIndex, code, counters, wrongs>>
        /\ UNCHANGED <<clock, saved, issued, clients, barred, codeOf>>

\* The process dies, with the running mutation renamed into place or not.
Crash(landed) ==
    /\ "crash" \in Faults
    /\ alive
    /\ alive' = FALSE
    /\ IF landed THEN queue # <<>> /\ saved' = Mutated(saved, Head(queue))
                 ELSE UNCHANGED saved
    /\ Forgotten
    /\ UNCHANGED <<clock, issued, clients, barred, codeOf>>

\* Faulty variant: the index is left for the first mutation to build.
StartUnindexed ==
    /\ ~alive
    /\ alive' = TRUE
    /\ UNCHANGED <<clock, saved, process, issued, clients, history>>

\* A relay starts on the saved state.
Start ==
    /\ ~alive
    /\ alive' = TRUE
    /\ tokenIndex' = IndexOf(saved)
    /\ UNCHANGED <<clock, saved, code, issued, counters, queue, requests,
                   clients, history>>

\* Time passes; an address whose lockout ends is clear again.
Tick ==
    /\ clock < MaxClock
    /\ clock' = clock + 1
    /\ wrongs' = [a \in Addresses |->
         IF counters[a].lockedUntil = clock + 1 THEN 0 ELSE wrongs[a]]
    /\ UNCHANGED <<saved, alive, process, issued, clients, barred, codeOf>>

-----------------------------------------------------------------------------
Init ==
    /\ clock = TouchQuietMs
    /\ saved = [key |-> 1, password |-> None,
                devices |-> [d \in Devices |-> None],
                grants |-> [a \in Addresses |-> None]]
    /\ alive = TRUE
    /\ tokenIndex = {}
    /\ code = None
    /\ issued = 0
    /\ counters = [a \in Addresses |-> Clear]
    /\ queue = <<>>
    /\ requests = [r \in Slots |-> None]
    /\ tokens = {} /\ cookies = {}
    /\ barred = [devices |-> {}, cookies |-> {}]
    /\ codeOf = [d \in Devices |-> 0]
    /\ wrongs = [a \in Addresses |-> 0]

\* What a client or the operator may send at any time.
Client ==
    \E address \in Addresses, presented \in Presented, forwarded \in BOOLEAN :
        \/ Access(address, presented, forwarded)
        \/ \E show \in BOOLEAN : IssueCode(show, address, presented, forwarded)
        \/ \E r \in Slots, op \in AllOperations :
              Arrive(r, op, address, presented, forwarded)

\* The body of a request in flight arrives.
Body(r) ==
    \/ Drop(r)
    \/ \E password \in Passwords : PasswordBody(r, password) \/ LoginBody(r, password)
    \/ \E candidate \in 0..issued :
          PairRefused(r, candidate) \/ \E d \in Devices : PairClaimed(r, candidate, d)
    \/ PairLockedOut(r)
    \/ \E d \in Devices : revoke(r, d)

\* A handler resumes after an await of its own work.
Resume(r) == setPassword(r) \/ LoginWrong(r) \/ LoginRight(r) \/ signOutEverywhere(r)

Chain == Commit \/ CommitFails

Next ==
    \/ Client
    \/ \E r \in Slots : Body(r) \/ Resume(r)
    \/ Chain
    \/ \E landed \in BOOLEAN : Crash(landed)
    \/ Start
    \/ Tick

Spec == Init /\ [][Next]_vars

\* Clients, time and faults owe nothing.  A handler resumes after its own
\* awaits, Node completes every file operation, and the operator restarts.
Fairness ==
    /\ \A r \in Slots : WF_vars(Resume(r))
    /\ WF_vars(Chain)
    /\ WF_vars(Start)

LiveSpec == Spec /\ Fairness

-----------------------------------------------------------------------------
(* Properties.                                                             *)

\* The token index is rebuilt by some handlers only, after an await; it must
\* still name exactly the devices that are enrolled and not revoked, under
\* the hashes the state holds, in every interleaving and after a restart.
IndexExact == alive => tokenIndex = IndexOf(saved)

\* Every grant belongs to a device record: a touch that was queued before
\* "sign out everywhere" must not bring a grant back for a device it dropped.
GrantsHaveOwner ==
    \A a \in Addresses : saved.grants[a] # None =>
        saved.devices[saved.grants[a].deviceId] # None

\* Once a revocation or a "sign out everywhere" is answered, no credential it
\* covers is accepted again: not the token, not a grant of the device, not
\* the cookie, from no address, whatever was in flight, across restarts.
RevocationIsFinal ==
    /\ \A d \in barred.devices :
        /\ DeviceForToken(d, clock) = {}
        /\ \A a \in Addresses : d \notin GrantHolders(a, clock)
    /\ \A c \in barred.cookies : ~SessionValid(c, clock)

\* A pairing code enrols one device, however many requests present it.
OneDevicePerCode ==
    \A d, e \in Minted : codeOf[d] = codeOf[e] => d = e

\* Issuing a code withdraws the one before it: only the latest enrols.
ReplacedCodeIsDead ==
    [][\A d \in Devices : codeOf[d] = 0 /\ codeOf'[d] # 0 => codeOf'[d] = issued]_vars

\* Wrong guesses answered to one address before its lockout ends: the
\* configured number and, because a failure is counted only after scrypt, one
\* for each other request that may be in flight.
GuessBudget ==
    \A a \in Addresses : wrongs[a] <= MaxFailures + Cardinality(Slots) - 1

\* The first password is set by a request from the machine itself, although
\* hasPassword is read long before the mutation is queued and committed.
FirstPasswordIsLocal ==
    [][saved.password = None /\ saved'.password # None =>
          requests[Head(queue).slot].who = "loopback"]_vars

\* A handler past its body is answered, also when its write fails.
HandlersFinish ==
    \A r \in Slots :
        (requests[r] # None /\ requests[r].stage # "body")
            ~> (requests[r] = None \/ requests[r].stage = "body")

\* What the documentation and the comments say.

\* "Device records are dropped rather than kept with dead hashes."
NoDeadHashes ==
    \A d \in Devices : saved.devices[d] # None => saved.devices[d].hashKey = saved.key

\* How far the life of a device has come: its record may still wait on the
\* chain, be live, or never have been written, be revoked or dropped.
phaseOf(d) ==
    IF codeOf[d] = 0 THEN "unknown"
    ELSE IF \E i \in DOMAIN queue : queue[i].kind = "pair" /\ queue[i].device = d
         THEN "claimed"
    ELSE IF Live(d) THEN "enrolled" ELSE "retired"

\* Pairing, its queued write, revocation and "sign out everywhere" implement
\* the life of a device: one code for each, admitted once, never again.
Life == INSTANCE Enrolment WITH
            Codes <- 1..MaxCodes, phase <- [d \in Devices |-> phaseOf(d)], codeOf <- codeOf,
            holders <- tokens, withdrawn <- barred.devices
ImplementsEnrolment == Life!Spec
=============================================================================
