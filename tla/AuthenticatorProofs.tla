------------------------- MODULE AuthenticatorProofs ------------------------
(***************************************************************************)
(* Proofs about Authenticator, for any addresses, devices, passwords and   *)
(* requests in flight, any times and limits, failing writes and crashes.   *)
(***************************************************************************)
EXTENDS Authenticator, FiniteSetTheorems, TLAPS

-----------------------------------------------------------------------------
(* The inductive invariant.                                                *)

\* A queued mutation carries what its kind needs.
QueueWellFormed ==
    \A i \in 1..Len(queue) :
        /\ queue[i].kind \in {"pair", "touch", "revoke"} => queue[i].device \in Devices
        /\ queue[i].kind = "password" => queue[i].password \in Passwords

\* A request whose password is being hashed has one.
BodiesWellFormed ==
    \A r \in Slots : requests[r] # None /\ requests[r].stage = "hash" =>
        requests[r].arg \in Passwords

Types == TypeOK /\ QueueWellFormed /\ BodiesWellFormed

\* The index names the live devices while the process runs and nobody else.
IndexFollows == IndexExact /\ (~alive => tokenIndex = {})

\* Who has a record, a token or a revocation was enrolled with a code.
EnrolledWithCode ==
    /\ tokens \subseteq Minted
    /\ barred.devices \subseteq Minted
    /\ \A d \in Devices : saved.devices[d] # None => d \in Minted

\* A queued pairing is the first thing that ever happens to its device.
PairsAreNew ==
    \A i \in 1..Len(queue) :
        /\ queue[i].kind = "pair" =>
              /\ queue[i].device \in Minted
              /\ saved.devices[queue[i].device] = None
              /\ queue[i].device \notin tokens
              /\ queue[i].device \notin barred.devices
        /\ queue[i].kind = "revoke" => queue[i].device \in Minted
        /\ \A j \in 1..Len(queue) :
              /\ queue[i].kind = "pair"
              /\ queue[j].kind \in {"pair", "revoke"}
              /\ queue[i].device = queue[j].device
              => i = j

\* What an answered revocation covers is dead in the state itself.
BarredAreDead ==
    /\ \A d \in barred.devices : saved.devices[d] = None \/ saved.devices[d].revoked
    /\ \A c \in cookies : c.key <= saved.key
    /\ \A c \in barred.cookies : c.key < saved.key

CredentialInv ==
    IndexFollows /\ GrantsHaveOwner /\ EnrolledWithCode /\ PairsAreNew /\ BarredAreDead

\* The outstanding code is the last one issued and enrolled nobody yet.
CodesAreFresh ==
    /\ code # None => code.id = issued /\ \A d \in Devices : codeOf[d] # code.id
    /\ \A d \in Devices : codeOf[d] <= issued
    /\ OneDevicePerCode

-----------------------------------------------------------------------------
(* Types.                                                                  *)

\* Appending to a sequence keeps what was there and adds the new last element.
LEMMA AppendFacts ==
    ASSUME NEW S, NEW q \in Seq(S), NEW x \in S
    PROVE  /\ Append(q, x) \in Seq(S)
           /\ Len(q) \in Nat /\ Len(Append(q, x)) = Len(q) + 1
           /\ \A i \in 1..Len(q) : Append(q, x)[i] = q[i]
           /\ Append(q, x)[Len(q) + 1] = x
OBVIOUS

\* The tail of a sequence is the sequence shifted by one.
LEMMA TailFacts ==
    ASSUME NEW S, NEW q \in Seq(S), q # <<>>
    PROVE  /\ Head(q) \in S /\ Head(q) = q[1]
           /\ Len(q) \in Nat \ {0} /\ 1 \in 1..Len(q)
           /\ Tail(q) \in Seq(S) /\ Len(Tail(q)) = Len(q) - 1
           /\ \A i \in 1..Len(Tail(q)) : i + 1 \in 1..Len(q) /\ Tail(q)[i] = q[i + 1]
OBVIOUS

\* Every limit is a natural number, and the positive ones are positive.
LEMMA Limits ==
    /\ MaxFailures \in Nat \ {0} /\ LockoutMs \in Nat /\ SessionTtlMs \in Nat
    /\ DeviceTokenTtlMs \in Nat /\ GrantTtlMs \in Nat /\ PairingWindowMs \in Nat
    /\ TouchQuietMs \in Nat /\ MaxClock \in Nat
BY TimesAssumption

LEMMA InitialTypes == Init => Types
<1> SUFFICES ASSUME Init PROVE Types
  OBVIOUS
<1>1. saved \in RelayState
  BY DEF Init, RelayState, Keys
<1>2. queue \in Seq(Mutation) /\ Len(queue) = 0
  BY DEF Init
<1>3. counters \in [Addresses -> Counters]
  BY Limits DEF Init, Counters, Clear, Time
<1> QED BY <1>1, <1>2, <1>3, Limits
        DEF Init, Types, TypeOK, QueueWellFormed, BodiesWellFormed, Time, Codes

\* The state a mutation computes is a state.
LEMMA MutatedType ==
    ASSUME NEW s \in RelayState, NEW m \in Mutation,
           m.kind \in {"pair", "touch", "revoke"} => m.device \in Devices,
           m.kind = "password" => m.password \in Passwords
    PROVE  Mutated(s, m) \in RelayState
<1>m. /\ m.hashKey \in Keys /\ m.address \in Addresses /\ m.now \in Nat
      /\ m.kind \in {"password", "pair", "touch", "revoke", "signout"}
  BY DEF Mutation, Time
<1>s. /\ s.key \in Nat \ {0} /\ s.password \in Passwords \cup {None}
      /\ s.devices \in [Devices -> DeviceRecord \cup {None}]
      /\ s.grants \in [Addresses -> AddressGrant \cup {None}]
      /\ s = [key |-> s.key, password |-> s.password, devices |-> s.devices, grants |-> s.grants]
  BY DEF RelayState, Keys
<1>g. ASSUME m.device \in Devices
      PROVE  Granted(s.grants, m) \in [Addresses -> AddressGrant \cup {None}]
  <2>1. [deviceId |-> m.device, createdAt |-> m.now, expiresAt |-> m.now + GrantTtlMs]
          \in AddressGrant
    BY <1>g, <1>m, Limits DEF AddressGrant, Time
  <2> QED BY <1>s, <1>m, <2>1 DEF Granted
<1>1. CASE m.kind = "password"
  BY <1>1, <1>s DEF Mutated, RelayState, Keys
<1>2. CASE m.kind = "pair"
  <2>1. m.device \in Devices
    BY <1>2
  <2>2. [hashKey |-> m.hashKey, createdAt |-> m.now, expiresAt |-> m.now + DeviceTokenTtlMs,
         lastAddress |-> m.address, lastSeenAt |-> 0, revoked |-> FALSE] \in DeviceRecord
    BY <1>m, Limits DEF DeviceRecord, Time
  <2>3. paired(s, m) \in RelayState
    BY <1>s, <1>g, <2>1, <2>2 DEF paired, RelayState, Keys
  <2> QED BY <1>2, <2>3 DEF Mutated
<1>3. CASE m.kind = "touch"
  <2>1. m.device \in Devices
    BY <1>3
  <2>2. ASSUME s.devices[m.device] # None
        PROVE  [s.devices[m.device] EXCEPT !.lastSeenAt = m.now, !.lastAddress = m.address]
                 \in DeviceRecord
    BY <1>s, <1>m, <2>1, <2>2 DEF DeviceRecord, Time
  <2>3. touched(s, m) \in RelayState
    BY <1>s, <1>g, <2>1, <2>2 DEF touched, RelayState, Keys
  <2> QED BY <1>3, <2>3 DEF Mutated
<1>4. CASE m.kind = "revoke"
  <2>1. m.device \in Devices
    BY <1>4
  <2>2. ASSUME s.devices[m.device] # None
        PROVE  [s.devices[m.device] EXCEPT !.revoked = TRUE] \in DeviceRecord
    BY <1>s, <2>1, <2>2 DEF DeviceRecord
  <2>3. revoked(s, m) \in RelayState
    BY <1>s, <2>1, <2>2 DEF revoked, RelayState, Keys
  <2> QED BY <1>4, <2>3 DEF Mutated
<1>5. CASE m.kind = "signout"
  <2>1. s.key + 1 \in Nat \ {0}
    BY <1>s
  <2>2. rotated(s) \in RelayState
    BY <1>s, <2>1 DEF rotated, RelayState, Keys
  <2> QED BY <1>5, <2>2 DEF Mutated
<1> QED BY <1>m, <1>1, <1>2, <1>3, <1>4, <1>5

\* The mutation at the head of the queue is well formed, and so is the rest.
LEMMA Dequeued ==
    ASSUME Types, queue # <<>>
    PROVE  /\ Head(queue) \in Mutation
           /\ Mutated(saved, Head(queue)) \in RelayState
           /\ Tail(queue) \in Seq(Mutation)
           /\ queue' = Tail(queue) => QueueWellFormed'
<1>1. /\ queue \in Seq(Mutation) /\ saved \in RelayState
      /\ QueueWellFormed
  BY DEF Types, TypeOK
<1>2. /\ Head(queue) \in Mutation /\ Head(queue) = queue[1] /\ 1 \in 1..Len(queue)
      /\ Tail(queue) \in Seq(Mutation)
      /\ \A i \in 1..Len(Tail(queue)) : i + 1 \in 1..Len(queue) /\ Tail(queue)[i] = queue[i + 1]
  BY <1>1, TailFacts
<1>3. Mutated(saved, Head(queue)) \in RelayState
  BY <1>1, <1>2, MutatedType DEF QueueWellFormed
<1>4. queue' = Tail(queue) => QueueWellFormed'
  BY <1>1, <1>2 DEF QueueWellFormed
<1> QED BY <1>2, <1>3, <1>4

\* A well formed mutation joins the queue.
LEMMA Enqueued ==
    ASSUME Types, NEW m \in Mutation, queue' = Append(queue, m),
           m.kind \in {"pair", "touch", "revoke"} => m.device \in Devices,
           m.kind = "password" => m.password \in Passwords
    PROVE  queue' \in Seq(Mutation) /\ QueueWellFormed'
<1>1. queue \in Seq(Mutation) /\ QueueWellFormed
  BY DEF Types, TypeOK
<1>2. /\ queue' \in Seq(Mutation) /\ Len(queue) \in Nat /\ Len(queue') = Len(queue) + 1
      /\ \A i \in 1..Len(queue) : queue'[i] = queue[i]
      /\ queue'[Len(queue) + 1] = m
  BY <1>1, AppendFacts
<1>3. \A i \in 1..Len(queue') : i \in 1..Len(queue) \/ i = Len(queue) + 1
  BY <1>2
<1> QED BY <1>1, <1>2, <1>3 DEF QueueWellFormed

\* A handler hands in the mutation of its request.
LEMMA HandedIn ==
    ASSUME Types, NEW r \in Slots, requests[r] # None,
           NEW kind \in {"password", "pair", "revoke", "signout"},
           NEW device \in Devices \cup {None}, NEW password \in Passwords \cup {None},
           kind \in {"pair", "revoke"} => device \in Devices,
           kind = "password" => password \in Passwords,
           Enqueue(r, kind, device, password)
    PROVE  /\ queue' \in Seq(Mutation) /\ QueueWellFormed'
           /\ requests' \in [Slots -> Request \cup {None}] /\ BodiesWellFormed'
<1> DEFINE m == [kind |-> kind, slot |-> r, device |-> device, password |-> password,
                 hashKey |-> saved.key, address |-> requests[r].address,
                 now |-> requests[r].now]
<1>1. /\ requests \in [Slots -> Request \cup {None}] /\ requests[r] \in Request
      /\ saved \in RelayState
  BY DEF Types, TypeOK
<1>2. m \in Mutation
  BY <1>1 DEF Mutation, Request, RelayState
<1>3. queue' = Append(queue, m)
  BY DEF Enqueue
<1>4. queue' \in Seq(Mutation) /\ QueueWellFormed'
  <2> HIDE DEF m
  <2>1. m.kind = kind /\ m.device = device /\ m.password = password
    BY DEF m
  <2> QED BY <1>2, <1>3, <2>1, Enqueued
<1>5. [requests[r] EXCEPT !.stage = "queued"] \in Request
  BY <1>1 DEF Request
<1>6. \A t \in Slots : requests'[t] = IF t = r THEN [requests[r] EXCEPT !.stage = "queued"]
                                              ELSE requests[t]
  BY <1>1 DEF Enqueue
<1>7. requests' \in [Slots -> Request \cup {None}]
  BY <1>1, <1>5 DEF Enqueue
<1>8. [requests[r] EXCEPT !.stage = "queued"].stage = "queued"
  BY <1>1 DEF Request
<1>9. BodiesWellFormed'
  BY <1>6, <1>8 DEF Types, BodiesWellFormed
<1> QED BY <1>4, <1>7, <1>9

\* A handler ends.
LEMMA Finished ==
    ASSUME Types, NEW r \in Slots, Finish(r)
    PROVE  requests' \in [Slots -> Request \cup {None}] /\ BodiesWellFormed'
BY DEF Finish, Types, TypeOK, BodiesWellFormed

\* The sign-in counters stay below the limit.
LEMMA CountedTypes ==
    ASSUME TypeOK, NEW a \in Addresses, NEW now \in Nat,
           recordFailure(a, now) \/ recordSuccess(a)
    PROVE  counters' \in [Addresses -> Counters] /\ wrongs' \in [Addresses -> Nat]
<1>1. counters \in [Addresses -> Counters] /\ wrongs \in [Addresses -> Nat]
  BY DEF TypeOK
<1>2. AfterFailure(counters[a], now) \in Counters
  BY <1>1, Limits DEF AfterFailure, Counters, Time
<1>3. Clear \in Counters
  BY Limits DEF Clear, Counters, Time
<1>4. CASE recordFailure(a, now)
  BY <1>1, <1>2, <1>4 DEF recordFailure
<1>5. CASE recordSuccess(a)
  BY <1>1, <1>3, <1>5 DEF recordSuccess
<1> QED BY <1>4, <1>5

\* The verdict of identify() is one of its classes and names a device or none.
LEMMA IdentifyTypes ==
    ASSUME NEW presented, NEW address, NEW forwarded, NEW now
    PROVE  LET v == identify(presented, address, forwarded, now)
           IN  /\ v.credential \in {"loopback", "session", "device", "address-grant", "none"}
               /\ v.deviceId \in Devices \cup {None}
<1>1. \A class : Verdict(class, {}).credential = class /\ Verdict(class, {}).deviceId = None
  BY DEF Verdict
<1>2. ASSUME NEW class, NEW holders, holders \subseteq Devices
      PROVE  /\ Verdict(class, holders).credential = class
             /\ Verdict(class, holders).deviceId \in Devices \cup {None}
  BY <1>2 DEF Verdict
<1>3. /\ \A token : DeviceForToken(token, now) \subseteq Devices
      /\ GrantHolders(address, now) \subseteq Devices
  BY DEF DeviceForToken, GrantHolders
<1> QED BY <1>1, <1>2, <1>3 DEF identify

\* Arrivals and bodies keep the types.
LEMMA RequestTypes ==
    ASSUME Types, NEW r \in Slots
    PROVE  /\ \A op \in AllOperations, address \in Addresses, presented \in Presented,
                  forwarded \in BOOLEAN :
                  Arrive(r, op, address, presented, forwarded) => Types'
           /\ Body(r) => Types'
           /\ Resume(r) => Types'
<1>t. TypeOK /\ QueueWellFormed /\ BodiesWellFormed
  BY DEF Types
<1>q. requests \in [Slots -> Request \cup {None}] /\ saved \in RelayState
  BY <1>t DEF TypeOK
<1>1. ASSUME NEW op \in AllOperations, NEW address \in Addresses,
             NEW presented \in Presented, NEW forwarded \in BOOLEAN,
             Arrive(r, op, address, presented, forwarded)
      PROVE  Types'
  <2> DEFINE who == identify(presented, address, forwarded, clock).credential
             q == [op |-> op, stage |-> IF op = "signout" THEN "import" ELSE "body",
                   now |-> clock, address |-> address,
                   who |-> IF op \in {"login", "pair"} THEN None ELSE who,
                   arg |-> None, seen |-> None]
  <2>1. who \in {"loopback", "session", "device", "address-grant", "none"}
    BY IdentifyTypes
  <2>2. q \in Request /\ q.stage # "hash"
    <3> HIDE DEF who
    <3>1. clock \in Time
      BY <1>t DEF TypeOK
    <3> QED BY <2>1, <3>1 DEF Request
  <2>3. /\ requests' = [requests EXCEPT ![r] = q]
        /\ UNCHANGED <<clock, saved, alive, tokenIndex, code, issued, counters, queue,
                       tokens, cookies, barred, codeOf, wrongs>>
    BY <1>1 DEF Arrive, clients, history
  <2>4. requests' \in [Slots -> Request \cup {None}] /\ BodiesWellFormed'
    <3> HIDE DEF q
    <3> QED BY <1>t, <1>q, <2>2, <2>3 DEF BodiesWellFormed
  <2> HIDE DEF q
  <2> QED BY <1>t, <2>3, <2>4 DEF Types, TypeOK, QueueWellFormed
<1>2. ASSUME Finish(r),
             UNCHANGED <<clock, saved, alive, tokenIndex, issued, queue, tokens, cookies,
                         barred, codeOf>>,
             counters' \in [Addresses -> Counters], wrongs' \in [Addresses -> Nat],
             code' \in PairingCode \cup {None}
      PROVE  Types'
  BY <1>t, <1>2, Finished DEF Types, TypeOK, QueueWellFormed
<1>3. ASSUME Body(r) PROVE Types'
  <2>1. CASE Drop(r)
    BY <1>t, <1>2, <2>1 DEF Drop, TypeOK, clients, history
  <2>2. ASSUME NEW password \in Passwords, PasswordBody(r, password) PROVE Types'
    <3>1. requests[r] # None /\ requests[r] \in Request
      BY <1>q, <2>2 DEF PasswordBody, At
    <3>2. [requests[r] EXCEPT !.stage = "hash", !.arg = password] \in Request
      BY <3>1 DEF Request
    <3>3. [requests[r] EXCEPT !.stage = "hash", !.arg = password].arg = password
      BY <3>1 DEF Request
    <3>4. /\ requests' = [requests EXCEPT ![r] =
                            [requests[r] EXCEPT !.stage = "hash", !.arg = password]]
          /\ UNCHANGED <<clock, saved, alive, tokenIndex, code, issued, counters, queue,
                         tokens, cookies, barred, codeOf, wrongs>>
      BY <2>2, <1>q, <3>1 DEF PasswordBody, clients, history
    <3>5. requests' \in [Slots -> Request \cup {None}] /\ BodiesWellFormed'
      BY <1>t, <1>q, <3>2, <3>3, <3>4 DEF BodiesWellFormed
    <3> QED BY <1>t, <3>4, <3>5 DEF Types, TypeOK, QueueWellFormed
  <2>3. ASSUME NEW guess \in Passwords, LoginBody(r, guess) PROVE Types'
    <3>1. requests[r] # None /\ requests[r] \in Request
      BY <1>q, <2>3 DEF LoginBody, At
    <3> DEFINE q == [requests[r] EXCEPT !.stage = "verify", !.arg = guess,
                                         !.seen = saved.password]
    <3>2. q \in Request /\ q.stage # "hash"
      BY <1>q, <3>1 DEF Request, RelayState
    <3>3. UNCHANGED <<clock, saved, alive, tokenIndex, code, issued, counters, queue,
                     tokens, cookies, barred, codeOf, wrongs>>
      BY <2>3 DEF LoginBody, clients, history
    <3>4. CASE Finish(r)
      BY <1>t, <1>2, <3>3, <3>4 DEF TypeOK
    <3>5. CASE requests' = [requests EXCEPT ![r] = q]
      <4> HIDE DEF q
      <4>1. requests' \in [Slots -> Request \cup {None}] /\ BodiesWellFormed'
        BY <1>t, <1>q, <3>2, <3>5 DEF BodiesWellFormed
      <4> QED BY <1>t, <3>3, <4>1 DEF Types, TypeOK, QueueWellFormed
    <3> QED BY <1>q, <2>3, <3>1, <3>4, <3>5 DEF LoginBody
  <2>4. ASSUME NEW candidate \in 0..issued, PairRefused(r, candidate) PROVE Types'
    <3>1. requests[r] \in Request
      BY <1>q, <2>4 DEF PairRefused, At
    <3>2. requests[r].address \in Addresses /\ requests[r].now \in Nat
      BY <3>1 DEF Request, Time
    <3>3. counters' \in [Addresses -> Counters] /\ wrongs' \in [Addresses -> Nat]
      BY <1>t, <2>4, <3>2, CountedTypes DEF PairRefused
    <3>4. code' \in PairingCode \cup {None}
      BY <1>t, <2>4 DEF PairRefused, Peeked, TypeOK
    <3> QED BY <1>2, <2>4, <3>3, <3>4 DEF PairRefused, clients
  <2>5. ASSUME NEW candidate \in 0..issued, NEW d \in Devices, PairClaimed(r, candidate, d)
        PROVE  Types'
    <3>1. requests[r] # None /\ requests[r] \in Request
      BY <1>q, <2>5 DEF PairClaimed, At
    <3>2. requests[r].address \in Addresses /\ requests[r].now \in Nat
      BY <3>1 DEF Request, Time
    <3>3. counters' \in [Addresses -> Counters] /\ wrongs' \in [Addresses -> Nat]
      BY <1>t, <2>5, <3>2, CountedTypes DEF PairClaimed
    <3>4. code' = None /\ candidate \in Codes /\ codeOf' = [codeOf EXCEPT ![d] = candidate]
      BY <1>t, <2>5 DEF PairClaimed, Claimed, Codes, TypeOK
    <3>5. Enqueue(r, "pair", d, None)
      BY <2>5 DEF PairClaimed
    <3>6. /\ queue' \in Seq(Mutation) /\ QueueWellFormed'
          /\ requests' \in [Slots -> Request \cup {None}] /\ BodiesWellFormed'
      BY <3>1, <3>5, HandedIn
    <3> QED BY <1>t, <2>5, <3>3, <3>4, <3>6 DEF PairClaimed, Types, TypeOK, clients
  <2>6. CASE PairLockedOut(r)
    BY <1>t, <1>2, <2>6 DEF PairLockedOut, TypeOK, clients, history
  <2>7. ASSUME NEW d \in Devices, revoke(r, d) PROVE Types'
    <3>1. requests[r] # None
      BY <2>7 DEF revoke, At
    <3>2. UNCHANGED <<clock, saved, alive, tokenIndex, code, issued, counters,
                     tokens, cookies, barred, codeOf, wrongs>>
      BY <2>7 DEF revoke, clients, history
    <3>3. CASE Enqueue(r, "revoke", d, None)
      <4>1. /\ queue' \in Seq(Mutation) /\ QueueWellFormed'
            /\ requests' \in [Slots -> Request \cup {None}] /\ BodiesWellFormed'
        BY <3>1, <3>3, HandedIn
      <4> QED BY <1>t, <3>2, <4>1 DEF Types, TypeOK
    <3>4. CASE Finish(r) /\ UNCHANGED queue
      BY <1>t, <1>2, <3>2, <3>4 DEF TypeOK
    <3> QED BY <2>7, <3>3, <3>4 DEF revoke
  <2> QED BY <1>3, <2>1, <2>2, <2>3, <2>4, <2>5, <2>6, <2>7 DEF Body
<1>4. ASSUME Resume(r) PROVE Types'
  <2>1. CASE setPassword(r)
    <3>1. requests[r] # None /\ requests[r].stage = "hash"
      BY <2>1 DEF setPassword, At
    <3>2. requests[r].arg \in Passwords
      BY <1>t, <3>1 DEF BodiesWellFormed
    <3>3. Enqueue(r, "password", None, requests[r].arg)
      BY <2>1 DEF setPassword
    <3>4. /\ queue' \in Seq(Mutation) /\ QueueWellFormed'
          /\ requests' \in [Slots -> Request \cup {None}] /\ BodiesWellFormed'
      BY <3>1, <3>2, <3>3, HandedIn
    <3> QED BY <1>t, <2>1, <3>4 DEF setPassword, Types, TypeOK, clients, history
  <2>2. CASE signOutEverywhere(r)
    <3>1. requests[r] # None
      BY <2>2 DEF signOutEverywhere, At
    <3>2. Enqueue(r, "signout", None, None)
      BY <2>2 DEF signOutEverywhere
    <3>3. /\ queue' \in Seq(Mutation) /\ QueueWellFormed'
          /\ requests' \in [Slots -> Request \cup {None}] /\ BodiesWellFormed'
      BY <3>1, <3>2, HandedIn
    <3> QED BY <1>t, <2>2, <3>3 DEF signOutEverywhere, Types, TypeOK, clients, history
  <2>3. CASE LoginWrong(r)
    <3>1. requests[r] \in Request
      BY <1>q, <2>3 DEF LoginWrong, At
    <3>2. requests[r].address \in Addresses /\ requests[r].now \in Nat
      BY <3>1 DEF Request, Time
    <3>3. counters' \in [Addresses -> Counters] /\ wrongs' \in [Addresses -> Nat]
      BY <1>t, <2>3, <3>2, CountedTypes DEF LoginWrong
    <3> QED BY <1>t, <1>2, <2>3, <3>3 DEF LoginWrong, TypeOK, clients
  <2>4. CASE LoginRight(r)
    <3>1. requests[r] \in Request
      BY <1>q, <2>4 DEF LoginRight, At
    <3>2. requests[r].address \in Addresses /\ requests[r].now \in Nat
      BY <3>1 DEF Request, Time
    <3>3. counters' \in [Addresses -> Counters] /\ wrongs' \in [Addresses -> Nat]
      BY <1>t, <2>4, <3>2, CountedTypes DEF LoginRight
    <3>4. cookies' \subseteq Cookie
      <4>1. [key |-> saved.key, issuedAt |-> requests[r].now,
             expiresAt |-> requests[r].now + SessionTtlMs] \in Cookie
        BY <1>q, <3>2, Limits DEF RelayState, Cookie, Time
      <4> QED BY <1>t, <2>4, <4>1 DEF LoginRight, TypeOK
    <3>5. requests' \in [Slots -> Request \cup {None}] /\ BodiesWellFormed'
      BY <2>4, Finished DEF LoginRight
    <3> QED BY <1>t, <2>4, <3>3, <3>4, <3>5 DEF LoginRight, Types, TypeOK, QueueWellFormed
  <2> QED BY <1>4, <2>1, <2>2, <2>3, <2>4 DEF Resume
<1> QED BY <1>1, <1>3, <1>4

\* The index of a state pairs the hash of a device with it.
LEMMA IndexTypes ==
    ASSUME NEW s \in RelayState
    PROVE  IndexOf(s) \subseteq (Keys \X Devices) \X Devices
<1>1. \A d \in Devices : s.devices[d] # None => s.devices[d].hashKey \in Keys
  BY DEF RelayState, DeviceRecord
<1> QED BY <1>1 DEF IndexOf, hashToken

\* The commits, failures, crashes and restarts keep the types.
LEMMA ChainTypes ==
    ASSUME Types
    PROVE  /\ Chain => Types'
           /\ \A landed \in BOOLEAN : Crash(landed) => Types'
           /\ Start => Types'
<1>t. TypeOK /\ QueueWellFormed /\ BodiesWellFormed
  BY DEF Types
<1> DEFINE m == Head(queue)
<1>a. ASSUME Answered(m), queue # <<>>
      PROVE  requests' \in [Slots -> Request \cup {None}] /\ BodiesWellFormed'
  BY <1>t, <1>a DEF Answered, TypeOK, BodiesWellFormed
<1>f. ASSUME Forgotten
      PROVE  /\ requests' \in [Slots -> Request \cup {None}] /\ BodiesWellFormed'
             /\ queue' \in Seq(Mutation) /\ QueueWellFormed'
             /\ counters' \in [Addresses -> Counters] /\ wrongs' \in [Addresses -> Nat]
             /\ code' = None /\ tokenIndex' = {}
  <2>1. Clear \in Counters
    BY Limits DEF Clear, Counters, Time
  <2>2. queue' = <<>> /\ Len(queue') = 0
    BY <1>f DEF Forgotten
  <2> QED BY <1>f, <2>1, <2>2 DEF Forgotten, BodiesWellFormed, QueueWellFormed
<1>1. CASE Commit
  <2>1. /\ queue # <<>> /\ saved' = Mutated(saved, m) /\ queue' = Tail(queue)
        /\ Answered(m) /\ barred' = BarredBy(m) /\ tokenIndex' = IndexAfter(m)
        /\ code' = IF m.kind = "signout" THEN None ELSE code
        /\ tokens' = IF m.kind = "pair" THEN tokens \cup {m.device} ELSE tokens
        /\ UNCHANGED <<clock, alive, issued, counters, cookies, codeOf, wrongs>>
    BY <1>1 DEF Commit
  <2>2. /\ m \in Mutation /\ saved' \in RelayState
        /\ queue' \in Seq(Mutation) /\ QueueWellFormed'
    BY <2>1, Dequeued
  <2>3. m.kind \in {"pair", "touch", "revoke"} => m.device \in Devices
    <3>1. queue \in Seq(Mutation)
      BY <1>t DEF TypeOK
    <3>2. m = queue[1] /\ 1 \in 1..Len(queue)
      BY <2>1, <3>1, TailFacts
    <3> QED BY <1>t, <3>2 DEF QueueWellFormed
  <2>4. requests' \in [Slots -> Request \cup {None}] /\ BodiesWellFormed'
    BY <1>a, <2>1
  <2> HIDE DEF m
  <2>5. tokenIndex' \subseteq (Keys \X Devices) \X Devices
    BY <1>t, <2>1, <2>2, IndexTypes DEF IndexAfter, TypeOK
  <2>6. barred' \in [devices : SUBSET Devices, cookies : SUBSET Cookie]
    <3>1. /\ barred \in [devices : SUBSET Devices, cookies : SUBSET Cookie]
          /\ tokens \subseteq Devices /\ cookies \subseteq Cookie
      BY <1>t DEF TypeOK
    <3>2. CASE m.kind = "revoke"
      <4>1. barred' = [barred EXCEPT !.devices = barred.devices \cup {m.device}]
        BY <2>1, <3>2 DEF BarredBy
      <4> QED BY <2>3, <3>1, <3>2, <4>1
    <3>3. CASE m.kind = "signout"
      <4>1. barred' = [devices |-> barred.devices \cup tokens,
                       cookies |-> barred.cookies \cup cookies]
        BY <2>1, <3>3 DEF BarredBy
      <4> QED BY <3>1, <4>1
    <3>4. CASE m.kind \notin {"revoke", "signout"}
      <4>1. barred' = barred
        BY <2>1, <3>4 DEF BarredBy
      <4> QED BY <3>1, <4>1
    <3> QED BY <3>2, <3>3, <3>4
  <2>7. code' \in PairingCode \cup {None} /\ tokens' \subseteq Devices
    BY <1>t, <2>1, <2>3 DEF TypeOK
  <2> QED BY <1>t, <2>1, <2>2, <2>4, <2>5, <2>6, <2>7 DEF Types, TypeOK
<1>2. CASE CommitFails
  <2>1. /\ queue # <<>>
        /\ UNCHANGED <<clock, saved, issued, tokens, cookies, barred, codeOf>>
        /\ \/ alive' = FALSE /\ Forgotten
           \/ /\ queue' = Tail(queue) /\ Answered(m)
              /\ UNCHANGED <<alive, tokenIndex, code, counters, wrongs>>
    BY <1>2 DEF CommitFails, clients
  <2>2. CASE alive' = FALSE /\ Forgotten
    BY <1>t, <1>f, <2>1, <2>2 DEF Types, TypeOK
  <2>3. CASE /\ queue' = Tail(queue) /\ Answered(m)
             /\ UNCHANGED <<alive, tokenIndex, code, counters, wrongs>>
    <3>1. queue' \in Seq(Mutation) /\ QueueWellFormed'
      BY <2>1, <2>3, Dequeued
    <3>2. requests' \in [Slots -> Request \cup {None}] /\ BodiesWellFormed'
      BY <1>a, <2>1, <2>3
    <3> QED BY <1>t, <2>1, <2>3, <3>1, <3>2 DEF Types, TypeOK
  <2> QED BY <2>1, <2>2, <2>3
<1>3. ASSUME NEW landed \in BOOLEAN, Crash(landed) PROVE Types'
  <2>1. /\ alive' = FALSE /\ Forgotten
        /\ UNCHANGED <<clock, issued, tokens, cookies, barred, codeOf>>
        /\ \/ saved' = saved
           \/ queue # <<>> /\ saved' = Mutated(saved, m)
    BY <1>3 DEF Crash, clients
  <2>2. saved' \in RelayState
    BY <1>t, <2>1, Dequeued DEF TypeOK
  <2> QED BY <1>t, <1>f, <2>1, <2>2 DEF Types, TypeOK
<1>4. CASE Start
  <2>1. tokenIndex' \subseteq (Keys \X Devices) \X Devices
    BY <1>t, <1>4, IndexTypes DEF Start, TypeOK
  <2> QED BY <1>t, <1>4, <2>1
          DEF Start, Types, TypeOK, QueueWellFormed, BodiesWellFormed, clients, history
<1> QED BY <1>1, <1>2, <1>3, <1>4 DEF Chain

\* Every step keeps the types.
LEMMA TypeStep == Types /\ [Next]_vars => Types'
<1> SUFFICES ASSUME Types, [Next]_vars PROVE Types'
  OBVIOUS
<1>t. TypeOK /\ QueueWellFormed /\ BodiesWellFormed
  BY DEF Types
<1>1. ASSUME NEW address \in Addresses, NEW presented, NEW forwarded,
             Access(address, presented, forwarded)
      PROVE  Types'
  <2> DEFINE d == identify(presented, address, forwarded, clock).deviceId
             m == [kind |-> "touch", slot |-> None, device |-> d, password |-> None,
                   hashKey |-> saved.key, address |-> address, now |-> clock]
  <2>1. /\ d # None /\ queue' = Append(queue, m)
        /\ UNCHANGED <<clock, saved, alive, tokenIndex, code, issued, counters, requests,
                       tokens, cookies, barred, codeOf, wrongs>>
    BY <1>1 DEF Access, clients, history
  <2>2. d \in Devices
    BY <2>1, IdentifyTypes
  <2>3. m \in Mutation /\ m.kind = "touch" /\ m.device = d
    <3>1. saved.key \in Keys /\ clock \in Time
      BY <1>t DEF TypeOK, RelayState
    <3> HIDE DEF d
    <3> QED BY <2>2, <3>1 DEF Mutation
  <2>4. queue' \in Seq(Mutation) /\ QueueWellFormed'
    <3> HIDE DEF m, d
    <3> QED BY <2>1, <2>2, <2>3, Enqueued
  <2> HIDE DEF m, d
  <2> QED BY <1>t, <2>1, <2>4 DEF Types, TypeOK, BodiesWellFormed
<1>2. ASSUME NEW show, NEW address \in Addresses, NEW presented, NEW forwarded,
             IssueCode(show, address, presented, forwarded)
      PROVE  Types'
  <2>1. /\ issued' = issued + 1
        /\ code' = [id |-> issued + 1, expiresAt |-> clock + PairingWindowMs]
        /\ UNCHANGED <<clock, saved, alive, tokenIndex, counters, queue, requests,
                       tokens, cookies, barred, codeOf, wrongs>>
    BY <1>2 DEF IssueCode, issue, clients, history
  <2>2. issued' \in Codes /\ code' \in PairingCode
    BY <1>t, <2>1, Limits DEF TypeOK, Codes, Time, PairingCode
  <2> QED BY <1>t, <2>1, <2>2 DEF Types, TypeOK, QueueWellFormed, BodiesWellFormed
<1>3. CASE Client
  BY <1>1, <1>2, <1>3, RequestTypes DEF Client
<1>4. CASE Tick
  <2>1. /\ clock' = clock + 1
        /\ wrongs' \in [Addresses -> Nat]
        /\ UNCHANGED <<saved, alive, tokenIndex, code, counters, queue, requests, issued,
                       tokens, cookies, barred, codeOf>>
    BY <1>t, <1>4 DEF Tick, TypeOK, process, clients
  <2>2. clock' \in Time
    BY <1>t, <2>1 DEF TypeOK, Time
  <2> QED BY <1>t, <2>1, <2>2 DEF Types, TypeOK, QueueWellFormed, BodiesWellFormed
<1>5. CASE UNCHANGED vars
  BY <1>t, <1>5 DEF vars, process, clients, history, Types, TypeOK, QueueWellFormed,
                    BodiesWellFormed
<1> QED BY <1>3, <1>4, <1>5, RequestTypes, ChainTypes DEF Next

-----------------------------------------------------------------------------
(* Credentials.                                                            *)

\* The mutations, device by device and grant by grant.
LEMMA MutatedEffect ==
    ASSUME NEW s \in RelayState, NEW m \in Mutation, NEW t, t = Mutated(s, m),
           m.kind \in {"pair", "touch", "revoke"} => m.device \in Devices
    PROVE  /\ m.kind = "password" =>
                t.devices = s.devices /\ t.grants = s.grants /\ t.key = s.key
                /\ t.password = m.password
           /\ m.kind = "pair" =>
                /\ t.key = s.key
                /\ t.devices[m.device] # None /\ ~t.devices[m.device].revoked
                /\ \A d \in Devices : d # m.device => t.devices[d] = s.devices[d]
           /\ m.kind = "touch" =>
                /\ t.key = s.key
                /\ \A d \in Devices :
                      /\ t.devices[d] = None <=> s.devices[d] = None
                      /\ s.devices[d] # None => /\ t.devices[d].hashKey = s.devices[d].hashKey
                                                /\ t.devices[d].revoked = s.devices[d].revoked
           /\ m.kind = "revoke" =>
                /\ t.key = s.key
                /\ \A d \in Devices :
                      /\ t.devices[d] = None <=> s.devices[d] = None
                      /\ d # m.device => t.devices[d] = s.devices[d]
                /\ t.devices[m.device] = None \/ t.devices[m.device].revoked
           /\ m.kind = "signout" =>
                /\ t.key = s.key + 1
                /\ \A d \in Devices : t.devices[d] = None
           /\ m.kind # "password" => t.password = s.password
           /\ \A a \in Addresses : t.grants[a] # None =>
                \/ /\ s.grants[a] # None /\ t.grants[a] = s.grants[a]
                   /\ m.kind # "signout"
                \/ /\ m.kind \in {"pair", "touch"}
                   /\ m.kind = "touch" => s.devices[m.device] # None
                   /\ t.grants[a].deviceId = m.device
<1>m. /\ m.hashKey \in Keys /\ m.address \in Addresses /\ m.now \in Nat
      /\ m.kind \in {"password", "pair", "touch", "revoke", "signout"}
  BY DEF Mutation, Time
<1>s. /\ s.key \in Nat \ {0} /\ s.password \in Passwords \cup {None}
      /\ s.devices \in [Devices -> DeviceRecord \cup {None}]
      /\ s.grants \in [Addresses -> AddressGrant \cup {None}]
      /\ s = [key |-> s.key, password |-> s.password, devices |-> s.devices, grants |-> s.grants]
  BY DEF RelayState, Keys
<1>g. \A a \in Addresses : Granted(s.grants, m)[a] = s.grants[a]
                          \/ Granted(s.grants, m)[a].deviceId = m.device
  BY <1>s, <1>m DEF Granted
<1>1. CASE m.kind = "password"
  <2>1. t = [s EXCEPT !.password = m.password]
    BY <1>1 DEF Mutated
  <2>2. t.devices = s.devices /\ t.grants = s.grants /\ t.key = s.key /\ t.password = m.password
    BY <1>s, <2>1
  <2> QED BY <1>1, <2>2
<1>2. CASE m.kind = "pair"
  <2> DEFINE new == [hashKey |-> m.hashKey, createdAt |-> m.now,
                     expiresAt |-> m.now + DeviceTokenTtlMs,
                     lastAddress |-> m.address, lastSeenAt |-> 0, revoked |-> FALSE]
  <2>1. new \in DeviceRecord /\ ~new.revoked
    BY <1>m, Limits DEF DeviceRecord, Time
  <2>2. t = paired(s, m) /\ m.device \in Devices
    BY <1>2 DEF Mutated
  <2>3. /\ t.devices = [s.devices EXCEPT ![m.device] = new]
        /\ t.grants = Granted(s.grants, m) /\ t.key = s.key /\ t.password = s.password
    BY <1>s, <2>2 DEF paired
  <2>4. new # None
    <3> HIDE DEF new
    <3> QED BY <2>1, NoneAssumption
  <2> HIDE DEF new
  <2>5. /\ t.devices[m.device] = new
        /\ \A d \in Devices : d # m.device => t.devices[d] = s.devices[d]
    BY <1>s, <2>2, <2>3
  <2> QED BY <1>2, <1>g, <2>1, <2>3, <2>4, <2>5
<1>3. CASE m.kind = "touch"
  <2>1. t = touched(s, m) /\ m.device \in Devices
    BY <1>3 DEF Mutated
  <2>2. CASE s.devices[m.device] = None
    BY <1>3, <2>1, <2>2 DEF touched
  <2>3. CASE s.devices[m.device] # None
    <3> DEFINE new == [s.devices[m.device] EXCEPT !.lastSeenAt = m.now,
                                                   !.lastAddress = m.address]
    <3>1. /\ new \in DeviceRecord
          /\ new.hashKey = s.devices[m.device].hashKey
          /\ new.revoked = s.devices[m.device].revoked
      BY <1>s, <1>m, <2>1, <2>3 DEF DeviceRecord, Time
    <3>2. /\ t.devices = [s.devices EXCEPT ![m.device] = new]
          /\ t.grants = Granted(s.grants, m) /\ t.key = s.key /\ t.password = s.password
      BY <1>s, <2>1, <2>3 DEF touched
    <3> HIDE DEF new
    <3>3. new # None
      BY <3>1, NoneAssumption
    <3>4. /\ t.devices[m.device] = new
          /\ \A d \in Devices : d # m.device => t.devices[d] = s.devices[d]
      BY <1>s, <2>1, <3>2
    <3> QED BY <1>3, <1>g, <2>3, <3>1, <3>2, <3>3, <3>4
  <2> QED BY <2>2, <2>3
<1>4. CASE m.kind = "revoke"
  <2> DEFINE new == IF s.devices[m.device] = None THEN None
                    ELSE [s.devices[m.device] EXCEPT !.revoked = TRUE]
  <2>1. t = revoked(s, m) /\ m.device \in Devices
    BY <1>4 DEF Mutated
  <2>2. /\ t.devices = [s.devices EXCEPT ![m.device] = new]
        /\ t.key = s.key /\ t.password = s.password
        /\ \A a \in Addresses : t.grants[a] = None \/ t.grants[a] = s.grants[a]
    BY <1>s, <2>1 DEF revoked
  <2>3. /\ new = None <=> s.devices[m.device] = None
        /\ new = None \/ new.revoked
    <3>1. CASE s.devices[m.device] = None
      BY <3>1
    <3>2. CASE s.devices[m.device] # None
      <4>1. [s.devices[m.device] EXCEPT !.revoked = TRUE] \in DeviceRecord
        BY <1>s, <2>1, <3>2 DEF DeviceRecord
      <4>2. [s.devices[m.device] EXCEPT !.revoked = TRUE].revoked
        BY <1>s, <2>1, <3>2 DEF DeviceRecord
      <4> QED BY <3>2, <4>1, <4>2, NoneAssumption
    <3> QED BY <3>1, <3>2
  <2> HIDE DEF new
  <2>4. /\ t.devices[m.device] = new
        /\ \A d \in Devices : d # m.device => t.devices[d] = s.devices[d]
    BY <1>s, <2>1, <2>2
  <2> QED BY <1>4, <2>2, <2>3, <2>4
<1>5. CASE m.kind = "signout"
  <2>1. t = rotated(s)
    BY <1>5 DEF Mutated
  <2>2. /\ t.key = s.key + 1 /\ t.password = s.password
        /\ \A d \in Devices : t.devices[d] = None
        /\ \A a \in Addresses : t.grants[a] = None
    BY <1>s, <2>1 DEF rotated
  <2> QED BY <1>5, <2>2
<1> QED BY <1>m, <1>1, <1>2, <1>3, <1>4, <1>5

\* The mutation at the head of the queue, and how the queue shifts.
LEMMA HeadFacts ==
    ASSUME Types, queue # <<>>
    PROVE  /\ Head(queue) \in Mutation /\ Head(queue) = queue[1] /\ 1 \in 1..Len(queue)
           /\ Head(queue).kind \in {"password", "pair", "touch", "revoke", "signout"}
           /\ Head(queue).kind \in {"pair", "touch", "revoke"} => Head(queue).device \in Devices
           /\ Head(queue).kind = "password" => Head(queue).password \in Passwords
           /\ \A i \in 1..Len(Tail(queue)) :
                  i + 1 \in 1..Len(queue) /\ i + 1 # 1 /\ Tail(queue)[i] = queue[i + 1]
<1>1. queue \in Seq(Mutation) /\ QueueWellFormed
  BY DEF Types, TypeOK
<1>2. /\ Head(queue) \in Mutation /\ Head(queue) = queue[1] /\ 1 \in 1..Len(queue)
      /\ \A i \in 1..Len(Tail(queue)) :
            i + 1 \in 1..Len(queue) /\ i + 1 # 1 /\ Tail(queue)[i] = queue[i + 1]
  BY <1>1, TailFacts
<1> QED BY <1>1, <1>2 DEF QueueWellFormed, Mutation

\* Only the chain, a crash and a restart touch the state, the index, the
\* tokens handed out and the revocations answered.
LEMMA StateFrame ==
    ASSUME [Next]_vars
    PROVE  \/ Commit \/ CommitFails \/ Start
           \/ \E landed \in BOOLEAN : Crash(landed)
           \/ UNCHANGED <<saved, alive, tokenIndex, tokens, barred>>
<1>1. ASSUME Client PROVE UNCHANGED <<saved, alive, tokenIndex, tokens, barred>>
  BY <1>1 DEF Client, Access, IssueCode, Arrive, clients, history
<1>2. ASSUME NEW r \in Slots, Body(r)
      PROVE  UNCHANGED <<saved, alive, tokenIndex, tokens, barred>>
  BY <1>2 DEF Body, Drop, PasswordBody, LoginBody, PairRefused, PairClaimed, PairLockedOut,
              revoke, clients, history
<1>3. ASSUME NEW r \in Slots, Resume(r)
      PROVE  UNCHANGED <<saved, alive, tokenIndex, tokens, barred>>
  BY <1>3 DEF Resume, setPassword, LoginWrong, LoginRight, signOutEverywhere, clients, history
<1>4. CASE Tick \/ UNCHANGED vars
  BY <1>4 DEF Tick, vars, process, clients, history
<1> QED BY <1>1, <1>2, <1>3, <1>4 DEF Next, Chain

\* What a commit does to the state.
LEMMA Committed ==
    ASSUME Types, Commit
    PROVE  /\ alive /\ alive' /\ queue # <<>> /\ queue' = Tail(queue)
           /\ saved' = Mutated(saved, Head(queue)) /\ saved \in RelayState /\ saved' \in RelayState
           /\ tokenIndex' = IndexAfter(Head(queue)) /\ barred' = BarredBy(Head(queue))
           /\ tokens' = IF Head(queue).kind = "pair" THEN tokens \cup {Head(queue).device}
                                                     ELSE tokens
           /\ UNCHANGED <<cookies, codeOf>>
BY Dequeued DEF Commit, Types, TypeOK

\* The index follows the state.
LEMMA IndexStep == Types /\ IndexFollows /\ [Next]_vars => IndexFollows'
<1> SUFFICES ASSUME Types, IndexFollows, [Next]_vars PROVE IndexFollows'
  OBVIOUS
<1>t. alive \in BOOLEAN
  BY DEF Types, TypeOK
<1>1. CASE Commit
  <2> DEFINE m == Head(queue)
  <2>1. /\ alive /\ alive' /\ tokenIndex' = IndexAfter(m) /\ queue # <<>>
        /\ saved' = Mutated(saved, m) /\ saved \in RelayState
    BY <1>1, Committed
  <2>2. /\ m \in Mutation /\ m.kind \in {"password", "pair", "touch", "revoke", "signout"}
        /\ m.kind \in {"pair", "touch", "revoke"} => m.device \in Devices
    BY <2>1, HeadFacts
  <2> HIDE DEF m
  <2>3. tokenIndex = IndexOf(saved)
    BY <2>1 DEF IndexFollows, IndexExact
  <2>4. CASE m.kind \in {"pair", "revoke", "signout"}
    BY <2>1, <2>4 DEF IndexAfter, IndexFollows, IndexExact
  <2>5. CASE m.kind \in {"password", "touch"}
    <3>1. \A d \in Devices :
            /\ saved'.devices[d] = None <=> saved.devices[d] = None
            /\ saved.devices[d] # None => /\ saved'.devices[d].hashKey = saved.devices[d].hashKey
                                          /\ saved'.devices[d].revoked = saved.devices[d].revoked
      BY <2>1, <2>2, <2>5, MutatedEffect
    <3>2. IndexOf(saved') = IndexOf(saved)
      BY <3>1 DEF IndexOf, hashToken
    <3>3. tokenIndex' = tokenIndex
      BY <2>1, <2>5 DEF IndexAfter
    <3> QED BY <2>1, <2>3, <3>2, <3>3 DEF IndexFollows, IndexExact
  <2> QED BY <2>2, <2>4, <2>5
<1>2. CASE CommitFails
  BY <1>2 DEF CommitFails, Forgotten, IndexFollows, IndexExact, IndexOf, hashToken
<1>3. ASSUME NEW landed \in BOOLEAN, Crash(landed) PROVE IndexFollows'
  BY <1>3 DEF Crash, Forgotten, IndexFollows, IndexExact
<1>4. CASE Start
  BY <1>4 DEF Start, IndexFollows, IndexExact, IndexOf, hashToken
<1>5. CASE UNCHANGED <<saved, alive, tokenIndex, tokens, barred>>
  BY <1>5 DEF IndexFollows, IndexExact, IndexOf, hashToken
<1> QED BY <1>1, <1>2, <1>3, <1>4, <1>5, StateFrame

\* What the running mutation leaves of the records and the grants, whether the
\* handler continues after it or the process dies.
LEMMA LandedGrants ==
    ASSUME Types, GrantsHaveOwner, queue # <<>>, saved' = Mutated(saved, Head(queue))
    PROVE  GrantsHaveOwner'
<1> DEFINE m == Head(queue)
<1>1. saved \in RelayState
  BY DEF Types, TypeOK
<1>2. /\ m \in Mutation
      /\ m.kind \in {"password", "pair", "touch", "revoke", "signout"}
      /\ m.kind \in {"pair", "touch", "revoke"} => m.device \in Devices
  BY HeadFacts
<1> HIDE DEF m
<1>e. saved' = Mutated(saved, m)
  BY DEF m
<1> SUFFICES ASSUME NEW a \in Addresses, saved'.grants[a] # None
             PROVE  saved'.devices[saved'.grants[a].deviceId] # None
  BY DEF GrantsHaveOwner
<1>3. ASSUME saved.grants[a] # None
      PROVE  saved.grants[a].deviceId \in Devices /\ saved.devices[saved.grants[a].deviceId] # None
  BY <1>1, <1>3 DEF GrantsHaveOwner, RelayState, AddressGrant
<1>4. CASE m.kind = "password"
  <2>1. saved'.devices = saved.devices /\ saved'.grants = saved.grants
    BY <1>1, <1>2, <1>e, <1>4, MutatedEffect
  <2> QED BY <1>3, <2>1
<1>5. \/ saved.grants[a] # None /\ saved'.grants[a] = saved.grants[a] /\ m.kind # "signout"
      \/ /\ m.kind \in {"pair", "touch"}
         /\ m.kind = "touch" => saved.devices[m.device] # None
         /\ saved'.grants[a].deviceId = m.device
  BY <1>1, <1>2, <1>e, MutatedEffect
<1>6. CASE m.kind = "pair"
  <2>1. /\ saved'.devices[m.device] # None
        /\ \A d \in Devices : d # m.device => saved'.devices[d] = saved.devices[d]
    BY <1>1, <1>2, <1>e, <1>6, MutatedEffect
  <2> QED BY <1>3, <1>5, <2>1
<1>7. CASE m.kind \in {"touch", "revoke"}
  <2>1. \A d \in Devices : saved'.devices[d] = None <=> saved.devices[d] = None
    BY <1>1, <1>2, <1>e, <1>7, MutatedEffect
  <2> QED BY <1>2, <1>3, <1>5, <1>7, <2>1
<1>8. CASE m.kind = "signout"
  BY <1>5, <1>8
<1> QED BY <1>2, <1>4, <1>6, <1>7, <1>8

\* Every grant keeps its owner.
LEMMA GrantStep == Types /\ GrantsHaveOwner /\ [Next]_vars => GrantsHaveOwner'
<1> SUFFICES ASSUME Types, GrantsHaveOwner, [Next]_vars PROVE GrantsHaveOwner'
  OBVIOUS
<1>1. ASSUME saved' = saved PROVE GrantsHaveOwner'
  BY <1>1 DEF GrantsHaveOwner
<1>2. CASE Commit
  BY <1>2, Committed, LandedGrants
<1>3. ASSUME NEW landed \in BOOLEAN, Crash(landed) PROVE GrantsHaveOwner'
  BY <1>1, <1>3, LandedGrants DEF Crash
<1>4. CASE CommitFails \/ Start
  BY <1>1, <1>4 DEF CommitFails, Start
<1> QED BY <1>1, <1>2, <1>3, <1>4, StateFrame

\* A mutation that joins the queue: a new device's pairing, a live device's
\* revocation, or one of the others; codes enrol nobody else.
Joins(m) ==
    /\ m \in Mutation /\ queue' = Append(queue, m)
    /\ \/ m.kind \notin {"pair", "revoke"} /\ codeOf' = codeOf
       \/ m.kind = "revoke" /\ m.device \in Devices /\ Live(m.device) /\ codeOf' = codeOf
       \/ /\ m.kind = "pair" /\ m.device \in Devices \ Minted
          /\ code # None /\ code' = None
          /\ codeOf' = [codeOf EXCEPT ![m.device] = code.id]

\* The queue and the codes used change only by a mutation that joins, by the
\* chain and by a crash.
LEMMA QueueFrame ==
    ASSUME Types, [Next]_vars
    PROVE  \/ Commit \/ CommitFails
           \/ \E landed \in BOOLEAN : Crash(landed)
           \/ (\E m : Joins(m)) /\ UNCHANGED <<saved, tokens, barred, cookies, issued>>
           \/ UNCHANGED <<queue, saved, tokens, barred, codeOf>>
<1>t. TypeOK
  BY DEF Types
<1>q. /\ requests \in [Slots -> Request \cup {None}] /\ saved.key \in Keys
      /\ clock \in Time /\ code \in PairingCode \cup {None}
  BY <1>t DEF TypeOK, RelayState
<1>h. ASSUME NEW r \in Slots, requests[r] # None,
             NEW kind \in {"password", "pair", "revoke", "signout"},
             NEW device \in Devices \cup {None}, NEW password \in Passwords \cup {None},
             Enqueue(r, kind, device, password)
      PROVE  \E m \in Mutation : queue' = Append(queue, m) /\ m.kind = kind /\ m.device = device
  <2> DEFINE m == [kind |-> kind, slot |-> r, device |-> device, password |-> password,
                   hashKey |-> saved.key, address |-> requests[r].address,
                   now |-> requests[r].now]
  <2>1. m \in Mutation
    BY <1>q, <1>h DEF Mutation, Request
  <2> QED BY <1>h, <2>1 DEF Enqueue
<1>1. ASSUME NEW r \in Slots, setPassword(r)
      PROVE  (\E m : Joins(m)) /\ UNCHANGED <<saved, tokens, barred, cookies, issued>>
  <2>1. /\ requests[r] # None /\ requests[r].arg \in Passwords \cup {None}
        /\ Enqueue(r, "password", None, requests[r].arg)
    BY <1>1 DEF Types, BodiesWellFormed, setPassword, At
  <2>2. PICK m \in Mutation : queue' = Append(queue, m) /\ m.kind = "password"
    BY <1>h, <2>1
  <2> QED BY <1>1, <2>2 DEF setPassword, Joins, clients, history
<1>2. ASSUME NEW r \in Slots, signOutEverywhere(r)
      PROVE  (\E m : Joins(m)) /\ UNCHANGED <<saved, tokens, barred, cookies, issued>>
  <2>1. requests[r] # None /\ Enqueue(r, "signout", None, None)
    BY <1>2 DEF signOutEverywhere, At
  <2>2. PICK m \in Mutation : queue' = Append(queue, m) /\ m.kind = "signout"
    BY <1>h, <2>1
  <2> QED BY <1>2, <2>2 DEF signOutEverywhere, Joins, clients, history
<1>3. ASSUME NEW r \in Slots, NEW d \in Devices, revoke(r, d)
      PROVE  \/ (\E m : Joins(m)) /\ UNCHANGED <<saved, tokens, barred, cookies, issued>>
             \/ UNCHANGED <<queue, saved, tokens, barred, codeOf>>
  <2>1. CASE Live(d)
    <3>1. requests[r] # None /\ Enqueue(r, "revoke", d, None)
      BY <1>3, <2>1 DEF revoke, At
    <3>2. PICK m \in Mutation : queue' = Append(queue, m) /\ m.kind = "revoke" /\ m.device = d
      BY <1>h, <3>1
    <3> QED BY <1>3, <2>1, <3>2 DEF revoke, Joins, clients, history
  <2>2. CASE ~Live(d)
    BY <1>3, <2>2 DEF revoke, clients, history
  <2> QED BY <2>1, <2>2
<1>4. ASSUME NEW r \in Slots, NEW candidate \in 0..issued, NEW d \in Devices,
             PairClaimed(r, candidate, d)
      PROVE  (\E m : Joins(m)) /\ UNCHANGED <<saved, tokens, barred, cookies, issued>>
  <2>1. requests[r] # None /\ Enqueue(r, "pair", d, None) /\ d \notin Minted
    BY <1>4 DEF PairClaimed, At
  <2>2. PICK m \in Mutation : queue' = Append(queue, m) /\ m.kind = "pair" /\ m.device = d
    BY <1>h, <2>1
  <2>3. code # None /\ candidate = code.id /\ code' = None
    BY <1>4 DEF PairClaimed, Matches, Peeked, Claimed
  <2>4. Joins(m)
    BY <1>4, <2>1, <2>2, <2>3 DEF PairClaimed, Joins
  <2> QED BY <1>4, <2>4 DEF PairClaimed, clients
<1>5. ASSUME NEW address \in Addresses, NEW presented, NEW forwarded,
             Access(address, presented, forwarded)
      PROVE  (\E m : Joins(m)) /\ UNCHANGED <<saved, tokens, barred, cookies, issued>>
  <2> DEFINE d == identify(presented, address, forwarded, clock).deviceId
             m == [kind |-> "touch", slot |-> None, device |-> d, password |-> None,
                   hashKey |-> saved.key, address |-> address, now |-> clock]
  <2>1. queue' = Append(queue, m) /\ UNCHANGED <<saved, tokens, barred, cookies, codeOf, issued>>
    BY <1>5 DEF Access, clients, history
  <2>2. m \in Mutation /\ m.kind = "touch"
    <3>1. d \in Devices \cup {None}
      BY IdentifyTypes
    <3> HIDE DEF d
    <3> QED BY <1>q, <3>1 DEF Mutation
  <2> HIDE DEF m
  <2> QED BY <2>1, <2>2 DEF Joins
<1>6. CASE Client
  BY <1>5, <1>6 DEF Client, IssueCode, Arrive, clients, history
<1>7. ASSUME NEW r \in Slots, Body(r)
      PROVE  \/ (\E m : Joins(m)) /\ UNCHANGED <<saved, tokens, barred, cookies, issued>>
             \/ UNCHANGED <<queue, saved, tokens, barred, codeOf>>
  <2>1. ASSUME \/ Drop(r) \/ PairLockedOut(r)
               \/ \E password \in Passwords : PasswordBody(r, password) \/ LoginBody(r, password)
               \/ \E candidate \in 0..issued : PairRefused(r, candidate)
        PROVE  UNCHANGED <<queue, saved, tokens, barred, codeOf>>
    BY <2>1 DEF Drop, PasswordBody, LoginBody, PairRefused, PairLockedOut, clients, history
  <2> QED BY <1>3, <1>4, <1>7, <2>1 DEF Body
<1>8. ASSUME NEW r \in Slots, Resume(r)
      PROVE  \/ (\E m : Joins(m)) /\ UNCHANGED <<saved, tokens, barred, cookies, issued>>
             \/ UNCHANGED <<queue, saved, tokens, barred, codeOf>>
  BY <1>1, <1>2, <1>8 DEF Resume, LoginWrong, LoginRight, clients
<1>9. CASE Start \/ Tick \/ UNCHANGED vars
  BY <1>9 DEF Start, Tick, vars, process, clients, history
<1> QED BY <1>6, <1>7, <1>8, <1>9 DEF Next, Chain

\* Which records a landed mutation adds: only that of a pairing.
LEMMA LandedRecords ==
    ASSUME Types, queue # <<>>, saved' = Mutated(saved, Head(queue)),
           NEW d \in Devices, saved'.devices[d] # None
    PROVE  \/ saved.devices[d] # None /\ Head(queue).kind # "signout"
           \/ Head(queue).kind = "pair" /\ Head(queue).device = d
<1> DEFINE m == Head(queue)
<1>1. saved \in RelayState
  BY DEF Types, TypeOK
<1>2. /\ m \in Mutation
      /\ m.kind \in {"password", "pair", "touch", "revoke", "signout"}
      /\ m.kind \in {"pair", "touch", "revoke"} => m.device \in Devices
  BY HeadFacts
<1> HIDE DEF m
<1>e. saved' = Mutated(saved, m)
  BY DEF m
<1>3. CASE m.kind = "password"
  <2>1. saved'.devices = saved.devices
    BY <1>1, <1>2, <1>e, <1>3, MutatedEffect
  <2> QED BY <1>3, <2>1 DEF m
<1>4. CASE m.kind = "pair"
  <2>1. \A e \in Devices : e # m.device => saved'.devices[e] = saved.devices[e]
    BY <1>1, <1>2, <1>e, <1>4, MutatedEffect
  <2> QED BY <1>4, <2>1 DEF m
<1>5. CASE m.kind \in {"touch", "revoke"}
  <2>1. \A e \in Devices : saved'.devices[e] = None <=> saved.devices[e] = None
    BY <1>1, <1>2, <1>e, <1>5, MutatedEffect
  <2> QED BY <1>5, <2>1 DEF m
<1>6. CASE m.kind = "signout"
  <2>1. \A e \in Devices : saved'.devices[e] = None
    BY <1>1, <1>2, <1>e, <1>6, MutatedEffect
  <2> QED BY <2>1
<1> QED BY <1>2, <1>3, <1>4, <1>5, <1>6

\* Enrolment stays tied to a code, and queued pairings stay new.
LEMMA EnrolmentStep ==
    Types /\ EnrolledWithCode /\ PairsAreNew /\ CodesAreFresh /\ [Next]_vars
        => EnrolledWithCode' /\ PairsAreNew'
<1> SUFFICES ASSUME Types, EnrolledWithCode, PairsAreNew, CodesAreFresh, [Next]_vars
             PROVE  EnrolledWithCode' /\ PairsAreNew'
  OBVIOUS
<1>t. /\ queue \in Seq(Mutation) /\ codeOf \in [Devices -> Nat]
      /\ code \in PairingCode \cup {None} /\ saved \in RelayState
      /\ tokens \subseteq Devices /\ barred.devices \subseteq Devices
  BY DEF Types, TypeOK, Codes
<1>1. CASE Commit
  <2> DEFINE m == Head(queue)
  <2>1. /\ queue # <<>> /\ queue' = Tail(queue) /\ saved' = Mutated(saved, m)
        /\ barred' = BarredBy(m) /\ codeOf' = codeOf
        /\ tokens' = IF m.kind = "pair" THEN tokens \cup {m.device} ELSE tokens
    BY <1>1, Committed
  <2>2. /\ m \in Mutation /\ m = queue[1] /\ 1 \in 1..Len(queue)
        /\ m.kind \in {"password", "pair", "touch", "revoke", "signout"}
        /\ m.kind \in {"pair", "touch", "revoke"} => m.device \in Devices
        /\ \A i \in 1..Len(queue') :
              i + 1 \in 1..Len(queue) /\ i + 1 # 1 /\ queue'[i] = queue[i + 1]
    BY <2>1, HeadFacts
  <2>3. \A d \in Devices : saved'.devices[d] # None =>
            \/ saved.devices[d] # None /\ m.kind # "signout"
            \/ m.kind = "pair" /\ m.device = d
    BY <2>1, LandedRecords
  <2> HIDE DEF m
  <2>4. /\ m.kind = "pair" => m.device \in Minted
        /\ m.kind = "revoke" => m.device \in Minted
    BY <2>2 DEF PairsAreNew
  <2>5. /\ m.kind = "revoke" => barred'.devices = barred.devices \cup {m.device}
        /\ m.kind = "signout" => barred'.devices = barred.devices \cup tokens
        /\ m.kind \notin {"revoke", "signout"} => barred'.devices = barred.devices
    <3>1. barred = [devices |-> barred.devices, cookies |-> barred.cookies]
      BY DEF Types, TypeOK
    <3> QED BY <2>1, <3>1 DEF BarredBy
  <2>6. Minted' = Minted
    BY <2>1 DEF Minted
  <2>7. EnrolledWithCode'
    BY <2>1, <2>2, <2>3, <2>4, <2>5, <2>6 DEF EnrolledWithCode
  <2>8. ASSUME NEW i \in 1..Len(queue'), queue'[i].kind = "pair"
        PROVE  /\ queue'[i].device \in Minted /\ saved'.devices[queue'[i].device] = None
               /\ queue'[i].device \notin tokens' /\ queue'[i].device \notin barred'.devices
    <3>1. i + 1 \in 1..Len(queue) /\ i + 1 # 1 /\ queue'[i] = queue[i + 1]
      BY <2>2
    <3>2. /\ queue'[i].device \in Minted /\ saved.devices[queue'[i].device] = None
          /\ queue'[i].device \notin tokens /\ queue'[i].device \notin barred.devices
      BY <2>8, <3>1 DEF PairsAreNew
    <3>3. m.kind \in {"pair", "revoke"} => m.device # queue'[i].device
      BY <2>2, <2>8, <3>1 DEF PairsAreNew
    <3>4. queue'[i].device \in Devices
      BY <3>2 DEF Minted
    <3> QED BY <2>1, <2>2, <2>3, <2>5, <3>2, <3>3, <3>4
  <2>9. PairsAreNew'
    <3>1. ASSUME NEW i \in 1..Len(queue')
          PROVE  /\ queue'[i].kind = "revoke" => queue'[i].device \in Minted
                 /\ \A j \in 1..Len(queue') :
                      /\ queue'[i].kind = "pair"
                      /\ queue'[j].kind \in {"pair", "revoke"}
                      /\ queue'[i].device = queue'[j].device
                      => i = j
      <4>1. i + 1 \in 1..Len(queue) /\ queue'[i] = queue[i + 1]
        BY <2>2
      <4>2. queue'[i].kind = "revoke" => queue'[i].device \in Minted
        BY <4>1 DEF PairsAreNew
      <4>3. ASSUME NEW j \in 1..Len(queue'), queue'[i].kind = "pair",
                   queue'[j].kind \in {"pair", "revoke"}, queue'[i].device = queue'[j].device
            PROVE  i = j
        <5>1. j + 1 \in 1..Len(queue) /\ queue'[j] = queue[j + 1]
          BY <2>2
        <5>2. i + 1 = j + 1
          BY <4>1, <4>3, <5>1 DEF PairsAreNew
        <5> QED BY <5>2
      <4> QED BY <4>2, <4>3
    <3> QED BY <2>6, <2>8, <3>1 DEF PairsAreNew
  <2> QED BY <2>7, <2>9
<1>2. CASE CommitFails
  <2>1. /\ queue # <<>> /\ (queue' = Tail(queue) \/ queue' = <<>>)
        /\ UNCHANGED <<saved, tokens, barred, codeOf>>
    BY <1>2 DEF CommitFails, Forgotten, clients
  <2>2. \A i \in 1..Len(queue') : i + 1 \in 1..Len(queue) /\ queue'[i] = queue[i + 1]
    BY <2>1, HeadFacts
  <2>3. EnrolledWithCode'
    BY <2>1 DEF EnrolledWithCode, Minted
  <2>4. PairsAreNew'
    <3>1. Minted' = Minted
      BY <2>1 DEF Minted
    <3>2. ASSUME NEW i \in 1..Len(queue'), NEW j \in 1..Len(queue'), queue'[i].kind = "pair",
                 queue'[j].kind \in {"pair", "revoke"}, queue'[i].device = queue'[j].device
          PROVE  i = j
      <4>1. i + 1 = j + 1
        BY <2>2, <3>2 DEF PairsAreNew
      <4> QED BY <4>1
    <3> QED BY <2>1, <2>2, <3>1, <3>2 DEF PairsAreNew
  <2> QED BY <2>3, <2>4
<1>3. ASSUME NEW landed \in BOOLEAN, Crash(landed) PROVE EnrolledWithCode' /\ PairsAreNew'
  <2>1. /\ queue' = <<>> /\ UNCHANGED <<tokens, barred, codeOf>>
        /\ \/ saved' = saved
           \/ queue # <<>> /\ saved' = Mutated(saved, Head(queue))
    BY <1>3 DEF Crash, Forgotten, clients
  <2>2. ASSUME NEW d \in Devices, saved'.devices[d] # None PROVE d \in Minted
    <3>1. CASE saved.devices[d] # None
      BY <3>1 DEF EnrolledWithCode
    <3>2. CASE saved.devices[d] = None
      <4>1. queue # <<>> /\ Head(queue).kind = "pair" /\ Head(queue).device = d
        BY <2>1, <2>2, <3>2, LandedRecords
      <4>2. Head(queue) = queue[1] /\ 1 \in 1..Len(queue)
        BY <4>1, HeadFacts
      <4> QED BY <4>1, <4>2 DEF PairsAreNew
    <3> QED BY <3>1, <3>2
  <2>3. Len(queue') = 0 /\ Minted' = Minted
    BY <2>1 DEF Minted
  <2>4. EnrolledWithCode'
    BY <2>1, <2>2, <2>3 DEF EnrolledWithCode
  <2>5. PairsAreNew'
    BY <2>3 DEF PairsAreNew
  <2> QED BY <2>4, <2>5
<1>4. ASSUME NEW m, Joins(m), UNCHANGED <<saved, tokens, barred, cookies, issued>>
      PROVE  EnrolledWithCode' /\ PairsAreNew'
  <2>1. /\ m \in Mutation /\ queue' = Append(queue, m)
        /\ Len(queue) \in Nat /\ Len(queue') = Len(queue) + 1
        /\ \A i \in 1..Len(queue) : queue'[i] = queue[i]
        /\ queue'[Len(queue) + 1] = m
    BY <1>t, <1>4, AppendFacts DEF Joins
  <2>2. /\ Minted \subseteq Minted'
        /\ m.kind = "pair" => m.device \in Minted' /\ m.device \in Devices \ Minted
    <3>1. CASE m.kind = "pair"
      <4>1. /\ code # None /\ m.device \in Devices \ Minted
            /\ codeOf' = [codeOf EXCEPT ![m.device] = code.id]
        BY <1>4, <3>1 DEF Joins
      <4>2. code.id \in Nat \ {0}
        BY <1>t, <4>1 DEF PairingCode, Codes
      <4> QED BY <1>t, <4>1, <4>2 DEF Minted
    <3>2. CASE m.kind # "pair"
      BY <1>4, <3>2 DEF Joins, Minted
    <3> QED BY <3>1, <3>2
  <2>3. m.kind = "revoke" => /\ m.device \in Devices /\ saved.devices[m.device] # None
                             /\ m.device \in Minted
    BY <1>4 DEF Joins, Live, EnrolledWithCode
  <2>4. EnrolledWithCode'
    BY <1>4, <2>2 DEF EnrolledWithCode
  <2>5. m.kind = "pair" => /\ saved.devices[m.device] = None
                           /\ m.device \notin tokens /\ m.device \notin barred.devices
    BY <2>2 DEF EnrolledWithCode
  <2>s. \A i \in 1..Len(queue') : i \in 1..Len(queue) \/ i = Len(queue) + 1
    <3>1. Len(queue) \in Nat /\ Len(queue') = Len(queue) + 1
      BY <2>1
    <3> QED BY <3>1
  <2>6. ASSUME NEW i \in 1..Len(queue')
        PROVE  \/ i \in 1..Len(queue) /\ queue'[i] = queue[i]
               \/ i = Len(queue) + 1 /\ queue'[i] = m
    <3>1. CASE i \in 1..Len(queue)
      BY <2>1, <3>1
    <3>2. CASE i = Len(queue) + 1
      BY <2>1, <3>2
    <3> QED BY <2>s, <3>1, <3>2
  <2>7. ASSUME NEW i \in 1..Len(queue')
        PROVE  /\ queue'[i].kind = "pair" =>
                    /\ queue'[i].device \in Minted'
                    /\ saved'.devices[queue'[i].device] = None
                    /\ queue'[i].device \notin tokens'
                    /\ queue'[i].device \notin barred'.devices
               /\ queue'[i].kind = "revoke" => queue'[i].device \in Minted'
    BY <1>4, <2>2, <2>3, <2>5, <2>6 DEF PairsAreNew
  <2>8. ASSUME NEW i \in 1..Len(queue'), NEW j \in 1..Len(queue'), queue'[i].kind = "pair",
               queue'[j].kind \in {"pair", "revoke"}, queue'[i].device = queue'[j].device
        PROVE  i = j
    <3>1. CASE i \in 1..Len(queue) /\ j \in 1..Len(queue)
      BY <2>1, <2>8, <3>1 DEF PairsAreNew
    <3>2. CASE i \in 1..Len(queue) /\ j = Len(queue) + 1
      <4>1. queue[i].device \in Minted /\ saved.devices[queue[i].device] = None
        BY <2>1, <2>8, <3>2 DEF PairsAreNew
      <4> QED BY <2>1, <2>2, <2>3, <2>8, <3>2, <4>1
    <3>3. CASE i = Len(queue) + 1 /\ j \in 1..Len(queue)
      <4>1. queue[j].device \in Minted
        BY <2>1, <2>8, <3>3 DEF PairsAreNew
      <4> QED BY <2>1, <2>2, <2>8, <3>3, <4>1
    <3> QED BY <2>6, <3>1, <3>2, <3>3
  <2>9. PairsAreNew'
    BY <2>7, <2>8 DEF PairsAreNew
  <2> QED BY <2>4, <2>9
<1>5. CASE UNCHANGED <<queue, saved, tokens, barred, codeOf>>
  BY <1>5 DEF EnrolledWithCode, PairsAreNew, Minted
<1> QED BY <1>1, <1>2, <1>3, <1>4, <1>5, QueueFrame

\* A revoked device stays dead and a cookie never outlives its key.
LEMMA BarredStep ==
    Types /\ EnrolledWithCode /\ PairsAreNew /\ BarredAreDead /\ [Next]_vars => BarredAreDead'
<1> SUFFICES ASSUME Types, EnrolledWithCode, PairsAreNew, BarredAreDead, [Next]_vars
             PROVE  BarredAreDead'
  OBVIOUS
<1>t. /\ saved \in RelayState /\ barred = [devices |-> barred.devices, cookies |-> barred.cookies]
      /\ barred.devices \subseteq Devices /\ tokens \subseteq Devices
      /\ barred.cookies \subseteq Cookie /\ cookies \subseteq Cookie
      /\ saved.key \in Nat \ {0}
  BY DEF Types, TypeOK, RelayState, Keys
<1>l. ASSUME queue # <<>>, saved' = Mutated(saved, Head(queue))
      PROVE  /\ \A d \in barred.devices : saved'.devices[d] = None \/ saved'.devices[d].revoked
             /\ Head(queue).kind = "revoke" =>
                    LET d == Head(queue).device
                    IN  saved'.devices[d] = None \/ saved'.devices[d].revoked
             /\ Head(queue).kind = "signout" =>
                    (\A d \in Devices : saved'.devices[d] = None) /\ saved'.key = saved.key + 1
             /\ saved'.key >= saved.key
  <2> DEFINE m == Head(queue)
  <2>1. /\ m \in Mutation /\ m = queue[1] /\ 1 \in 1..Len(queue)
        /\ m.kind \in {"password", "pair", "touch", "revoke", "signout"}
        /\ m.kind \in {"pair", "touch", "revoke"} => m.device \in Devices
    BY <1>l, HeadFacts
  <2> HIDE DEF m
  <2>e. saved' = Mutated(saved, m)
    BY <1>l DEF m
  <2>2. m.kind = "pair" => m.device \notin barred.devices
    BY <2>1 DEF PairsAreNew
  <2>3. CASE m.kind = "password"
    <3>1. saved'.devices = saved.devices /\ saved'.key = saved.key
      BY <1>t, <2>1, <2>e, <2>3, MutatedEffect
    <3> QED BY <1>t, <2>3, <3>1 DEF BarredAreDead, m
  <2>4. CASE m.kind = "pair"
    <3>1. saved'.key = saved.key
      BY <1>t, <2>1, <2>e, <2>4, MutatedEffect
    <3>2. \A d \in Devices : d # m.device => saved'.devices[d] = saved.devices[d]
      BY <1>t, <2>1, <2>e, <2>4, MutatedEffect
    <3> QED BY <1>t, <2>2, <2>4, <3>1, <3>2 DEF BarredAreDead, m
  <2>5. CASE m.kind = "touch"
    <3>1. saved'.key = saved.key
      BY <1>t, <2>1, <2>e, <2>5, MutatedEffect
    <3>2. \A d \in Devices :
            /\ saved'.devices[d] = None <=> saved.devices[d] = None
            /\ saved.devices[d] # None => saved'.devices[d].revoked = saved.devices[d].revoked
      BY <1>t, <2>1, <2>e, <2>5, MutatedEffect
    <3> QED BY <1>t, <2>5, <3>1, <3>2 DEF BarredAreDead, m
  <2>6. CASE m.kind = "revoke"
    <3>1. /\ saved'.key = saved.key
          /\ saved'.devices[m.device] = None \/ saved'.devices[m.device].revoked
      BY <1>t, <2>1, <2>e, <2>6, MutatedEffect
    <3>2. \A d \in Devices : d # m.device => saved'.devices[d] = saved.devices[d]
      BY <1>t, <2>1, <2>e, <2>6, MutatedEffect
    <3> QED BY <1>t, <2>6, <3>1, <3>2 DEF BarredAreDead, m
  <2>7. CASE m.kind = "signout"
    <3>1. saved'.key = saved.key + 1
      BY <1>t, <2>1, <2>e, <2>7, MutatedEffect
    <3>2. \A d \in Devices : saved'.devices[d] = None
      BY <1>t, <2>1, <2>e, <2>7, MutatedEffect
    <3> QED BY <1>t, <2>7, <3>1, <3>2 DEF m
  <2> QED BY <2>1, <2>3, <2>4, <2>5, <2>6, <2>7
<1>k. ASSUME saved' \in RelayState PROVE saved'.key \in Nat
  BY <1>k DEF RelayState, Keys
<1>c. /\ \A c \in cookies : c.key \in Nat /\ c.key <= saved.key
      /\ \A c \in barred.cookies : c.key \in Nat /\ c.key < saved.key
  BY <1>t DEF BarredAreDead, Cookie, Keys
<1>1. CASE Commit
  <2> DEFINE m == Head(queue)
  <2>1. /\ queue # <<>> /\ saved' = Mutated(saved, m) /\ saved' \in RelayState
        /\ barred' = BarredBy(m) /\ cookies' = cookies
    BY <1>1, Committed
  <2>2. /\ \A d \in barred.devices : saved'.devices[d] = None \/ saved'.devices[d].revoked
        /\ m.kind = "revoke" => saved'.devices[m.device] = None \/ saved'.devices[m.device].revoked
        /\ m.kind = "signout" =>
              (\A d \in Devices : saved'.devices[d] = None) /\ saved'.key = saved.key + 1
        /\ saved'.key >= saved.key /\ saved'.key \in Nat
    BY <1>k, <1>l, <2>1
  <2> HIDE DEF m
  <2>3. CASE m.kind = "revoke"
    <3>1. barred'.devices = barred.devices \cup {m.device} /\ barred'.cookies = barred.cookies
      BY <1>t, <2>1, <2>3 DEF BarredBy
    <3> QED BY <1>t, <1>c, <2>1, <2>2, <2>3, <3>1 DEF BarredAreDead
  <2>4. CASE m.kind = "signout"
    <3>1. /\ barred'.devices = barred.devices \cup tokens
          /\ barred'.cookies = barred.cookies \cup cookies
      BY <2>1, <2>4 DEF BarredBy
    <3> QED BY <1>t, <1>c, <2>1, <2>2, <2>4, <3>1 DEF BarredAreDead
  <2>5. CASE m.kind \notin {"revoke", "signout"}
    <3>1. barred' = barred
      BY <2>1, <2>5 DEF BarredBy
    <3> QED BY <1>t, <1>c, <2>1, <2>2, <3>1 DEF BarredAreDead
  <2> QED BY <2>3, <2>4, <2>5
<1>2. ASSUME NEW landed \in BOOLEAN, Crash(landed) PROVE BarredAreDead'
  <2>1. /\ UNCHANGED <<cookies, barred>>
        /\ \/ saved' = saved
           \/ queue # <<>> /\ saved' = Mutated(saved, Head(queue))
    BY <1>2 DEF Crash, clients
  <2>2. /\ \A d \in barred.devices : saved'.devices[d] = None \/ saved'.devices[d].revoked
        /\ saved'.key >= saved.key /\ saved'.key \in Nat
    <3>1. CASE saved' = saved
      BY <1>t, <3>1 DEF BarredAreDead
    <3>2. CASE queue # <<>> /\ saved' = Mutated(saved, Head(queue))
      BY <1>k, <1>l, <3>2, Dequeued
    <3> QED BY <2>1, <3>1, <3>2
  <2> QED BY <1>t, <1>c, <2>1, <2>2 DEF BarredAreDead
<1>3. ASSUME NEW r \in Slots, LoginRight(r) PROVE BarredAreDead'
  <2>1. /\ saved' = saved /\ barred' = barred
        /\ \A c \in cookies' : c \in cookies \/ c.key = saved.key
    BY <1>3 DEF LoginRight
  <2> QED BY <1>t, <2>1 DEF BarredAreDead
<1>4. ASSUME UNCHANGED <<saved, barred, cookies>> PROVE BarredAreDead'
  BY <1>4 DEF BarredAreDead
<1>5. CASE CommitFails \/ Start \/ Tick \/ UNCHANGED vars
  BY <1>4, <1>5 DEF CommitFails, Start, Tick, vars, clients, history
<1>6. CASE Client
  BY <1>4, <1>6 DEF Client, Access, IssueCode, Arrive, clients, history
<1>7. ASSUME NEW r \in Slots, Body(r) PROVE BarredAreDead'
  BY <1>4, <1>7 DEF Body, Drop, PasswordBody, LoginBody, PairRefused, PairClaimed,
                     PairLockedOut, revoke, clients, history
<1>8. ASSUME NEW r \in Slots, Resume(r) PROVE BarredAreDead'
  BY <1>3, <1>4, <1>8 DEF Resume, setPassword, LoginWrong, signOutEverywhere, clients, history
<1> QED BY <1>1, <1>2, <1>5, <1>6, <1>7, <1>8 DEF Next, Chain

\* How the outstanding code and the enrolments change: a code is issued, the
\* outstanding one enrols a device, or it is forgotten.
LEMMA CodeFrame ==
    ASSUME Types, [Next]_vars
    PROVE  \/ /\ issued' = issued + 1 /\ code'.id = issued + 1 /\ codeOf' = codeOf
           \/ /\ code # None /\ code' = None /\ issued' = issued
              /\ \E d \in Devices : /\ codeOf[d] = 0
                                    /\ codeOf' = [codeOf EXCEPT ![d] = code.id]
           \/ /\ code' \in {None, code} /\ issued' = issued /\ codeOf' = codeOf
<1>1. CASE Client
  BY <1>1 DEF Client, Access, Arrive, IssueCode, issue, clients, history
<1>2. ASSUME NEW r \in Slots, NEW candidate \in 0..issued, NEW d \in Devices,
             PairClaimed(r, candidate, d)
      PROVE  /\ code # None /\ code' = None /\ issued' = issued
             /\ codeOf[d] = 0 /\ codeOf' = [codeOf EXCEPT ![d] = code.id]
  BY <1>2 DEF PairClaimed, Matches, Peeked, Claimed, Minted
<1>3. ASSUME NEW r \in Slots, NEW candidate, PairRefused(r, candidate)
      PROVE  code' \in {None, code} /\ issued' = issued /\ codeOf' = codeOf
  BY <1>3 DEF PairRefused, Peeked
<1>4. ASSUME NEW r \in Slots,
             \/ Drop(r) \/ PairLockedOut(r) \/ Resume(r)
             \/ \E d \in Devices : revoke(r, d)
             \/ \E password \in Passwords : PasswordBody(r, password) \/ LoginBody(r, password)
      PROVE  code' = code /\ issued' = issued /\ codeOf' = codeOf
  BY <1>4 DEF Drop, PairLockedOut, Resume, revoke, PasswordBody, LoginBody, setPassword,
              LoginWrong, LoginRight, signOutEverywhere, clients, history
<1>5. CASE Chain \/ \E landed \in BOOLEAN : Crash(landed)
  BY <1>5 DEF Chain, Commit, CommitFails, Crash, Forgotten, clients
<1>6. CASE Start \/ Tick \/ UNCHANGED vars
  BY <1>6 DEF Start, Tick, vars, process, clients, history
<1> QED BY <1>1, <1>2, <1>3, <1>4, <1>5, <1>6 DEF Next, Body

\* The outstanding code stays the latest and unused.
LEMMA CodesStep == Types /\ CodesAreFresh /\ [Next]_vars => CodesAreFresh'
<1> SUFFICES ASSUME Types, CodesAreFresh, [Next]_vars PROVE CodesAreFresh'
  OBVIOUS
<1>t. /\ codeOf \in [Devices -> Nat] /\ issued \in Nat
      /\ code \in PairingCode \cup {None}
  BY DEF Types, TypeOK, Codes
<1>1. CASE issued' = issued + 1 /\ code'.id = issued + 1 /\ codeOf' = codeOf
  BY <1>t, <1>1 DEF CodesAreFresh, OneDevicePerCode, Minted
<1>2. ASSUME NEW d \in Devices, code # None, code' = None, issued' = issued,
             codeOf[d] = 0, codeOf' = [codeOf EXCEPT ![d] = code.id]
      PROVE  CodesAreFresh'
  <2>1. /\ codeOf'[d] = issued
        /\ \A e \in Devices : e # d => codeOf'[e] = codeOf[e] /\ codeOf[e] # issued
    BY <1>t, <1>2 DEF CodesAreFresh
  <2>2. \A e \in Devices : codeOf'[e] <= issued
    BY <1>t, <2>1 DEF CodesAreFresh
  <2>3. OneDevicePerCode'
    BY <1>t, <2>1 DEF CodesAreFresh, OneDevicePerCode, Minted
  <2> QED BY <1>2, <2>2, <2>3 DEF CodesAreFresh
<1>3. CASE code' \in {None, code} /\ issued' = issued /\ codeOf' = codeOf
  BY <1>3 DEF CodesAreFresh, OneDevicePerCode, Minted
<1> QED BY <1>1, <1>2, <1>3, CodeFrame

-----------------------------------------------------------------------------
(* The invariant and what follows from it.                                 *)

IInv == Types /\ CredentialInv /\ CodesAreFresh

LEMMA InitialInvariant == Init => IInv
<1> SUFFICES ASSUME Init PROVE IInv
  OBVIOUS
<1>1. \A d \in Devices : saved.devices[d] = None /\ codeOf[d] = 0
  BY DEF Init
<1>2. \A a \in Addresses : saved.grants[a] = None
  BY DEF Init
<1>3. /\ alive = TRUE /\ tokenIndex = {} /\ code = None /\ issued = 0 /\ Len(queue) = 0
      /\ tokens = {} /\ cookies = {} /\ barred = [devices |-> {}, cookies |-> {}]
  BY DEF Init
<1>4. IndexFollows
  BY <1>1, <1>3 DEF IndexFollows, IndexExact, IndexOf
<1>5. GrantsHaveOwner
  BY <1>2 DEF GrantsHaveOwner
<1>6. EnrolledWithCode /\ PairsAreNew /\ BarredAreDead
  BY <1>1, <1>3 DEF EnrolledWithCode, PairsAreNew, BarredAreDead
<1>7. CodesAreFresh
  BY <1>1, <1>3 DEF CodesAreFresh, OneDevicePerCode, Minted
<1> QED BY <1>4, <1>5, <1>6, <1>7, InitialTypes DEF IInv, CredentialInv

LEMMA Invariant == Spec => []IInv
<1>1. IInv /\ [Next]_vars => IInv'
  BY TypeStep, IndexStep, GrantStep, EnrolmentStep, BarredStep, CodesStep
     DEF IInv, CredentialInv
<1> QED BY <1>1, InitialInvariant, PTL DEF Spec

\* Every variable keeps its type: handlers never queue, index or grant
\* anything but devices, keys and addresses of the relay.
THEOREM TypesHold == Spec => []TypeOK
<1>1. IInv => TypeOK
  BY DEF IInv, Types
<1> QED BY <1>1, Invariant, PTL

\* The token index always names exactly the live devices, although only some
\* handlers rebuild it and only after their update resolved.
THEOREM IndexHolds == Spec => []IndexExact
<1>1. IInv => IndexExact
  BY DEF IInv, CredentialInv, IndexFollows
<1> QED BY <1>1, Invariant, PTL

\* Every grant belongs to a device record: touch() never revives a grant of a
\* device that "sign out everywhere" dropped.
THEOREM GrantsHold == Spec => []GrantsHaveOwner
<1>1. IInv => GrantsHaveOwner
  BY DEF IInv, CredentialInv
<1> QED BY <1>1, Invariant, PTL

\* No credential covered by an answered revocation is ever accepted again.
THEOREM RevocationHolds == Spec => []RevocationIsFinal
<1>1. ASSUME IInv PROVE RevocationIsFinal
  <2>t. barred.devices \subseteq Devices /\ barred.cookies \subseteq Cookie /\ saved.key \in Nat
    BY <1>1 DEF IInv, Types, TypeOK, RelayState, Keys
  <2>1. \A d \in barred.devices : saved.devices[d] = None \/ saved.devices[d].revoked
    BY <1>1 DEF IInv, CredentialInv, BarredAreDead
  <2>2. \A token \in barred.devices : token \notin DeviceForToken(token, clock)
    BY <2>1 DEF DeviceForToken
  <2>3. \A token, d \in Devices :
            <<hashToken(saved.key, token), d>> \in tokenIndex => d = token
    BY <1>1 DEF IInv, CredentialInv, IndexFollows, IndexExact, IndexOf, hashToken
  <2>4. \A token \in barred.devices : DeviceForToken(token, clock) = {}
    BY <2>t, <2>2, <2>3 DEF DeviceForToken
  <2>5. \A d \in barred.devices, a \in Addresses : d \notin GrantHolders(a, clock)
    BY <2>1 DEF GrantHolders
  <2>6. \A c \in barred.cookies : ~SessionValid(c, clock)
    <3>1. \A c \in barred.cookies : c.key < saved.key /\ c.key \in Nat
      BY <1>1, <2>t DEF IInv, CredentialInv, BarredAreDead, Cookie, Keys
    <3> QED BY <2>t, <3>1 DEF SessionValid
  <2> QED BY <2>4, <2>5, <2>6 DEF RevocationIsFinal
<1> QED BY <1>1, Invariant, PTL

\* A pairing code enrols one device, however many requests present it.
THEOREM OneDeviceHolds == Spec => []OneDevicePerCode
<1>1. IInv => OneDevicePerCode
  BY DEF IInv, CodesAreFresh
<1> QED BY <1>1, Invariant, PTL

\* Only the code issued last enrols a device.
THEOREM LatestCodeEnrols == Spec => ReplacedCodeIsDead
<1>1. ASSUME IInv, [Next]_vars
      PROVE  \A d \in Devices : codeOf[d] = 0 /\ codeOf'[d] # 0 => codeOf'[d] = issued
  <2>t. codeOf \in [Devices -> Nat]
    BY <1>1 DEF IInv, Types, TypeOK, Codes
  <2>1. code # None => code.id = issued
    BY <1>1 DEF IInv, CodesAreFresh
  <2>2. \/ codeOf' = codeOf
        \/ /\ code # None
           /\ \E e \in Devices : codeOf' = [codeOf EXCEPT ![e] = code.id]
    BY <1>1, CodeFrame DEF IInv
  <2> QED BY <2>t, <2>1, <2>2
<1> QED BY <1>1, Invariant, PTL DEF Spec, ReplacedCodeIsDead

-----------------------------------------------------------------------------
(* The first password.                                                     *)

\* Every queued mutation but a touch is that of one waiting request.
QueueOfRequests ==
    \A i \in 1..Len(queue) :
        \/ queue[i].kind = "touch" /\ queue[i].slot = None
        \/ /\ queue[i].slot \in Slots
           /\ requests[queue[i].slot] # None
           /\ requests[queue[i].slot].stage = "queued"
           /\ requests[queue[i].slot].op = queue[i].kind
           /\ \A j \in 1..Len(queue) : queue[j].slot = queue[i].slot => i = j

\* A request from elsewhere that sets a password replaces one.
PasswordGuarded ==
    \A r \in Slots : requests[r] # None /\ requests[r].op = "password" =>
        requests[r].who = "loopback" \/ hasPassword

\* A step that moves one request, not yet queued, from where it stands.
Moves(r) ==
    /\ requests[r] # None => requests[r].stage # "queued"
    /\ \A t \in Slots \ {r} : requests'[t] = requests[t]
    /\ \/ /\ queue' = queue
          /\ requests'[r] # None /\ requests'[r].op = "password" =>
                requests'[r].who = "loopback" \/ hasPassword
       \/ \E m \in Mutation :
             /\ queue' = Append(queue, m) /\ m.slot = r
             /\ requests[r] # None /\ m.kind = requests[r].op
             /\ requests'[r] = [requests[r] EXCEPT !.stage = "queued"]

\* How the queue and the requests change together.
LEMMA SlotFrame ==
    ASSUME Types, PasswordGuarded, [Next]_vars
    PROVE  \/ queue # <<>> /\ queue' = Tail(queue) /\ Answered(Head(queue))
           \/ queue' = <<>> /\ \A r \in Slots : requests'[r] = None
           \/ /\ requests' = requests
              /\ \E m \in Mutation : /\ queue' = Append(queue, m)
                                     /\ m.kind = "touch" /\ m.slot = None
           \/ \E r \in Slots : Moves(r)
           \/ UNCHANGED <<queue, requests>>
<1>q. /\ requests \in [Slots -> Request \cup {None}] /\ saved.key \in Keys /\ clock \in Time
  BY DEF Types, TypeOK, RelayState
<1>h. ASSUME NEW r \in Slots, NEW op, NEW stage, At(r, op, stage), stage # "queued",
             NEW device \in Devices \cup {None}, NEW password \in Passwords \cup {None},
             op \in {"password", "pair", "revoke", "signout"},
             Enqueue(r, op, device, password)
      PROVE  Moves(r)
  <2> DEFINE m == [kind |-> op, slot |-> r, device |-> device, password |-> password,
                   hashKey |-> saved.key, address |-> requests[r].address,
                   now |-> requests[r].now]
  <2>1. /\ requests[r] # None /\ requests[r].op = op /\ requests[r].stage # "queued"
        /\ requests[r] \in Request
    BY <1>q, <1>h DEF At
  <2>2. m \in Mutation /\ m.slot = r /\ m.kind = op
    BY <1>q, <1>h, <2>1 DEF Mutation, Request
  <2>3. queue' = Append(queue, m)
    BY <1>h DEF Enqueue
  <2>4. /\ requests'[r] = [requests[r] EXCEPT !.stage = "queued"]
        /\ \A t \in Slots \ {r} : requests'[t] = requests[t]
    BY <1>q, <1>h DEF Enqueue
  <2> HIDE DEF m
  <2> QED BY <2>1, <2>2, <2>3, <2>4 DEF Moves
<1>f. ASSUME NEW r \in Slots, requests[r] # None, requests[r].stage # "queued",
             Finish(r), queue' = queue
      PROVE  Moves(r)
  BY <1>q, <1>f DEF Finish, Moves
<1>1. ASSUME NEW r \in Slots, Resume(r) PROVE Moves(r)
  <2>1. CASE setPassword(r)
    <3>1. requests[r].arg \in Passwords
      BY <2>1 DEF setPassword, At, Types, BodiesWellFormed
    <3> QED BY <1>h, <2>1, <3>1 DEF setPassword
  <2>2. CASE signOutEverywhere(r)
    BY <1>h, <2>2 DEF signOutEverywhere
  <2>3. CASE LoginWrong(r)
    BY <1>f, <2>3 DEF LoginWrong, At
  <2>4. CASE LoginRight(r)
    BY <1>f, <2>4 DEF LoginRight, At
  <2> QED BY <1>1, <2>1, <2>2, <2>3, <2>4 DEF Resume
<1>2. ASSUME NEW r \in Slots, Body(r) PROVE Moves(r)
  <2>1. CASE Drop(r)
    BY <1>f, <2>1 DEF Drop
  <2>2. ASSUME NEW password \in Passwords, PasswordBody(r, password) PROVE Moves(r)
    <3>1. /\ requests[r] # None /\ requests[r] \in Request /\ requests[r].stage = "body"
          /\ requests[r].op = "password" /\ queue' = queue
          /\ requests' = [requests EXCEPT ![r].stage = "hash", ![r].arg = password]
      BY <1>q, <2>2 DEF PasswordBody, At
    <3>2. /\ requests'[r].who = requests[r].who
          /\ \A t \in Slots \ {r} : requests'[t] = requests[t]
      BY <1>q, <3>1 DEF Request
    <3> QED BY <3>1, <3>2 DEF Moves, PasswordGuarded
  <2>3. ASSUME NEW guess \in Passwords, LoginBody(r, guess) PROVE Moves(r)
    <3>1. /\ requests[r] # None /\ requests[r] \in Request /\ requests[r].stage = "body"
          /\ requests[r].op = "login" /\ queue' = queue
      BY <1>q, <2>3 DEF LoginBody, At
    <3>2. CASE Finish(r)
      BY <1>f, <3>1, <3>2
    <3>3. CASE requests' = [requests EXCEPT ![r].stage = "verify", ![r].arg = guess,
                                            ![r].seen = saved.password]
      <4>1. /\ requests'[r].op = "login"
            /\ \A t \in Slots \ {r} : requests'[t] = requests[t]
        BY <1>q, <3>1, <3>3 DEF Request
      <4> QED BY <3>1, <4>1 DEF Moves
    <3> QED BY <2>3, <3>2, <3>3 DEF LoginBody
  <2>4. ASSUME NEW candidate, PairRefused(r, candidate) PROVE Moves(r)
    BY <1>f, <2>4 DEF PairRefused, At
  <2>5. ASSUME NEW candidate, NEW d \in Devices, PairClaimed(r, candidate, d) PROVE Moves(r)
    BY <1>h, <2>5 DEF PairClaimed
  <2>6. CASE PairLockedOut(r)
    BY <1>f, <2>6 DEF PairLockedOut, At
  <2>7. ASSUME NEW d \in Devices, revoke(r, d) PROVE Moves(r)
    <3>1. CASE Live(d)
      BY <1>h, <2>7, <3>1 DEF revoke
    <3>2. CASE ~Live(d)
      BY <1>f, <2>7, <3>2 DEF revoke, At
    <3> QED BY <3>1, <3>2
  <2> QED BY <1>2, <2>1, <2>2, <2>3, <2>4, <2>5, <2>6, <2>7 DEF Body
<1>3. ASSUME NEW address \in Addresses, NEW presented, NEW forwarded,
             Access(address, presented, forwarded)
      PROVE  /\ requests' = requests
             /\ \E m \in Mutation : /\ queue' = Append(queue, m)
                                    /\ m.kind = "touch" /\ m.slot = None
  <2> DEFINE d == identify(presented, address, forwarded, clock).deviceId
             m == [kind |-> "touch", slot |-> None, device |-> d, password |-> None,
                   hashKey |-> saved.key, address |-> address, now |-> clock]
  <2>1. queue' = Append(queue, m) /\ requests' = requests
    BY <1>3 DEF Access
  <2>2. m \in Mutation /\ m.kind = "touch" /\ m.slot = None
    <3>1. d \in Devices \cup {None}
      BY IdentifyTypes
    <3> HIDE DEF d
    <3> QED BY <1>q, <3>1 DEF Mutation
  <2> HIDE DEF m
  <2> QED BY <2>1, <2>2
<1>4. ASSUME NEW r \in Slots, NEW op, NEW address, NEW presented, NEW forwarded,
             Arrive(r, op, address, presented, forwarded)
      PROVE  Moves(r)
  <2> DEFINE who == identify(presented, address, forwarded, clock).credential
  <2>1. /\ requests[r] = None /\ queue' = queue /\ MayRequest(op, who)
        /\ \A t \in Slots \ {r} : requests'[t] = requests[t]
        /\ requests'[r].op = op
        /\ requests'[r].who = IF op \in {"login", "pair"} THEN None ELSE who
    BY <1>q, <1>4 DEF Arrive
  <2> HIDE DEF who
  <2>2. op = "password" => requests'[r].who = "loopback" \/ hasPassword
    BY <2>1 DEF MayRequest
  <2> QED BY <2>1, <2>2 DEF Moves
<1>5. CASE Client
  BY <1>3, <1>4, <1>5 DEF Client, IssueCode
<1>6. CASE Chain \/ \E landed \in BOOLEAN : Crash(landed)
  BY <1>6 DEF Chain, Commit, CommitFails, Crash, Forgotten
<1>7. CASE Start \/ Tick \/ UNCHANGED vars
  BY <1>7 DEF Start, Tick, vars, process
<1> QED BY <1>1, <1>2, <1>5, <1>6, <1>7 DEF Next

\* Queued mutations stay those of distinct waiting requests.
LEMMA SlotStep ==
    ASSUME Types, QueueOfRequests, PasswordGuarded, [Next]_vars
    PROVE  QueueOfRequests'
<1>q. /\ queue \in Seq(Mutation) /\ requests \in [Slots -> Request \cup {None}]
      /\ None \notin Slots
  BY SetsAssumption DEF Types, TypeOK
<1>a. ASSUME NEW m \in Mutation, queue' = Append(queue, m)
      PROVE  /\ Len(queue) \in Nat
             /\ \A i \in 1..Len(queue') :
                   \/ i \in 1..Len(queue) /\ queue'[i] = queue[i]
                   \/ i = Len(queue) + 1 /\ queue'[i] = m
  <2>1. /\ Len(queue) \in Nat /\ Len(queue') = Len(queue) + 1
        /\ \A i \in 1..Len(queue) : queue'[i] = queue[i]
        /\ queue'[Len(queue) + 1] = m
    BY <1>q, <1>a, AppendFacts
  <2>2. \A i \in 1..Len(queue') : i \in 1..Len(queue) \/ i = Len(queue) + 1
    <3>1. Len(queue) \in Nat /\ Len(queue') = Len(queue) + 1
      BY <2>1
    <3> QED BY <3>1
  <2>3. ASSUME NEW i \in 1..Len(queue')
        PROVE  \/ i \in 1..Len(queue) /\ queue'[i] = queue[i]
               \/ i = Len(queue) + 1 /\ queue'[i] = m
    <3>1. CASE i \in 1..Len(queue)
      BY <2>1, <3>1
    <3>2. CASE i = Len(queue) + 1
      BY <2>1, <3>2
    <3> QED BY <2>2, <3>1, <3>2
  <2> QED BY <2>1, <2>3
<1>1. CASE queue # <<>> /\ queue' = Tail(queue) /\ Answered(Head(queue))
  <2>1. /\ Head(queue) = queue[1] /\ 1 \in 1..Len(queue)
        /\ \A i \in 1..Len(queue') :
              i + 1 \in 1..Len(queue) /\ i + 1 # 1 /\ queue'[i] = queue[i + 1]
    BY <1>1, HeadFacts
  <2>2. \A t \in Slots : t # queue[1].slot => requests'[t] = requests[t]
    BY <1>q, <1>1, <2>1 DEF Answered
  <2>3. ASSUME NEW i \in 1..Len(queue'), queue'[i].kind # "touch" \/ queue'[i].slot # None
        PROVE  /\ queue'[i].slot \in Slots
               /\ requests'[queue'[i].slot] # None
               /\ requests'[queue'[i].slot].stage = "queued"
               /\ requests'[queue'[i].slot].op = queue'[i].kind
               /\ \A j \in 1..Len(queue') : queue'[j].slot = queue'[i].slot => i = j
    <3>1. i + 1 \in 1..Len(queue) /\ i + 1 # 1 /\ queue'[i] = queue[i + 1]
      BY <2>1
    <3>2. /\ queue'[i].slot \in Slots
          /\ requests[queue'[i].slot] # None
          /\ requests[queue'[i].slot].stage = "queued"
          /\ requests[queue'[i].slot].op = queue'[i].kind
          /\ \A j \in 1..Len(queue) : queue[j].slot = queue'[i].slot => i + 1 = j
      BY <2>3, <3>1 DEF QueueOfRequests
    <3>3. queue[1].slot # queue'[i].slot
      BY <2>1, <3>1, <3>2
    <3>4. ASSUME NEW j \in 1..Len(queue'), queue'[j].slot = queue'[i].slot PROVE i = j
      <4>1. j + 1 \in 1..Len(queue) /\ queue'[j] = queue[j + 1]
        BY <2>1
      <4>2. i + 1 = j + 1
        BY <3>2, <3>4, <4>1
      <4> QED BY <4>2
    <3> QED BY <2>2, <3>2, <3>3, <3>4
  <2> QED BY <2>3 DEF QueueOfRequests
<1>2. CASE queue' = <<>>
  <2>1. Len(queue') = 0
    BY <1>2
  <2> QED BY <2>1 DEF QueueOfRequests
<1>3. ASSUME requests' = requests, NEW m \in Mutation, queue' = Append(queue, m),
             m.kind = "touch", m.slot = None
      PROVE  QueueOfRequests'
  <2>1. \A i \in 1..Len(queue') :
            (i \in 1..Len(queue) /\ queue'[i] = queue[i]) \/ queue'[i] = m
    BY <1>3, <1>a
  <2> QED BY <1>q, <1>3, <2>1 DEF QueueOfRequests
<1>4. ASSUME NEW r \in Slots, Moves(r) PROVE QueueOfRequests'
  <2>1. /\ \A t \in Slots \ {r} : requests'[t] = requests[t]
        /\ \A i \in 1..Len(queue) : queue[i].slot # r
    BY <1>q, <1>4 DEF Moves, QueueOfRequests
  <2>2. CASE queue' = queue
    BY <2>1, <2>2 DEF QueueOfRequests
  <2>3. ASSUME NEW m \in Mutation, queue' = Append(queue, m), m.slot = r,
               requests[r] # None, m.kind = requests[r].op,
               requests'[r] = [requests[r] EXCEPT !.stage = "queued"]
        PROVE  QueueOfRequests'
    <3>1. /\ requests'[r].stage = "queued" /\ requests'[r].op = m.kind
          /\ requests'[r] # None
      <4>1. requests[r] \in Request
        BY <1>q, <2>3
      <4>2. [requests[r] EXCEPT !.stage = "queued"] \in Request
        BY <4>1 DEF Request
      <4> QED BY <2>3, <4>1, <4>2, NoneAssumption DEF Request
    <3>2. \A i \in 1..Len(queue') :
            \/ i \in 1..Len(queue) /\ queue'[i] = queue[i]
            \/ i = Len(queue) + 1 /\ queue'[i] = m
      BY <1>a, <2>3
    <3>3. ASSUME NEW i \in 1..Len(queue') , i \in 1..Len(queue), queue'[i] = queue[i]
          PROVE  \/ queue'[i].kind = "touch" /\ queue'[i].slot = None
                 \/ /\ queue'[i].slot \in Slots
                    /\ requests'[queue'[i].slot] # None
                    /\ requests'[queue'[i].slot].stage = "queued"
                    /\ requests'[queue'[i].slot].op = queue'[i].kind
                    /\ \A j \in 1..Len(queue') : queue'[j].slot = queue'[i].slot => i = j
      BY <2>1, <2>3, <3>2, <3>3 DEF QueueOfRequests
    <3>4. ASSUME NEW i \in 1..Len(queue'), i = Len(queue) + 1, queue'[i] = m
          PROVE  /\ queue'[i].slot \in Slots
                 /\ requests'[queue'[i].slot] # None
                 /\ requests'[queue'[i].slot].stage = "queued"
                 /\ requests'[queue'[i].slot].op = queue'[i].kind
                 /\ \A j \in 1..Len(queue') : queue'[j].slot = queue'[i].slot => i = j
      BY <2>1, <2>3, <3>1, <3>2, <3>4
    <3>5. ASSUME NEW i \in 1..Len(queue')
          PROVE  \/ queue'[i].kind = "touch" /\ queue'[i].slot = None
                 \/ /\ queue'[i].slot \in Slots
                    /\ requests'[queue'[i].slot] # None
                    /\ requests'[queue'[i].slot].stage = "queued"
                    /\ requests'[queue'[i].slot].op = queue'[i].kind
                    /\ \A j \in 1..Len(queue') : queue'[j].slot = queue'[i].slot => i = j
      BY <3>2, <3>3, <3>4
    <3> QED BY <3>5 DEF QueueOfRequests
  <2> QED BY <1>4, <2>2, <2>3 DEF Moves
<1>5. CASE UNCHANGED <<queue, requests>>
  BY <1>5 DEF QueueOfRequests
<1> QED BY <1>1, <1>2, <1>3, <1>4, <1>5, SlotFrame

\* Only the landing of a queued password changes the password, to another one.
LEMMA PasswordChange ==
    ASSUME Types, [Next]_vars, saved'.password # saved.password
    PROVE  queue # <<>> /\ Head(queue).kind = "password" /\ saved'.password \in Passwords
<1>1. queue # <<>> /\ saved' = Mutated(saved, Head(queue))
  BY StateFrame DEF Commit, CommitFails, Start, Crash
<1>2. /\ saved \in RelayState /\ Head(queue) \in Mutation
      /\ Head(queue).kind \in {"pair", "touch", "revoke"} => Head(queue).device \in Devices
      /\ Head(queue).kind = "password" => Head(queue).password \in Passwords
  BY <1>1, HeadFacts DEF Types, TypeOK
<1>3. /\ Head(queue).kind # "password" => saved'.password = saved.password
      /\ Head(queue).kind = "password" => saved'.password = Head(queue).password
  BY <1>1, <1>2, MutatedEffect
<1> QED BY <1>1, <1>2, <1>3

\* Requests that set a password stay guarded.
LEMMA PasswordStep ==
    ASSUME Types, PasswordGuarded, [Next]_vars
    PROVE  PasswordGuarded'
<1>q. /\ requests \in [Slots -> Request \cup {None}] /\ None \notin Passwords
  BY SetsAssumption DEF Types, TypeOK
<1>1. hasPassword => hasPassword'
  BY <1>q, PasswordChange DEF hasPassword
<1>2. ASSUME NEW r \in Slots, requests'[r] # None, requests'[r].op = "password"
      PROVE  requests'[r].who = "loopback" \/ hasPassword
  <2>1. CASE requests'[r] = requests[r]
    BY <1>2, <2>1 DEF PasswordGuarded
  <2>2. CASE queue # <<>> /\ Answered(Head(queue))
    BY <1>q, <1>2, <2>1, <2>2 DEF Answered
  <2>3. ASSUME NEW t \in Slots, Moves(t)
        PROVE  requests'[r].who = "loopback" \/ hasPassword
    <3>1. CASE t # r
      BY <2>1, <2>3, <3>1 DEF Moves
    <3>2. CASE t = r /\ requests[r] # None
                    /\ requests'[r] = [requests[r] EXCEPT !.stage = "queued"]
      <4>1. requests[r] \in Request
        BY <1>q, <3>2
      <4>2. requests'[r].op = requests[r].op /\ requests'[r].who = requests[r].who
        BY <3>2, <4>1 DEF Request
      <4> QED BY <1>2, <3>2, <4>2 DEF PasswordGuarded
    <3> QED BY <1>2, <2>3, <3>1, <3>2 DEF Moves
  <2> QED BY <1>2, <2>1, <2>2, <2>3, SlotFrame
<1> QED BY <1>1, <1>2 DEF PasswordGuarded

\* The first password is one that a request from the machine itself set,
\* although whether there is one is read long before the mutation lands.
THEOREM FirstPasswordHolds == Spec => FirstPasswordIsLocal
<1> DEFINE Inv == Types /\ QueueOfRequests /\ PasswordGuarded
<1>1. Init => Inv
  <2>1. Init => Len(queue) = 0 /\ \A r \in Slots : requests[r] = None
    BY DEF Init
  <2> QED BY <2>1, InitialTypes DEF QueueOfRequests, PasswordGuarded
<1>2. Inv /\ [Next]_vars => Inv'
  BY TypeStep, SlotStep, PasswordStep
<1>3. ASSUME Inv, [Next]_vars, saved.password = None, saved'.password # None
      PROVE  requests[Head(queue).slot].who = "loopback"
  <2>1. queue # <<>> /\ Head(queue).kind = "password"
    BY <1>3, PasswordChange
  <2>2. Head(queue) = queue[1] /\ 1 \in 1..Len(queue)
    BY <1>3, <2>1, HeadFacts
  <2>3. /\ Head(queue).slot \in Slots /\ requests[Head(queue).slot] # None
        /\ requests[Head(queue).slot].op = "password"
    BY <1>3, <2>1, <2>2 DEF QueueOfRequests
  <2> QED BY <1>3, <2>3 DEF PasswordGuarded, hasPassword
<1> QED BY <1>1, <1>2, <1>3, PTL DEF Spec, FirstPasswordIsLocal

-----------------------------------------------------------------------------
(* Guesses.                                                                *)

\* The guesses at the password from an address that scrypt is looking at.
Guessing(a) ==
    {r \in Slots : requests[r] # None /\ requests[r].stage = "verify" /\ requests[r].address = a}

\* During a lockout no guess starts, so those in flight are all that may still
\* be answered; outside of one the counter has seen every wrong guess.
GuessesBounded ==
    \A a \in Addresses :
        IF Locked(a, clock)
        THEN wrongs[a] + Cardinality(Guessing(a)) <= MaxFailures + Cardinality(Slots) - 1
        ELSE wrongs[a] <= counters[a].failures

ArrivedBefore == \A r \in Slots : requests[r] # None => requests[r].now <= clock

GuessInv == Types /\ ArrivedBefore /\ GuessesBounded

\* No request becomes a guess at address a.
NoNewGuess(a) == Guessing(a)' \subseteq Guessing(a)

LEMMA GuessingIs ==
    ASSUME NEW a \in Addresses
    PROVE  /\ Cardinality(Slots) \in Nat
           /\ IsFiniteSet(Guessing(a)) /\ Cardinality(Guessing(a)) \in Nat
           /\ Cardinality(Guessing(a)) <= Cardinality(Slots)
<1>1. IsFiniteSet(Slots) /\ Guessing(a) \subseteq Slots
  BY SetsAssumption DEF Guessing
<1>2. IsFiniteSet(Guessing(a)) /\ Cardinality(Guessing(a)) <= Cardinality(Slots)
  BY <1>1, FS_Subset
<1> QED BY <1>1, <1>2, FS_CardinalityType

LEMMA FewerGuesses ==
    ASSUME NEW a \in Addresses, NoNewGuess(a)
    PROVE  /\ Cardinality(Guessing(a)') \in Nat
           /\ Cardinality(Guessing(a)') <= Cardinality(Guessing(a))
           /\ Cardinality(Guessing(a)') <= Cardinality(Slots)
           /\ \A r \in Guessing(a) : r \notin Guessing(a)' =>
                 Cardinality(Guessing(a)') <= Cardinality(Guessing(a)) - 1
           /\ \A r \in Slots : r \notin Guessing(a)' =>
                 Cardinality(Guessing(a)') <= Cardinality(Slots) - 1
<1> DEFINE before == Guessing(a)
           after == Guessing(a)'
<1>1. IsFiniteSet(Slots) /\ before \subseteq Slots /\ after \subseteq before
  BY SetsAssumption DEF Guessing, NoNewGuess
<1> HIDE DEF before, after
<1>2. ASSUME NEW S, NEW T, IsFiniteSet(S), T \subseteq S
      PROVE  /\ IsFiniteSet(T) /\ Cardinality(T) \in Nat /\ Cardinality(T) <= Cardinality(S)
             /\ \A r \in S : r \notin T => Cardinality(T) <= Cardinality(S) - 1
  <2>1. IsFiniteSet(T) /\ Cardinality(T) <= Cardinality(S)
    BY <1>2, FS_Subset
  <2>2. ASSUME NEW r \in S, r \notin T PROVE Cardinality(T) <= Cardinality(S) - 1
    <3>1. IsFiniteSet(S \ {r}) /\ Cardinality(S \ {r}) = Cardinality(S) - 1
      BY <1>2, <2>2, FS_RemoveElement
    <3>2. T \subseteq S \ {r}
      BY <1>2, <2>2
    <3> QED BY <3>1, <3>2, FS_Subset
  <2> QED BY <2>1, <2>2, FS_CardinalityType
<1>3. IsFiniteSet(before) /\ after \subseteq Slots
  BY <1>1, <1>2
<1>4. /\ Cardinality(after) \in Nat /\ Cardinality(after) <= Cardinality(before)
      /\ \A r \in before : r \notin after => Cardinality(after) <= Cardinality(before) - 1
  BY <1>1, <1>2, <1>3
<1>5. /\ Cardinality(after) <= Cardinality(Slots)
      /\ \A r \in Slots : r \notin after => Cardinality(after) <= Cardinality(Slots) - 1
  BY <1>1, <1>2, <1>3
<1> QED BY <1>4, <1>5 DEF before, after

\* One address, if its counters stay as they are.
LEMMA BoundKept ==
    ASSUME Types, GuessesBounded, NEW a \in Addresses, clock' = clock,
           counters'[a] = counters[a], wrongs'[a] = wrongs[a],
           Locked(a, clock) => NoNewGuess(a)
    PROVE  IF Locked(a, clock)'
           THEN wrongs'[a] + Cardinality(Guessing(a)') <= MaxFailures + Cardinality(Slots) - 1
           ELSE wrongs'[a] <= counters'[a].failures
<1>1. Locked(a, clock)' <=> Locked(a, clock)
  BY DEF Locked
<1>2. CASE Locked(a, clock)
  <2>1. wrongs[a] + Cardinality(Guessing(a)) <= MaxFailures + Cardinality(Slots) - 1
    BY <1>2 DEF GuessesBounded
  <2>2. /\ Cardinality(Guessing(a)') \in Nat
        /\ Cardinality(Guessing(a)') <= Cardinality(Guessing(a))
    BY <1>2, FewerGuesses
  <2>3. wrongs[a] \in Nat
    BY DEF Types, TypeOK
  <2> QED BY <1>1, <1>2, <2>1, <2>2, <2>3, GuessingIs, Limits
<1>3. CASE ~Locked(a, clock)
  BY <1>1, <1>3 DEF GuessesBounded
<1> QED BY <1>2, <1>3

\* One address, if it is clear.
LEMMA BoundClear ==
    ASSUME clock' \in Nat, NEW a \in Addresses, counters'[a] = Clear, wrongs'[a] = 0
    PROVE  IF Locked(a, clock)'
           THEN wrongs'[a] + Cardinality(Guessing(a)') <= MaxFailures + Cardinality(Slots) - 1
           ELSE wrongs'[a] <= counters'[a].failures
BY DEF Locked, Clear

\* One address, if a failure is recorded for a request that ends there.
LEMMA BoundFailed ==
    ASSUME GuessInv, NEW r \in Slots, requests[r] # None, clock' = clock,
           recordFailure(requests[r].address, requests[r].now), Finish(r),
           r \in Guessing(requests[r].address) \/ ~Locked(requests[r].address, requests[r].now)
    PROVE  GuessesBounded'
<1> DEFINE b == requests[r].address
           t == requests[r].now
<1>q. /\ requests[r] \in Request /\ b \in Addresses /\ t \in Nat /\ t <= clock /\ clock \in Nat
      /\ counters \in [Addresses -> Counters] /\ wrongs \in [Addresses -> Nat]
      /\ requests \in [Slots -> Request \cup {None}]
  BY DEF GuessInv, Types, TypeOK, Request, ArrivedBefore, Time
<1>n. \A a \in Addresses : NoNewGuess(a) /\ r \notin Guessing(a)'
  BY <1>q DEF Finish, Guessing, NoNewGuess
<1>1. ASSUME NEW a \in Addresses, a # b
      PROVE  IF Locked(a, clock)'
             THEN wrongs'[a] + Cardinality(Guessing(a)') <= MaxFailures + Cardinality(Slots) - 1
             ELSE wrongs'[a] <= counters'[a].failures
  <2>1. counters'[a] = counters[a] /\ wrongs'[a] = wrongs[a]
    BY <1>q, <1>1 DEF recordFailure
  <2> QED BY <1>n, <2>1, BoundKept DEF GuessInv
<1>2. ASSUME NEW a, a = b
      PROVE  IF Locked(a, clock)'
             THEN wrongs'[a] + Cardinality(Guessing(a)') <= MaxFailures + Cardinality(Slots) - 1
             ELSE wrongs'[a] <= counters'[a].failures
  <2> DEFINE c == counters[a]
             after == AfterFailure(c, t)
             n == Cardinality(Guessing(a))
             m == Cardinality(Guessing(a)')
             s == Cardinality(Slots)
  <2>1. /\ counters'[a] = after
        /\ wrongs'[a] = IF after.failures = 0 /\ after.lockedUntil <= clock THEN 0
                        ELSE wrongs[a] + 1
    BY <1>q, <1>2 DEF recordFailure
  <2>2. /\ c.failures \in 0..(MaxFailures - 1) /\ c.lockedUntil \in Nat /\ c \in Counters
        /\ wrongs[a] \in Nat /\ MaxFailures \in Nat \ {0} /\ LockoutMs \in Nat
    BY <1>q, <1>2, Limits DEF Counters, Time
  <2>3. /\ c.failures + 1 >= MaxFailures =>
             after.failures = 0 /\ after.lockedUntil = t + LockoutMs
        /\ ~(c.failures + 1 >= MaxFailures) =>
             after.failures = c.failures + 1 /\ after.lockedUntil = c.lockedUntil
    BY <2>2 DEF AfterFailure, Counters
  <2>4. m \in Nat /\ n \in Nat /\ s \in Nat /\ m <= s - 1
        /\ (r \in Guessing(a) => m <= n - 1)
    BY <1>q, <1>n, <1>2, FewerGuesses, GuessingIs
  <2>5. IF c.lockedUntil > clock THEN wrongs[a] + n <= MaxFailures + s - 1
                                 ELSE wrongs[a] <= c.failures
    BY <1>q, <1>2 DEF GuessInv, GuessesBounded, Locked
  <2>6. r \in Guessing(a) \/ c.lockedUntil <= clock
    BY <1>q, <1>2, <2>2 DEF Locked
  <2>7. Locked(a, clock)' <=> after.lockedUntil > clock
    BY <2>1 DEF Locked
  <2> HIDE DEF after, n, m, s, c, b, t
  <2>8. after.failures \in Nat /\ after.lockedUntil \in Nat
    BY <1>q, <2>2, <2>3
  <2>9. IF after.lockedUntil > clock THEN wrongs'[a] + m <= MaxFailures + s - 1
                                     ELSE wrongs'[a] <= after.failures
    <3>1. CASE c.failures + 1 >= MaxFailures
      <4>1. CASE after.lockedUntil <= clock
        BY <2>1, <2>3, <2>8, <3>1, <4>1, <1>q
      <4>2. CASE ~(after.lockedUntil <= clock)
        <5>1. wrongs'[a] = wrongs[a] + 1
          BY <2>1, <4>2
        <5>2. wrongs[a] + 1 + m <= MaxFailures + s - 1
          BY <2>2, <2>4, <2>5, <2>6, <1>q
        <5> QED BY <1>q, <2>8, <4>2, <5>1, <5>2
      <4> QED BY <4>1, <4>2
    <3>2. CASE ~(c.failures + 1 >= MaxFailures)
      <4>1. after.failures = c.failures + 1 /\ after.lockedUntil = c.lockedUntil
        BY <2>3, <3>2
      <4>2. after.failures # 0 /\ wrongs'[a] = wrongs[a] + 1
        BY <2>1, <2>2, <4>1
      <4> QED BY <1>q, <2>2, <2>4, <2>5, <2>6, <4>1, <4>2
    <3> QED BY <3>1, <3>2
  <2>10. m = Cardinality(Guessing(a)') /\ s = Cardinality(Slots) /\ counters'[a] = after
    BY <2>1 DEF m, s
  <2> QED BY <2>7, <2>9, <2>10
<1> QED BY <1>1, <1>2 DEF GuessesBounded

\* What a step does to the counters and to the guesses in flight.
LEMMA GuessFrame ==
    ASSUME Types, [Next]_vars
    PROVE  \/ /\ UNCHANGED <<clock, counters, wrongs>>
              /\ \A a \in Addresses : NoNewGuess(a)
           \/ \E r \in Slots, guess \in Passwords : LoginBody(r, guess)
           \/ \E r \in Slots : LoginWrong(r) \/ LoginRight(r)
           \/ \E r \in Slots, candidate \in 0..issued :
                PairRefused(r, candidate) \/ \E d \in Devices : PairClaimed(r, candidate, d)
           \/ clock' = clock /\ Forgotten
           \/ Tick
<1>q. requests \in [Slots -> Request \cup {None}]
  BY DEF Types, TypeOK
<1>m. ASSUME NEW r \in Slots, \A t \in Slots \ {r} : requests'[t] = requests[t],
             requests'[r] # None => requests'[r].stage # "verify"
      PROVE  \A a \in Addresses : NoNewGuess(a)
  BY <1>m DEF NoNewGuess, Guessing
<1>f. ASSUME NEW r \in Slots, Finish(r)
      PROVE  \A a \in Addresses : NoNewGuess(a)
  BY <1>m, <1>q, <1>f DEF Finish
<1>e. ASSUME NEW r \in Slots, requests[r] # None, NEW kind, NEW device, NEW password,
             Enqueue(r, kind, device, password)
      PROVE  \A a \in Addresses : NoNewGuess(a)
  <2>1. /\ requests'[r] = [requests[r] EXCEPT !.stage = "queued"]
        /\ \A t \in Slots \ {r} : requests'[t] = requests[t]
    BY <1>q, <1>e DEF Enqueue
  <2>2. requests[r] \in Request
    BY <1>q, <1>e
  <2>3. requests'[r].stage # "verify"
    BY <2>1, <2>2 DEF Request
  <2> QED BY <1>m, <2>1, <2>3
<1>1. ASSUME NEW r \in Slots, Drop(r) \/ PairLockedOut(r)
      PROVE  UNCHANGED <<clock, counters, wrongs>> /\ \A a \in Addresses : NoNewGuess(a)
  BY <1>f, <1>1 DEF Drop, PairLockedOut, history
<1>2. ASSUME NEW r \in Slots, NEW password \in Passwords, PasswordBody(r, password)
      PROVE  UNCHANGED <<clock, counters, wrongs>> /\ \A a \in Addresses : NoNewGuess(a)
  <2>1. requests[r] \in Request /\ requests[r] # None
    BY <1>q, <1>2 DEF PasswordBody, At
  <2>2. /\ requests'[r].stage = "hash"
        /\ \A t \in Slots \ {r} : requests'[t] = requests[t]
    BY <1>q, <1>2, <2>1 DEF PasswordBody, Request
  <2>3. \A a \in Addresses : NoNewGuess(a)
    BY <1>m, <2>2
  <2> QED BY <1>2, <2>3 DEF PasswordBody, history
<1>3. ASSUME NEW r \in Slots, NEW d \in Devices, revoke(r, d)
      PROVE  UNCHANGED <<clock, counters, wrongs>> /\ \A a \in Addresses : NoNewGuess(a)
  BY <1>e, <1>f, <1>3 DEF revoke, At, history
<1>4. ASSUME NEW r \in Slots, setPassword(r) \/ signOutEverywhere(r)
      PROVE  UNCHANGED <<clock, counters, wrongs>> /\ \A a \in Addresses : NoNewGuess(a)
  BY <1>e, <1>4 DEF setPassword, signOutEverywhere, At, history
<1>5. CASE Client
  <2>1. ASSUME NEW address, NEW presented, NEW forwarded,
               \/ Access(address, presented, forwarded)
               \/ \E show \in BOOLEAN : IssueCode(show, address, presented, forwarded)
        PROVE  UNCHANGED <<clock, counters, wrongs>> /\ \A a \in Addresses : NoNewGuess(a)
    BY <2>1 DEF Access, IssueCode, history, NoNewGuess, Guessing
  <2>2. ASSUME NEW r \in Slots, NEW op, NEW address, NEW presented, NEW forwarded,
               Arrive(r, op, address, presented, forwarded)
        PROVE  UNCHANGED <<clock, counters, wrongs>> /\ \A a \in Addresses : NoNewGuess(a)
    <3>1. /\ requests'[r].stage \in {"import", "body"}
          /\ \A t \in Slots \ {r} : requests'[t] = requests[t]
      BY <1>q, <2>2 DEF Arrive
    <3>2. \A a \in Addresses : NoNewGuess(a)
      BY <1>m, <3>1
    <3> QED BY <2>2, <3>2 DEF Arrive, history
  <2> QED BY <1>5, <2>1, <2>2 DEF Client
<1>6. CASE \E r \in Slots : Body(r) \/ Resume(r)
  BY <1>1, <1>2, <1>3, <1>4, <1>6 DEF Body, Resume
<1>a. ASSUME Answered(Head(queue)) PROVE \A a \in Addresses : NoNewGuess(a)
  BY <1>q, <1>a DEF Answered, NoNewGuess, Guessing
<1>7. CASE Commit
  BY <1>a, <1>7 DEF Commit
<1>8. CASE CommitFails
  BY <1>a, <1>8 DEF CommitFails
<1>9. CASE \E landed \in BOOLEAN : Crash(landed)
  BY <1>9 DEF Crash
<1>10. CASE Start \/ UNCHANGED vars
  BY <1>10 DEF Start, vars, process, history, NoNewGuess, Guessing
<1> QED BY <1>5, <1>6, <1>7, <1>8, <1>9, <1>10 DEF Next, Chain

\* A request keeps the time of its arrival.
LEMMA ArrivalKept ==
    ASSUME Types, [Next]_vars, NEW r \in Slots, requests'[r] # None
    PROVE  \/ requests'[r].now = clock
           \/ requests[r] # None /\ requests'[r].now = requests[r].now
<1> DEFINE Kept == \/ requests'[r].now = clock
                   \/ requests[r] # None /\ requests'[r].now = requests[r].now
<1>q. requests \in [Slots -> Request \cup {None}]
  BY DEF Types, TypeOK
<1>u. requests'[r] = requests[r] => Kept
  OBVIOUS
<1>f. ASSUME NEW t \in Slots, Finish(t) PROVE Kept
  BY <1>q, <1>f DEF Finish
<1>x. ASSUME NEW t \in Slots, requests[t] # None, NEW stage, NEW arg, NEW seen,
             \/ requests' = [requests EXCEPT ![t].stage = stage]
             \/ requests' = [requests EXCEPT ![t].stage = stage, ![t].arg = arg]
             \/ requests' = [requests EXCEPT ![t].stage = stage, ![t].arg = arg, ![t].seen = seen]
      PROVE  Kept
  <2>1. requests[t] \in Request
    BY <1>q, <1>x
  <2> QED BY <1>q, <1>x, <2>1 DEF Request
<1> HIDE DEF Kept
<1>1. ASSUME NEW t \in Slots, Body(t) PROVE Kept
  <2>1. CASE Drop(t) \/ PairLockedOut(t)
    BY <1>f, <2>1 DEF Drop, PairLockedOut
  <2>2. ASSUME NEW password \in Passwords, PasswordBody(t, password) PROVE Kept
    BY <1>x, <2>2 DEF PasswordBody, At
  <2>3. ASSUME NEW guess \in Passwords, LoginBody(t, guess) PROVE Kept
    <3>1. requests[t] # None
      BY <2>3 DEF LoginBody, At
    <3>2. \/ Finish(t)
          \/ requests' = [requests EXCEPT ![t].stage = "verify", ![t].arg = guess,
                                          ![t].seen = saved.password]
      BY <2>3 DEF LoginBody
    <3> QED BY <1>f, <1>x, <3>1, <3>2
  <2>4. ASSUME NEW candidate, PairRefused(t, candidate) PROVE Kept
    BY <1>f, <2>4 DEF PairRefused
  <2>5. ASSUME NEW candidate, NEW d \in Devices, PairClaimed(t, candidate, d) PROVE Kept
    BY <1>x, <2>5 DEF PairClaimed, At, Enqueue
  <2>6. ASSUME NEW d \in Devices, revoke(t, d) PROVE Kept
    BY <1>f, <1>x, <2>6 DEF revoke, At, Enqueue
  <2> QED BY <1>1, <2>1, <2>2, <2>3, <2>4, <2>5, <2>6 DEF Body
<1>2. ASSUME NEW t \in Slots, Resume(t) PROVE Kept
  <2>1. CASE setPassword(t)
    BY <1>x, <2>1 DEF setPassword, At, Enqueue
  <2>2. CASE signOutEverywhere(t)
    BY <1>x, <2>2 DEF signOutEverywhere, At, Enqueue
  <2>3. CASE LoginWrong(t) \/ LoginRight(t)
    BY <1>f, <2>3 DEF LoginWrong, LoginRight
  <2> QED BY <1>2, <2>1, <2>2, <2>3 DEF Resume
<1>3. ASSUME Client PROVE Kept
  <2>1. ASSUME NEW address, NEW presented, NEW forwarded,
               \/ Access(address, presented, forwarded)
               \/ \E show \in BOOLEAN : IssueCode(show, address, presented, forwarded)
        PROVE  Kept
    BY <1>u, <2>1 DEF Access, IssueCode
  <2>2. ASSUME NEW t \in Slots, NEW op, NEW address, NEW presented, NEW forwarded,
               Arrive(t, op, address, presented, forwarded)
        PROVE  Kept
    <3>1. t = r => requests'[r].now = clock
      BY <1>q, <2>2 DEF Arrive
    <3>2. t # r => requests'[r] = requests[r]
      BY <1>q, <2>2 DEF Arrive
    <3> QED BY <1>u, <3>1, <3>2 DEF Kept
  <2> QED BY <1>3, <2>1, <2>2 DEF Client
<1>4. ASSUME Chain PROVE Kept
  BY <1>q, <1>u, <1>4 DEF Chain, Commit, CommitFails, Answered, Forgotten
<1>5. ASSUME NEW landed \in BOOLEAN, Crash(landed) PROVE Kept
  BY <1>5 DEF Crash, Forgotten
<1>6. ASSUME Start \/ Tick \/ UNCHANGED vars PROVE Kept
  BY <1>u, <1>6 DEF Start, Tick, vars, process
<1> QED BY <1>1, <1>2, <1>3, <1>4, <1>5, <1>6 DEF Next, Kept

LEMMA ArrivedStep ==
    ASSUME Types, ArrivedBefore, [Next]_vars
    PROVE  ArrivedBefore'
<1>q. requests \in [Slots -> Request \cup {None}] /\ clock \in Nat
  BY DEF Types, TypeOK, Time
<1>1. clock' \in Nat /\ clock <= clock'
  <2>1. ASSUME NEW r \in Slots, LoginWrong(r) \/ LoginRight(r) PROVE clock' = clock
    BY <2>1 DEF LoginWrong, LoginRight
  <2>2. ASSUME NEW r \in Slots, NEW guess, LoginBody(r, guess) PROVE clock' = clock
    BY <2>2 DEF LoginBody
  <2>3. ASSUME NEW r \in Slots, NEW candidate, PairRefused(r, candidate) PROVE clock' = clock
    BY <2>3 DEF PairRefused
  <2>4. ASSUME NEW r \in Slots, NEW candidate, NEW d, PairClaimed(r, candidate, d)
        PROVE  clock' = clock
    BY <2>4 DEF PairClaimed
  <2>5. Tick => clock' = clock + 1
    BY DEF Tick
  <2>6. clock' = clock \/ clock' = clock + 1
    BY <2>1, <2>2, <2>3, <2>4, <2>5, GuessFrame
  <2> QED BY <1>q, <2>6
<1>2. ASSUME NEW r \in Slots, requests'[r] # None
      PROVE  requests'[r].now <= clock'
  <2>1. requests[r] # None => requests[r].now \in Nat /\ requests[r].now <= clock
    BY <1>q DEF ArrivedBefore, Request, Time
  <2> QED BY <1>q, <1>1, <1>2, <2>1, ArrivalKept
<1> QED BY <1>2 DEF ArrivedBefore

LEMMA GuessStep == GuessInv /\ [Next]_vars => GuessInv'
<1> SUFFICES ASSUME GuessInv, [Next]_vars PROVE GuessInv'
  OBVIOUS
<1> USE DEF GuessInv
<1>q. /\ requests \in [Slots -> Request \cup {None}] /\ clock \in Nat
      /\ counters \in [Addresses -> Counters] /\ wrongs \in [Addresses -> Nat]
  BY DEF Types, TypeOK, Time
<1>a. \A r \in Slots : requests[r] # None =>
         requests[r].address \in Addresses /\ requests[r].now \in Nat /\ requests[r].now <= clock
  BY <1>q DEF Request, Time, ArrivedBefore
<1>1. Types' /\ ArrivedBefore'
  BY TypeStep, ArrivedStep
<1>2. ASSUME UNCHANGED <<clock, counters, wrongs>>, \A a \in Addresses : NoNewGuess(a)
      PROVE  GuessesBounded'
  BY <1>2, BoundKept DEF GuessesBounded
<1>3. ASSUME NEW r \in Slots, NEW guess \in Passwords, LoginBody(r, guess)
      PROVE  GuessesBounded'
  <2>1. /\ requests[r] # None /\ requests[r].stage = "body"
        /\ UNCHANGED <<clock, counters, wrongs>>
    BY <1>3 DEF LoginBody, At, history
  <2>2. /\ \A t \in Slots \ {r} : requests'[t] = requests[t]
        /\ requests'[r] # None => requests'[r].address = requests[r].address
        /\ Locked(requests[r].address, requests[r].now) => requests'[r] = None
    BY <1>q, <1>3, <2>1 DEF LoginBody, Finish, Request
  <2>3. ASSUME NEW a \in Addresses, Locked(a, clock) PROVE NoNewGuess(a)
    <3>1. requests[r].address = a => Locked(requests[r].address, requests[r].now)
      <4>1. counters[a].lockedUntil \in Nat
        BY <1>q DEF Counters, Time
      <4> QED BY <1>q, <1>a, <2>1, <2>3, <4>1 DEF Locked
    <3> QED BY <2>2, <3>1 DEF NoNewGuess, Guessing
  <2> QED BY <2>1, <2>3, BoundKept DEF GuessesBounded
<1>4. ASSUME NEW r \in Slots, LoginWrong(r) PROVE GuessesBounded'
  <2>1. /\ requests[r] # None /\ requests[r].stage = "verify" /\ Finish(r) /\ clock' = clock
        /\ recordFailure(requests[r].address, requests[r].now)
    BY <1>4 DEF LoginWrong, At
  <2>2. r \in Guessing(requests[r].address)
    BY <2>1 DEF Guessing
  <2> QED BY <2>1, <2>2, BoundFailed
<1>5. ASSUME NEW r \in Slots, NEW candidate, PairRefused(r, candidate) PROVE GuessesBounded'
  <2>1. /\ requests[r] # None /\ Finish(r) /\ clock' = clock
        /\ recordFailure(requests[r].address, requests[r].now)
        /\ ~Locked(requests[r].address, requests[r].now)
    BY <1>5 DEF PairRefused, At
  <2> QED BY <2>1, BoundFailed
<1>6. ASSUME NEW r \in Slots, requests[r] # None, recordSuccess(requests[r].address),
             clock' = clock, requests'[r] = None \/ requests'[r].stage # "verify",
             \A t \in Slots \ {r} : requests'[t] = requests[t]
      PROVE  GuessesBounded'
  <2>1. \A a \in Addresses : NoNewGuess(a)
    BY <1>6 DEF NoNewGuess, Guessing
  <2>2. \A a \in Addresses :
          IF a = requests[r].address THEN counters'[a] = Clear /\ wrongs'[a] = 0
                                     ELSE counters'[a] = counters[a] /\ wrongs'[a] = wrongs[a]
    BY <1>q, <1>6 DEF recordSuccess
  <2> QED BY <1>q, <1>6, <2>1, <2>2, BoundKept, BoundClear DEF GuessesBounded
<1>7. ASSUME NEW r \in Slots, LoginRight(r) PROVE GuessesBounded'
  BY <1>q, <1>6, <1>7 DEF LoginRight, At, Finish
<1>8. ASSUME NEW r \in Slots, NEW candidate, NEW d \in Devices, PairClaimed(r, candidate, d)
      PROVE  GuessesBounded'
  <2>1. requests[r] # None /\ requests[r] \in Request
    BY <1>q, <1>8 DEF PairClaimed, At
  <2>2. /\ recordSuccess(requests[r].address) /\ clock' = clock
        /\ requests' = [requests EXCEPT ![r].stage = "queued"]
    BY <1>8 DEF PairClaimed, Enqueue
  <2>3. requests'[r].stage = "queued" /\ \A t \in Slots \ {r} : requests'[t] = requests[t]
    BY <1>q, <2>1, <2>2 DEF Request
  <2> QED BY <1>6, <2>1, <2>2, <2>3
<1>9. ASSUME clock' = clock, Forgotten PROVE GuessesBounded'
  BY <1>q, <1>9, BoundClear DEF Forgotten, GuessesBounded
<1>10. ASSUME Tick PROVE GuessesBounded'
  <2>1. /\ clock' = clock + 1 /\ counters' = counters /\ requests' = requests
        /\ \A a \in Addresses :
             wrongs'[a] = IF counters[a].lockedUntil = clock + 1 THEN 0 ELSE wrongs[a]
    BY <1>10 DEF Tick, process
  <2>2. ASSUME NEW a \in Addresses
        PROVE  IF Locked(a, clock)'
               THEN wrongs'[a] + Cardinality(Guessing(a)')
                      <= MaxFailures + Cardinality(Slots) - 1
               ELSE wrongs'[a] <= counters'[a].failures
    <3>1. Guessing(a)' = Guessing(a)
      BY <2>1 DEF Guessing
    <3>2. counters[a].lockedUntil \in Nat /\ counters[a].failures \in Nat /\ wrongs[a] \in Nat
      BY <1>q, Limits DEF Counters, Time
    <3>3. IF counters[a].lockedUntil > clock
          THEN wrongs[a] + Cardinality(Guessing(a)) <= MaxFailures + Cardinality(Slots) - 1
          ELSE wrongs[a] <= counters[a].failures
      BY DEF GuessesBounded, Locked
    <3>4. CASE counters[a].lockedUntil > clock + 1
      BY <1>q, <2>1, <3>1, <3>2, <3>3, <3>4 DEF Locked
    <3>5. CASE ~(counters[a].lockedUntil > clock + 1)
      <4>1. ~Locked(a, clock)'
        BY <2>1, <3>5 DEF Locked
      <4>2. wrongs'[a] <= counters'[a].failures
        BY <1>q, <2>1, <3>2, <3>3, <3>5
      <4> QED BY <4>1, <4>2
    <3> QED BY <3>4, <3>5
  <2> QED BY <2>2 DEF GuessesBounded
<1>11. GuessesBounded'
  BY <1>2, <1>3, <1>4, <1>5, <1>7, <1>8, <1>9, <1>10, GuessFrame
<1> QED BY <1>1, <1>11

\* The wrong guesses an address gets answered before it is clear again are
\* bounded: a failure is counted only after scrypt, so guesses in flight
\* together are all looked at, but none starts once the lockout is there
\* (src/auth/index.ts:239-254, src/auth/ratelimit.ts:95-102).
THEOREM GuessesHold == Spec => []GuessBudget
<1>1. Init => GuessInv
  <2> SUFFICES ASSUME Init PROVE GuessInv
    OBVIOUS
  <2>1. Types /\ clock \in Nat /\ \A r \in Slots : requests[r] = None
    BY InitialTypes, Limits DEF Init
  <2>2. \A a \in Addresses : counters[a] = Clear /\ wrongs[a] = 0
    BY DEF Init
  <2> QED BY <2>1, <2>2 DEF GuessInv, ArrivedBefore, GuessesBounded, Locked, Clear
<1>2. GuessInv => GuessBudget
  <2> SUFFICES ASSUME GuessInv, NEW a \in Addresses
               PROVE  wrongs[a] <= MaxFailures + Cardinality(Slots) - 1
    BY DEF GuessBudget
  <2>1. /\ counters[a] \in Counters /\ wrongs[a] \in Nat
    BY DEF GuessInv, Types, TypeOK
  <2>2. counters[a].failures <= MaxFailures - 1 /\ counters[a].failures \in Nat
    BY <2>1, Limits DEF Counters
  <2>3. CASE Locked(a, clock)
    <3>1. wrongs[a] + Cardinality(Guessing(a)) <= MaxFailures + Cardinality(Slots) - 1
      BY <2>3 DEF GuessInv, GuessesBounded
    <3> QED BY <2>1, <3>1, GuessingIs, Limits
  <2>4. CASE ~Locked(a, clock)
    <3>1. wrongs[a] <= counters[a].failures
      BY <2>4 DEF GuessInv, GuessesBounded
    <3> QED BY <2>1, <2>2, <3>1, GuessingIs, Limits
  <2> QED BY <2>3, <2>4
<1> QED BY <1>1, <1>2, GuessStep, PTL DEF Spec

-----------------------------------------------------------------------------
(* The life of a device.  Enrolment sees a queue only by the devices whose *)
(* record waits in it, and a state only by the devices that are live.      *)

Awaits(d) == \E i \in 1..Len(queue) : queue[i].kind = "pair" /\ queue[i].device = d

\* phaseOf, as a function of what Enrolment sees.
PhaseOf(known, waits, live) ==
    IF ~known THEN "unknown" ELSE IF waits THEN "claimed"
    ELSE IF live THEN "enrolled" ELSE "retired"

\* A mutation that leaves the queue takes its own claim along, and no other.
LEMMA AwaitedTail ==
    ASSUME Types, PairsAreNew, queue # <<>>, queue' = Tail(queue), NEW d \in Devices
    PROVE  Awaits(d)' <=> Awaits(d) /\ ~(Head(queue).kind = "pair" /\ Head(queue).device = d)
<1>1. /\ Head(queue) = queue[1] /\ 1 \in 1..Len(queue)
      /\ \A i \in 1..Len(queue') :
            i + 1 \in 1..Len(queue) /\ i + 1 # 1 /\ queue'[i] = queue[i + 1]
  BY HeadFacts
<1>2. Len(queue) \in Nat /\ Len(queue') = Len(queue) - 1
  BY TailFacts DEF Types, TypeOK
<1>3. ASSUME NEW i \in 1..Len(queue'), queue'[i].kind = "pair", queue'[i].device = d
      PROVE  Awaits(d) /\ ~(Head(queue).kind = "pair" /\ Head(queue).device = d)
  <2>1. i + 1 \in 1..Len(queue) /\ i + 1 # 1 /\ queue[i + 1].kind = "pair"
        /\ queue[i + 1].device = d
    BY <1>1, <1>3
  <2>2. Head(queue).kind = "pair" => Head(queue).device # d
    BY <1>1, <2>1 DEF PairsAreNew
  <2> QED BY <2>1, <2>2 DEF Awaits
<1>4. ASSUME NEW i \in 1..Len(queue), queue[i].kind = "pair", queue[i].device = d,
             ~(Head(queue).kind = "pair" /\ Head(queue).device = d)
      PROVE  Awaits(d)'
  <2>1. i - 1 \in 1..Len(queue')
    BY <1>1, <1>2, <1>4
  <2>2. queue'[i - 1] = queue[i]
    BY <1>1, <2>1
  <2> QED BY <1>4, <2>1, <2>2 DEF Awaits
<1> QED BY <1>3, <1>4 DEF Awaits

LEMMA AwaitedAppend ==
    ASSUME Types, NEW m \in Mutation, queue' = Append(queue, m), NEW d \in Devices
    PROVE  Awaits(d)' <=> Awaits(d) \/ (m.kind = "pair" /\ m.device = d)
<1>1. /\ Len(queue) \in Nat /\ Len(queue') = Len(queue) + 1
      /\ \A i \in 1..Len(queue) : queue'[i] = queue[i]
      /\ queue'[Len(queue) + 1] = m
  BY AppendFacts DEF Types, TypeOK
<1>2. \A i \in 1..Len(queue') : i \in 1..Len(queue) \/ i = Len(queue) + 1
  BY <1>1
<1>3. Len(queue) + 1 \in 1..Len(queue') /\ \A i \in 1..Len(queue) : i \in 1..Len(queue')
  BY <1>1
<1> QED BY <1>1, <1>2, <1>3 DEF Awaits

\* Who is live once the running mutation has taken effect.
LEMMA LandedLives ==
    ASSUME Types, queue # <<>>, saved' = Mutated(saved, Head(queue)), NEW d \in Devices
    PROVE  /\ Head(queue).kind \in {"password", "touch"} => (Live(d)' <=> Live(d))
           /\ Head(queue).kind = "pair" =>
                 (Live(d)' <=> d = Head(queue).device \/ Live(d))
           /\ Head(queue).kind = "revoke" =>
                 (Live(d)' <=> d # Head(queue).device /\ Live(d))
           /\ Head(queue).kind = "signout" => ~Live(d)'
<1> DEFINE m == Head(queue)
<1>1. saved \in RelayState
  BY DEF Types, TypeOK
<1>2. m \in Mutation /\ (m.kind \in {"pair", "touch", "revoke"} => m.device \in Devices)
  BY HeadFacts
<1> HIDE DEF m
<1>e. saved' = Mutated(saved, m)
  BY DEF m
<1>3. m.kind = "password" => (Live(d)' <=> Live(d))
  <2> SUFFICES ASSUME m.kind = "password" PROVE Live(d)' <=> Live(d)
    OBVIOUS
  <2>1. saved'.devices = saved.devices
    BY <1>1, <1>2, <1>e, MutatedEffect
  <2> QED BY <2>1 DEF Live
<1>4. m.kind = "touch" => (Live(d)' <=> Live(d))
  <2> SUFFICES ASSUME m.kind = "touch" PROVE Live(d)' <=> Live(d)
    OBVIOUS
  <2>1. /\ saved'.devices[d] = None <=> saved.devices[d] = None
        /\ saved.devices[d] # None =>
              saved'.devices[d].revoked = saved.devices[d].revoked
    BY <1>1, <1>2, <1>e, MutatedEffect
  <2> QED BY <2>1 DEF Live
<1>5. m.kind = "pair" => (Live(d)' <=> d = m.device \/ Live(d))
  <2> SUFFICES ASSUME m.kind = "pair" PROVE Live(d)' <=> d = m.device \/ Live(d)
    OBVIOUS
  <2>1. /\ saved'.devices[m.device] # None /\ ~saved'.devices[m.device].revoked
        /\ d # m.device => saved'.devices[d] = saved.devices[d]
    BY <1>1, <1>2, <1>e, MutatedEffect
  <2> QED BY <2>1 DEF Live
<1>6. m.kind = "revoke" => (Live(d)' <=> d # m.device /\ Live(d))
  <2> SUFFICES ASSUME m.kind = "revoke" PROVE Live(d)' <=> d # m.device /\ Live(d)
    OBVIOUS
  <2>1. /\ saved'.devices[m.device] = None \/ saved'.devices[m.device].revoked
        /\ d # m.device => saved'.devices[d] = saved.devices[d]
    BY <1>1, <1>2, <1>e, MutatedEffect
  <2> QED BY <2>1 DEF Live
<1>7. m.kind = "signout" => ~Live(d)'
  <2> SUFFICES ASSUME m.kind = "signout" PROVE ~Live(d)'
    OBVIOUS
  <2>1. saved'.devices[d] = None
    BY <1>1, <1>2, <1>e, MutatedEffect
  <2> QED BY <2>1 DEF Live
<1> QED BY <1>3, <1>4, <1>5, <1>6, <1>7 DEF m

LEMMA LifeBegins == Init => Life!Init
<1> SUFFICES ASSUME Init PROVE Life!Init
  OBVIOUS
<1>1. \A d \in Devices : phaseOf(d) = "unknown"
  BY DEF Init, phaseOf
<1> QED BY <1>1 DEF Init, Life!Init

\* Every code issued is one of the bounded number.
CodesCounted == issued \in 0..MaxCodes

LEMMA CodesCountedStep == CodesCounted /\ Types /\ [Next]_vars => CodesCounted'
<1> SUFFICES ASSUME CodesCounted, Types, [Next]_vars PROVE CodesCounted'
  OBVIOUS
<1>n. issued \in Nat /\ MaxCodes \in Nat /\ issued <= MaxCodes
  BY TimesAssumption DEF CodesCounted
<1>1. issued' = issued \/ (issued < MaxCodes /\ issued' = issued + 1)
  <2>1. ASSUME Client PROVE issued' = issued \/ (issued < MaxCodes /\ issued' = issued + 1)
    BY <2>1 DEF Client, Access, IssueCode, issue, Arrive, clients, history
  <2>2. ASSUME NEW r \in Slots, Body(r) \/ Resume(r) PROVE issued' = issued
    BY <2>2 DEF Body, Resume, Drop, PasswordBody, LoginBody, PairRefused, PairClaimed,
       PairLockedOut, revoke, setPassword, LoginWrong, LoginRight, signOutEverywhere
  <2>3. ASSUME Chain \/ (\E landed \in BOOLEAN : Crash(landed)) \/ Start \/ Tick
                 \/ UNCHANGED vars
        PROVE  issued' = issued
    BY <2>3 DEF Chain, Commit, CommitFails, Crash, Start, Tick, vars
  <2> QED BY <2>1, <2>2, <2>3 DEF Next
<1> QED BY <1>n, <1>1 DEF CodesCounted

\* Every step of the authenticator is a step in the life of the devices, or
\* none at all.
LEMMA LifeStep ==
    IInv /\ CodesCounted /\ [Next]_vars => [Life!Next]_(Life!lifeVars)
<1> DEFINE p == [d \in Devices |-> phaseOf(d)]
           gone == {d \in Devices : phaseOf(d) = "enrolled" /\ ~Live(d)'}
<1> SUFFICES ASSUME IInv, CodesCounted, [Next]_vars
             PROVE  Life!Next \/ UNCHANGED <<p, codeOf, tokens, barred.devices>>
  BY DEF Life!lifeVars
<1>t. /\ Types /\ Types' /\ PairsAreNew /\ EnrolledWithCode /\ CodesAreFresh
      /\ queue \in Seq(Mutation) /\ queue' \in Seq(Mutation)
      /\ codeOf \in [Devices -> Nat] /\ tokens \subseteq Devices
      /\ barred = [devices |-> barred.devices, cookies |-> barred.cookies]
      /\ barred.devices \subseteq Devices
  BY TypeStep DEF IInv, CredentialInv, Types, TypeOK, Codes
<1>p. \A d \in Devices :
        /\ phaseOf(d) = PhaseOf(codeOf[d] # 0, Awaits(d), Live(d))
        /\ phaseOf(d)' = PhaseOf(codeOf'[d] # 0, Awaits(d)', Live(d)')
  <2>1. DOMAIN queue = 1..Len(queue) /\ DOMAIN queue' = 1..Len(queue')
    BY <1>t
  <2>2. \A d \in Devices : phaseOf(d) = PhaseOf(codeOf[d] # 0, Awaits(d), Live(d))
    BY <2>1 DEF phaseOf, PhaseOf, Awaits
  <2>3. \A d \in Devices : phaseOf(d)' = PhaseOf(codeOf'[d] # 0, Awaits(d)', Live(d)')
    BY <2>1 DEF phaseOf, PhaseOf, Awaits
  <2> QED BY <2>2, <2>3
<1>w. \A d \in Devices : Awaits(d) => /\ codeOf[d] # 0 /\ ~Live(d)
                                      /\ d \notin tokens /\ d \notin barred.devices
  BY <1>t DEF Awaits, PairsAreNew, Minted, Live
<1>k. \A d \in Devices : Live(d) \/ d \in tokens \/ d \in barred.devices => codeOf[d] # 0
  BY <1>t DEF EnrolledWithCode, Minted, Live
<1>s. ASSUME codeOf' = codeOf, tokens' = tokens, barred' = barred,
             \A d \in Devices : (Awaits(d)' <=> Awaits(d)) /\ (Live(d)' <=> Live(d))
      PROVE  UNCHANGED <<p, codeOf, tokens, barred.devices>>
  <2>1. \A d \in Devices : phaseOf(d)' = phaseOf(d)
    BY <1>p, <1>s DEF PhaseOf
  <2> QED BY <1>s, <2>1
<1>e. Life!In("enrolled") = {d \in Devices : phaseOf(d) = "enrolled"}
      /\ Life!In("retired") = {d \in Devices : phaseOf(d) = "retired"}
      /\ Life!In("claimed") = {d \in Devices : phaseOf(d) = "claimed"}
  BY DEF Life!In
<1>1. CASE Commit
  <2> DEFINE m == Head(queue)
  <2>1. /\ queue # <<>> /\ queue' = Tail(queue) /\ saved' = Mutated(saved, m)
        /\ barred' = BarredBy(m) /\ codeOf' = codeOf
        /\ tokens' = IF m.kind = "pair" THEN tokens \cup {m.device} ELSE tokens
    BY <1>t, <1>1, Committed
  <2>2. /\ m.kind \in {"password", "pair", "touch", "revoke", "signout"}
        /\ m.kind \in {"pair", "revoke"} => m.device \in Devices
        /\ m.kind = "pair" => Awaits(m.device)
        /\ m.kind = "revoke" => codeOf[m.device] # 0 /\ ~Awaits(m.device)
    <3>1. /\ m = queue[1] /\ 1 \in 1..Len(queue)
          /\ m.kind \in {"password", "pair", "touch", "revoke", "signout"}
          /\ m.kind \in {"pair", "revoke"} => m.device \in Devices
      BY <1>t, <2>1, HeadFacts
    <3>2. m.kind = "revoke" => codeOf[m.device] # 0
      BY <1>t, <3>1 DEF PairsAreNew, Minted
    <3>3. m.kind = "revoke" => ~Awaits(m.device)
      BY <1>t, <3>1 DEF PairsAreNew, Awaits
    <3> QED BY <3>1, <3>2, <3>3 DEF Awaits
  <2>3. \A d \in Devices :
          /\ Awaits(d)' <=> Awaits(d) /\ ~(m.kind = "pair" /\ m.device = d)
          /\ m.kind \in {"password", "touch"} => (Live(d)' <=> Live(d))
          /\ m.kind = "pair" => (Live(d)' <=> d = m.device \/ Live(d))
          /\ m.kind = "revoke" => (Live(d)' <=> d # m.device /\ Live(d))
          /\ m.kind = "signout" => ~Live(d)'
    BY <1>t, <2>1, AwaitedTail, LandedLives
  <2>4. /\ m.kind = "revoke" => barred'.devices = barred.devices \cup {m.device}
        /\ m.kind = "signout" => barred'.devices = barred.devices \cup tokens
        /\ m.kind \notin {"revoke", "signout"} => barred' = barred
    BY <1>t, <2>1 DEF BarredBy
  <2> HIDE DEF m
  <2>5. CASE m.kind \in {"password", "touch"}
    BY <1>s, <2>1, <2>3, <2>4, <2>5
  <2>6. CASE m.kind = "pair"
    <3>1. phaseOf(m.device) = "claimed"
      BY <1>p, <1>w, <2>2, <2>6 DEF PhaseOf
    <3>2. \A d \in Devices : phaseOf(d)' = IF d = m.device THEN "enrolled" ELSE phaseOf(d)
      BY <1>p, <1>w, <2>1, <2>2, <2>3, <2>6 DEF PhaseOf
    <3>3. p' = [p EXCEPT ![m.device] = "enrolled"]
      BY <2>2, <2>6, <3>2
    <3>4. Life!Admit(m.device)
      BY <2>1, <2>2, <2>4, <2>6, <3>1, <3>3 DEF Life!Admit
    <3> QED BY <2>2, <2>6, <3>4 DEF Life!Next
  <2>7. CASE m.kind \in {"revoke", "signout"}
    <3> DEFINE told == IF m.kind = "revoke" THEN {m.device} ELSE tokens
    <3>1. \A d \in Devices : phaseOf(d)' = IF d \in gone THEN "retired" ELSE phaseOf(d)
      BY <1>p, <1>w, <1>k, <2>1, <2>3, <2>7 DEF PhaseOf
    <3>2. told \subseteq gone \cup {d \in Devices : phaseOf(d) = "retired"}
      BY <1>t, <1>p, <1>w, <1>k, <2>2, <2>3, <2>7 DEF PhaseOf
    <3>3. p' = [d \in Devices |-> IF d \in gone THEN "retired" ELSE p[d]]
      BY <3>1
    <3>4. barred'.devices = barred.devices \cup told /\ UNCHANGED <<codeOf, tokens>>
      BY <2>1, <2>4, <2>7
    <3>5. gone \in SUBSET Life!In("enrolled") /\ told \in SUBSET (gone \cup Life!In("retired"))
      BY <1>e, <3>2
    <3> HIDE DEF gone, told, p
    <3>6. Life!Withdraw
      BY <3>3, <3>4, <3>5 DEF Life!Withdraw, Life!Ended, p
    <3> QED BY <3>6 DEF Life!Next
  <2> QED BY <2>2, <2>5, <2>6, <2>7
<1>c. ASSUME queue' = <<>>, UNCHANGED <<codeOf, tokens, barred>>,
             \/ saved' = saved
             \/ queue # <<>> /\ saved' = Mutated(saved, Head(queue))
      PROVE  Life!Crash
  <2>1. \A d \in Devices : ~Awaits(d)'
    BY <1>c DEF Awaits
  <2>2. CASE queue # <<>> /\ saved' = Mutated(saved, Head(queue)) /\ Head(queue).kind = "pair"
    <3> DEFINE n == Head(queue).device
    <3>1. n \in Devices /\ Awaits(n)
      BY <1>t, <2>2, HeadFacts DEF Awaits
    <3>2. \A d \in Devices : Live(d)' <=> d = n \/ Live(d)
      BY <1>t, <2>2, LandedLives
    <3> HIDE DEF n
    <3>3. n \in Life!In("claimed")
      BY <1>e, <1>p, <1>w, <3>1 DEF PhaseOf
    <3>4. \A d \in Devices :
            phaseOf(d)' = IF d = n THEN "enrolled"
                          ELSE IF phaseOf(d) = "claimed" THEN "retired" ELSE phaseOf(d)
      BY <1>p, <1>w, <1>c, <2>1, <3>1, <3>2 DEF PhaseOf
    <3>5. p' = [d \in Devices |-> IF d = n THEN "enrolled"
                                  ELSE IF p[d] = "claimed" THEN "retired" ELSE p[d]]
      BY <3>4
    <3> QED BY <1>c, <3>3, <3>5 DEF Life!Crash
  <2>3. CASE ~(queue # <<>> /\ saved' = Mutated(saved, Head(queue)) /\ Head(queue).kind = "pair")
    <3>1. \A d \in Devices : Live(d)' => Live(d)
      <4>1. CASE saved' = saved
        BY <4>1 DEF Live
      <4>2. CASE queue # <<>> /\ saved' = Mutated(saved, Head(queue))
        <5>1. Head(queue).kind \in {"password", "touch", "revoke", "signout"}
          BY <1>t, <2>3, <4>2, HeadFacts
        <5> QED BY <1>t, <4>2, <5>1, LandedLives
      <4> QED BY <1>c, <4>1, <4>2
    <3>2. \A d \in Devices :
            phaseOf(d)' = IF d \in gone \cup {e \in Devices : phaseOf(e) = "claimed"}
                          THEN "retired" ELSE phaseOf(d)
      BY <1>p, <1>w, <1>c, <2>1, <3>1 DEF PhaseOf
    <3>3. p' = [d \in Devices |->
                  IF d \in gone \cup Life!In("claimed") THEN "retired" ELSE p[d]]
      BY <1>e, <3>2
    <3>4. gone \in SUBSET Life!In("enrolled")
      BY <1>e
    <3> HIDE DEF gone, p
    <3> QED BY <1>c, <3>3, <3>4 DEF Life!Crash, Life!Ended, p
  <2> QED BY <2>2, <2>3
<1>2. CASE CommitFails
  <2>1. queue # <<>> /\ UNCHANGED <<saved, codeOf, tokens, barred>>
    BY <1>2 DEF CommitFails, clients
  <2>2. CASE queue' = <<>>
    BY <1>c, <2>1, <2>2 DEF Life!Next
  <2>3. CASE queue' = Tail(queue)
    <3> DEFINE m == Head(queue)
    <3>1. \A d \in Devices :
            /\ Awaits(d)' <=> Awaits(d) /\ ~(m.kind = "pair" /\ m.device = d)
            /\ Live(d)' <=> Live(d)
      BY <1>t, <2>1, <2>3, AwaitedTail DEF Live
    <3>2. m.kind = "pair" => m.device \in Devices /\ Awaits(m.device)
      BY <1>t, <2>1, HeadFacts DEF Awaits
    <3> HIDE DEF m
    <3>3. CASE m.kind = "pair"
      <4>1. phaseOf(m.device) = "claimed"
        BY <1>p, <1>w, <3>2, <3>3 DEF PhaseOf
      <4>2. \A d \in Devices : phaseOf(d)' = IF d = m.device THEN "retired" ELSE phaseOf(d)
        BY <1>p, <1>w, <2>1, <3>1, <3>2, <3>3 DEF PhaseOf
      <4>3. p' = [p EXCEPT ![m.device] = "retired"]
        BY <3>2, <3>3, <4>2
      <4>4. Life!Fail(m.device)
        BY <2>1, <3>2, <3>3, <4>1, <4>3 DEF Life!Fail
      <4> QED BY <3>2, <3>3, <4>4 DEF Life!Next
    <3>4. CASE m.kind # "pair"
      BY <1>s, <2>1, <3>1, <3>4
    <3> QED BY <3>3, <3>4
  <2> QED BY <1>2, <2>2, <2>3 DEF CommitFails, Forgotten
<1>3. ASSUME NEW landed \in BOOLEAN, Crash(landed) PROVE Life!Next
  <2>1. Life!Crash
    BY <1>c, <1>3 DEF Crash, Forgotten, clients
  <2> QED BY <2>1 DEF Life!Next
<1>4. ASSUME NEW m, Joins(m), UNCHANGED <<saved, tokens, barred, cookies, issued>>
      PROVE  Life!Next \/ UNCHANGED <<p, codeOf, tokens, barred.devices>>
  <2>1. \A d \in Devices :
          /\ Awaits(d)' <=> Awaits(d) \/ (m.kind = "pair" /\ m.device = d)
          /\ Live(d)' <=> Live(d)
    BY <1>t, <1>4, AwaitedAppend DEF Live, Joins
  <2>2. CASE m.kind # "pair"
    BY <1>s, <1>4, <2>1, <2>2 DEF Joins
  <2>3. CASE m.kind = "pair"
    <3>1. /\ m.device \in Devices /\ codeOf[m.device] = 0 /\ code # None
          /\ codeOf' = [codeOf EXCEPT ![m.device] = code.id]
      BY <1>4, <2>3 DEF Joins, Minted
    <3>2. code.id \in 1..MaxCodes /\ \A e \in Devices : codeOf[e] # code.id
      <4>1. code.id \in Nat \ {0} /\ code.id = issued /\ \A e \in Devices : codeOf[e] # code.id
        BY <1>t, <3>1 DEF CodesAreFresh, Types, TypeOK, PairingCode, Codes
      <4> QED BY <4>1, TimesAssumption DEF CodesCounted
    <3>3. \A d \in Devices : phaseOf(d)' = IF d = m.device THEN "claimed" ELSE phaseOf(d)
      BY <1>t, <1>p, <2>1, <2>3, <3>1, <3>2 DEF PhaseOf
    <3>4. phaseOf(m.device) = "unknown"
      BY <1>p, <3>1 DEF PhaseOf
    <3>5. p' = [p EXCEPT ![m.device] = "claimed"]
      BY <3>1, <3>3
    <3>6. Life!Claim(m.device, code.id)
      BY <1>4, <3>1, <3>2, <3>4, <3>5 DEF Life!Claim
    <3> QED BY <3>1, <3>2, <3>6 DEF Life!Next
  <2> QED BY <2>2, <2>3
<1>5. CASE UNCHANGED <<queue, saved, tokens, barred, codeOf>>
  BY <1>5, <1>s DEF Awaits, Live
<1> QED BY <1>t, <1>1, <1>2, <1>3, <1>4, <1>5, QueueFrame

\* Pairing implements the life of a device, in every interleaving and across
\* failed writes and crashes: a code enrols one device, a device is admitted
\* at one instant and never again after its end, and a revocation is answered
\* only once it holds (src/auth/index.ts:263-371, src/auth/pairing.ts:74-80).
THEOREM AuthenticatorImplementsEnrolment == Spec => ImplementsEnrolment
<1>1. Init => CodesCounted
  BY TimesAssumption DEF Init, CodesCounted
<1>2. Spec => []CodesCounted
  <2>1. IInv => Types
    BY DEF IInv
  <2> QED BY <1>1, <2>1, CodesCountedStep, Invariant, PTL DEF Spec
<1> QED BY <1>2, Invariant, LifeBegins, LifeStep, PTL DEF Spec, ImplementsEnrolment, Life!Spec

=============================================================================
