------------------------------ MODULE Throttle ------------------------------
(***************************************************************************)
(* Request throttling and sign-in lockout per source address               *)
(* (src/auth/ratelimit.ts), as the pipeline and the routes use it.         *)
(*                                                                         *)
(* A request is counted when it arrives and may then be a guess at the     *)
(* password or at a pairing code.  A guess keeps the time it arrived at:   *)
(* the lockout is looked at when its body is there, a password is verified *)
(* meanwhile, and the failure is recorded after that, all with the time of *)
(* arrival.  Other guesses of the address come in between.                 *)
(*                                                                         *)
(* An address without counters and one with blank counters are the same.   *)
(* Of the requests in the window only the newest RequestsPerMinute + 1 are *)
(* kept: the array is compared with the limit and asked for its last entry *)
(* and nothing else, and older entries leave it first.                     *)
(***************************************************************************)
EXTENDS Integers, Sequences

CONSTANTS
    Addresses,          \* normalized source addresses
    RequestsPerMinute,  \* limits.requestsPerMinute
    MaxFailures,        \* limits.maxFailures
    LockoutMs,          \* limits.lockoutMs
    WindowMs,           \* WINDOW_MS, also the Retry-After of a full window
    IdleMs,             \* IDLE_EVICTION_MS
    None,               \* undefined
    Slots,              \* bound: guesses under way at a time
    MaxClock            \* bound: the last instant of a run

ASSUME LimitsAssumption ==
    /\ {RequestsPerMinute, MaxFailures, LockoutMs, WindowMs} \subseteq Nat \ {0}
    /\ {IdleMs, MaxClock} \subseteq Nat
    /\ WindowMs <= IdleMs

VARIABLES
    clock,     \* Date.now()
    counters,  \* #addresses
    guesses,   \* the calls of signIn() and pair(), from their arrival
    admitted,  \* history: the latest counted requests that were not refused
    lockout,   \* history: until when the last lockout no success has lifted
               \* is to last
    told       \* history: when the last refused client was told to come back

throttle == <<clock, counters, guesses, admitted, lockout, told>>

Time == Nat

Counters ==
    [requests : Seq(Time), failures : 0..(MaxFailures - 1), lockedUntil : Time]

Blank == [requests |-> <<>>, failures |-> 0, lockedUntil |-> 0]

\* Its body is on its way, or a password is being verified.
Guess == [address : Addresses, at : Time, stage : {"body", "verify"}]

\* `rate` after a full window, `guess` after a lockout; 0 when the last such
\* request of the address was served.
Told == [rate : Time, guess : Time]

NothingTold == [rate |-> 0, guess |-> 0]

ThrottleTypeOK ==
    /\ clock \in Time
    /\ counters \in [Addresses -> Counters]
    /\ guesses \in [Slots -> Guess \cup {None}]
    /\ admitted \in [Addresses -> Seq(Time)]
    /\ lockout \in [Addresses -> Time]
    /\ told \in [Addresses -> Told]

-----------------------------------------------------------------------------
(* The sliding window.                                                     *)

Newest(times) ==
    IF Len(times) <= RequestsPerMinute + 1 THEN times
    ELSE SubSeq(times, Len(times) - RequestsPerMinute, Len(times))

\* Faulty variant: an entry stays one instant too long.
ExpiredLate(times, cutoff) ==
    CHOOSE k \in 0..Len(times) :
        /\ \A i \in 1..k : times[i] < cutoff
        /\ k < Len(times) => times[k + 1] >= cutoff

\* How many entries the loop shifts out: the oldest, up to the first that is
\* inside the window.
Expired(times, cutoff) ==
    CHOOSE k \in 0..Len(times) :
        /\ \A i \in 1..k : times[i] <= cutoff
        /\ k < Len(times) => times[k + 1] > cutoff

\* The requests inside the window that ends now.
Inside(times) == SubSeq(times, Expired(times, clock - WindowMs) + 1, Len(times))

\* The array after this request; a refused request is recorded as well.
Recorded(times) == Newest(Append(Inside(times), clock))

\* The counters of an address after the pipeline has looked at a request; one
\* from the machine itself is not counted.
Seen(a, counted) ==
    IF counted THEN [counters[a] EXCEPT !.requests = Recorded(@)] ELSE counters[a]

\* Faulty variant: the array is compared before it has this request.
OverRateBefore(a, counted) ==
    counted /\ Len(Inside(counters[a].requests)) > RequestsPerMinute

\* exceedsRate()'s answer.
OverRate(a, counted) ==
    counted /\ Len(Seen(a, counted).requests) > RequestsPerMinute

\* Whether a guess that arrived then is locked out.
LockedFor(a, at) == counters[a].lockedUntil > at

-----------------------------------------------------------------------------
(* What becomes of a request.                                              *)

\* exceedsRate(): 429, come back in a minute.
Refuse(a, counted) ==
    /\ OverRate(a, counted)
    /\ counters' = [counters EXCEPT ![a] = Seen(a, counted)]
    /\ told' = [told EXCEPT ![a].rate = clock + WindowMs]
    /\ UNCHANGED <<clock, guesses, admitted, lockout>>

\* The request passes the window.
Passes(a, counted) ==
    /\ ~OverRate(a, counted)
    /\ admitted' = IF counted
                   THEN [admitted EXCEPT ![a] = Newest(Append(@, clock))]
                   ELSE admitted
    /\ UNCHANGED clock

RateTold(a, counted) == IF counted THEN 0 ELSE told[a].rate

Admit(a, counted) ==
    /\ Passes(a, counted)
    /\ counters' = [counters EXCEPT ![a] = Seen(a, counted)]
    /\ told' = [told EXCEPT ![a].rate = RateTold(a, counted)]
    /\ UNCHANGED lockout

\* A request that is no guess.
Serve(a, counted) == Admit(a, counted) /\ UNCHANGED guesses

-----------------------------------------------------------------------------
(* What becomes of a guess.                                                *)

\* The slots of the passwords an address has under verification.
Verifying(a) ==
    {s \in Slots : guesses[s] # None /\ guesses[s].address = a /\ guesses[s].stage = "verify"}

\* Retry-After of a locked-out guess: a whole lockout for a password, the
\* rest of this one for a pairing code.  The rest is no promise while the
\* address has a password under verification, which may prolong the lockout.
ComeBack(a, kind, at) ==
    CASE kind = "password" -> clock + LockoutMs
      [] kind = "code" /\ Verifying(a) = {} -> clock + (counters[a].lockedUntil - at)
      [] kind = "code" /\ Verifying(a) # {} -> 0

\* Faulty variant: one failure too many before the lockout.
LastFailureLate(seen) == seen.failures >= MaxFailures

LastFailure(seen) == seen.failures + 1 >= MaxFailures

Earliest(times) == CHOOSE t \in times : \A u \in times : t <= u

\* At the threshold the count starts again and sign-in is locked, from the
\* arrival of the guess on; any that is being verified may do so again, from
\* its own.
recordFailure(a, seen, at) ==
    LET lock == LastFailure(seen)
    IN  /\ counters' = [counters EXCEPT ![a] =
             IF lock THEN [seen EXCEPT !.failures = 0, !.lockedUntil = at + LockoutMs]
                     ELSE [seen EXCEPT !.failures = @ + 1]]
        /\ lockout' =
             IF lock
             THEN [lockout EXCEPT ![a] =
                      LockoutMs + Earliest({at} \cup {guesses[s].at : s \in Verifying(a)})]
             ELSE lockout

recordSuccess(a, seen) ==
    /\ counters' = [counters EXCEPT ![a] = [seen EXCEPT !.failures = 0, !.lockedUntil = 0]]
    /\ lockout' = [lockout EXCEPT ![a] = 0]

\* A guess alone: it arrives, is looked at and is answered before anything
\* else happens.  In a lockout it is answered 429 and not evaluated.
GuessLockedOut(a, counted, kind) ==
    /\ Passes(a, counted)
    /\ LockedFor(a, clock)
    /\ counters' = [counters EXCEPT ![a] = Seen(a, counted)]
    /\ told' = [told EXCEPT ![a] =
         [rate |-> RateTold(a, counted), guess |-> ComeBack(a, kind, clock)]]
    /\ UNCHANGED <<guesses, lockout>>

GuessEvaluated(a, counted) ==
    /\ Passes(a, counted)
    /\ ~LockedFor(a, clock)
    /\ told' = [told EXCEPT ![a] = [rate |-> RateTold(a, counted), guess |-> 0]]
    /\ UNCHANGED guesses

GuessWrong(a, counted) ==
    GuessEvaluated(a, counted) /\ recordFailure(a, Seen(a, counted), clock)

GuessRight(a, counted) ==
    GuessEvaluated(a, counted) /\ recordSuccess(a, Seen(a, counted))

\* A guess among others: it arrives, and its body takes its time.
Arrives(s, a, counted) ==
    /\ guesses[s] = None
    /\ Admit(a, counted)
    /\ guesses' = [guesses EXCEPT ![s] = [address |-> a, at |-> clock, stage |-> "body"]]

Awaits(s, stage) == guesses[s] # None /\ guesses[s].stage = stage

Over(s) == guesses' = [guesses EXCEPT ![s] = None] /\ UNCHANGED <<clock, admitted>>

\* The body is too large, or never comes.
Dropped(s) == Awaits(s, "body") /\ Over(s) /\ UNCHANGED <<counters, lockout, told>>

\* The body is there: 429, not evaluated and not counted as a failure ...
TurnedAway(s, kind) ==
    LET a == guesses[s].address
    IN  /\ Awaits(s, "body")
        /\ LockedFor(a, guesses[s].at)
        /\ told' = [told EXCEPT ![a].guess = ComeBack(a, kind, guesses[s].at)]
        /\ Over(s)
        /\ UNCHANGED <<counters, lockout>>

\* ... or evaluated, a code at once ...
Evaluated(s) ==
    LET a == guesses[s].address
    IN  /\ Awaits(s, "body")
        /\ ~LockedFor(a, guesses[s].at)
        /\ told' = [told EXCEPT ![a].guess = 0]

CodeTried(s) ==
    LET a == guesses[s].address
    IN  /\ Evaluated(s)
        /\ recordFailure(a, counters[a], guesses[s].at) \/ recordSuccess(a, counters[a])
        /\ Over(s)

\* ... and a password after its hash is computed.
Verifies(s) ==
    /\ Evaluated(s)
    /\ guesses' = [guesses EXCEPT ![s].stage = "verify"]
    /\ UNCHANGED <<clock, counters, admitted, lockout>>

PasswordTried(s) ==
    LET a == guesses[s].address
    IN  /\ Awaits(s, "verify")
        /\ recordFailure(a, counters[a], guesses[s].at) \/ recordSuccess(a, counters[a])
        /\ Over(s)
        /\ UNCHANGED told

-----------------------------------------------------------------------------
(* Time, the sweep and restarts.                                           *)

\* An address is quiet when its last request is long ago (or it never made
\* one that counted).
LastRequest(a) ==
    LET times == counters[a].requests
    IN  IF times = <<>> THEN 0 ELSE times[Len(times)]

\* Faulty variant: a lockout does not keep an idle address.
IdleThoughLocked(a) == LastRequest(a) <= clock - IdleMs

Idle(a) == LastRequest(a) <= clock - IdleMs /\ ~LockedFor(a, clock)

\* #evict(): the timer's phase against the requests is arbitrary.
Sweep ==
    /\ \E a \in Addresses : Idle(a) /\ counters[a] # Blank
    /\ counters' = [a \in Addresses |-> IF Idle(a) THEN Blank ELSE counters[a]]
    /\ UNCHANGED <<clock, guesses, admitted, lockout, told>>

\* dispose(), and a new relay begins with nothing: with the counters go the
\* promises that rest on them, and a guess under way counts for the old one.
Restart ==
    /\ counters' = [a \in Addresses |-> Blank]
    /\ guesses' = [s \in Slots |-> None]
    /\ admitted' = [a \in Addresses |-> <<>>]
    /\ lockout' = [a \in Addresses |-> 0]
    /\ told' = [a \in Addresses |-> NothingTold]
    /\ UNCHANGED clock

\* The clock of the machine never goes back.
Tick ==
    /\ clock < MaxClock
    /\ clock' = clock + 1
    /\ UNCHANGED <<counters, guesses, admitted, lockout, told>>

-----------------------------------------------------------------------------
\* The epoch is longer ago than any idle time.
ThrottleInit ==
    /\ clock = IdleMs
    /\ counters = [a \in Addresses |-> Blank]
    /\ guesses = [s \in Slots |-> None]
    /\ admitted = [a \in Addresses |-> <<>>]
    /\ lockout = [a \in Addresses |-> 0]
    /\ told = [a \in Addresses |-> NothingTold]

\* One request of an address.
Handled(a, counted) ==
    \/ Refuse(a, counted)
    \/ Serve(a, counted)
    \/ \E kind \in {"password", "code"} : GuessLockedOut(a, counted, kind)
    \/ GuessWrong(a, counted)
    \/ GuessRight(a, counted)
    \/ \E s \in Slots : Arrives(s, a, counted)

\* One step of a guess under way.
Continued(s) ==
    \/ Dropped(s)
    \/ \E kind \in {"password", "code"} : TurnedAway(s, kind)
    \/ CodeTried(s)
    \/ Verifies(s)
    \/ PasswordTried(s)

ThrottleNext ==
    \/ \E a \in Addresses, counted \in BOOLEAN : Handled(a, counted)
    \/ \E s \in Slots : Continued(s)
    \/ Sweep
    \/ Restart
    \/ Tick

ThrottleSpec == ThrottleInit /\ [][ThrottleNext]_throttle

-----------------------------------------------------------------------------
(* Properties.                                                             *)

\* In no span of a window's length does an address have more requests served
\* than its limit, wherever the span begins: the array slides, is pushed to by
\* refused requests too, and is dropped by the sweep.
WindowBound ==
    \A a \in Addresses : Len(admitted[a]) = RequestsPerMinute + 1 =>
        admitted[a][RequestsPerMinute + 1] - admitted[a][1] >= WindowMs

\* A lockout lasts, for LockoutMs from the arrival of the earliest guess that
\* was being verified when it began, unless a guess succeeds: that guess and
\* any other one under way may record its failure later and set the end anew,
\* but nothing that arrives since is evaluated, and the sweep, which finds an
\* address that has long made no counted request, does not cut it short.
LockoutLasts ==
    \A a \in Addresses : lockout[a] > clock => counters[a].lockedUntil >= lockout[a]

\* Both limits of an address hold together, though one record keeps them, a
\* sweep drops it whole, and either kind of refusal still counts the request.
LimitsHold == WindowBound /\ LockoutLasts

\* "the client contract says a 429 carries one, and a client that believed it
\* would otherwise busy-retry" (src/routes.ts:188-190): what comes from an
\* address that has waited as long as its last 429 said, and was quiet, is not
\* answered 429 again, whatever the guesses it had under way have recorded.
RetryAfterIsEnough ==
    \A a \in Addresses :
        /\ told[a].rate # 0 /\ clock >= told[a].rate => ~OverRate(a, TRUE)
        /\ told[a].guess # 0 => ~LockedFor(a, told[a].guess)
=============================================================================
