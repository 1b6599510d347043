--------------------------- MODULE ThrottleProofs ---------------------------
(***************************************************************************)
(* The limits of an address, for any limits, addresses and times.          *)
(***************************************************************************)
EXTENDS Throttle, SequenceTheorems, WellFoundedInduction, TLAPS

\* The j-th newest entry.
Ago(times, j) == times[Len(times) + 1 - j]

Bounded(times, now) ==
    /\ times \in Seq(Time)
    /\ Len(times) <= RequestsPerMinute + 1
    /\ \A i, j \in 1..Len(times) : i <= j => Ago(times, j) <= Ago(times, i)
    /\ \A i \in 1..Len(times) : Ago(times, i) <= now

\* A span of the newest served requests that is one too many is long enough.
Spread(served) ==
    Len(served) = RequestsPerMinute + 1 =>
        Ago(served, 1) - Ago(served, RequestsPerMinute + 1) >= WindowMs

\* The array remembers whatever was served inside the window that ends now:
\* its j-th newest entry is no older than the j-th newest request served.
Covers(times, served, now) ==
    \A j \in 1..Len(served) :
        Ago(served, j) > now - WindowMs =>
            j <= Len(times) /\ Ago(served, j) <= Ago(times, j)

Fits(times, served, now) ==
    Bounded(times, now) /\ Bounded(served, now) /\ Spread(served) /\ Covers(times, served, now)

WindowsFit == \A a \in Addresses : Fits(counters[a].requests, admitted[a], clock)

\* Nobody counted has come after a refusal.
RatesFit ==
    \A a \in Addresses : told[a].rate # 0 =>
        \A i \in 1..Len(counters[a].requests) :
            counters[a].requests[i] <= told[a].rate - WindowMs

ArrivedAlready == \A s \in Slots : guesses[s] # None => guesses[s].at <= clock

\* When the passwords arrived that an address has under verification.
Arrivals(a) == {guesses[s].at : s \in Verifying(a)}

\* A lockout ends when it is to end or later, and when its client was told or
\* earlier; each password under verification may set the end anew, and then
\* that holds of the new one.
LockFits(locked, floor, promise, arrivals, now) ==
    /\ locked <= now + LockoutMs
    /\ floor > now => locked >= floor /\ \A t \in arrivals : t + LockoutMs >= floor
    /\ promise # 0 => locked <= promise /\ \A t \in arrivals : t + LockoutMs <= promise

LocksFit ==
    \A a \in Addresses :
        LockFits(counters[a].lockedUntil, lockout[a], told[a].guess, Arrivals(a), clock)

ThrottleInv == ThrottleTypeOK /\ WindowsFit /\ RatesFit /\ ArrivedAlready /\ LocksFit

-----------------------------------------------------------------------------
(* The array.                                                              *)

LEMMA Limits ==
  /\ RequestsPerMinute \in Nat /\ RequestsPerMinute >= 1
  /\ MaxFailures \in Nat /\ MaxFailures >= 1
  /\ LockoutMs \in Nat /\ LockoutMs >= 1
  /\ WindowMs \in Nat /\ WindowMs >= 1
  /\ IdleMs \in Nat /\ MaxClock \in Nat /\ WindowMs <= IdleMs
BY LimitsAssumption

LEMMA Least ==
  ASSUME NEW T \in SUBSET Nat, T # {}
  PROVE  \E m \in T : \A n \in T : m <= n
<1> DEFINE Less == {p \in Nat \X Nat : p[1] < p[2]}
<1>1. IsWellFoundedOn(Less, Nat)
  BY NatLessThanWellFounded DEF OpToRel
<1>2. PICK m \in T : \A n \in T : <<n, m>> \notin Less
  <2> HIDE DEF Less
  <2> QED BY <1>1, WFMin
<1>3. ASSUME NEW n \in T PROVE m <= n
  <2>1. m \in Nat /\ n \in Nat
    OBVIOUS
  <2>2. ~(n < m)
    BY <1>2, <2>1
  <2> QED BY <2>1, <2>2
<1> QED BY <1>3

LEMMA ExpiredIs ==
  ASSUME NEW times \in Seq(Nat), NEW cutoff \in Int
  PROVE  /\ Expired(times, cutoff) \in 0..Len(times)
         /\ \A i \in 1..Expired(times, cutoff) : times[i] <= cutoff
         /\ Expired(times, cutoff) < Len(times) =>
              times[Expired(times, cutoff) + 1] > cutoff
<1> DEFINE T == {i \in 1..Len(times) : times[i] > cutoff}
           P(k) == /\ \A i \in 1..k : times[i] <= cutoff
                   /\ k < Len(times) => times[k + 1] > cutoff
<1>1. \E k \in 0..Len(times) : P(k)
  <2>1. CASE T = {}
    <3>1. \A i \in 1..Len(times) : times[i] \in Nat /\ times[i] <= cutoff
      BY <2>1
    <3>2. Len(times) \in 0..Len(times) /\ P(Len(times))
      BY <3>1
    <3> QED BY <3>2
  <2>2. CASE T # {}
    <3>1. PICK m \in T : \A n \in T : m <= n
      <4>1. T \in SUBSET Nat
        OBVIOUS
      <4> HIDE DEF T
      <4> QED BY <2>2, <4>1, Least
    <3>2. m \in 1..Len(times) /\ times[m] > cutoff
      BY <3>1
    <3>3. \A i \in 1..(m - 1) : i \in 1..Len(times) /\ times[i] \in Nat /\ times[i] <= cutoff
      BY <3>1, <3>2
    <3>4. m - 1 \in 0..Len(times) /\ P(m - 1)
      BY <3>2, <3>3
    <3> QED BY <3>4
  <2> QED BY <2>1, <2>2
<1>2. Expired(times, cutoff) = CHOOSE k \in 0..Len(times) : P(k)
  BY DEF Expired
<1> HIDE DEF P
<1>3. Expired(times, cutoff) \in 0..Len(times) /\ P(Expired(times, cutoff))
  BY <1>1, <1>2
<1> QED BY <1>3 DEF P

LEMMA AgoType ==
  ASSUME NEW times \in Seq(Time), NEW j \in 1..Len(times)
  PROVE  Ago(times, j) \in Nat
BY DEF Ago, Time

LEMMA NewestIs ==
  ASSUME NEW times \in Seq(Time)
  PROVE  /\ Newest(times) \in Seq(Time)
         /\ Len(Newest(times)) =
              IF Len(times) <= RequestsPerMinute + 1 THEN Len(times) ELSE RequestsPerMinute + 1
         /\ \A j \in 1..Len(Newest(times)) : Ago(Newest(times), j) = Ago(times, j)
<1>1. CASE Len(times) <= RequestsPerMinute + 1
  BY <1>1 DEF Newest
<1>2. CASE Len(times) > RequestsPerMinute + 1
  <2> DEFINE m == Len(times) - RequestsPerMinute
             n == Len(times)
  <2>1. m \in Int /\ n \in Int /\ m >= 2 /\ n - m + 1 = RequestsPerMinute + 1
    BY <1>2, Limits
  <2>2. \A i \in m..n : times[i] \in Time
    BY <2>1 DEF Time
  <2>3. /\ SubSeq(times, m, n) \in Seq(Time)
        /\ Len(SubSeq(times, m, n)) = RequestsPerMinute + 1
        /\ \A i \in 1..(n - m + 1) : SubSeq(times, m, n)[i] = times[m + i - 1]
    <3> HIDE DEF m, n
    <3> QED BY <2>1, <2>2, Limits, SubSeqProperties
  <2>4. Newest(times) = SubSeq(times, m, n)
    BY <1>2, Limits DEF Newest
  <2>5. \A j \in 1..(RequestsPerMinute + 1) :
           SubSeq(times, m, n)[RequestsPerMinute + 2 - j] = times[n + 1 - j]
    BY <2>3, <2>1, Limits
  <2>6. Len(Newest(times)) = RequestsPerMinute + 1 /\ Newest(times) \in Seq(Time)
    BY <2>3, <2>4
  <2>7. ASSUME NEW j \in 1..(RequestsPerMinute + 1) PROVE Ago(Newest(times), j) = Ago(times, j)
    <3>1. (RequestsPerMinute + 1) + 1 - j = RequestsPerMinute + 2 - j
      BY Limits
    <3>2. Newest(times)[RequestsPerMinute + 2 - j] = times[n + 1 - j]
      BY <2>4, <2>5
    <3> QED BY <2>6, <3>1, <3>2 DEF Ago
  <2> QED BY <1>2, <2>6, <2>7, Limits
<1> QED BY <1>1, <1>2, Limits

LEMMA AppendIs ==
  ASSUME NEW times \in Seq(Time), NEW now \in Time
  PROVE  /\ Append(times, now) \in Seq(Time)
         /\ Len(Append(times, now)) = Len(times) + 1
         /\ Ago(Append(times, now), 1) = now
         /\ \A j \in 1..Len(times) : Ago(Append(times, now), j + 1) = Ago(times, j)
BY DEF Ago

\* What is inside the window, from the newest on.
LEMMA InsideIs ==
  ASSUME clock \in Time, NEW times, Bounded(times, clock)
  PROVE  /\ Inside(times) \in Seq(Time)
         /\ Len(Inside(times)) <= Len(times)
         /\ \A j \in 1..Len(Inside(times)) : Ago(Inside(times), j) = Ago(times, j)
         /\ \A j \in 1..Len(times) :
              j <= Len(Inside(times)) <=> Ago(times, j) > clock - WindowMs
<1> DEFINE cutoff == clock - WindowMs
           k == Expired(times, cutoff)
           n == Len(times)
<1>1. times \in Seq(Nat) /\ cutoff \in Int /\ n \in Nat
  BY Limits DEF Bounded, Time
<1>2. /\ k \in 0..n
      /\ \A i \in 1..k : times[i] <= cutoff
      /\ k < n => times[k + 1] > cutoff
  <2> HIDE DEF cutoff
  <2> QED BY <1>1, ExpiredIs
<1>3. \A i \in (k + 1)..n : times[i] \in Time
  BY <1>1, <1>2 DEF Time
<1>4. Inside(times) = SubSeq(times, k + 1, n)
  BY DEF Inside
<1> HIDE DEF k, n
<1>5. /\ Inside(times) \in Seq(Time)
      /\ Len(Inside(times)) = n - k
      /\ \A i \in 1..(n - k) : Inside(times)[i] = times[k + i]
  <2>1. k + 1 \in Int /\ n \in Int
    BY <1>1, <1>2
  <2>2. /\ SubSeq(times, k + 1, n) \in Seq(Time)
        /\ Len(SubSeq(times, k + 1, n)) = IF k + 1 <= n THEN n - (k + 1) + 1 ELSE 0
        /\ \A i \in 1..(n - (k + 1) + 1) : SubSeq(times, k + 1, n)[i] = times[(k + 1) + i - 1]
    BY <2>1, <1>3, SubSeqProperties
  <2>3. k \in Nat /\ k <= n /\ \A i \in Nat : (k + 1) + i - 1 = k + i
    BY <1>1, <1>2
  <2> QED BY <1>1, <1>4, <2>2, <2>3
<1>6. ASSUME NEW j \in 1..(n - k)
      PROVE  Ago(Inside(times), j) = Ago(times, j)
  <2>1. n - k + 1 - j \in 1..(n - k) /\ k + (n - k + 1 - j) = n + 1 - j
    BY <1>1, <1>2
  <2>2. Inside(times)[n - k + 1 - j] = times[k + (n - k + 1 - j)]
    BY <1>5, <2>1
  <2> QED BY <1>5, <2>1, <2>2 DEF Ago, n
<1>7. ASSUME NEW j \in 1..n
      PROVE  j <= n - k <=> Ago(times, j) > cutoff
  <2>1. CASE j <= n - k
    <3>1. k < n /\ n - k \in 1..n /\ j \in 1..n
      BY <1>1, <1>2, <2>1
    <3>2. Ago(times, n - k) <= Ago(times, j)
      BY <3>1, <2>1 DEF Bounded, n
    <3>3. Ago(times, n - k) = times[k + 1]
      BY <1>1, <1>2 DEF Ago, n
    <3>4. times[k + 1] \in Nat /\ Ago(times, j) \in Nat
      BY <1>1, <1>2, <3>1 DEF Ago, n
    <3> QED BY <1>1, <1>2, <2>1, <3>1, <3>2, <3>3, <3>4
  <2>2. CASE j > n - k
    <3>1. n + 1 - j \in 1..k
      BY <1>1, <1>2, <2>2
    <3>2. times[n + 1 - j] \in Nat
      BY <1>1, <1>2, <3>1 DEF n
    <3> QED BY <1>1, <1>2, <2>2, <3>1, <3>2 DEF Ago, n
  <2> QED BY <1>1, <1>2, <2>1, <2>2
<1> QED BY <1>1, <1>2, <1>5, <1>6, <1>7 DEF n

LEMMA RecordedIs ==
  ASSUME clock \in Time, NEW times, Bounded(times, clock)
  PROVE  /\ Bounded(Recorded(times), clock)
         /\ Len(Recorded(times)) >= 1 /\ Ago(Recorded(times), 1) = clock
         /\ \A j \in 1..RequestsPerMinute :
              j <= Len(times) /\ Ago(times, j) > clock - WindowMs =>
                  /\ j + 1 <= Len(Recorded(times))
                  /\ Ago(Recorded(times), j + 1) = Ago(times, j)
         /\ (\A j \in 1..Len(times) : Ago(times, j) <= clock - WindowMs) =>
              Len(Recorded(times)) = 1
<1> DEFINE inside == Inside(times)
           app == Append(inside, clock)
           rec == Recorded(times)
<1>1. /\ inside \in Seq(Time) /\ Len(inside) \in Nat
      /\ Len(inside) <= Len(times)
      /\ \A j \in 1..Len(inside) : Ago(inside, j) = Ago(times, j)
      /\ \A j \in 1..Len(times) : j <= Len(inside) <=> Ago(times, j) > clock - WindowMs
  BY InsideIs
<1>2. /\ times \in Seq(Time) /\ Len(times) \in Nat
      /\ Len(times) <= RequestsPerMinute + 1
      /\ \A i, j \in 1..Len(times) : i <= j => Ago(times, j) <= Ago(times, i)
      /\ \A i \in 1..Len(times) : Ago(times, i) <= clock
  BY DEF Bounded
<1>3. rec = Newest(app)
  BY DEF Recorded
<1> HIDE DEF inside
<1>4. /\ app \in Seq(Time) /\ Len(app) = Len(inside) + 1
      /\ Ago(app, 1) = clock
      /\ \A j \in 1..Len(inside) : Ago(app, j + 1) = Ago(inside, j)
  BY <1>1, AppendIs
<1> HIDE DEF app, rec
<1>5. /\ rec \in Seq(Time)
      /\ Len(rec) = IF Len(app) <= RequestsPerMinute + 1 THEN Len(app) ELSE RequestsPerMinute + 1
      /\ \A j \in 1..Len(rec) : Ago(rec, j) = Ago(app, j)
  BY <1>3, <1>4, NewestIs
<1>6. /\ Len(rec) \in 1..(RequestsPerMinute + 1)
      /\ Len(rec) <= Len(inside) + 1
  BY <1>1, <1>4, <1>5, Limits
<1>7. Ago(rec, 1) = clock
  BY <1>4, <1>5, <1>6, Limits
<1>8. ASSUME NEW j \in 2..Len(rec)
      PROVE  /\ j - 1 \in 1..Len(inside) /\ j - 1 \in 1..Len(times)
             /\ Ago(rec, j) = Ago(times, j - 1)
  <2>1. j - 1 \in 1..Len(inside) /\ j - 1 \in 1..Len(times) /\ j \in 1..Len(rec)
    BY <1>1, <1>2, <1>6, Limits
  <2>2. Ago(app, (j - 1) + 1) = Ago(inside, j - 1)
    BY <1>4, <2>1
  <2> QED BY <1>1, <1>5, <2>1, <2>2
<1>9. Bounded(rec, clock)
  <2>1. ASSUME NEW i \in 1..Len(rec), NEW j \in 1..Len(rec), i <= j
        PROVE  Ago(rec, j) <= Ago(rec, i)
    <3>1. CASE i = 1 /\ j = 1
      BY <1>7, <3>1 DEF Time
    <3>2. CASE i = 1 /\ j # 1
      <4>1. j \in 2..Len(rec)
        BY <1>6, <3>2
      <4> QED BY <1>2, <1>7, <1>8, <3>2, <4>1
    <3>3. CASE i # 1
      <4>1. i \in 2..Len(rec) /\ j \in 2..Len(rec) /\ i - 1 <= j - 1
        BY <1>6, <2>1, <3>3, Limits
      <4> QED BY <1>2, <1>8, <4>1
    <3> QED BY <3>1, <3>2, <3>3
  <2>2. ASSUME NEW i \in 1..Len(rec) PROVE Ago(rec, i) <= clock
    <3>1. CASE i = 1
      BY <1>7, <3>1 DEF Time
    <3>2. CASE i # 1
      <4>1. i \in 2..Len(rec)
        BY <1>6, <3>2
      <4> QED BY <1>2, <1>8, <4>1
    <3> QED BY <3>1, <3>2
  <2> QED BY <1>5, <1>6, <2>1, <2>2, Limits DEF Bounded
<1>10. ASSUME NEW j \in 1..RequestsPerMinute, j <= Len(times), Ago(times, j) > clock - WindowMs
       PROVE  j + 1 <= Len(rec) /\ Ago(rec, j + 1) = Ago(times, j)
  <2>1. j \in 1..Len(times) /\ j <= Len(inside)
    BY <1>1, <1>2, <1>10, Limits
  <2>2. j + 1 \in 2..Len(rec) /\ (j + 1) - 1 = j
    BY <1>1, <1>4, <1>5, <1>6, <2>1, Limits
  <2> QED BY <1>8, <2>2
<1>11. ASSUME \A j \in 1..Len(times) : Ago(times, j) <= clock - WindowMs
       PROVE  Len(rec) = 1
  <2>1. ASSUME Len(inside) >= 1 PROVE FALSE
    <3>1. 1 \in 1..Len(times) /\ 1 <= Len(inside)
      BY <1>1, <1>2, <2>1
    <3>2. Ago(times, 1) > clock - WindowMs /\ Ago(times, 1) <= clock - WindowMs
      BY <1>1, <1>11, <3>1
    <3>3. Ago(times, 1) \in Nat
      BY <1>2, <3>1 DEF Ago, Time
    <3> QED BY <3>2, <3>3, Limits DEF Time
  <2>2. Len(inside) \in Nat /\ ~(Len(inside) >= 1)
    BY <1>1, <2>1
  <2>3. Len(inside) = 0
    BY <2>2
  <2>4. Len(rec) <= 1 /\ Len(rec) \in Nat /\ Len(rec) >= 1
    BY <1>6, <2>3, Limits
  <2>5. \A n \in Nat : n <= 1 /\ n >= 1 => n = 1
    OBVIOUS
  <2> QED BY <2>4, <2>5
<1> QED BY <1>6, <1>7, <1>9, <1>10, <1>11, Limits DEF rec

-----------------------------------------------------------------------------
(* What becomes of array and history.                                      *)

LEMMA RefusedFits ==
  ASSUME clock \in Time, NEW times, NEW served, Fits(times, served, clock)
  PROVE  Fits(Recorded(times), served, clock)
<1> DEFINE rec == Recorded(times)
<1>1. /\ Bounded(times, clock) /\ Bounded(served, clock)
      /\ Spread(served) /\ Covers(times, served, clock)
  BY DEF Fits
<1>2. /\ Bounded(rec, clock)
      /\ Len(rec) >= 1 /\ Ago(rec, 1) = clock
      /\ \A j \in 1..RequestsPerMinute :
           j <= Len(times) /\ Ago(times, j) > clock - WindowMs =>
               j + 1 <= Len(rec) /\ Ago(rec, j + 1) = Ago(times, j)
  BY <1>1, RecordedIs
<1> HIDE DEF rec
<1>3. ASSUME NEW j \in 1..Len(served), Ago(served, j) > clock - WindowMs
      PROVE  j <= Len(rec) /\ Ago(served, j) <= Ago(rec, j)
  <2>1. j <= Len(times) /\ Ago(served, j) <= Ago(times, j)
    BY <1>1, <1>3 DEF Covers
  <2>2. CASE j = 1
    BY <1>1, <1>2, <2>2 DEF Bounded
  <2>3. CASE j # 1
    <3>1. j - 1 \in 1..RequestsPerMinute /\ j - 1 \in 1..Len(times) /\ j \in 1..Len(times)
      BY <1>1, <2>1, <2>3, Limits DEF Bounded
    <3>2. Ago(times, j) <= Ago(times, j - 1)
      BY <1>1, <3>1 DEF Bounded
    <3>3. Ago(served, j) \in Nat /\ Ago(times, j) \in Nat /\ Ago(times, j - 1) \in Nat
      BY <1>1, <3>1, AgoType DEF Bounded
    <3>4. Ago(times, j - 1) > clock - WindowMs /\ Ago(served, j) <= Ago(times, j - 1)
      BY <1>3, <2>1, <3>2, <3>3, Limits DEF Time
    <3> QED BY <1>2, <3>1, <3>4
  <2> QED BY <2>2, <2>3
<1> QED BY <1>1, <1>2, <1>3 DEF Fits, Covers, rec

LEMMA ServedFits ==
  ASSUME clock \in Time, NEW times, NEW served, Fits(times, served, clock),
         Len(Recorded(times)) <= RequestsPerMinute
  PROVE  Fits(Recorded(times), Newest(Append(served, clock)), clock)
<1> DEFINE rec == Recorded(times)
           app == Append(served, clock)
           new == Newest(app)
<1>1. /\ Bounded(times, clock) /\ Bounded(served, clock)
      /\ Spread(served) /\ Covers(times, served, clock)
  BY DEF Fits
<1>2. /\ Bounded(rec, clock)
      /\ Len(rec) >= 1 /\ Ago(rec, 1) = clock
      /\ \A j \in 1..RequestsPerMinute :
           j <= Len(times) /\ Ago(times, j) > clock - WindowMs =>
               j + 1 <= Len(rec) /\ Ago(rec, j + 1) = Ago(times, j)
      /\ Len(rec) <= RequestsPerMinute
  BY <1>1, RecordedIs
<1>3. /\ served \in Seq(Time) /\ Len(served) \in Nat
      /\ Len(served) <= RequestsPerMinute + 1
      /\ \A i, j \in 1..Len(served) : i <= j => Ago(served, j) <= Ago(served, i)
      /\ \A i \in 1..Len(served) : Ago(served, i) <= clock
  BY <1>1 DEF Bounded
<1> HIDE DEF rec
<1>4. /\ app \in Seq(Time) /\ Len(app) = Len(served) + 1
      /\ Ago(app, 1) = clock
      /\ \A j \in 1..Len(served) : Ago(app, j + 1) = Ago(served, j)
  BY <1>3, AppendIs
<1> HIDE DEF app, new
<1>5. /\ new \in Seq(Time)
      /\ Len(new) = IF Len(app) <= RequestsPerMinute + 1 THEN Len(app) ELSE RequestsPerMinute + 1
      /\ \A j \in 1..Len(new) : Ago(new, j) = Ago(app, j)
  BY <1>4, NewestIs DEF new
<1>6. /\ Len(new) \in 1..(RequestsPerMinute + 1)
      /\ Len(new) <= Len(served) + 1
  BY <1>3, <1>4, <1>5, Limits
<1>7. Ago(new, 1) = clock
  BY <1>4, <1>5, <1>6, Limits
<1>8. ASSUME NEW j \in 2..Len(new)
      PROVE  /\ j - 1 \in 1..Len(served) /\ j - 1 \in 1..RequestsPerMinute
             /\ Ago(new, j) = Ago(served, j - 1)
  <2>1. j - 1 \in 1..Len(served) /\ j - 1 \in 1..RequestsPerMinute /\ j \in 1..Len(new)
    BY <1>3, <1>6, Limits
  <2>2. Ago(app, (j - 1) + 1) = Ago(served, j - 1)
    BY <1>4, <2>1
  <2> QED BY <1>5, <2>1, <2>2
<1>9. Bounded(new, clock)
  <2>1. ASSUME NEW i \in 1..Len(new), NEW j \in 1..Len(new), i <= j
        PROVE  Ago(new, j) <= Ago(new, i)
    <3>1. CASE i = 1 /\ j = 1
      BY <1>7, <3>1 DEF Time
    <3>2. CASE i = 1 /\ j # 1
      <4>1. j \in 2..Len(new)
        BY <1>6, <3>2
      <4> QED BY <1>3, <1>7, <1>8, <3>2, <4>1
    <3>3. CASE i # 1
      <4>1. i \in 2..Len(new) /\ j \in 2..Len(new) /\ i - 1 <= j - 1
        BY <1>6, <2>1, <3>3, Limits
      <4> QED BY <1>3, <1>8, <4>1
    <3> QED BY <3>1, <3>2, <3>3
  <2>2. ASSUME NEW i \in 1..Len(new) PROVE Ago(new, i) <= clock
    <3>1. CASE i = 1
      BY <1>7, <3>1 DEF Time
    <3>2. CASE i # 1
      <4>1. i \in 2..Len(new)
        BY <1>6, <3>2
      <4> QED BY <1>3, <1>8, <4>1
    <3> QED BY <3>1, <3>2
  <2> QED BY <1>5, <1>6, <2>1, <2>2, Limits DEF Bounded
\* What was served inside the window is in the array, one place further on.
<1>10. ASSUME NEW j \in 2..Len(new), Ago(new, j) > clock - WindowMs
       PROVE  j <= Len(rec) /\ Ago(new, j) <= Ago(rec, j)
  <2>1. /\ j - 1 \in 1..Len(served) /\ j - 1 \in 1..RequestsPerMinute
        /\ Ago(new, j) = Ago(served, j - 1)
    BY <1>8
  <2>2. j - 1 <= Len(times) /\ Ago(served, j - 1) <= Ago(times, j - 1)
    BY <1>1, <1>10, <2>1 DEF Covers
  <2>3. j - 1 \in 1..Len(times)
    BY <1>1, <2>1, <2>2 DEF Bounded
  <2>4. Ago(served, j - 1) \in Nat /\ Ago(times, j - 1) \in Nat
    BY <1>1, <2>1, <2>3, AgoType DEF Bounded
  <2>5. Ago(times, j - 1) > clock - WindowMs
    BY <1>10, <2>1, <2>2, <2>4, Limits DEF Time
  <2>6. (j - 1) + 1 <= Len(rec) /\ Ago(rec, (j - 1) + 1) = Ago(times, j - 1)
    BY <1>2, <2>1, <2>2, <2>5
  <2> QED BY <2>1, <2>2, <2>6
<1>11. Covers(rec, new, clock)
  <2> SUFFICES ASSUME NEW j \in 1..Len(new), Ago(new, j) > clock - WindowMs
               PROVE  j <= Len(rec) /\ Ago(new, j) <= Ago(rec, j)
    BY DEF Covers
  <2>1. CASE j = 1
    BY <1>2, <1>7, <2>1 DEF Time
  <2>2. CASE j # 1
    <3>1. j \in 2..Len(new)
      BY <1>6, <2>2
    <3> QED BY <1>10, <3>1
  <2> QED BY <2>1, <2>2
<1>12. Spread(new)
  <2> SUFFICES ASSUME Len(new) = RequestsPerMinute + 1
               PROVE  Ago(new, 1) - Ago(new, RequestsPerMinute + 1) >= WindowMs
    BY DEF Spread
  <2>1. RequestsPerMinute + 1 \in 2..Len(new)
    BY Limits
  <2>2. Ago(new, RequestsPerMinute + 1) \in Nat
    BY <1>3, <1>8, <2>1 DEF Ago, Time
  <2>3. ~(Ago(new, RequestsPerMinute + 1) > clock - WindowMs)
    <3>1. ~(RequestsPerMinute + 1 <= Len(rec))
      BY <1>2, Limits DEF Bounded
    <3> QED BY <1>10, <2>1, <3>1
  <2> QED BY <1>7, <2>2, <2>3, Limits DEF Time
<1> QED BY <1>2, <1>9, <1>11, <1>12 DEF Fits, rec, new, app

LEMMA TimePassesFits ==
  ASSUME NEW now \in Time, NEW times, NEW served, Fits(times, served, now)
  PROVE  Fits(times, served, now + 1)
<1>1. /\ Bounded(times, now) /\ Bounded(served, now)
      /\ times \in Seq(Time) /\ served \in Seq(Time)
  BY DEF Fits, Bounded
<1>2. /\ \A i \in 1..Len(times) : Ago(times, i) \in Nat
      /\ \A i \in 1..Len(served) : Ago(served, i) \in Nat
  BY <1>1 DEF Ago, Time
<1>3. Bounded(times, now + 1) /\ Bounded(served, now + 1)
  BY <1>1, <1>2 DEF Bounded, Time
<1>4. Covers(times, served, now + 1)
  BY <1>2, Limits DEF Fits, Covers, Time
<1> QED BY <1>3, <1>4 DEF Fits

LEMMA EmptyIsBounded == ASSUME NEW now PROVE Bounded(<<>>, now)
BY Limits DEF Bounded

LEMMA EmptyFits == ASSUME NEW now PROVE Fits(<<>>, <<>>, now)
BY Limits, EmptyIsBounded DEF Fits, Spread, Covers

\* An array that is old as a whole covers nothing and may be dropped.
LEMMA SweptFits ==
  ASSUME clock \in Time, NEW times, NEW served, Fits(times, served, clock),
         times # <<>> => times[Len(times)] <= clock - WindowMs
  PROVE  Fits(<<>>, served, clock)
<1>1. /\ times \in Seq(Time) /\ served \in Seq(Time)
      /\ \A i, j \in 1..Len(times) : i <= j => Ago(times, j) <= Ago(times, i)
  BY DEF Fits, Bounded
<1>2. ASSUME NEW j \in 1..Len(served), Ago(served, j) > clock - WindowMs
      PROVE  FALSE
  <2>1. j <= Len(times) /\ Ago(served, j) <= Ago(times, j)
    BY <1>2 DEF Fits, Covers
  <2>2. 1 \in 1..Len(times) /\ j \in 1..Len(times) /\ times # <<>>
    BY <1>1, <2>1
  <2>3. Ago(times, j) <= Ago(times, 1)
    BY <1>1, <2>2
  <2>4. Ago(times, 1) = times[Len(times)]
    BY <1>1 DEF Ago
  <2>5. Ago(served, j) \in Nat /\ Ago(times, j) \in Nat /\ Ago(times, 1) \in Nat
    BY <1>1, <2>2, AgoType
  <2> QED BY <1>2, <2>1, <2>2, <2>3, <2>4, <2>5, Limits DEF Time
<1>3. Covers(<<>>, served, clock)
  BY <1>2 DEF Covers
<1> QED BY <1>3, EmptyIsBounded DEF Fits

-----------------------------------------------------------------------------
(* The lockout of an address.                                              *)

LEMMA FewerFit ==
  ASSUME NEW locked \in Time, NEW floor \in Time, NEW promise \in Time, NEW now \in Time,
         NEW arrivals \in SUBSET Time, NEW fewer \in SUBSET arrivals,
         LockFits(locked, floor, promise, arrivals, now)
  PROVE  LockFits(locked, floor, promise, fewer, now)
BY DEF LockFits

\* One more password is verified: it arrived outside of a lockout, and nothing
\* is told any more.
LEMMA OneMoreFits ==
  ASSUME NEW locked \in Time, NEW floor \in Time, NEW promise \in Time, NEW now \in Time,
         NEW arrivals \in SUBSET Time, NEW at \in Time, NEW more \in SUBSET (arrivals \cup {at}),
         LockFits(locked, floor, promise, arrivals, now), at <= now, ~(locked > at)
  PROVE  LockFits(locked, floor, 0, more, now)
<1>1. ~(floor > now)
  BY DEF LockFits, Time
<1>2. locked <= now + LockoutMs
  BY DEF LockFits
<1> QED BY <1>1, <1>2 DEF LockFits

LEMMA EarliestIs ==
  ASSUME NEW times \in SUBSET Time, times # {}
  PROVE  Earliest(times) \in times /\ \A u \in times : Earliest(times) <= u
BY Least DEF Earliest, Time

LEMMA FailureFits ==
  ASSUME NEW locked \in Time, NEW floor \in Time, NEW promise \in Time, NEW now \in Time,
         NEW arrivals \in SUBSET Time, NEW at \in Time, NEW fewer \in SUBSET arrivals,
         NEW kept \in {0, promise},
         LockFits(locked, floor, promise, arrivals, now), at <= now,
         at \in arrivals \/ kept = 0
  PROVE  LockFits(at + LockoutMs, LockoutMs + Earliest({at} \cup arrivals), kept, fewer, now)
<1> DEFINE first == Earliest({at} \cup arrivals)
<1>1. first \in Nat /\ first <= at /\ \A t \in arrivals : first <= t
  BY EarliestIs DEF Time
<1>2. /\ at \in Nat /\ now \in Nat /\ LockoutMs \in Nat
      /\ \A t \in fewer : t \in Nat /\ first <= t
  BY <1>1, Limits DEF Time
<1> HIDE DEF first
<1>3. at + LockoutMs <= now + LockoutMs
  BY <1>2
<1>4. at + LockoutMs >= LockoutMs + first
  BY <1>1, <1>2
<1>5. \A t \in fewer : t + LockoutMs >= LockoutMs + first
  BY <1>1, <1>2
<1>6. kept # 0 => at + LockoutMs <= kept /\ \A t \in fewer : t + LockoutMs <= kept
  BY DEF LockFits
<1> QED BY <1>3, <1>4, <1>5, <1>6 DEF LockFits, first

LEMMA SuccessFits ==
  ASSUME NEW locked \in Time, NEW floor \in Time, NEW promise \in Time, NEW now \in Time,
         NEW arrivals \in SUBSET Time, NEW fewer \in SUBSET arrivals, NEW kept \in {0, promise},
         LockFits(locked, floor, promise, arrivals, now)
  PROVE  LockFits(0, 0, kept, fewer, now)
<1>1. 0 <= now + LockoutMs /\ ~(0 > now) /\ (kept # 0 => 0 <= kept)
  BY Limits DEF Time
<1>2. kept # 0 => \A t \in fewer : t + LockoutMs <= kept
  BY DEF LockFits
<1> QED BY <1>1, <1>2 DEF LockFits

\* Who is turned away waits long enough for whatever is being verified.
LEMMA ToldFits ==
  ASSUME NEW locked \in Time, NEW floor \in Time, NEW promise \in Time, NEW now \in Time,
         NEW arrivals \in SUBSET Time, NEW come \in Time,
         LockFits(locked, floor, promise, arrivals, now),
         come # 0 => locked <= come /\ \A t \in arrivals : t + LockoutMs <= come
  PROVE  LockFits(locked, floor, come, arrivals, now)
BY DEF LockFits

\* What arrived when the passwords under verification did is in the past.
LEMMA ArrivalsAre ==
  ASSUME ThrottleInv, NEW a \in Addresses
  PROVE  Arrivals(a) \in SUBSET Time /\ \A t \in Arrivals(a) : t <= clock
BY DEF ThrottleInv, ThrottleTypeOK, ArrivedAlready, Arrivals, Verifying, Guess

\* A guess that is over, or only arrives, verifies nothing.
LEMMA ArrivalsShrink ==
  ASSUME ThrottleInv, NEW s \in Slots, NEW g,
         guesses' = [guesses EXCEPT ![s] = g], g = None \/ g.stage = "body",
         NEW b \in Addresses
  PROVE  Arrivals(b)' \in SUBSET Arrivals(b)
<1> SUFFICES ASSUME NEW r \in Slots, guesses'[r] # None, guesses'[r].address = b,
                    guesses'[r].stage = "verify"
             PROVE  guesses'[r].at \in Arrivals(b)
  BY DEF Arrivals, Verifying
<1>1. r # s /\ guesses'[r] = guesses[r]
  BY DEF ThrottleInv, ThrottleTypeOK
<1> QED BY <1>1 DEF Arrivals, Verifying

LEMMA ArrivalsStay ==
  ASSUME guesses' = guesses, NEW b \in Addresses
  PROVE  Arrivals(b)' = Arrivals(b)
BY DEF Arrivals, Verifying

-----------------------------------------------------------------------------
(* The steps.                                                              *)

LEMMA Zero == 0 \in Time /\ 0 \in 0..(MaxFailures - 1)
BY Limits DEF Time

LEMMA BlankIs == Blank \in Counters /\ Blank.requests = <<>> /\ Blank.lockedUntil = 0
BY Zero DEF Blank, Counters

LEMMA NothingToldIs == NothingTold \in Told /\ NothingTold.rate = 0 /\ NothingTold.guess = 0
BY Zero DEF NothingTold, Told

LEMMA EmptyLockFits == ASSUME NEW now \in Time PROVE LockFits(0, 0, 0, {}, now)
<1>1. 0 <= now + LockoutMs /\ ~(0 > now)
  BY Limits DEF Time
<1> QED BY <1>1 DEF LockFits

LEMMA InitHolds == ThrottleInit => ThrottleInv
<1> SUFFICES ASSUME ThrottleInit PROVE ThrottleInv
  OBVIOUS
<1>1. clock \in Time /\ \A a \in Addresses : Arrivals(a) = {}
  BY Limits DEF ThrottleInit, Time, Arrivals, Verifying
<1>2. ThrottleTypeOK
  BY <1>1, Zero, BlankIs, NothingToldIs DEF ThrottleInit, ThrottleTypeOK
<1>3. WindowsFit
  BY EmptyFits, BlankIs DEF ThrottleInit, WindowsFit
<1>4. RatesFit /\ ArrivedAlready
  BY NothingToldIs DEF ThrottleInit, RatesFit, ArrivedAlready
<1>5. LocksFit
  BY <1>1, BlankIs, NothingToldIs, EmptyLockFits DEF ThrottleInit, LocksFit
<1> QED BY <1>2, <1>3, <1>4, <1>5 DEF ThrottleInv

\* What the pipeline does to the counters of an address.
LEMMA SeenIs ==
  ASSUME ThrottleInv, NEW a \in Addresses, NEW counted \in BOOLEAN
  PROVE  /\ Seen(a, counted) \in Counters
         /\ Seen(a, counted).failures = counters[a].failures
         /\ Seen(a, counted).lockedUntil = counters[a].lockedUntil
         /\ Seen(a, counted).requests =
              IF counted THEN Recorded(counters[a].requests) ELSE counters[a].requests
<1>1. counters[a] \in Counters /\ clock \in Time /\ Bounded(counters[a].requests, clock)
  BY DEF ThrottleInv, ThrottleTypeOK, WindowsFit, Fits
<1>2. Recorded(counters[a].requests) \in Seq(Time)
  BY <1>1, RecordedIs DEF Bounded
<1> QED BY <1>1, <1>2 DEF Seen, Counters

\* A request changes the counters of its own address only, and the window as
\* the pipeline does, whatever it does to failures and lockout.
Touched(a, counted) ==
    /\ counters' \in [Addresses -> Counters]
    /\ counters'[a].requests = Seen(a, counted).requests
    /\ \A b \in Addresses \ {a} : counters'[b] = counters[b]

LEMMA PassesFits ==
  ASSUME ThrottleInv, NEW a \in Addresses, NEW counted \in BOOLEAN,
         Passes(a, counted), Touched(a, counted)
  PROVE  WindowsFit' /\ admitted' \in [Addresses -> Seq(Time)]
<1>1. /\ clock \in Time /\ clock' = clock
      /\ admitted \in [Addresses -> Seq(Time)]
      /\ \A b \in Addresses : Fits(counters[b].requests, admitted[b], clock)
  BY DEF ThrottleInv, ThrottleTypeOK, WindowsFit, Passes
<1>2. CASE counted
  <2> DEFINE new == Newest(Append(admitted[a], clock))
  <2>1. admitted' = [admitted EXCEPT ![a] = new]
    BY <1>2 DEF Passes
  <2>2. /\ counters'[a].requests = Recorded(counters[a].requests)
        /\ Len(Recorded(counters[a].requests)) <= RequestsPerMinute
    <3>1. counters'[a].requests = Recorded(counters[a].requests)
      BY <1>2, SeenIs DEF Touched
    <3>2. ~(Len(Recorded(counters[a].requests)) > RequestsPerMinute)
      BY <1>2, SeenIs DEF Passes, OverRate
    <3>3. Len(Recorded(counters[a].requests)) \in Nat
      BY <1>1, RecordedIs DEF Fits, Bounded
    <3> QED BY <3>1, <3>2, <3>3, Limits
  <2>3. Fits(counters'[a].requests, new, clock)
    BY <1>1, <2>2, ServedFits
  <2>4. new \in Seq(Time)
    BY <2>3 DEF Fits, Bounded
  <2> HIDE DEF new
  <2>5. ASSUME NEW b \in Addresses PROVE Fits(counters'[b].requests, admitted'[b], clock')
    <3>1. CASE b = a
      BY <1>1, <2>1, <2>3, <3>1
    <3>2. CASE b # a
      BY <1>1, <2>1, <3>2 DEF Touched
    <3> QED BY <3>1, <3>2
  <2> QED BY <1>1, <2>1, <2>4, <2>5 DEF WindowsFit
<1>3. CASE ~counted
  <2>1. admitted' = admitted /\ counters'[a].requests = counters[a].requests
    BY <1>3, SeenIs DEF Passes, Touched
  <2>2. ASSUME NEW b \in Addresses PROVE Fits(counters'[b].requests, admitted'[b], clock')
    <3>1. counters'[b].requests = counters[b].requests
      BY <2>1 DEF Touched
    <3> QED BY <1>1, <2>1, <3>1
  <2> QED BY <1>1, <2>1, <2>2 DEF WindowsFit
<1> QED BY <1>2, <1>3

\* A counted request ends what a full window was told: the array holds a later
\* entry, and the promise is gone.
LEMMA PassedFits ==
  ASSUME ThrottleInv, NEW a \in Addresses, NEW counted \in BOOLEAN,
         Passes(a, counted), Touched(a, counted),
         told'[a].rate = RateTold(a, counted),
         \A b \in Addresses \ {a} : told'[b] = told[b]
  PROVE  WindowsFit' /\ RatesFit' /\ admitted' \in [Addresses -> Seq(Time)]
<1>1. ASSUME NEW b \in Addresses, told'[b].rate # 0
      PROVE  \A i \in 1..Len(counters'[b].requests) :
                 counters'[b].requests[i] <= told'[b].rate - WindowMs
  <2>1. CASE b = a
    <3>1. told'[b].rate = told[b].rate /\ counters'[b].requests = counters[b].requests
      BY <1>1, <2>1, SeenIs DEF RateTold, Touched
    <3> QED BY <1>1, <3>1 DEF ThrottleInv, RatesFit
  <2>2. CASE b # a
    <3>1. told'[b] = told[b] /\ counters'[b] = counters[b]
      BY <2>2 DEF Touched
    <3> QED BY <1>1, <3>1 DEF ThrottleInv, RatesFit
  <2> QED BY <2>1, <2>2
<1> QED BY <1>1, PassesFits DEF RatesFit

\* A step of a guess under way leaves the windows alone.
LEMMA ContinuedFits ==
  ASSUME ThrottleInv, clock' = clock, admitted' = admitted,
         \A b \in Addresses : /\ counters'[b].requests = counters[b].requests
                              /\ told'[b].rate = told[b].rate
  PROVE  WindowsFit' /\ RatesFit'
BY DEF ThrottleInv, WindowsFit, RatesFit

LEMMA AddressIs ==
  ASSUME ThrottleInv, NEW a \in Addresses
  PROVE  /\ clock \in Time
         /\ counters[a] \in Counters /\ counters[a].lockedUntil \in Time
         /\ lockout[a] \in Time
         /\ told[a] \in Told /\ told[a].guess \in Time /\ told[a].rate \in Time
         /\ LockFits(counters[a].lockedUntil, lockout[a], told[a].guess, Arrivals(a), clock)
BY DEF ThrottleInv, ThrottleTypeOK, Counters, Told, LocksFit

\* It is enough to look at the one address a step is about.
LEMMA OneAddressFits ==
  ASSUME ThrottleInv, NEW a \in Addresses, clock' = clock,
         \A b \in Addresses \ {a} :
             /\ counters'[b] = counters[b] /\ lockout'[b] = lockout[b] /\ told'[b] = told[b]
             /\ Arrivals(b)' \in SUBSET Arrivals(b),
         LockFits(counters'[a].lockedUntil, lockout'[a], told'[a].guess, Arrivals(a)', clock)
  PROVE  LocksFit'
<1> SUFFICES ASSUME NEW b \in Addresses
             PROVE  LockFits(counters'[b].lockedUntil, lockout'[b], told'[b].guess,
                             Arrivals(b)', clock')
  BY DEF LocksFit
<1>1. CASE b # a
  BY <1>1, AddressIs, ArrivalsAre, FewerFit
<1> QED BY <1>1

LEMMA GuessIs ==
  ASSUME ThrottleInv, NEW s \in Slots, guesses[s] # None
  PROVE  /\ guesses[s] \in Guess
         /\ guesses[s].address \in Addresses
         /\ guesses[s].at \in Time /\ guesses[s].at <= clock
BY DEF ThrottleInv, ThrottleTypeOK, ArrivedAlready, Guess

\* A failure that is recorded changes the counters of its own address only.
LEMMA FailureIs ==
  ASSUME ThrottleInv, NEW a \in Addresses, NEW seen \in Counters,
         seen.lockedUntil = counters[a].lockedUntil,
         NEW at \in Time, at <= clock,
         NEW kept \in {0, told[a].guess}, at \in Arrivals(a) \/ kept = 0,
         NEW fewer \in SUBSET Arrivals(a),
         recordFailure(a, seen, at)
  PROVE  /\ counters' \in [Addresses -> Counters] /\ counters'[a].requests = seen.requests
         /\ lockout' \in [Addresses -> Time]
         /\ \A b \in Addresses \ {a} : counters'[b] = counters[b] /\ lockout'[b] = lockout[b]
         /\ LockFits(counters'[a].lockedUntil, lockout'[a], kept, fewer, clock)
<1> DEFINE first == Earliest({at} \cup Arrivals(a))
           locked == [seen EXCEPT !.failures = 0, !.lockedUntil = at + LockoutMs]
           failed == [seen EXCEPT !.failures = @ + 1]
<1>1. /\ counters' = [counters EXCEPT ![a] = IF LastFailure(seen) THEN locked ELSE failed]
      /\ lockout' = IF LastFailure(seen)
                    THEN [lockout EXCEPT ![a] = LockoutMs + first] ELSE lockout
  BY DEF recordFailure, Arrivals
<1>2. /\ counters \in [Addresses -> Counters] /\ lockout \in [Addresses -> Time]
  BY DEF ThrottleInv, ThrottleTypeOK
<1>3. CASE LastFailure(seen)
  <2>1. at + LockoutMs \in Time /\ LockoutMs + first \in Time
    <3>1. {at} \cup Arrivals(a) \in SUBSET Time
      BY ArrivalsAre
    <3>2. first \in Time
      BY <3>1, EarliestIs
    <3> QED BY <3>2, Limits DEF Time
  <2> HIDE DEF first
  <2>2. locked \in Counters /\ locked.requests = seen.requests /\ locked.lockedUntil = at + LockoutMs
    BY <2>1, Zero DEF Counters
  <2> HIDE DEF locked
  <2>3. LockFits(at + LockoutMs, LockoutMs + first, kept, fewer, clock)
    BY AddressIs, ArrivalsAre, FailureFits DEF first
  <2>4. counters' = [counters EXCEPT ![a] = locked] /\ lockout' = [lockout EXCEPT ![a] = LockoutMs + first]
    BY <1>1, <1>3
  <2> QED BY <1>2, <2>1, <2>2, <2>3, <2>4
<1>4. CASE ~LastFailure(seen)
  <2>1. failed \in Counters /\ failed.requests = seen.requests
        /\ failed.lockedUntil = counters[a].lockedUntil
    <3>1. seen.failures \in 0..(MaxFailures - 1) /\ ~(seen.failures + 1 >= MaxFailures)
      BY <1>4 DEF LastFailure, Counters
    <3>2. seen.failures + 1 \in 0..(MaxFailures - 1)
      BY <3>1, Limits
    <3> QED BY <3>2 DEF Counters
  <2> HIDE DEF failed
  <2>2. LockFits(counters[a].lockedUntil, lockout[a], told[a].guess, fewer, clock)
    BY AddressIs, ArrivalsAre, FewerFit
  <2>3. LockFits(counters[a].lockedUntil, lockout[a], kept, fewer, clock)
    BY <2>2 DEF LockFits
  <2>4. counters' = [counters EXCEPT ![a] = failed] /\ lockout' = lockout
    BY <1>1, <1>4
  <2> QED BY <1>2, <2>1, <2>3, <2>4
<1> QED BY <1>3, <1>4

LEMMA SuccessIs ==
  ASSUME ThrottleInv, NEW a \in Addresses, NEW seen \in Counters,
         NEW kept \in {0, told[a].guess}, NEW fewer \in SUBSET Arrivals(a),
         recordSuccess(a, seen)
  PROVE  /\ counters' \in [Addresses -> Counters] /\ counters'[a].requests = seen.requests
         /\ lockout' \in [Addresses -> Time]
         /\ \A b \in Addresses \ {a} : counters'[b] = counters[b] /\ lockout'[b] = lockout[b]
         /\ LockFits(counters'[a].lockedUntil, lockout'[a], kept, fewer, clock)
<1> DEFINE x == [seen EXCEPT !.failures = 0, !.lockedUntil = 0]
<1>1. counters' = [counters EXCEPT ![a] = x] /\ lockout' = [lockout EXCEPT ![a] = 0]
  BY DEF recordSuccess
<1>2. x \in Counters /\ x.requests = seen.requests /\ x.lockedUntil = 0
  BY Zero DEF Counters
<1> HIDE DEF x
<1>3. /\ counters \in [Addresses -> Counters] /\ lockout \in [Addresses -> Time]
  BY DEF ThrottleInv, ThrottleTypeOK
<1>4. LockFits(0, 0, kept, fewer, clock)
  BY AddressIs, ArrivalsAre, SuccessFits
<1> QED BY <1>1, <1>2, <1>3, <1>4, Zero

LEMMA RefuseKeeps ==
  ASSUME ThrottleInv, NEW a \in Addresses, NEW counted \in BOOLEAN, Refuse(a, counted)
  PROVE  ThrottleInv'
<1>1. /\ clock \in Time /\ clock' = clock /\ admitted' = admitted /\ lockout' = lockout
      /\ guesses' = guesses
      /\ ThrottleTypeOK /\ WindowsFit /\ RatesFit /\ ArrivedAlready
      /\ counters' = [counters EXCEPT ![a] = Seen(a, counted)]
      /\ told' = [told EXCEPT ![a].rate = clock + WindowMs]
      /\ counted
  BY DEF ThrottleInv, ThrottleTypeOK, Refuse, OverRate
<1> DEFINE rec == Recorded(counters[a].requests)
<1>2. /\ Seen(a, counted) \in Counters
      /\ Seen(a, counted).lockedUntil = counters[a].lockedUntil
      /\ Seen(a, counted).requests = rec
  BY <1>1, SeenIs
<1>3. Fits(rec, admitted[a], clock)
  BY <1>1, RefusedFits DEF WindowsFit
<1> HIDE DEF rec
<1>4. clock + WindowMs \in Time /\ clock \in Nat /\ WindowMs \in Nat
  BY <1>1, Limits DEF Time
<1>5. /\ counters' \in [Addresses -> Counters] /\ counters'[a] = Seen(a, counted)
      /\ \A b \in Addresses \ {a} : counters'[b] = counters[b]
  BY <1>1, <1>2 DEF ThrottleTypeOK
<1>6. /\ told' \in [Addresses -> Told]
      /\ told'[a].rate = clock + WindowMs /\ told'[a].guess = told[a].guess
      /\ \A b \in Addresses \ {a} : told'[b] = told[b]
  BY <1>1, <1>4 DEF ThrottleTypeOK, Told
<1>7. ThrottleTypeOK'
  BY <1>1, <1>5, <1>6 DEF ThrottleTypeOK
<1>8. WindowsFit'
  BY <1>1, <1>2, <1>3, <1>5 DEF WindowsFit
<1>9. RatesFit'
  <2>1. \A i \in 1..Len(rec) : rec[i] <= clock
    <3> SUFFICES ASSUME NEW i \in 1..Len(rec) PROVE rec[i] <= clock
      OBVIOUS
    <3>1. rec \in Seq(Time) /\ \A j \in 1..Len(rec) : Ago(rec, j) <= clock
      BY <1>3 DEF Fits, Bounded
    <3>2. Len(rec) + 1 - i \in 1..Len(rec) /\ Len(rec) + 1 - (Len(rec) + 1 - i) = i
      BY <3>1
    <3> QED BY <3>1, <3>2 DEF Ago
  <2>2. (clock + WindowMs) - WindowMs = clock
    BY <1>4
  <2>3. ASSUME NEW b \in Addresses, told'[b].rate # 0
        PROVE  \A i \in 1..Len(counters'[b].requests) :
                   counters'[b].requests[i] <= told'[b].rate - WindowMs
    <3>1. CASE b = a
      <4>1. counters'[b].requests = rec /\ told'[b].rate - WindowMs = clock
        BY <1>2, <1>5, <1>6, <2>2, <3>1
      <4> QED BY <2>1, <4>1
    <3>2. CASE b # a
      BY <1>1, <1>5, <1>6, <2>3, <3>2 DEF RatesFit
    <3> QED BY <3>1, <3>2
  <2> QED BY <2>3 DEF RatesFit
<1>10. ArrivedAlready'
  BY <1>1 DEF ArrivedAlready
<1>11. LocksFit'
  <2>1. LockFits(counters'[a].lockedUntil, lockout'[a], told'[a].guess, Arrivals(a)', clock)
    BY <1>1, <1>2, <1>5, <1>6, AddressIs, ArrivalsStay
  <2> QED BY <1>1, <1>5, <1>6, <2>1, ArrivalsStay, OneAddressFits
<1> QED BY <1>7, <1>8, <1>9, <1>10, <1>11 DEF ThrottleInv

\* A request that passes, guess or not, as long as the guesses under way verify
\* no more passwords than before.
LEMMA AdmitKeeps ==
  ASSUME ThrottleInv, NEW a \in Addresses, NEW counted \in BOOLEAN, Admit(a, counted),
         guesses' \in [Slots -> Guess \cup {None}], ArrivedAlready',
         \A b \in Addresses : Arrivals(b)' \in SUBSET Arrivals(b)
  PROVE  ThrottleInv'
<1>1. /\ clock' = clock /\ lockout' = lockout /\ ThrottleTypeOK
      /\ counters' = [counters EXCEPT ![a] = Seen(a, counted)]
      /\ told' = [told EXCEPT ![a].rate = RateTold(a, counted)]
      /\ Passes(a, counted)
  BY DEF ThrottleInv, Admit, Passes
<1>2. /\ Seen(a, counted) \in Counters
      /\ Seen(a, counted).lockedUntil = counters[a].lockedUntil
  BY SeenIs
<1>3. /\ counters' \in [Addresses -> Counters] /\ counters'[a] = Seen(a, counted)
      /\ \A b \in Addresses \ {a} : counters'[b] = counters[b]
  BY <1>1, <1>2 DEF ThrottleTypeOK
<1>4. RateTold(a, counted) \in Time
  BY AddressIs, Zero DEF RateTold
<1>5. /\ told' \in [Addresses -> Told]
      /\ told'[a].rate = RateTold(a, counted) /\ told'[a].guess = told[a].guess
      /\ \A b \in Addresses \ {a} : told'[b] = told[b]
  BY <1>1, <1>4 DEF ThrottleTypeOK, Told
<1>6. Touched(a, counted)
  BY <1>3 DEF Touched
<1>7. WindowsFit' /\ RatesFit' /\ admitted' \in [Addresses -> Seq(Time)]
  BY <1>1, <1>5, <1>6, PassedFits
<1>8. ThrottleTypeOK'
  BY <1>1, <1>3, <1>5, <1>7 DEF ThrottleTypeOK
<1>9. LocksFit'
  <2>1. LockFits(counters'[a].lockedUntil, lockout'[a], told'[a].guess, Arrivals(a)', clock)
    BY <1>1, <1>2, <1>3, <1>5, AddressIs, ArrivalsAre, FewerFit
  <2> QED BY <1>1, <1>3, <1>5, <2>1, OneAddressFits
<1> QED BY <1>7, <1>8, <1>9 DEF ThrottleInv

LEMMA ServeKeeps ==
  ASSUME ThrottleInv, NEW a \in Addresses, NEW counted \in BOOLEAN, Serve(a, counted)
  PROVE  ThrottleInv'
<1>1. Admit(a, counted) /\ guesses' = guesses /\ clock' = clock
  BY DEF Serve, Admit, Passes
<1>2. guesses' \in [Slots -> Guess \cup {None}] /\ ArrivedAlready'
  BY <1>1 DEF ThrottleInv, ThrottleTypeOK, ArrivedAlready
<1> QED BY <1>1, <1>2, ArrivalsStay, AdmitKeeps

LEMMA ArrivesKeeps ==
  ASSUME ThrottleInv, NEW s \in Slots, NEW a \in Addresses, NEW counted \in BOOLEAN,
         Arrives(s, a, counted)
  PROVE  ThrottleInv'
<1> DEFINE g == [address |-> a, at |-> clock, stage |-> "body"]
<1>1. Admit(a, counted) /\ guesses' = [guesses EXCEPT ![s] = g] /\ clock' = clock
  BY DEF Arrives, Admit, Passes
<1>2. g \in Guess /\ g.stage = "body" /\ g.at <= clock
  BY AddressIs DEF Guess, Time
<1> HIDE DEF g
<1>3. guesses' \in [Slots -> Guess \cup {None}] /\ ArrivedAlready'
  BY <1>1, <1>2 DEF ThrottleInv, ThrottleTypeOK, ArrivedAlready
<1>4. \A b \in Addresses : Arrivals(b)' \in SUBSET Arrivals(b)
  BY <1>1, <1>2, ArrivalsShrink
<1> QED BY <1>1, <1>3, <1>4, AdmitKeeps

\* When a client that is turned away is to come back.
LEMMA ComeBackIs ==
  ASSUME ThrottleInv, NEW a \in Addresses, NEW kind \in {"password", "code"},
         NEW at \in Time, at <= clock, LockedFor(a, at)
  PROVE  /\ ComeBack(a, kind, at) \in Time
         /\ ComeBack(a, kind, at) # 0 =>
              /\ counters[a].lockedUntil <= ComeBack(a, kind, at)
              /\ \A t \in Arrivals(a) : t + LockoutMs <= ComeBack(a, kind, at)
<1>1. /\ clock \in Nat /\ at \in Nat /\ LockoutMs \in Nat /\ counters[a].lockedUntil \in Nat
      /\ counters[a].lockedUntil <= clock + LockoutMs
      /\ counters[a].lockedUntil > at
  BY AddressIs, Limits DEF Time, LockFits, LockedFor
<1>2. \A t \in Arrivals(a) : t \in Nat /\ t <= clock
  BY ArrivalsAre DEF Time
<1>3. CASE kind = "password"
  <2>1. ComeBack(a, kind, at) = clock + LockoutMs
    BY <1>3 DEF ComeBack
  <2> QED BY <1>1, <1>2, <2>1 DEF Time
<1>4. CASE kind = "code" /\ Verifying(a) = {}
  <2>1. ComeBack(a, kind, at) = clock + (counters[a].lockedUntil - at) /\ Arrivals(a) = {}
    BY <1>4 DEF ComeBack, Arrivals
  <2> QED BY <1>1, <2>1 DEF Time
<1>5. CASE kind = "code" /\ Verifying(a) # {}
  <2>1. ComeBack(a, kind, at) = 0
    BY <1>5 DEF ComeBack
  <2> QED BY <2>1, Zero
<1> QED BY <1>3, <1>4, <1>5

LEMMA LockedOutKeeps ==
  ASSUME ThrottleInv, NEW a \in Addresses, NEW counted \in BOOLEAN,
         NEW kind \in {"password", "code"}, GuessLockedOut(a, counted, kind)
  PROVE  ThrottleInv'
<1> DEFINE come == ComeBack(a, kind, clock)
<1>1. /\ clock' = clock /\ lockout' = lockout /\ guesses' = guesses /\ ThrottleTypeOK
      /\ ArrivedAlready
      /\ counters' = [counters EXCEPT ![a] = Seen(a, counted)]
      /\ told' = [told EXCEPT ![a] = [rate |-> RateTold(a, counted), guess |-> come]]
      /\ Passes(a, counted) /\ LockedFor(a, clock)
  BY DEF ThrottleInv, GuessLockedOut, Passes
<1>2. /\ come \in Time
      /\ come # 0 => /\ counters[a].lockedUntil <= come
                     /\ \A t \in Arrivals(a) : t + LockoutMs <= come
  <2>1. clock \in Time /\ clock <= clock
    BY AddressIs DEF Time
  <2> QED BY <1>1, <2>1, ComeBackIs
<1> HIDE DEF come
<1>3. /\ Seen(a, counted) \in Counters
      /\ Seen(a, counted).lockedUntil = counters[a].lockedUntil
  BY SeenIs
<1>4. /\ counters' \in [Addresses -> Counters] /\ counters'[a] = Seen(a, counted)
      /\ \A b \in Addresses \ {a} : counters'[b] = counters[b]
  BY <1>1, <1>3 DEF ThrottleTypeOK
<1>5. RateTold(a, counted) \in Time
  BY AddressIs, Zero DEF RateTold
<1>6. /\ told' \in [Addresses -> Told]
      /\ told'[a].rate = RateTold(a, counted) /\ told'[a].guess = come
      /\ \A b \in Addresses \ {a} : told'[b] = told[b]
  BY <1>1, <1>2, <1>5 DEF ThrottleTypeOK, Told
<1>7. WindowsFit' /\ RatesFit' /\ admitted' \in [Addresses -> Seq(Time)]
  <2>1. Touched(a, counted)
    BY <1>4 DEF Touched
  <2> QED BY <1>1, <1>6, <2>1, PassedFits
<1>8. ThrottleTypeOK'
  BY <1>1, <1>4, <1>6, <1>7 DEF ThrottleTypeOK
<1>9. LocksFit'
  <2>1. LockFits(counters[a].lockedUntil, lockout[a], come, Arrivals(a), clock)
    BY <1>2, AddressIs, ArrivalsAre, ToldFits
  <2>2. LockFits(counters'[a].lockedUntil, lockout'[a], told'[a].guess, Arrivals(a)', clock)
    BY <1>1, <1>3, <1>4, <1>6, <2>1, ArrivalsStay
  <2> QED BY <1>1, <1>4, <1>6, <2>2, ArrivalsStay, OneAddressFits
<1>10. ArrivedAlready'
  BY <1>1 DEF ArrivedAlready
<1> QED BY <1>7, <1>8, <1>9, <1>10 DEF ThrottleInv

\* A guess alone that is evaluated, wrong or right.
LEMMA EvaluatedKeeps ==
  ASSUME ThrottleInv, NEW a \in Addresses, NEW counted \in BOOLEAN,
         GuessWrong(a, counted) \/ GuessRight(a, counted)
  PROVE  ThrottleInv'
<1> DEFINE seen == Seen(a, counted)
<1>1. /\ clock' = clock /\ guesses' = guesses /\ ThrottleTypeOK /\ ArrivedAlready
      /\ told' = [told EXCEPT ![a] = [rate |-> RateTold(a, counted), guess |-> 0]]
      /\ Passes(a, counted)
      /\ recordFailure(a, seen, clock) \/ recordSuccess(a, seen)
  BY DEF ThrottleInv, GuessWrong, GuessRight, GuessEvaluated, Passes
<1>2. seen \in Counters /\ seen.lockedUntil = counters[a].lockedUntil
  BY SeenIs
<1>3. /\ counters' \in [Addresses -> Counters] /\ counters'[a].requests = seen.requests
      /\ lockout' \in [Addresses -> Time]
      /\ \A b \in Addresses \ {a} : counters'[b] = counters[b] /\ lockout'[b] = lockout[b]
      /\ LockFits(counters'[a].lockedUntil, lockout'[a], 0, Arrivals(a), clock)
  <2> HIDE DEF seen
  <2>1. clock \in Time /\ clock <= clock
    BY AddressIs DEF Time
  <2> QED BY <1>1, <1>2, <2>1, FailureIs, SuccessIs
<1>4. RateTold(a, counted) \in Time
  BY AddressIs, Zero DEF RateTold
<1>5. /\ told' \in [Addresses -> Told]
      /\ told'[a].rate = RateTold(a, counted) /\ told'[a].guess = 0
      /\ \A b \in Addresses \ {a} : told'[b] = told[b]
  BY <1>1, <1>4, Zero DEF ThrottleTypeOK, Told
<1>6. WindowsFit' /\ RatesFit' /\ admitted' \in [Addresses -> Seq(Time)]
  <2>1. Touched(a, counted)
    BY <1>3 DEF Touched
  <2> QED BY <1>1, <1>5, <2>1, PassedFits
<1>7. ThrottleTypeOK'
  BY <1>1, <1>3, <1>5, <1>6 DEF ThrottleTypeOK
<1>8. LocksFit'
  <2>1. LockFits(counters'[a].lockedUntil, lockout'[a], told'[a].guess, Arrivals(a)', clock)
    BY <1>1, <1>3, <1>5, ArrivalsStay
  <2> QED BY <1>1, <1>3, <1>5, <2>1, ArrivalsStay, OneAddressFits
<1>9. ArrivedAlready'
  BY <1>1 DEF ArrivedAlready
<1> QED BY <1>6, <1>7, <1>8, <1>9 DEF ThrottleInv

\* A guess under way that is over.
LEMMA OverIs ==
  ASSUME ThrottleInv, NEW s \in Slots, Over(s)
  PROVE  /\ clock' = clock /\ admitted' = admitted
         /\ guesses' \in [Slots -> Guess \cup {None}] /\ ArrivedAlready'
         /\ \A b \in Addresses : Arrivals(b)' \in SUBSET Arrivals(b)
<1>1. clock' = clock /\ admitted' = admitted /\ guesses' = [guesses EXCEPT ![s] = None]
  BY DEF Over
<1>2. guesses' \in [Slots -> Guess \cup {None}] /\ ArrivedAlready'
  BY <1>1 DEF ThrottleInv, ThrottleTypeOK, ArrivedAlready
<1> QED BY <1>1, <1>2, ArrivalsShrink

LEMMA DroppedKeeps ==
  ASSUME ThrottleInv, NEW s \in Slots, Dropped(s) PROVE ThrottleInv'
<1>1. Over(s) /\ counters' = counters /\ lockout' = lockout /\ told' = told
      /\ guesses[s] # None
  BY DEF Dropped, Awaits
<1>2. PICK a \in Addresses : a = guesses[s].address
  BY <1>1, GuessIs
<1>3. WindowsFit' /\ RatesFit'
  BY <1>1, OverIs, ContinuedFits
<1>4. LocksFit'
  <2>1. LockFits(counters[a].lockedUntil, lockout[a], told[a].guess, Arrivals(a)', clock)
    BY <1>1, <1>2, OverIs, AddressIs, ArrivalsAre, FewerFit
  <2> QED BY <1>1, <1>2, <2>1, OverIs, OneAddressFits
<1>5. ThrottleTypeOK'
  BY <1>1, OverIs DEF ThrottleInv, ThrottleTypeOK
<1> QED BY <1>1, <1>3, <1>4, <1>5, OverIs DEF ThrottleInv

LEMMA TurnedAwayKeeps ==
  ASSUME ThrottleInv, NEW s \in Slots, NEW kind \in {"password", "code"}, TurnedAway(s, kind)
  PROVE  ThrottleInv'
<1>1. guesses[s] # None
  BY DEF TurnedAway, Awaits
<1>2. PICK a \in Addresses : a = guesses[s].address
  BY <1>1, GuessIs
<1>3. PICK at \in Time : at = guesses[s].at /\ at <= clock
  BY <1>1, GuessIs
<1> DEFINE come == ComeBack(a, kind, at)
<1>4. /\ LockedFor(a, at)
      /\ Over(s) /\ counters' = counters /\ lockout' = lockout
      /\ told' = [told EXCEPT ![a].guess = come]
  BY <1>2, <1>3 DEF TurnedAway
<1>5. /\ come \in Time
      /\ come # 0 => /\ counters[a].lockedUntil <= come
                     /\ \A t \in Arrivals(a) : t + LockoutMs <= come
  BY <1>4, <1>3, ComeBackIs
<1> HIDE DEF come
<1>6. /\ told' \in [Addresses -> Told]
      /\ told'[a].guess = come /\ \A b \in Addresses : told'[b].rate = told[b].rate
      /\ \A b \in Addresses \ {a} : told'[b] = told[b]
  BY <1>4, <1>5 DEF ThrottleInv, ThrottleTypeOK, Told
<1>7. WindowsFit' /\ RatesFit'
  BY <1>4, <1>6, OverIs, ContinuedFits
<1>8. LocksFit'
  <2>1. LockFits(counters[a].lockedUntil, lockout[a], come, Arrivals(a), clock)
    BY <1>5, AddressIs, ArrivalsAre, ToldFits
  <2>2. LockFits(counters[a].lockedUntil, lockout[a], come, Arrivals(a)', clock)
    BY <1>4, <1>5, <2>1, OverIs, AddressIs, ArrivalsAre, FewerFit
  <2> QED BY <1>4, <1>6, <2>2, OverIs, OneAddressFits
<1>9. ThrottleTypeOK'
  BY <1>4, <1>6, OverIs DEF ThrottleInv, ThrottleTypeOK
<1> QED BY <1>4, <1>7, <1>8, <1>9, OverIs DEF ThrottleInv

\* A code or a password that is found wrong or right.
LEMMA TriedKeeps ==
  ASSUME ThrottleInv, NEW s \in Slots, CodeTried(s) \/ PasswordTried(s)
  PROVE  ThrottleInv'
<1>1. guesses[s] # None /\ Over(s)
  BY DEF CodeTried, PasswordTried, Evaluated, Awaits
<1>2. PICK a \in Addresses : a = guesses[s].address
  BY <1>1, GuessIs
<1>3. PICK at \in Time : at = guesses[s].at /\ at <= clock
  BY <1>1, GuessIs
<1>4. recordFailure(a, counters[a], at) \/ recordSuccess(a, counters[a])
  BY <1>2, <1>3 DEF CodeTried, PasswordTried
<1>5. /\ told' \in [Addresses -> Told]
      /\ \A b \in Addresses : told'[b].rate = told[b].rate
      /\ \A b \in Addresses \ {a} : told'[b] = told[b]
      /\ told'[a].guess \in {0, told[a].guess}
      /\ at \in Arrivals(a) \/ told'[a].guess = 0
  <2>1. CASE CodeTried(s)
    <3>1. told' = [told EXCEPT ![a].guess = 0]
      BY <1>2, <2>1 DEF CodeTried, Evaluated
    <3> QED BY <3>1, Zero DEF ThrottleInv, ThrottleTypeOK, Told
  <2>2. CASE PasswordTried(s)
    <3>1. told' = told /\ guesses[s].stage = "verify"
      BY <2>2 DEF PasswordTried, Awaits
    <3>2. at \in Arrivals(a)
      BY <1>1, <1>2, <1>3, <3>1 DEF Arrivals, Verifying
    <3> QED BY <3>1, <3>2 DEF ThrottleInv, ThrottleTypeOK
  <2> QED BY <2>1, <2>2
<1>6. Arrivals(a)' \in SUBSET Arrivals(a) /\ counters[a] \in Counters
  BY <1>1, OverIs, AddressIs
<1>7. /\ counters' \in [Addresses -> Counters] /\ counters'[a].requests = counters[a].requests
      /\ lockout' \in [Addresses -> Time]
      /\ \A b \in Addresses \ {a} : counters'[b] = counters[b] /\ lockout'[b] = lockout[b]
      /\ LockFits(counters'[a].lockedUntil, lockout'[a], told'[a].guess, Arrivals(a)', clock)
  BY <1>3, <1>4, <1>5, <1>6, FailureIs, SuccessIs
<1>8. WindowsFit' /\ RatesFit'
  <2>1. \A b \in Addresses : counters'[b].requests = counters[b].requests
    BY <1>7
  <2> QED BY <1>1, <1>5, <2>1, OverIs, ContinuedFits
<1>9. LocksFit'
  BY <1>1, <1>5, <1>7, OverIs, OneAddressFits
<1>10. ThrottleTypeOK'
  BY <1>1, <1>5, <1>7, OverIs DEF ThrottleInv, ThrottleTypeOK
<1> QED BY <1>1, <1>8, <1>9, <1>10, OverIs DEF ThrottleInv

LEMMA VerifiesKeeps ==
  ASSUME ThrottleInv, NEW s \in Slots, Verifies(s) PROVE ThrottleInv'
<1>1. guesses[s] # None
  BY DEF Verifies, Evaluated, Awaits
<1>2. PICK a \in Addresses : a = guesses[s].address
  BY <1>1, GuessIs
<1>3. PICK at \in Time : at = guesses[s].at /\ at <= clock
  BY <1>1, GuessIs
<1>4. /\ ~LockedFor(a, at)
      /\ told' = [told EXCEPT ![a].guess = 0]
      /\ guesses' = [guesses EXCEPT ![s].stage = "verify"]
      /\ clock' = clock /\ counters' = counters /\ admitted' = admitted /\ lockout' = lockout
  BY <1>2, <1>3 DEF Verifies, Evaluated
<1>5. /\ guesses' \in [Slots -> Guess \cup {None}]
      /\ guesses'[s].address = a /\ guesses'[s].at = at
      /\ \A r \in Slots \ {s} : guesses'[r] = guesses[r]
  <2>1. guesses[s] \in Guess
    BY <1>1, GuessIs
  <2> QED BY <1>2, <1>3, <1>4, <2>1 DEF ThrottleInv, ThrottleTypeOK, Guess
<1>6. ArrivedAlready'
  <2> SUFFICES ASSUME NEW r \in Slots, guesses'[r] # None PROVE guesses'[r].at <= clock
    BY <1>4 DEF ArrivedAlready
  <2> QED BY <1>3, <1>5 DEF ThrottleInv, ArrivedAlready
<1>7. ASSUME NEW b \in Addresses
      PROVE  \A t \in Arrivals(b)' : t \in Arrivals(b) \/ (b = a /\ t = at)
  <2> SUFFICES ASSUME NEW r \in Slots, guesses'[r] # None, guesses'[r].address = b,
                      guesses'[r].stage = "verify"
               PROVE  guesses'[r].at \in Arrivals(b) \/ (b = a /\ guesses'[r].at = at)
    BY DEF Arrivals, Verifying
  <2>1. CASE r = s
    BY <1>5, <2>1
  <2>2. CASE r # s
    BY <1>5, <2>2 DEF Arrivals, Verifying
  <2> QED BY <2>1, <2>2
<1>8. /\ told' \in [Addresses -> Told]
      /\ told'[a].guess = 0 /\ \A b \in Addresses : told'[b].rate = told[b].rate
      /\ \A b \in Addresses \ {a} : told'[b] = told[b]
  BY <1>4, Zero DEF ThrottleInv, ThrottleTypeOK, Told
<1>9. WindowsFit' /\ RatesFit'
  BY <1>4, <1>8, ContinuedFits
<1>10. LocksFit'
  <2>1. ~(counters[a].lockedUntil > at)
    BY <1>4 DEF LockedFor
  <2>2. /\ Arrivals(a)' \in SUBSET (Arrivals(a) \cup {at})
        /\ \A b \in Addresses \ {a} : Arrivals(b)' \in SUBSET Arrivals(b)
    BY <1>7
  <2>3. LockFits(counters[a].lockedUntil, lockout[a], 0, Arrivals(a)', clock)
    BY <1>3, <2>1, <2>2, AddressIs, ArrivalsAre, OneMoreFits
  <2> QED BY <1>4, <1>8, <2>2, <2>3, OneAddressFits
<1>11. ThrottleTypeOK'
  BY <1>4, <1>5, <1>8 DEF ThrottleInv, ThrottleTypeOK
<1> QED BY <1>6, <1>9, <1>10, <1>11 DEF ThrottleInv

LEMMA ContinuedKeeps ==
  ASSUME ThrottleInv, NEW s \in Slots, Continued(s) PROVE ThrottleInv'
BY DroppedKeeps, TurnedAwayKeeps, TriedKeeps, VerifiesKeeps DEF Continued

LEMMA SweepKeeps == ThrottleInv /\ Sweep => ThrottleInv'
<1> SUFFICES ASSUME ThrottleInv, Sweep PROVE ThrottleInv'
  OBVIOUS
<1>1. /\ clock \in Time /\ ThrottleTypeOK /\ WindowsFit /\ RatesFit /\ ArrivedAlready
      /\ counters' = [a \in Addresses |-> IF Idle(a) THEN Blank ELSE counters[a]]
      /\ clock' = clock /\ guesses' = guesses /\ admitted' = admitted
      /\ lockout' = lockout /\ told' = told
  BY DEF ThrottleInv, ThrottleTypeOK, Sweep
<1>2. ThrottleTypeOK'
  BY <1>1, BlankIs DEF ThrottleTypeOK
<1>3. WindowsFit'
  <2> SUFFICES ASSUME NEW a \in Addresses
               PROVE  Fits(counters'[a].requests, admitted[a], clock)
    BY <1>1 DEF WindowsFit
  <2>1. Fits(counters[a].requests, admitted[a], clock)
    BY <1>1 DEF WindowsFit
  <2>2. CASE Idle(a)
    <3> DEFINE times == counters[a].requests
    <3>1. times \in Seq(Time)
      BY <1>1 DEF ThrottleTypeOK, Counters
    <3>2. times # <<>> => times[Len(times)] <= clock - WindowMs
      <4> SUFFICES ASSUME times # <<>> PROVE times[Len(times)] <= clock - WindowMs
        OBVIOUS
      <4>1. times[Len(times)] <= clock - IdleMs
        BY <2>2 DEF Idle, LastRequest
      <4>2. times[Len(times)] \in Nat
        BY <3>1 DEF Time
      <4> HIDE DEF times
      <4> QED BY <1>1, <4>1, <4>2, Limits DEF Time
    <3> HIDE DEF times
    <3>3. Fits(<<>>, admitted[a], clock)
      BY <1>1, <2>1, <3>2, SweptFits DEF times
    <3> QED BY <1>1, <2>2, <3>3, BlankIs
  <2>3. CASE ~Idle(a)
    BY <1>1, <2>1, <2>3
  <2> QED BY <2>2, <2>3
<1>4. RatesFit'
  <2> SUFFICES ASSUME NEW a \in Addresses, told[a].rate # 0
               PROVE  \A i \in 1..Len(counters'[a].requests) :
                          counters'[a].requests[i] <= told[a].rate - WindowMs
    BY <1>1 DEF RatesFit
  <2>1. CASE Idle(a)
    BY <1>1, <2>1, BlankIs
  <2>2. CASE ~Idle(a)
    BY <1>1, <2>2 DEF RatesFit
  <2> QED BY <2>1, <2>2
<1>5. ArrivedAlready'
  BY <1>1 DEF ArrivedAlready
<1>6. LocksFit'
  <2> SUFFICES ASSUME NEW a \in Addresses
               PROVE  LockFits(counters'[a].lockedUntil, lockout[a], told[a].guess,
                               Arrivals(a), clock)
    BY <1>1, ArrivalsStay DEF LocksFit
  <2>1. CASE Idle(a)
    <3>1. counters'[a].lockedUntil = 0 /\ ~(counters[a].lockedUntil > clock)
      BY <1>1, <2>1, BlankIs DEF Idle, LockedFor
    <3>2. LockFits(counters[a].lockedUntil, lockout[a], told[a].guess, Arrivals(a), clock)
          /\ counters[a].lockedUntil \in Nat /\ lockout[a] \in Nat /\ told[a].guess \in Nat
          /\ clock \in Nat /\ LockoutMs \in Nat
      BY AddressIs, Limits DEF Time
    <3>3. ~(lockout[a] > clock)
      BY <3>1, <3>2 DEF LockFits
    <3>4. 0 <= clock + LockoutMs /\ 0 <= told[a].guess
      BY <3>2
    <3> QED BY <3>1, <3>2, <3>3, <3>4 DEF LockFits
  <2>2. CASE ~Idle(a)
    BY <1>1, <2>2, AddressIs
  <2> QED BY <2>1, <2>2
<1> QED BY <1>2, <1>3, <1>4, <1>5, <1>6 DEF ThrottleInv

LEMMA RestartKeeps == ThrottleInv /\ Restart => ThrottleInv'
<1> SUFFICES ASSUME ThrottleInv, Restart PROVE ThrottleInv'
  OBVIOUS
<1>1. clock \in Time /\ clock' = clock /\ \A a \in Addresses : Arrivals(a)' = {}
  BY DEF ThrottleInv, ThrottleTypeOK, Restart, Arrivals, Verifying
<1>2. ThrottleTypeOK'
  BY <1>1, Zero, BlankIs, NothingToldIs DEF Restart, ThrottleTypeOK
<1>3. WindowsFit'
  BY BlankIs, EmptyFits DEF Restart, WindowsFit
<1>4. RatesFit' /\ ArrivedAlready'
  BY NothingToldIs DEF Restart, RatesFit, ArrivedAlready
<1>5. LocksFit'
  <2> SUFFICES ASSUME NEW a \in Addresses
               PROVE  LockFits(counters'[a].lockedUntil, lockout'[a], told'[a].guess,
                               Arrivals(a)', clock')
    BY DEF LocksFit
  <2>1. counters'[a].lockedUntil = 0 /\ lockout'[a] = 0 /\ told'[a].guess = 0
    BY BlankIs, NothingToldIs DEF Restart
  <2> QED BY <1>1, <2>1, EmptyLockFits
<1> QED BY <1>2, <1>3, <1>4, <1>5 DEF ThrottleInv

LEMMA TickKeeps == ThrottleInv /\ Tick => ThrottleInv'
<1> SUFFICES ASSUME ThrottleInv, Tick PROVE ThrottleInv'
  OBVIOUS
<1>1. /\ clock \in Time /\ clock' = clock + 1
      /\ counters' = counters /\ guesses' = guesses /\ admitted' = admitted
      /\ lockout' = lockout /\ told' = told
      /\ ThrottleTypeOK /\ WindowsFit /\ RatesFit
  BY DEF ThrottleInv, ThrottleTypeOK, Tick
<1>2. ThrottleTypeOK'
  BY <1>1 DEF ThrottleTypeOK, Time
<1>3. WindowsFit'
  BY <1>1, TimePassesFits DEF WindowsFit
<1>4. RatesFit'
  BY <1>1 DEF RatesFit
<1>5. ArrivedAlready'
  <2> SUFFICES ASSUME NEW s \in Slots, guesses[s] # None PROVE guesses[s].at <= clock + 1
    BY <1>1 DEF ArrivedAlready
  <2>1. guesses[s].at \in Nat /\ guesses[s].at <= clock /\ clock \in Nat
    BY <1>1, GuessIs DEF Time
  <2> QED BY <2>1
<1>6. LocksFit'
  <2> SUFFICES ASSUME NEW a \in Addresses
               PROVE  LockFits(counters[a].lockedUntil, lockout[a], told[a].guess,
                               Arrivals(a), clock + 1)
    BY <1>1, ArrivalsStay DEF LocksFit
  <2>1. LockFits(counters[a].lockedUntil, lockout[a], told[a].guess, Arrivals(a), clock)
        /\ counters[a].lockedUntil \in Nat /\ lockout[a] \in Nat
        /\ clock \in Nat /\ LockoutMs \in Nat
    BY AddressIs, Limits DEF Time
  <2>2. /\ lockout[a] > clock + 1 => lockout[a] > clock
        /\ counters[a].lockedUntil <= clock + LockoutMs =>
             counters[a].lockedUntil <= clock + 1 + LockoutMs
    BY <2>1
  <2> QED BY <2>1, <2>2 DEF LockFits
<1> QED BY <1>2, <1>3, <1>4, <1>5, <1>6 DEF ThrottleInv

LEMMA StutterKeeps == ThrottleInv /\ UNCHANGED throttle => ThrottleInv'
<1> SUFFICES ASSUME ThrottleInv, UNCHANGED throttle PROVE ThrottleInv'
  OBVIOUS
<1>1. ThrottleTypeOK'
  BY DEF ThrottleInv, ThrottleTypeOK, throttle
<1>2. WindowsFit' /\ RatesFit' /\ ArrivedAlready'
  BY DEF ThrottleInv, WindowsFit, RatesFit, ArrivedAlready, throttle
<1>3. LocksFit'
  BY ArrivalsStay DEF ThrottleInv, LocksFit, throttle
<1> QED BY <1>1, <1>2, <1>3 DEF ThrottleInv

LEMMA HandledKeeps ==
  ASSUME ThrottleInv, NEW a \in Addresses, NEW counted \in BOOLEAN, Handled(a, counted)
  PROVE  ThrottleInv'
BY RefuseKeeps, ServeKeeps, LockedOutKeeps, EvaluatedKeeps, ArrivesKeeps DEF Handled

LEMMA NextKeeps == ThrottleInv /\ [ThrottleNext]_throttle => ThrottleInv'
BY HandledKeeps, ContinuedKeeps, SweepKeeps, RestartKeeps, TickKeeps, StutterKeeps
   DEF ThrottleNext

\* The invariant holds for ever, whatever the limits.
LEMMA InvHolds == ThrottleSpec => []ThrottleInv
BY InitHolds, NextKeeps, PTL DEF ThrottleSpec

-----------------------------------------------------------------------------
(* The theorems.                                                           *)

\* Counters, histories and promises have their types for any number of
\* addresses and any limits.
THEOREM ThrottleTypesHold == ThrottleSpec => []ThrottleTypeOK
<1>1. ThrottleInv => ThrottleTypeOK
  BY DEF ThrottleInv
<1> QED BY <1>1, InvHolds, PTL

\* No span of a window's length ever has more served requests of an address
\* than its limit, and no lockout ends earlier than LockoutMs after the first
\* arrival among the guesses it began with: sweeps, refused requests, restarts
\* and guesses under way, any number of them, in any order (ratelimit.ts).
THEOREM LimitsAlwaysHold == ThrottleSpec => []LimitsHold
<1>1. ThrottleInv => LimitsHold
  <2> SUFFICES ASSUME ThrottleInv PROVE WindowBound /\ LockoutLasts
    BY DEF LimitsHold
  <2>1. WindowBound
    <3> SUFFICES ASSUME NEW a \in Addresses, Len(admitted[a]) = RequestsPerMinute + 1
                 PROVE  admitted[a][RequestsPerMinute + 1] - admitted[a][1] >= WindowMs
      BY DEF WindowBound
    <3>1. Ago(admitted[a], 1) - Ago(admitted[a], RequestsPerMinute + 1) >= WindowMs
      BY DEF ThrottleInv, WindowsFit, Fits, Spread
    <3>2. /\ Ago(admitted[a], 1) = admitted[a][RequestsPerMinute + 1]
          /\ Ago(admitted[a], RequestsPerMinute + 1) = admitted[a][1]
      BY Limits DEF Ago
    <3> QED BY <3>1, <3>2
  <2>2. LockoutLasts
    BY DEF ThrottleInv, LocksFit, LockFits, LockoutLasts
  <2> QED BY <2>1, <2>2
<1> QED BY <1>1, InvHolds, PTL

\* Who waits as long as the last 429 said, and is quiet, is not told to wait
\* again: an array without an entry since cannot be full, and the lockout is
\* over, though passwords under verification may have moved its end
\* (routes.ts:188-190).
THEOREM RetryAfterHolds == ThrottleSpec => []RetryAfterIsEnough
<1>1. ASSUME ThrottleInv, NEW a \in Addresses, told[a].rate # 0, clock >= told[a].rate
      PROVE  ~OverRate(a, TRUE)
  <2> SUFFICES ASSUME OverRate(a, TRUE) PROVE FALSE
    OBVIOUS
  <2> DEFINE times == counters[a].requests
  <2>1. clock \in Time /\ told[a].rate \in Nat /\ Bounded(times, clock)
    <3>1. Bounded(times, clock)
      BY <1>1 DEF ThrottleInv, WindowsFit, Fits
    <3> QED BY <1>1, <3>1, AddressIs DEF Time
  <2>2. \A i \in 1..Len(times) : times[i] <= told[a].rate - WindowMs
    BY <1>1 DEF ThrottleInv, RatesFit
  <2>3. Len(Recorded(times)) > RequestsPerMinute
    BY <1>1, SeenIs DEF OverRate
  <2> HIDE DEF times
  <2>4. times \in Seq(Time)
    BY <2>1 DEF Bounded
  <2>5. ASSUME NEW j \in 1..Len(times) PROVE Ago(times, j) <= clock - WindowMs
    <3>1. Len(times) + 1 - j \in 1..Len(times)
      BY <2>4
    <3>2. Ago(times, j) \in Nat /\ Ago(times, j) <= told[a].rate - WindowMs
      BY <2>2, <2>4, <3>1, AgoType DEF Ago
    <3> QED BY <1>1, <2>1, <3>2, Limits DEF Time
  <2>6. Len(Recorded(times)) = 1
    BY <2>1, <2>5, RecordedIs
  <2> QED BY <2>3, <2>6, Limits
<1>2. ASSUME ThrottleInv, NEW a \in Addresses, told[a].guess # 0
      PROVE  ~LockedFor(a, told[a].guess)
  <2>1. counters[a].lockedUntil <= told[a].guess
        /\ counters[a].lockedUntil \in Nat /\ told[a].guess \in Nat
    BY <1>2, AddressIs DEF LockFits, Time
  <2> QED BY <2>1 DEF LockedFor
<1>3. ThrottleInv => RetryAfterIsEnough
  BY <1>1, <1>2 DEF RetryAfterIsEnough
<1> QED BY <1>3, InvHolds, PTL
=============================================================================
