--------------------------- MODULE AggregatorProofs ---------------------------
(***************************************************************************)
(* Proofs about Aggregator for any sightings, limits and clock: what prune()  *)
(* drops can never be seen in a score.                                       *)
(***************************************************************************)
EXTENDS Aggregator, FiniteSetTheorems, WellFoundedInduction, TLAPS

\* How many of the remembered observations the buffer has lost.
Lost == Len(recent) - Len(obs)

\* The buffer is the newest part of what is remembered, and what it lost was
\* older than the time limit allows.
LostIsStale ==
  /\ Lost \in Nat
  /\ \A k \in 1 .. Len(obs) : obs[k] = recent[k + Lost]
  /\ \A k \in 1 .. Lost : recent[k].at < high - TTL

BuffersOK ==
  \A s \in {obs, recent} : s \in Seq(Observation) /\ Len(s) <= MaxObs

ClockOK == now \in Time /\ high \in Time /\ now <= high /\ high <= now + Skew

\* The inductive invariant.
IInv == BuffersOK /\ ClockOK /\ LostIsStale

\* A set of natural numbers that is not empty has a least element.
LEMMA Least ==
  ASSUME NEW S \in SUBSET Nat, S # {}
  PROVE  \E n \in S : \A m \in S : n <= m
PROOF
  <1> DEFINE R == OpToRel(<, Nat)
  <1>1. \E x \in S : \A y \in S : ~(<<y, x>> \in R)
    BY NatLessThanWellFounded, WFMin
  <1>2. \A x, y \in Nat : x < y => <<x, y>> \in R
    BY DEF OpToRel
  <1> HIDE DEF R
  <1>3. PICK x \in S : \A y \in S : ~(<<y, x>> \in R)
    BY <1>1
  <1>4. \A y \in S : ~(y < x)
    BY <1>2, <1>3
  <1> QED BY <1>3, <1>4

\* An observation has a time.
LEMMA ObservationTime ==
  ASSUME NEW o \in Observation
  PROVE  o.at \in Time
PROOF BY DEF Observation

\* The loop of prune() stops.
LEMMA StalePrefixOK ==
  ASSUME NEW s \in Seq(Observation), NEW c \in Int
  PROVE  /\ StalePrefix(s, c) \in 0 .. Len(s)
         /\ \A k \in 1 .. StalePrefix(s, c) : s[k].at < c
PROOF
  <1> DEFINE Stops == {n \in 0 .. Len(s) : n < Len(s) => s[n + 1].at >= c}
  <1>1. Len(s) \in Nat /\ \A k \in 1 .. Len(s) : s[k].at \in Int
    BY ObservationTime DEF Time
  <1>2. PICK n \in Stops : \A m \in Stops : n <= m
    <2>1. Len(s) \in Stops /\ Stops \in SUBSET Nat
      BY <1>1
    <2> QED BY <2>1, Least
  <1>3. \A k \in 1 .. n : s[k].at < c
    <2> SUFFICES ASSUME NEW k \in 1 .. n, s[k].at >= c
                 PROVE  FALSE
      BY <1>1
    <2>1. k - 1 \in Stops
      BY <1>1
    <2> QED BY <1>2, <2>1
  <1>4. /\ n \in 0 .. Len(s)
        /\ n < Len(s) => s[n + 1].at >= c
    BY <1>2
  <1> DEFINE P(x) == /\ \A k \in 1 .. x : s[k].at < c
                     /\ x < Len(s) => s[x + 1].at >= c
  <1>5. /\ StalePrefix(s, c) \in 0 .. Len(s)
        /\ P(StalePrefix(s, c))
    <2>1. \E x \in 0 .. Len(s) : P(x)
      BY <1>3, <1>4
    <2>2. StalePrefix(s, c) = CHOOSE x \in 0 .. Len(s) : P(x)
      BY DEF StalePrefix
    <2> HIDE DEF P
    <2> QED BY <2>1, <2>2
  <1> QED BY <1>5

\* The tunables are numbers.
LEMMA Tunables == TTL \in Nat /\ Window \in Nat /\ Skew \in Nat /\ MaxObs \in Nat /\ MaxObs >= 1
PROOF BY TunablesAssumption

\* The cap keeps the last elements.
LEMMA NewestOK ==
  ASSUME NEW s \in Seq(Observation)
  PROVE  \E m \in 0 .. Len(s) :
           /\ Newest(s, MaxObs) \in Seq(Observation)
           /\ Len(Newest(s, MaxObs)) = Len(s) - m
           /\ Len(s) - m <= MaxObs
           /\ m > 0 => m = Len(s) - MaxObs
           /\ \A j \in 1 .. Len(s) - m : Newest(s, MaxObs)[j] = s[m + j]
PROOF
  <1>1. CASE Len(s) <= MaxObs
    <2>1. Newest(s, MaxObs) = s
      BY <1>1, Tunables DEF Newest
    <2> QED BY <1>1, <2>1
  <1>2. CASE Len(s) > MaxObs
    <2> DEFINE m == Len(s) - MaxObs
    <2>1. Newest(s, MaxObs) = SubSeq(s, m + 1, Len(s))
      BY <1>2, Tunables DEF Newest
    <2>2. /\ m \in 0 .. Len(s) /\ m + 1 \in 1 .. Len(s)
          /\ Len(s) - m = MaxObs
      BY <1>2, Tunables
    <2> HIDE DEF m
    <2>3. /\ SubSeq(s, m + 1, Len(s)) \in Seq(Observation)
          /\ Len(SubSeq(s, m + 1, Len(s))) = Len(s) - m
          /\ \A j \in 1 .. Len(s) - m : SubSeq(s, m + 1, Len(s))[j] = s[m + j]
      BY <2>2
    <2>4. m = Len(s) - MaxObs
      BY <2>2, Tunables
    <2>5. /\ Newest(s, MaxObs) \in Seq(Observation)
          /\ Len(Newest(s, MaxObs)) = Len(s) - m
          /\ \A j \in 1 .. Len(s) - m : Newest(s, MaxObs)[j] = s[m + j]
      BY <2>1, <2>3
    <2> USE <2>2
    <2> WITNESS m \in 0 .. Len(s)
    <2> QED BY <2>2, <2>4, <2>5
  <1> QED BY <1>1, <1>2, Tunables

\* prune() keeps an end of the buffer, at most MaxObs long, and what it drops
\* is stale or is evicted.
LEMMA PruneOK ==
  ASSUME NEW s \in Seq(Observation), now \in Int
  PROVE  \E m \in 0 .. Len(s) :
           /\ Prune(s) \in Seq(Observation)
           /\ Len(Prune(s)) = Len(s) - m
           /\ Len(s) - m <= MaxObs
           /\ \A j \in 1 .. Len(s) - m : Prune(s)[j] = s[m + j]
           /\ \A k \in 1 .. m : s[k].at < now - TTL \/ k <= Len(s) - MaxObs
PROOF
  <1>1. PICK n \in 0 .. Len(s) :
          /\ \A k \in 1 .. n : s[k].at < now - TTL
          /\ Prune(s) = Newest(SubSeq(s, n + 1, Len(s)), MaxObs)
    <2>1. Cutoff(now) = now - TTL /\ now - TTL \in Int
      BY Tunables DEF Cutoff
    <2> QED BY <2>1, StalePrefixOK DEF Prune
  <1> DEFINE r == SubSeq(s, n + 1, Len(s))
  <1>2. /\ r \in Seq(Observation)
        /\ Len(r) = Len(s) - n
        /\ \A j \in 1 .. Len(s) - n : r[j] = s[n + j]
    OBVIOUS
  <1> HIDE DEF r
  <1>3. PICK e \in 0 .. Len(r) :
          /\ Newest(r, MaxObs) \in Seq(Observation)
          /\ Len(Newest(r, MaxObs)) = Len(r) - e
          /\ Len(r) - e <= MaxObs
          /\ e > 0 => e = Len(r) - MaxObs
          /\ \A j \in 1 .. Len(r) - e : Newest(r, MaxObs)[j] = r[e + j]
    BY <1>2, NewestOK
  <1>4. Prune(s) = Newest(r, MaxObs)
    BY <1>1 DEF r
  <1> DEFINE m == n + e
  <1>5. m \in 0 .. Len(s) /\ Len(r) - e = Len(s) - m
    BY <1>2, <1>3
  <1>6. \A j \in 1 .. Len(s) - m : Prune(s)[j] = s[m + j]
    BY <1>2, <1>3, <1>4, <1>5
  <1>7. \A k \in 1 .. m : s[k].at < now - TTL \/ k <= Len(s) - MaxObs
    <2> TAKE k \in 1 .. m
    <2>1. CASE k <= n
      BY <1>1, <2>1
    <2>2. CASE k > n
      BY <1>2, <1>3, <2>2, Tunables
    <2> QED BY <2>1, <2>2
  <1> QED BY <1>3, <1>4, <1>5, <1>6, <1>7

\* What Record appends is a well-formed observation.
LEMMA ObservedOK ==
  ASSUME NEW s \in Sighting, NEW at \in 0 .. high, ClockOK,
         IsKnown(s.vector), s.peer # NoPeer
  PROVE  Observed(s, at) \in Observation
PROOF
  <1>1. (IF at = 0 THEN now ELSE at) \in Time
    BY TunablesAssumption DEF ClockOK, Time
  <1> QED BY <1>1 DEF Observed, Observation

\* The memory drops its oldest observation when it is full.
LEMMA RememberOK ==
  ASSUME NEW o \in Observation, BuffersOK
  PROVE  \E t \in {0, 1} :
           /\ Remember(recent, o) \in Seq(Observation)
           /\ Len(Remember(recent, o)) = Len(recent) + 1 - t
           /\ Len(recent) + 1 - t <= MaxObs
           /\ t = 1 => Len(recent) = MaxObs
           /\ t = 0 => Len(recent) < MaxObs
           /\ \A j \in 1 .. Len(recent) + 1 - t :
                Remember(recent, o)[j] = Append(recent, o)[j + t]
PROOF
  <1>1. recent \in Seq(Observation) /\ Len(recent) <= MaxObs
    BY DEF BuffersOK
  <1>2. CASE Len(recent) = MaxObs
    <2> DEFINE r == Tail(recent)
    <2>1. /\ r \in Seq(Observation) /\ Len(r) = Len(recent) - 1
          /\ \A j \in 1 .. Len(r) : r[j] = recent[j + 1]
      BY <1>1, <1>2, Tunables
    <2>2. Remember(recent, o) = Append(r, o)
      BY <1>2 DEF Remember
    <2> HIDE DEF r
    <2>3. \A j \in 1 .. Len(recent) : Append(r, o)[j] = Append(recent, o)[j + 1]
      BY <1>1, <2>1
    <2> QED BY <1>1, <1>2, <2>1, <2>2, <2>3
  <1>3. CASE Len(recent) < MaxObs
    <2>1. Remember(recent, o) = Append(recent, o)
      BY <1>1, <1>3, Tunables DEF Remember
    <2> QED BY <1>1, <1>3, <2>1, Tunables
  <1> QED BY <1>1, <1>2, <1>3, Tunables

LEMMA RecordPreserves ==
  ASSUME IInv, NEW s \in Sighting, NEW at \in 0 .. high, Record(s, at)
  PROVE  IInv'
PROOF
  <1> DEFINE o == Observed(s, at)
             a == Append(obs, o)
             R == Append(recent, o)
             L == Len(recent)
             d == Lost
  <1>1. o \in Observation
    BY ObservedOK DEF IInv, Record
  <1> HIDE DEF o
  <1>2. /\ obs \in Seq(Observation) /\ recent \in Seq(Observation) /\ L <= MaxObs
        /\ a \in Seq(Observation) /\ Len(a) = Len(obs) + 1
        /\ L \in Nat /\ Len(obs) \in Nat
    BY <1>1 DEF IInv, BuffersOK
  <1>3. /\ d \in Nat /\ Len(obs) = L - d
        /\ \A k \in 1 .. Len(obs) : obs[k] = recent[k + d]
        /\ \A k \in 1 .. d : recent[k].at < high - TTL
    BY <1>2 DEF IInv, LostIsStale, Lost
  <1>4. /\ now \in Int /\ high \in Int /\ now <= high
        /\ now' = now /\ high' = high
    BY DEF IInv, ClockOK, Time, Record
  <1>5. PICK m \in 0 .. Len(a) :
          /\ obs' \in Seq(Observation)
          /\ Len(obs') = Len(a) - m
          /\ Len(a) - m <= MaxObs
          /\ \A j \in 1 .. Len(a) - m : obs'[j] = a[m + j]
          /\ \A k \in 1 .. m : a[k].at < now - TTL \/ k <= Len(a) - MaxObs
    <2>1. obs' = Prune(a)
      BY DEF Record, o
    <2> QED BY <1>2, <1>4, <2>1, PruneOK
  <1>6. PICK t \in {0, 1} :
          /\ recent' \in Seq(Observation)
          /\ Len(recent') = L + 1 - t
          /\ L + 1 - t <= MaxObs
          /\ t = 1 => L = MaxObs
          /\ t = 0 => L < MaxObs
          /\ \A j \in 1 .. L + 1 - t : recent'[j] = R[j + t]
    <2>1. recent' = Remember(recent, o)
      BY DEF Record, o
    <2> QED BY <1>1, <2>1, RememberOK DEF IInv
  <1>7. \A k \in 1 .. Len(a) : a[k] = R[k + d]
    BY <1>1, <1>2, <1>3
  <1>8. \A k \in 1 .. L : R[k] = recent[k]
    BY <1>1, <1>2
  <1> HIDE DEF a, R, L, d
  <1> DEFINE e == d + m - t
  <1>9. Lost' = e /\ e \in Nat
    <2>1. Lost' = (L + 1 - t) - (Len(a) - m)
      BY <1>5, <1>6 DEF Lost
    <2>2. /\ t \in Int /\ m \in Int /\ d \in Int /\ L \in Int
          /\ Len(a) \in Int /\ Len(a) = L - d + 1
      BY <1>2, <1>3
    <2>3. Lost' = e
      BY <2>1, <2>2
    <2>4. e >= 0
      <3>1. CASE t = 0
        BY <1>3, <2>2, <3>1
      <3>2. CASE t = 1
        BY <1>5, <1>6, <2>2, <3>2, Tunables
      <3> QED BY <3>1, <3>2
    <2> QED BY <2>2, <2>3, <2>4
  <1>10. \A k \in 1 .. Len(obs') : obs'[k] = recent'[k + Lost']
    <2> TAKE k \in 1 .. Len(obs')
    <2>1. obs'[k] = a[m + k] /\ m + k \in 1 .. Len(a)
      <3>1. Len(a) \in Nat /\ k \in 1 .. Len(a) - m
        BY <1>2, <1>5
      <3>2. obs'[k] = a[m + k]
        BY <1>5, <3>1
      <3>3. m + k \in 1 .. Len(a)
        BY ONLY <3>1, m \in 0 .. Len(a)
      <3> QED BY <3>2, <3>3
    <2>2. a[m + k] = R[m + k + d]
      BY <1>7, <2>1
    <2>3. k + e \in 1 .. L + 1 - t /\ k + e + t = m + k + d
      BY <1>2, <1>3, <1>9, <2>1
    <2>4. recent'[k + e] = R[k + e + t]
      BY <1>6, <2>3
    <2> QED BY <1>9, <2>1, <2>2, <2>3, <2>4
  <1>11. \A k \in 1 .. Lost' : recent'[k].at < (high - TTL)'
    <2> SUFFICES ASSUME NEW k \in 1 .. e
                 PROVE  recent'[k].at < high - TTL
      BY <1>4, <1>9
    <2>1. k \in 1 .. L + 1 - t /\ recent'[k] = R[k + t]
      BY <1>2, <1>3, <1>6, <1>9
    <2>2. CASE k + t <= d
      <3>1. R[k + t] = recent[k + t] /\ k + t \in 1 .. d
        BY <1>2, <1>3, <1>8, <2>2
      <3> QED BY <1>3, <2>1, <3>1
    <2>3. CASE k + t > d
      <3> DEFINE j == k + t - d
      <3>1. j \in 1 .. m /\ j \in 1 .. Len(a) /\ j + d = k + t
        BY <1>2, <1>3, <1>9, <2>3
      <3>2. a[j] = R[k + t]
        BY <1>7, <3>1
      <3>3. ~(j <= Len(a) - MaxObs)
        BY <1>2, <1>3, <1>6, <3>1, Tunables
      <3>4. a[j].at < now - TTL
        BY <1>5, <3>1, <3>3
      <3>5. recent'[k].at \in Int
        BY <1>6, <2>1, ObservationTime DEF Time
      <3>6. recent'[k].at < now - TTL
        BY ONLY <2>1, <3>2, <3>4
      <3>7. now \in Int /\ high \in Int /\ now <= high /\ TTL \in Int
        BY <1>4, Tunables
      <3> QED BY ONLY <3>5, <3>6, <3>7
    <2> QED BY <1>2, <1>3, <2>2, <2>3
  <1>12. BuffersOK'
    BY <1>5, <1>6 DEF BuffersOK
  <1>13. ClockOK'
    BY DEF IInv, ClockOK, Record
  <1>14. LostIsStale'
    BY <1>9, <1>10, <1>11 DEF LostIsStale
  <1> QED BY <1>12, <1>13, <1>14 DEF IInv

LEMMA InitIInv == Init => IInv
PROOF
  <1> SUFFICES ASSUME Init PROVE IInv
    OBVIOUS
  <1>1. BuffersOK
    <2>1. <<>> \in Seq(Observation) /\ Len(<<>>) <= MaxObs
      BY Tunables
    <2> QED BY <2>1 DEF Init, BuffersOK
  <1>2. ClockOK
    BY TunablesAssumption DEF Init, ClockOK, Time
  <1>3. LostIsStale
    BY DEF Init, LostIsStale, Lost
  <1> QED BY <1>1, <1>2, <1>3 DEF IInv

LEMMA StepIInv == IInv /\ [Next]_vars => IInv'
PROOF
  <1> SUFFICES ASSUME IInv, [Next]_vars PROVE IInv'
    OBVIOUS
  <1> USE DEF IInv
  <1>1. ASSUME NEW s \in Sighting, NEW at \in 0 .. high, Record(s, at)
        PROVE  IInv'
    BY <1>1, RecordPreserves
  <1>2. CASE Clear
    <2>1. BuffersOK'
      <3>1. <<>> \in Seq(Observation) /\ Len(<<>>) <= MaxObs
        BY Tunables
      <3> QED BY <1>2, <3>1 DEF Clear, BuffersOK
    <2>2. ClockOK'
      BY <1>2 DEF Clear, ClockOK
    <2>3. LostIsStale'
      BY <1>2 DEF Clear, LostIsStale, Lost
    <2> QED BY <2>1, <2>2, <2>3
  <1>3. CASE Tick
    <2>1. BuffersOK'
      BY <1>3 DEF Tick, BuffersOK
    <2>2. /\ ClockOK'
          /\ high \in Int /\ high' \in Int /\ high <= high'
      BY <1>3, Tunables, TunablesAssumption DEF Tick, ClockOK, Time
    <2>3. Lost' = Lost
      BY <1>3 DEF Tick, Lost
    <2>4. \A k \in 1 .. Lost : recent[k].at \in Int
      BY ObservationTime DEF BuffersOK, LostIsStale, Lost, Time
    <2>5. LostIsStale'
      <3>1. \A k \in 1 .. Lost : recent[k].at < high' - TTL
        BY <2>2, <2>4, Tunables DEF LostIsStale
      <3> QED BY <1>3, <2>3, <3>1 DEF Tick, LostIsStale
    <2> QED BY <2>1, <2>2, <2>5
  <1>4. CASE StepBack
    <2>1. BuffersOK'
      BY <1>4 DEF StepBack, BuffersOK
    <2>2. ClockOK'
      <3>1. /\ now' \in Time /\ now' < now /\ now' >= high - Skew /\ high' = high
        BY <1>4 DEF StepBack
      <3>2. /\ high \in Int /\ now \in Int /\ now' \in Int
            /\ high \in Time /\ now <= high
        BY <3>1, TunablesAssumption DEF ClockOK, Time
      <3>3. \A n, h, t \in Int : n < t /\ t <= h /\ n >= h - Skew => n <= h /\ h <= n + Skew
        BY Tunables
      <3>4. now' <= high' /\ high' <= now' + Skew
        BY <3>1, <3>2, <3>3
      <3> QED BY <3>1, <3>2, <3>4 DEF ClockOK
    <2>3. LostIsStale'
      BY <1>4 DEF StepBack, LostIsStale, Lost
    <2> QED BY <2>1, <2>2, <2>3
  <1>5. CASE UNCHANGED vars
    BY <1>5 DEF vars, BuffersOK, ClockOK, LostIsStale, Lost
  <1> QED BY <1>1, <1>2, <1>3, <1>4, <1>5 DEF Next

\* The kept buffer is an end of the remembered one, and what it lacks is older
\* than the time limit: the invariant of prune().
THEOREM LostIsStaleHolds == Spec => []LostIsStale
PROOF
  <1>1. IInv => LostIsStale
    BY DEF IInv
  <1> QED BY InitIInv, StepIInv, <1>1, PTL DEF Spec

\* Type correctness: never more than MaxObs observations, all of known vectors
\* and of named peers.
THEOREM TypeCorrect == Spec => []TypeOK
PROOF
  <1>1. IInv => TypeOK
    <2> SUFFICES ASSUME IInv PROVE TypeOK
      OBVIOUS
    <2>1. \A s \in {obs, recent} : /\ DOMAIN s = 1 .. Len(s)
                                   /\ Len(s) <= MaxObs
                                   /\ \A k \in DOMAIN s : s[k] \in Observation
      BY DEF IInv, BuffersOK
    <2> QED BY <2>1 DEF IInv, ClockOK, TypeOK
  <1> QED BY InitIInv, StepIInv, <1>1, PTL DEF Spec

\* The same observations count, whether or not the buffer was pruned: the
\* window and the steps of the clock together are not longer than the limit.
LEMMA SameEvidence ==
  ASSUME IInv, NEW p
  PROVE  Evidence(obs, p) = Evidence(recent, p)
PROOF
  <1>1. /\ obs \in Seq(Observation) /\ recent \in Seq(Observation)
        /\ Lost \in Nat /\ Len(recent) = Len(obs) + Lost
        /\ \A k \in 1 .. Len(obs) : obs[k] = recent[k + Lost]
        /\ \A k \in 1 .. Lost : recent[k].at < high - TTL
    BY DEF IInv, BuffersOK, LostIsStale, Lost
  <1>2. now \in Int /\ high \in Int /\ high <= now + Skew
    BY DEF IInv, ClockOK, Time
  <1>3. \A k \in 1 .. Len(recent) : recent[k].at \in Int
    BY <1>1, ObservationTime DEF Time
  <1> HIDE DEF Lost
  <1>4. \A k \in 1 .. Len(recent) :
          recent[k].at >= now - Window => k > Lost
    BY <1>1, <1>2, <1>3, Tunables, WindowAssumption
  <1>5. ASSUME NEW x \in Evidence(obs, p)
        PROVE  x \in Evidence(recent, p)
    <2>1. PICK k \in 1 .. Len(obs) :
            obs[k].peer = p /\ obs[k].at >= now - Window /\ x = obs[k]
      BY <1>1, <1>5 DEF Evidence, Of
    <2>2. k + Lost \in 1 .. Len(recent) /\ obs[k] = recent[k + Lost]
      BY <1>1
    <2> QED BY <1>1, <2>1, <2>2 DEF Evidence, Of
  <1>6. ASSUME NEW x \in Evidence(recent, p)
        PROVE  x \in Evidence(obs, p)
    <2>1. PICK k \in 1 .. Len(recent) :
            recent[k].peer = p /\ recent[k].at >= now - Window /\ x = recent[k]
      BY <1>1, <1>6 DEF Evidence, Of
    <2>2. k - Lost \in 1 .. Len(obs) /\ obs[k - Lost] = recent[k]
      <3>1. k > Lost
        BY <1>4, <2>1
      <3>2. k - Lost \in 1 .. Len(obs)
        BY <1>1, <3>1
      <3>3. (k - Lost) + Lost = k
        BY <1>1
      <3> QED BY <1>1, <3>2, <3>3
    <2> QED BY <1>1, <2>1, <2>2 DEF Evidence, Of
  <1> QED BY <1>5, <1>6

\* Pruning cannot be seen in a score.
THEOREM PruningInvisibleHolds == Spec => []PruningInvisible
PROOF
  <1>1. IInv => PruningInvisible
    BY SameEvidence DEF PruningInvisible, Trust
  <1> QED BY InitIInv, StepIInv, <1>1, PTL DEF Spec

------------------------------------------------------------------------------
(***************************************************************************)
(* Scores: positive exactly when there is evidence, and no lower with more    *)
(* evidence on the same vectors.                                             *)
(***************************************************************************)

\* The greatest element of a set of numbers with a bound.
LEMMA Greatest ==
  ASSUME NEW S \in SUBSET Nat, S # {}, NEW b \in Nat, \A x \in S : x <= b
  PROVE  Max(S) \in S /\ \A y \in S : Max(S) >= y
PROOF
  <1> DEFINE D == {n \in Nat : \E x \in S : n = b - x}
  <1>1. D # {}
    <2>1. PICK x \in S : TRUE
      OBVIOUS
    <2>2. b - x \in D
      BY <2>1
    <2> QED BY <2>2
  <1>2. PICK n \in D : \A m \in D : n <= m
    BY <1>1, Least
  <1>3. PICK x \in S : n = b - x
    BY <1>2
  <1>4. \A y \in S : x >= y
    <2> TAKE y \in S
    <2>1. b - y \in D
      OBVIOUS
    <2> HIDE DEF D
    <2>2. b - x <= b - y
      BY <1>2, <1>3, <2>1
    <2>3. x \in Nat /\ y \in Nat
      OBVIOUS
    <2> QED BY ONLY b \in Nat, <2>2, <2>3
  <1>5. \E m \in S : \A y \in S : m >= y
    BY <1>4
  <1> QED BY <1>5 DEF Max

\* A quality is positive and at most 1.
LEMMA QualityOK ==
  ASSUME NEW o \in Observation
  PROVE  Quality(o) \in Nat /\ 1 <= Quality(o) /\ Quality(o) <= 10000
PROOF
  <1>1. o.vector \in Vector /\ o.reading \in Int
    BY SightingAssumption DEF Observation, IsKnown
  <1> DEFINE v == o.vector
             r == o.reading
  <1> DEFINE P(n) == n \in Nat /\ 1 <= n /\ n <= 100
  <1>2. P(DistanceFactor(r)) /\ P(RssiFactor(r)) /\ P(SignalFactor(r)) /\ P(100)
    BY <1>1 DEF DistanceFactor, RssiFactor, SignalFactor
  <1>3. P(Weight[v])
    BY <1>1 DEF Vector, Weight
  <1> HIDE DEF v, r
  <1>4. PICK f \in Nat : P(f) /\ Quality(o) = Weight[v] * f
    <2>1. \/ v = "uwb" /\ Quality(o) = Weight[v] * DistanceFactor(r)
          \/ v \in {"ble", "wifi_p2p"} /\ Quality(o) = Weight[v] * RssiFactor(r)
          \/ v = "sonic" /\ Quality(o) = Weight[v] * SignalFactor(r)
          \/ v \notin {"uwb", "ble", "wifi_p2p", "sonic"} /\ Quality(o) = Weight[v] * 100
      BY DEF Quality, v, r
    <2> QED BY <1>2, <2>1
  <1>5. ASSUME NEW w \in Nat, P(w), NEW k \in Nat, P(k)
        PROVE  w * k \in Nat /\ 1 <= w * k /\ w * k <= 10000
    <2>1. w * k <= 100 * k /\ 100 * k <= 10000
      BY <1>5
    <2>2. w * k >= 1 * k
      BY <1>5
    <2>3. w * k \in Nat
      OBVIOUS
    <2> QED BY <1>5, <2>1, <2>2, <2>3
  <1> QED BY <1>3, <1>4, <1>5

\* The best quality of a vector.
LEMMA BestOK ==
  ASSUME NEW e \in SUBSET Observation, NEW v
  PROVE  /\ Best(e, v) \in Nat
         /\ \A o \in e : o.vector = v => Best(e, v) >= Quality(o)
         /\ Best(e, v) = 0 \/ \E o \in e : o.vector = v /\ Best(e, v) = Quality(o)
PROOF
  <1> DEFINE Q == {0} \cup {Quality(o) : o \in {x \in e : x.vector = v}}
  <1>1. \A o \in e : Quality(o) \in Nat /\ 1 <= Quality(o) /\ Quality(o) <= 10000
    BY QualityOK
  <1>2. Q \in SUBSET Nat /\ Q # {} /\ \A x \in Q : x <= 10000
    BY <1>1
  <1>3. Best(e, v) = Max(Q)
    BY DEF Best
  <1>4. \A x \in Q : x = 0 \/ \E o \in e : o.vector = v /\ x = Quality(o)
    OBVIOUS
  <1>5. \A o \in e : o.vector = v => Quality(o) \in Q
    OBVIOUS
  <1> HIDE DEF Q
  <1>6. Max(Q) \in Q /\ \A y \in Q : Max(Q) >= y
    <2> DEFINE b == 10000
    <2>1. b \in Nat /\ \A x \in Q : x <= b
      BY <1>2
    <2> HIDE DEF b
    <2>2. Q \in SUBSET Nat /\ Q # {}
      BY <1>2
    <2> QED BY ONLY <2>1, <2>2, Greatest
  <1>7. Best(e, v) \in Q /\ \A y \in Q : Best(e, v) >= y
    BY ONLY <1>3, <1>6
  <1>8. Best(e, v) \in Nat
    <2>1. \A x \in Q : x \in Nat
      BY <1>2
    <2> QED BY ONLY <1>7, <2>1
  <1>9. ASSUME NEW o \in e, o.vector = v
        PROVE  Best(e, v) >= Quality(o)
    BY ONLY <1>5, <1>7, <1>9
  <1>10. Best(e, v) = 0 \/ \E o \in e : o.vector = v /\ Best(e, v) = Quality(o)
    BY ONLY <1>4, <1>7
  <1> QED BY <1>8, <1>9, <1>10

LEMMA BestGrows ==
  ASSUME NEW f \in SUBSET Observation, NEW e \in SUBSET f, NEW v
  PROVE  Best(e, v) <= Best(f, v)
PROOF
  <1>1. Best(e, v) \in Nat /\ Best(f, v) \in Nat
    BY BestOK
  <1>2. CASE Best(e, v) = 0
    BY <1>1, <1>2
  <1>3. ASSUME NEW o \in e, o.vector = v, Best(e, v) = Quality(o)
        PROVE  Best(e, v) <= Best(f, v)
    <2>1. Best(f, v) >= Quality(o)
      BY <1>3, BestOK
    <2> QED BY <1>1, <1>3, <2>1
  <1> QED BY <1>2, <1>3, BestOK

\* A set of six names has at most six elements.
LEMMA AtMostSix ==
  ASSUME NEW a, NEW b, NEW c, NEW d, NEW e, NEW f
  PROVE  LET S == {a, b, c, d, e, f}
         IN  IsFiniteSet(S) /\ Cardinality(S) \in Nat /\ Cardinality(S) <= 6
PROOF
  <1> DEFINE S1 == {a}
             S2 == S1 \cup {b}
             S3 == S2 \cup {c}
             S4 == S3 \cup {d}
             S5 == S4 \cup {e}
             S6 == S5 \cup {f}
  <1>1. ASSUME NEW S, NEW x, IsFiniteSet(S)
        PROVE  /\ IsFiniteSet(S \cup {x})
               /\ Cardinality(S) \in Nat /\ Cardinality(S \cup {x}) \in Nat
               /\ Cardinality(S \cup {x}) <= Cardinality(S) + 1
    <2>1. Cardinality(S) \in Nat
      BY <1>1, FS_CardinalityType
    <2> QED BY <1>1, <2>1, FS_AddElement
  <1>2. S6 = {a, b, c, d, e, f}
    OBVIOUS
  <1>3. IsFiniteSet(S1) /\ Cardinality(S1) = 1
    BY FS_Singleton
  <1>4. IsFiniteSet(S2) /\ Cardinality(S2) \in Nat /\ Cardinality(S2) <= Cardinality(S1) + 1
    BY <1>1, <1>3
  <1> HIDE DEF S1, S2
  <1>5. IsFiniteSet(S3) /\ Cardinality(S3) \in Nat /\ Cardinality(S3) <= Cardinality(S2) + 1
    BY <1>1, <1>4
  <1> HIDE DEF S3
  <1>6. IsFiniteSet(S4) /\ Cardinality(S4) \in Nat /\ Cardinality(S4) <= Cardinality(S3) + 1
    BY <1>1, <1>5
  <1> HIDE DEF S4
  <1>7. IsFiniteSet(S5) /\ Cardinality(S5) \in Nat /\ Cardinality(S5) <= Cardinality(S4) + 1
    BY <1>1, <1>6
  <1> HIDE DEF S5
  <1>8. IsFiniteSet(S6) /\ Cardinality(S6) \in Nat /\ Cardinality(S6) <= Cardinality(S5) + 1
    BY <1>1, <1>7
  <1> HIDE DEF S6
  <1>9. Cardinality(S6) <= 6
    BY <1>3, <1>4, <1>5, <1>6, <1>7, <1>8
  <1> QED BY <1>2, <1>8, <1>9

\* There are six vectors, so at most six have been seen.
LEMMA VectorsSeen ==
  ASSUME NEW e \in SUBSET Observation
  PROVE  /\ Cardinality({o.vector : o \in e}) \in Nat
         /\ Cardinality({o.vector : o \in e}) <= 6
         /\ Cardinality({o.vector : o \in e}) = 0 <=> e = {}
PROOF
  <1> DEFINE V == {o.vector : o \in e}
  <1>1. Vector = {"nfc", "uwb", "vlc", "sonic", "wifi_p2p", "ble"}
    BY DEF Vector, Weight
  <1>2. IsFiniteSet(Vector) /\ Cardinality(Vector) \in Nat /\ Cardinality(Vector) <= 6
    BY <1>1, AtMostSix
  <1>3. V \in SUBSET Vector
    BY DEF Observation, IsKnown
  <1>4. IsFiniteSet(V) /\ Cardinality(V) <= Cardinality(Vector)
    BY <1>2, <1>3, FS_Subset
  <1>5. Cardinality(V) \in Nat /\ Cardinality(Vector) \in Nat
    BY <1>2, <1>4, FS_CardinalityType
  <1>6. Cardinality(V) = 0 <=> V = {}
    BY <1>4, FS_EmptySet
  <1> HIDE DEF V
  <1>7. Cardinality(V) \in Nat /\ Cardinality(V) <= 6
    BY <1>2, <1>4, <1>5
  <1>8. V = {} <=> e = {}
    BY DEF V
  <1> QED BY <1>6, <1>7, <1>8 DEF V

\* 1.0 is a number.
LEMMA FullOK == Full \in Nat /\ Full >= 1
PROOF BY DEF Full

\* The boost keeps the order, and what is positive positive; the average costs
\* at most half of what one vector on its own would score.
LEMMA BoostedOK ==
  ASSUME NEW n \in Nat, 1 <= n, n <= 6, NEW a \in Nat, NEW b \in Nat, a <= b
  PROVE  /\ Boosted(a, n) \in 0 .. Full
         /\ a > 0 => Boosted(a, n) > 0
         /\ Boosted(a, n) <= Boosted(b, n)
         /\ Boosted(a, n) = Full \/ Boosted(a, n) >= 60 * a
PROOF
  <1>1. PICK k \in Nat : k >= 60 /\ k = (n + 1) * (60 \div n)
    <2>1. n \in {1, 2, 3, 4, 5, 6}
      OBVIOUS
    <2>2. /\ n = 1 => 60 \div n = 60
          /\ n = 2 => 60 \div n = 30
          /\ n = 3 => 60 \div n = 20
          /\ n = 4 => 60 \div n = 15
          /\ n = 5 => 60 \div n = 12
          /\ n = 6 => 60 \div n = 10
      OBVIOUS
    <2>3. (n + 1) * (60 \div n) \in {120, 90, 80, 75, 72, 70}
      BY <2>1, <2>2
    <2> QED BY <2>3
  <1>2. ASSUME NEW x \in Nat
        PROVE  Boosted(x, n) = IF x * k <= Full THEN x * k ELSE Full
    <2> DEFINE q == 60 \div n
               y == x * (n + 1) * q
    <2>1. q \in Nat
      <3>1. n \in {1, 2, 3, 4, 5, 6}
        OBVIOUS
      <3> QED BY <3>1
    <2> HIDE DEF q
    <2>2. y = x * k /\ y \in Nat
      <3>1. k = (n + 1) * q
        BY <1>1 DEF q
      <3>2. \A i, j, l \in Nat : i * j * l = i * (j * l) /\ i * (j * l) \in Nat
        OBVIOUS
      <3>3. n + 1 \in Nat
        OBVIOUS
      <3> QED BY <2>1, <3>1, <3>2, <3>3
    <2>3. Boosted(x, n) = Min({Full, y})
      BY DEF Boosted, q
    <2> HIDE DEF y
    <2>4. \E z \in {Full, y} : \A w \in {Full, y} : z <= w
      BY <2>2, FullOK
    <2>5. Min({Full, y}) \in {Full, y} /\ \A w \in {Full, y} : Min({Full, y}) <= w
      BY <2>4 DEF Min
    <2> QED BY <2>2, <2>3, <2>5, FullOK
  <1>3. a * k \in Nat /\ b * k \in Nat /\ a * k <= b * k
    OBVIOUS
  <1>4. a > 0 => a * k > 0
    BY <1>1
  <1>5. a * k >= 60 * a
    BY <1>1
  <1> QED BY <1>2, <1>3, <1>4, <1>5, FullOK

\* A sum is positive as soon as one vector was seen.
LEMMA SumOK ==
  ASSUME NEW e \in SUBSET Observation
  PROVE  /\ Sum(e) \in Nat
         /\ e # {} => Sum(e) > 0
PROOF
  <1>1. \A v : Best(e, v) \in Nat
    BY BestOK
  <1>2. Sum(e) \in Nat
    BY <1>1 DEF Sum
  <1>3. ASSUME NEW o \in e
        PROVE  Sum(e) > 0
    <2>1. Best(e, o.vector) > 0
      <3>1. Best(e, o.vector) >= Quality(o) /\ Quality(o) \in Nat /\ 1 <= Quality(o)
        BY BestOK, QualityOK
      <3> QED BY <1>1, <3>1
    <2>2. o.vector \in {"nfc", "uwb", "vlc", "sonic", "wifi_p2p", "ble"}
      BY DEF Observation, IsKnown, Vector, Weight
    <2> QED BY <1>1, <2>1, <2>2 DEF Sum
  <1> QED BY <1>2, <1>3

LEMMA SumGrows ==
  ASSUME NEW f \in SUBSET Observation, NEW e \in SUBSET f
  PROVE  Sum(e) <= Sum(f)
PROOF
  <1>1. \A v : Best(e, v) \in Nat /\ Best(f, v) \in Nat /\ Best(e, v) <= Best(f, v)
    BY BestOK, BestGrows
  <1> QED BY <1>1 DEF Sum

\* Exactly what has evidence has trust.
LEMMA ScorePositive ==
  ASSUME NEW e \in SUBSET Observation
  PROVE  /\ Score(e) \in 0 .. Full
         /\ Score(e) > 0 <=> e # {}
PROOF
  <1> DEFINE n == Cardinality({o.vector : o \in e})
  <1>1. n \in Nat /\ n <= 6 /\ (n = 0 <=> e = {})
    BY VectorsSeen
  <1>2. Score(e) = IF n = 0 THEN 0 ELSE Boosted(Sum(e), n)
    BY DEF Score
  <1> HIDE DEF n
  <1>3. CASE n = 0
    BY <1>1, <1>2, <1>3, FullOK
  <1>4. CASE n # 0
    <2>1. Boosted(Sum(e), n) \in 0 .. Full /\ (Sum(e) > 0 => Boosted(Sum(e), n) > 0)
      BY <1>1, <1>4, SumOK, BoostedOK
    <2> QED BY <1>1, <1>2, <1>4, <2>1, SumOK
  <1> QED BY <1>3, <1>4

\* More evidence on the same vectors never lowers a score.
LEMMA ScoreGrows ==
  ASSUME NEW f \in SUBSET Observation, NEW e \in SUBSET f,
         \A o \in f : \E x \in e : x.vector = o.vector
  PROVE  Score(e) <= Score(f)
PROOF
  <1> DEFINE n == Cardinality({o.vector : o \in e})
  <1>1. {o.vector : o \in f} = {o.vector : o \in e}
    OBVIOUS
  <1>2. n \in Nat /\ n <= 6
    BY VectorsSeen
  <1>3. /\ Score(e) = IF n = 0 THEN 0 ELSE Boosted(Sum(e), n)
        /\ Score(f) = IF n = 0 THEN 0 ELSE Boosted(Sum(f), n)
    BY <1>1 DEF Score
  <1> HIDE DEF n
  <1>4. Sum(e) \in Nat /\ Sum(f) \in Nat /\ Sum(e) <= Sum(f)
    BY SumOK, SumGrows
  <1>5. n # 0 => Boosted(Sum(e), n) <= Boosted(Sum(f), n)
    BY <1>2, <1>4, BoostedOK
  <1> QED BY <1>3, <1>5

\* The evidence for a peer is its kept observations inside the window.
LEMMA EvidenceOK ==
  ASSUME NEW s \in Seq(Observation), NEW p
  PROVE  /\ Evidence(s, p) \in SUBSET Observation
         /\ \A k \in 1 .. Len(s) :
              s[k].peer = p /\ s[k].at >= now - Window => s[k] \in Evidence(s, p)
         /\ \A x \in Evidence(s, p) :
              \E k \in 1 .. Len(s) : x = s[k] /\ s[k].peer = p /\ s[k].at >= now - Window
PROOF BY DEF Evidence, Of

\* The time reported beside a score is the latest one kept for the peer.
LEMMA LastSeenOK ==
  ASSUME NEW s \in Seq(Observation), NEW p \in Peers(s)
  PROVE  /\ \A k \in 1 .. Len(s) : s[k].peer = p => LastSeen(s, p) >= s[k].at
         /\ \E k \in 1 .. Len(s) : s[k].peer = p /\ LastSeen(s, p) = s[k].at
PROOF
  <1> DEFINE T == {0} \cup {s[k].at : k \in Of(s, p)}
  <1>1. \A k \in 1 .. Len(s) : s[k].at \in Nat /\ 1 <= s[k].at /\ s[k].at <= MaxTime
    BY ObservationTime, TunablesAssumption DEF Time
  <1>2. T \in SUBSET Nat /\ T # {} /\ \A x \in T : x <= MaxTime
    BY <1>1, TunablesAssumption DEF Of
  <1>3. LastSeen(s, p) = Max(T)
    BY DEF LastSeen
  <1>4. \A k \in 1 .. Len(s) : s[k].peer = p => s[k].at \in T
    BY DEF Of
  <1>5. \A x \in T : x = 0 \/ \E k \in 1 .. Len(s) : s[k].peer = p /\ x = s[k].at
    BY DEF Of
  <1>6. PICK j \in 1 .. Len(s) : s[j].peer = p
    BY DEF Peers
  <1> HIDE DEF T
  <1>7. LastSeen(s, p) \in T /\ \A y \in T : LastSeen(s, p) >= y
    <2>1. MaxTime \in Nat
      BY TunablesAssumption
    <2> QED BY <1>2, <1>3, <2>1, Greatest
  <1>8. LastSeen(s, p) # 0
    BY <1>1, <1>4, <1>6, <1>7
  <1> QED BY <1>4, <1>5, <1>7, <1>8

\* A score and the LastSeenMs beside it agree, although reads do not prune.
THEOREM ViewAgreesHolds == Spec => []ViewAgrees
PROOF
  <1>1. IInv => ViewAgrees
    <2> SUFFICES ASSUME IInv, NEW p \in Peers(obs)
                 PROVE  TrustOf(p) > 0 <=> LastSeen(obs, p) >= now - Window
      BY DEF ViewAgrees
    <2>1. obs \in Seq(Observation) /\ now \in Int
      BY DEF IInv, BuffersOK, ClockOK, Time
    <2>2. p # NoPeer
      BY <2>1 DEF Peers, Observation
    <2>3. TrustOf(p) > 0 <=> Evidence(obs, p) # {}
      BY <2>1, <2>2, EvidenceOK, ScorePositive DEF TrustOf, Trust
    <2>4. \A k \in 1 .. Len(obs) : obs[k].at \in Int
      BY <2>1, ObservationTime DEF Time
    <2>5. ASSUME NEW x \in Evidence(obs, p)
          PROVE  LastSeen(obs, p) >= now - Window
      <3>1. PICK k \in 1 .. Len(obs) : obs[k].peer = p /\ obs[k].at >= now - Window
        BY <2>1, <2>5, EvidenceOK
      <3>2. PICK j \in 1 .. Len(obs) : LastSeen(obs, p) = obs[j].at
        BY <2>1, LastSeenOK
      <3>3. LastSeen(obs, p) >= obs[k].at
        BY <2>1, <3>1, LastSeenOK
      <3> QED BY <2>1, <2>4, <3>1, <3>2, <3>3, Tunables
    <2>6. ASSUME LastSeen(obs, p) >= now - Window
          PROVE  Evidence(obs, p) # {}
      <3>1. PICK k \in 1 .. Len(obs) : obs[k].peer = p /\ LastSeen(obs, p) = obs[k].at
        BY <2>1, LastSeenOK
      <3> QED BY <2>1, <2>6, <3>1, EvidenceOK
    <2> QED BY <2>3, <2>5, <2>6
  <1> QED BY InitIInv, StepIInv, <1>1, PTL DEF Spec

\* What a record leaves of the evidence: it loses what was evicted only, and
\* gains the new observation if that is inside the window.
LEMMA EvidenceAfterRecord ==
  ASSUME IInv, NEW s \in Sighting, NEW at \in 0 .. high, Record(s, at)
  PROVE  /\ Observed(s, at) \in Observation
         /\ Evidence(obs, s.peer)' \in SUBSET Observation
         /\ Evidence(obs, s.peer)' \subseteq Evidence(obs, s.peer) \cup {Observed(s, at)}
         /\ Observed(s, at).at >= now - Window => Observed(s, at) \in Evidence(obs, s.peer)'
         /\ Len(obs) < MaxObs => Evidence(obs, s.peer) \subseteq Evidence(obs, s.peer)'
PROOF
  <1> DEFINE o == Observed(s, at)
             a == Append(obs, o)
             n == Len(obs) + 1
             W == now - Window
  <1>1. o \in Observation
    BY ObservedOK DEF IInv, Record
  <1>2. o.peer = s.peer
    BY DEF Observed
  <1>3. now' = now /\ now \in Int /\ W \in Int
    BY Tunables DEF Record, IInv, ClockOK, Time
  <1>4. obs' = Prune(a)
    BY DEF Record
  <1> HIDE DEF o
  <1>5. /\ obs \in Seq(Observation) /\ a \in Seq(Observation) /\ Len(a) = n /\ n \in Nat /\ n >= 1
        /\ a[n] = o /\ \A k \in 1 .. Len(obs) : a[k] = obs[k]
    BY <1>1 DEF IInv, BuffersOK
  <1> HIDE DEF a
  <1>6. PICK m \in 0 .. n :
          /\ obs' \in Seq(Observation)
          /\ Len(obs') = n - m
          /\ \A j \in 1 .. n - m : obs'[j] = a[m + j]
          /\ \A k \in 1 .. m : a[k].at < now - TTL \/ k <= n - MaxObs
    BY <1>3, <1>4, <1>5, PruneOK
  <1>7. \A k \in 1 .. n : a[k].at \in Int
    BY <1>5, ObservationTime DEF Time
  <1>8. \A k \in 1 .. n : a[k].at >= W /\ ~(k <= n - MaxObs) => k > m
    <2> SUFFICES ASSUME NEW k \in 1 .. n, a[k].at >= W, ~(k <= n - MaxObs), k <= m
                 PROVE  FALSE
      BY <1>5, <1>6
    <2>1. a[k].at < now - TTL
      BY <1>6
    <2>2. Window <= TTL
      BY Tunables, WindowAssumption
    <2> QED BY <1>3, <1>7, <2>1, <2>2, Tunables
  <1>9. \A k \in 1 .. n : k > m => k - m \in 1 .. Len(obs') /\ obs'[k - m] = a[k]
    <2> SUFFICES ASSUME NEW k \in 1 .. n, k > m
                 PROVE  k - m \in 1 .. Len(obs') /\ obs'[k - m] = a[k]
      OBVIOUS
    <2>1. k - m \in 1 .. n - m /\ m + (k - m) = k
      BY <1>5, <1>6
    <2> QED BY <1>6, <2>1
  <1> HIDE DEF n, W
  <1>10. /\ Evidence(obs, s.peer)' \in SUBSET Observation
         /\ \A k \in 1 .. Len(obs') :
              obs'[k].peer = s.peer /\ obs'[k].at >= W => obs'[k] \in Evidence(obs, s.peer)'
         /\ \A x \in Evidence(obs, s.peer)' :
              \E k \in 1 .. Len(obs') : x = obs'[k] /\ obs'[k].peer = s.peer /\ obs'[k].at >= W
    <2>1. Evidence(obs, s.peer)' =
            {obs'[k] : k \in {j \in {i \in DOMAIN obs' : obs'[i].peer = s.peer} : obs'[j].at >= W}}
      BY <1>3 DEF Evidence, Of, W
    <2>2. DOMAIN obs' = 1 .. Len(obs') /\ \A k \in 1 .. Len(obs') : obs'[k] \in Observation
      BY <1>6
    <2> QED BY <2>1, <2>2
  <1>11. ASSUME NEW k \in 1 .. n, k > m, a[k].peer = s.peer, a[k].at >= W
         PROVE  a[k] \in Evidence(obs, s.peer)'
    BY <1>9, <1>10, <1>11
  <1>12. ASSUME NEW x \in Evidence(obs, s.peer)'
         PROVE  x \in Evidence(obs, s.peer) \cup {o}
    <2>1. PICK j \in 1 .. Len(obs') : x = obs'[j] /\ obs'[j].peer = s.peer /\ obs'[j].at >= W
      BY <1>10, <1>12
    <2>2. x = a[m + j] /\ m + j \in 1 .. n
      BY <1>5, <1>6, <2>1
    <2>3. CASE m + j = n
      BY <1>5, <2>2, <2>3
    <2>4. CASE m + j # n
      <3>1. m + j \in 1 .. Len(obs)
        <4>1. Len(obs) \in Nat /\ n = Len(obs) + 1
          BY <1>5 DEF n
        <4> QED BY ONLY <2>2, <2>4, <4>1
      <3> QED BY <1>5, <2>1, <2>2, <3>1, EvidenceOK DEF W
    <2> QED BY <2>3, <2>4
  <1>13. ASSUME o.at >= W
         PROVE  o \in Evidence(obs, s.peer)'
    <2>1. ~(n <= n - MaxObs) /\ n \in 1 .. n
      BY <1>5, Tunables
    <2>2. n > m
      BY <1>5, <1>8, <1>13, <2>1
    <2> QED BY <1>2, <1>5, <1>11, <1>13, <2>1, <2>2
  <1>14. ASSUME Len(obs) < MaxObs, NEW x \in Evidence(obs, s.peer)
         PROVE  x \in Evidence(obs, s.peer)'
    <2>1. PICK k \in 1 .. Len(obs) : x = obs[k] /\ obs[k].peer = s.peer /\ obs[k].at >= W
      BY <1>5, <1>14, EvidenceOK DEF W
    <2>2. k \in 1 .. n /\ ~(k <= n - MaxObs) /\ a[k] = obs[k]
      BY <1>5, <1>14, <2>1, Tunables DEF n
    <2>3. k > m
      BY <1>8, <2>1, <2>2
    <2> QED BY <1>11, <2>1, <2>2, <2>3
  <1> QED BY <1>1, <1>10, <1>12, <1>13, <1>14 DEF o, W

\* The score that can be read after a record.
LEMMA TrustAfterRecord ==
  ASSUME NEW s \in Sighting, NEW at, Record(s, at)
  PROVE  TrustOf(s.peer)' = Score(Evidence(obs, s.peer)')
PROOF BY DEF Record, TrustOf, Trust

\* A sighting inside the window counts as soon as it is recorded, however full
\* the buffer is and whatever arrived before it.
THEOREM FreshRecordCountsHolds == Spec => FreshRecordCounts
PROOF
  <1> DEFINE Counts ==
        \A s \in Sighting, at \in 0 .. high :
          ((at = 0 \/ at >= now - Window) /\ Record(s, at)) => TrustOf(s.peer)' > 0
  <1>1. IInv /\ [Next]_vars => [Counts]_vars
    <2> SUFFICES ASSUME IInv, NEW s \in Sighting, NEW at \in 0 .. high,
                        at = 0 \/ at >= now - Window, Record(s, at)
                 PROVE  TrustOf(s.peer)' > 0
      OBVIOUS
    <2>1. Observed(s, at).at = IF at = 0 THEN now ELSE at
      BY DEF Observed
    <2>2. now \in Int /\ now - Window <= now
      BY Tunables DEF IInv, ClockOK, Time
    <2>3. Observed(s, at).at >= now - Window
      BY <2>1, <2>2, Tunables
    <2> QED BY <2>3, EvidenceAfterRecord, TrustAfterRecord, ScorePositive
  <1> QED BY InitIInv, StepIInv, <1>1, PTL DEF Spec, FreshRecordCounts

\* One more observation on a vector that was seen never lowers the score, as
\* long as nothing is evicted.
THEOREM EvidenceNeverHurtsHolds == Spec => EvidenceNeverHurts
PROOF
  <1> DEFINE Helps ==
        \A s \in Sighting, at \in 0 .. high :
          /\ Len(obs) < MaxObs
          /\ \E o \in Evidence(obs, s.peer) : o.vector = s.vector
          /\ Record(s, at)
          => TrustOf(s.peer)' >= TrustOf(s.peer)
  <1>1. IInv /\ [Next]_vars => [Helps]_vars
    <2> SUFFICES ASSUME IInv, NEW s \in Sighting, NEW at \in 0 .. high,
                        Len(obs) < MaxObs, Record(s, at),
                        NEW o \in Evidence(obs, s.peer), o.vector = s.vector
                 PROVE  TrustOf(s.peer)' >= TrustOf(s.peer)
      OBVIOUS
    <2> DEFINE e == Evidence(obs, s.peer)
               f == Evidence(obs, s.peer)'
               x == Observed(s, at)
    <2>1. f \in SUBSET Observation /\ e \in SUBSET f /\ f \subseteq e \cup {x}
      BY EvidenceAfterRecord
    <2>2. x.vector = s.vector
      BY DEF Observed
    <2>3. TrustOf(s.peer) = Score(e) /\ TrustOf(s.peer)' = Score(f)
      BY TrustAfterRecord DEF Record, TrustOf, Trust
    <2> HIDE DEF e, f, x
    <2>4. \A y \in f : \E z \in e : z.vector = y.vector
      BY <2>1, <2>2 DEF e
    <2>5. Score(e) <= Score(f)
      BY <2>1, <2>4, ScoreGrows
    <2>6. Score(e) \in 0 .. Full /\ Score(f) \in 0 .. Full
      BY <2>1, ScorePositive
    <2> QED BY <2>3, <2>5, <2>6, FullOK
  <1> QED BY InitIInv, StepIInv, <1>1, PTL DEF Spec, EvidenceNeverHurts

==============================================================================
