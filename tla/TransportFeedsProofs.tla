------------------------ MODULE TransportFeedsProofs ------------------------
(***************************************************************************)
(* Proofs about TransportFeeds for any sightings, number of goroutines, limits *)
(* and clock: what the UWB cache shows.                                      *)
(***************************************************************************)
EXTENDS TransportFeeds, AggregatorProofs

\* A call that carries a sighting carries a peer and a time for the cache.
CallsOK ==
  \A c \in Caller :
    task[c].pc = "store" => task[c].sighting.peer \in Peer /\ task[c].at \in Nat

CacheOK ==
  /\ DOMAIN task = Caller /\ DOMAIN latest = Peer /\ DOMAIN newest = Peer
  /\ \A p \in Peer : newest[p] \in Nat

\* An empty entry has seen nothing.
NothingStored == \A p \in Peer : latest[p] = None => newest[p] = 0

SampleOK == \A p \in Peer : latest[p] # None => latest[p].at = newest[p]

ClockNat == now \in Nat /\ high \in Nat

\* The model value for no sample is none.
NoneIsNoSample == \A t \in Nat : \A r, s : None # [at |-> t, reading |-> r, sure |-> s]

CacheInv == CallsOK /\ CacheOK /\ NothingStored /\ SampleOK /\ ClockNat

------------------------------------------------------------------------------
LEMMA InitInv == FeedInit => CacheInv
  BY DEF FeedInit, Init, Idle, CacheInv, CallsOK, CacheOK, NothingStored, SampleOK, ClockNat

\* The greater of two.
LEMMA MaxOfTwo ==
  ASSUME NEW a \in Nat, NEW b \in Nat
  PROVE  Max({a, b}) = IF a <= b THEN b ELSE a
PROOF
  <1>1. \E x \in {a, b} : \A y \in {a, b} : x >= y
    OBVIOUS
  <1>2. Max({a, b}) \in {a, b} /\ \A y \in {a, b} : Max({a, b}) >= y
    BY <1>1 DEF Max
  <1> QED BY <1>2

LEMMA StartInv ==
  ASSUME CacheInv, NEW c \in Caller, NEW s \in Sighting, NEW at \in 0 .. high,
         ApplyRecordObservation(c, s, at) \/ ApplyRecord(c, s, at)
  PROVE  CacheInv'
PROOF
  <1>1. /\ s.peer \in Peer
        /\ UNCHANGED <<now, high, latest, newest>>
        /\ \E pc : task' = [task EXCEPT ![c] = [Idle EXCEPT !.pc = pc, !.sighting = s, !.at = at]]
    BY DEF ApplyRecordObservation, ApplyRecord, Start, Peer, cache
  <1>2. PICK pc : task' = [task EXCEPT ![c] = [Idle EXCEPT !.pc = pc, !.sighting = s, !.at = at]]
    BY <1>1
  <1>3. at \in Nat
    BY DEF CacheInv, ClockNat
  <1>4. task'[c].sighting = s /\ task'[c].at = at
    BY <1>2 DEF CacheInv, CacheOK, Idle
  <1>5. \A d \in Caller \ {c} : task'[d] = task[d]
    BY <1>2 DEF CacheInv, CacheOK
  <1>6. CallsOK'
    BY <1>1, <1>3, <1>4, <1>5 DEF CacheInv, CallsOK
  <1>7. CacheOK' /\ NothingStored' /\ SampleOK' /\ ClockNat'
    BY <1>1, <1>2 DEF CacheInv, CacheOK, NothingStored, SampleOK, ClockNat
  <1> QED BY <1>6, <1>7 DEF CacheInv

\* What arrives out of order is ignored, and what is not is the newest.
LEMMA StoreInv ==
  ASSUME NoneIsNoSample, CacheInv, NEW c \in Caller, StoreLatest(c)
  PROVE  CacheInv'
PROOF
  <1> DEFINE peer == task[c].sighting.peer
             at == task[c].at
             sample == [at |-> at, reading |-> task[c].sighting.reading, sure |-> task[c].sighting.sure]
  <1>1. peer \in Peer /\ at \in Nat /\ task[c].pc = "store"
    BY DEF StoreLatest, CacheInv, CallsOK
  <1>2. /\ task' = [task EXCEPT ![c].pc = "record"]
        /\ newest' = [newest EXCEPT ![peer] = Max({newest[peer], at})]
        /\ UNCHANGED <<now, high>>
        /\ \/ InOrder(peer, at) /\ latest' = [latest EXCEPT ![peer] = sample]
           \/ ~InOrder(peer, at) /\ latest' = latest
    BY DEF StoreLatest
  <1>3. newest[peer] \in Nat
    BY <1>1 DEF CacheInv, CacheOK
  <1>4. newest'[peer] = IF newest[peer] <= at THEN at ELSE newest[peer]
    BY <1>1, <1>2, <1>3, MaxOfTwo DEF CacheInv, CacheOK
  <1>5. sample # None /\ sample.at = at
    BY <1>1 DEF NoneIsNoSample
  <1> HIDE DEF peer, at, sample
  <1>6. \A p \in Peer \ {peer} : newest'[p] = newest[p] /\ latest'[p] = latest[p]
    BY <1>2 DEF CacheInv, CacheOK
  <1>7. DOMAIN task' = Caller /\ DOMAIN latest' = Peer /\ DOMAIN newest' = Peer
    BY <1>2 DEF CacheInv, CacheOK
  <1>8. CallsOK'
    BY <1>2 DEF CacheInv, CallsOK, CacheOK
  <1>9. newest'[peer] \in Nat
    BY <1>1, <1>3, <1>4
  <1>10. CASE InOrder(peer, at)
    <2>1. newest[peer] <= at
      BY <1>1, <1>3, <1>10 DEF InOrder, CacheInv, NothingStored, SampleOK
    <2>2. latest'[peer] = sample
      BY <1>1, <1>2, <1>10 DEF CacheInv, CacheOK
    <2>3. latest'[peer] # None /\ latest'[peer].at = newest'[peer]
      BY <1>4, <1>5, <2>1, <2>2
    <2> QED BY <1>2, <1>6, <1>7, <1>8, <1>9, <2>3
            DEF CacheInv, CacheOK, NothingStored, SampleOK, ClockNat
  <1>11. CASE ~InOrder(peer, at)
    <2>1. latest'[peer] = latest[peer] /\ latest[peer] # None /\ ~(latest[peer].at <= at)
      BY <1>2, <1>11 DEF InOrder
    <2>2. latest[peer].at = newest[peer]
      BY <1>1, <2>1 DEF CacheInv, SampleOK
    <2>3. latest'[peer] # None /\ latest'[peer].at = newest'[peer]
      BY <1>4, <2>1, <2>2
    <2> QED BY <1>2, <1>6, <1>7, <1>8, <1>9, <2>3
            DEF CacheInv, CacheOK, NothingStored, SampleOK, ClockNat
  <1> QED BY <1>10, <1>11

\* A record ages the calls that have yet to ask; none of them stores any more.
LEMMA AgedStores ==
  ASSUME NEW n
  PROVE  /\ DOMAIN Aged(task, n) = Caller
         /\ \A c \in Caller : Aged(task, n)[c].pc = "store" => Aged(task, n)[c] = task[c]
PROOF
  <1>1. ASSUME NEW c \in Caller, task[c].pc = "ask"
        PROVE  \A v : [task[c] EXCEPT !.since = v].pc = "ask" \/ [task[c] EXCEPT !.since = v].pc # "store"
    BY <1>1
  <1> QED BY <1>1 DEF Aged

\* Steps that store nothing: no call begins to store and the cache is as it was.
LEMMA CacheUntouched ==
  ASSUME CacheInv, UNCHANGED <<latest, newest>>, now' \in Nat, high' \in Nat, DOMAIN task' = Caller,
         \A c \in Caller : task'[c].pc = "store" => task'[c] = task[c]
  PROVE  CacheInv'
PROOF
  <1>1. CallsOK'
    BY DEF CacheInv, CallsOK
  <1>2. CacheOK' /\ NothingStored' /\ SampleOK' /\ ClockNat'
    BY DEF CacheInv, CacheOK, NothingStored, SampleOK, ClockNat
  <1> QED BY <1>1, <1>2 DEF CacheInv

LEMMA RecordInv ==
  ASSUME CacheInv, NEW c \in Caller, RecordStep(c)
  PROVE  CacheInv'
PROOF
  <1>1. /\ \E at : task' = [Aged(task, 1) EXCEPT
                              ![c] = [task[c] EXCEPT !.pc = "ask", !.since = 0, !.at = at]]
        /\ UNCHANGED <<latest, newest, now, high>>
        /\ task[c].pc = "record"
    BY DEF RecordStep, Record, cache
  <1>2. PICK at : task' = [Aged(task, 1) EXCEPT
                             ![c] = [task[c] EXCEPT !.pc = "ask", !.since = 0, !.at = at]]
    BY <1>1
  <1>3. DOMAIN task' = Caller /\ \A d \in Caller \ {c} : task'[d] = Aged(task, 1)[d]
    BY <1>2, AgedStores
  <1>4. task'[c].pc # "store"
    BY <1>1, <1>2, AgedStores
  <1>5. \A d \in Caller : task'[d].pc = "store" => task'[d] = task[d]
    BY <1>3, <1>4, AgedStores
  <1> QED BY <1>1, <1>3, <1>5, CacheUntouched DEF CacheInv, ClockNat

LEMMA TrustInv ==
  ASSUME CacheInv, NEW c \in Caller, TrustStep(c)
  PROVE  CacheInv'
PROOF
  <1>1. /\ task' = [task EXCEPT ![c].pc = "answered", ![c].asked = now,
                                ![c].trust = TrustOf(task[c].sighting.peer)]
        /\ UNCHANGED <<latest, newest, now, high>>
        /\ task[c].pc = "ask"
    BY DEF TrustStep, MayAsk, cache
  <1>2. DOMAIN task' = Caller /\ \A d \in Caller \ {c} : task'[d] = task[d]
    BY <1>1 DEF CacheInv, CacheOK
  <1>3. task'[c].pc # "store"
    BY <1>1 DEF CacheInv, CacheOK
  <1> QED BY <1>1, <1>2, <1>3, CacheUntouched DEF CacheInv, ClockNat

LEMMA ClearsInv ==
  ASSUME CacheInv, ClearAggregator \/ ClearLatest
  PROVE  CacheInv'
PROOF
  <1>1. CASE ClearAggregator
    <2>1. UNCHANGED <<latest, newest, now, high>> /\ task' = Aged(task, MaxObs)
      BY <1>1 DEF ClearAggregator, Clear
    <2>2. DOMAIN task' = Caller /\ \A c \in Caller : task'[c].pc = "store" => task'[c] = task[c]
      BY <2>1, AgedStores
    <2> QED BY <2>1, <2>2, CacheUntouched DEF CacheInv, ClockNat
  <1>2. CASE ClearLatest
    BY <1>2 DEF ClearLatest, CacheInv, CallsOK, CacheOK, NothingStored, SampleOK, ClockNat
  <1> QED BY <1>1, <1>2

LEMMA ClockInv ==
  ASSUME CacheInv, Clock
  PROVE  CacheInv'
PROOF
  <1>1. now' \in Nat /\ high' \in Nat
    BY DEF Clock, Tick, StepBack, Time, CacheInv, ClockNat
  <1>2. UNCHANGED <<latest, newest, task>>
    BY DEF Clock, cache
  <1> QED BY <1>1, <1>2, CacheUntouched DEF CacheInv, CacheOK

LEMMA NextInv ==
  ASSUME NoneIsNoSample, CacheInv, [FeedNext]_feedVars
  PROVE  CacheInv'
PROOF
  <1>1. CASE UNCHANGED feedVars
    BY <1>1 DEF feedVars, CacheInv, CallsOK, CacheOK, NothingStored, SampleOK, ClockNat
  <1>2. ASSUME NEW c \in Caller, NEW s \in Sighting, NEW at \in 0 .. high,
               ApplyRecordObservation(c, s, at) \/ ApplyRecord(c, s, at)
        PROVE  CacheInv'
    BY <1>2, StartInv
  <1>3. ASSUME NEW c \in Caller, StoreLatest(c) \/ RecordStep(c) \/ TrustStep(c) PROVE CacheInv'
    BY <1>3, StoreInv, RecordInv, TrustInv
  <1> QED BY <1>1, <1>2, <1>3, ClearsInv, ClockInv DEF FeedNext

\* What Latest answers for a peer is the newest sample that any handler stored
\* for it, in whatever order the goroutines got to the lock of the cache.
THEOREM LatestIsNewestHolds ==
  ASSUME NoneIsNoSample
  PROVE  FeedSpec => []LatestIsNewest
PROOF
  <1>1. FeedInit => CacheInv
    BY InitInv
  <1>2. CacheInv /\ [FeedNext]_feedVars => CacheInv'
    BY NextInv
  <1>3. CacheInv => LatestIsNewest
    BY DEF CacheInv, SampleOK, LatestIsNewest
  <1> QED BY <1>1, <1>2, <1>3, PTL DEF FeedSpec

------------------------------------------------------------------------------
(***************************************************************************)
(* The aggregator inside: every step of a handler is a step of the aggregator *)
(* or leaves it alone.                                                       *)
(***************************************************************************)

CallOK(c) ==
  /\ DOMAIN task[c] = DOMAIN Idle
  /\ task[c].pc \in {"idle", "store", "record", "ask", "answered"}
  /\ task[c].at \in 0 .. high
  /\ task[c].since \in 0 .. MaxObs
  /\ task[c].trust \in 0 .. Full
  /\ task[c].pc # "idle" =>
       /\ task[c].sighting \in Sighting
       /\ IsKnown(task[c].sighting.vector)
       /\ task[c].sighting.peer # NoPeer
  /\ task[c].pc = "store" => task[c].sighting.vector = "uwb"

TasksOK ==
  /\ DOMAIN task = Caller
  /\ \A c \in Caller : CallOK(c)
  /\ calls \in 0 .. MaxCalls

TimesOK ==
  /\ DOMAIN latest = Peer
  /\ \A p \in Peer : latest[p] = None \/ latest[p].at \in 0 .. MaxTime

FeedInv == IInv /\ TasksOK /\ TimesOK

LEMMA MinOfTwo ==
  ASSUME NEW a \in Nat, NEW b \in Nat
  PROVE  Min({a, b}) = IF a <= b THEN a ELSE b
PROOF
  <1>1. \E x \in {a, b} : \A y \in {a, b} : x <= y
    OBVIOUS
  <1>2. Min({a, b}) \in {a, b} /\ \A y \in {a, b} : Min({a, b}) <= y
    BY <1>1 DEF Min
  <1> QED BY <1>2

LEMMA ClockNumbers ==
  ASSUME IInv
  PROVE  now \in Nat /\ high \in Nat /\ 1 <= now /\ now <= high /\ high <= MaxTime /\ MaxTime \in Nat
PROOF BY TunablesAssumption DEF IInv, ClockOK, Time

\* The aggregator does not notice that handlers call it.
LEMMA FeedStepIsStep ==
  ASSUME TasksOK, [FeedNext]_feedVars
  PROVE  [Next]_vars
PROOF
  <1>1. CASE UNCHANGED feedVars
    BY <1>1 DEF feedVars, vars
  <1>2. ASSUME NEW c \in Caller, NEW s \in Sighting, NEW at \in 0 .. high,
               ApplyRecordObservation(c, s, at) \/ ApplyRecord(c, s, at)
        PROVE  UNCHANGED vars
    BY <1>2 DEF ApplyRecordObservation, ApplyRecord, Start, vars
  <1>3. ASSUME NEW c \in Caller, StoreLatest(c) \/ TrustStep(c)
        PROVE  UNCHANGED vars
    BY <1>3 DEF StoreLatest, TrustStep, vars
  <1>4. ASSUME NEW c \in Caller, RecordStep(c)
        PROVE  Next
    <2>1. task[c].sighting \in Sighting /\ task[c].at \in 0 .. high
      BY <1>4 DEF RecordStep, TasksOK, CallOK
    <2>2. Record(task[c].sighting, task[c].at)
      BY <1>4 DEF RecordStep
    <2> QED BY <2>1, <2>2 DEF Next
  <1>5. CASE ClearAggregator
    BY <1>5 DEF ClearAggregator, Next
  <1>6. CASE ClearLatest
    BY <1>6 DEF ClearLatest, vars
  <1>7. CASE Clock
    BY <1>7 DEF Clock, Next
  <1> QED BY <1>1, <1>2, <1>3, <1>4, <1>5, <1>6, <1>7 DEF FeedNext

\* The highest time never falls.
LEMMA HighRises ==
  ASSUME IInv, [Next]_vars
  PROVE  high' \in Nat /\ high <= high'
PROOF
  <1>1. high' = high \/ Tick
    BY DEF Next, Record, Clear, StepBack, vars
  <1>2. ASSUME Tick PROVE high' \in Nat /\ high <= high'
    BY <1>2, ClockNumbers DEF Tick
  <1> QED BY <1>1, <1>2, ClockNumbers

\* What a record or a clear does to the calls.
LEMMA AgedOK ==
  ASSUME TasksOK, NEW n \in Nat, NEW c \in Caller
  PROVE  /\ DOMAIN Aged(task, n) = Caller
         /\ task[c].pc # "ask" => Aged(task, n)[c] = task[c]
         /\ task[c].pc = "ask" =>
              \E k \in 0 .. MaxObs :
                /\ k = IF MaxObs <= task[c].since + n THEN MaxObs ELSE task[c].since + n
                /\ Aged(task, n)[c] = [task[c] EXCEPT !.since = k]
PROOF
  <1>1. task[c].since \in Nat /\ task[c].since + n \in Nat /\ MaxObs \in Nat
    BY Tunables DEF TasksOK, CallOK
  <1> DEFINE k == Min({MaxObs, task[c].since + n})
  <1>2. k = IF MaxObs <= task[c].since + n THEN MaxObs ELSE task[c].since + n
    BY <1>1, MinOfTwo
  <1>3. k \in 0 .. MaxObs
    BY <1>1, <1>2
  <1>4. Aged(task, n)[c] = IF task[c].pc = "ask" THEN [task[c] EXCEPT !.since = k] ELSE task[c]
    BY DEF Aged
  <1>5. DOMAIN Aged(task, n) = Caller
    BY DEF Aged
  <1> HIDE DEF k
  <1> QED BY <1>2, <1>3, <1>4, <1>5

LeftOrAged(c) ==
  \/ task'[c] = task[c]
  \/ \E k \in 0 .. MaxObs : task[c].pc = "ask" /\ task'[c] = [task[c] EXCEPT !.since = k]

\* A call stays well formed when it is not touched, or gets older.
LEMMA CallStays ==
  ASSUME NEW c \in Caller, CallOK(c), high \in Nat, high' \in Nat, high <= high',
         LeftOrAged(c)
  PROVE  CallOK(c)'
PROOF
  <1>1. task[c].at \in 0 .. high'
    BY DEF CallOK
  <1>2. CASE task'[c] = task[c]
    BY <1>1, <1>2 DEF CallOK, Idle, IsKnown
  <1>3. ASSUME NEW k \in 0 .. MaxObs, task[c].pc = "ask", task'[c] = [task[c] EXCEPT !.since = k]
        PROVE  CallOK(c)'
    <2>1. /\ DOMAIN task'[c] = DOMAIN Idle
          /\ task'[c].pc = task[c].pc /\ task'[c].at = task[c].at /\ task'[c].since = k
          /\ task'[c].trust = task[c].trust /\ task'[c].sighting = task[c].sighting
      BY <1>3 DEF CallOK, Idle
    <2> QED BY <1>1, <1>3, <2>1 DEF CallOK, Idle, IsKnown
  <1> QED BY <1>2, <1>3 DEF LeftOrAged

LEMMA FeedInitInv == FeedInit => FeedInv
PROOF
  <1> SUFFICES ASSUME FeedInit PROVE FeedInv
    OBVIOUS
  <1>1. IInv
    BY InitIInv DEF FeedInit
  <1>2. \A c \in Caller : CallOK(c)
    <2> TAKE c \in Caller
    <2>1. task[c] = Idle
      BY DEF FeedInit
    <2> QED BY <2>1, ClockNumbers, <1>1, Tunables, FullOK DEF CallOK, Idle
  <1>3. TasksOK
    BY <1>2, MaxCallsAssumption DEF FeedInit, TasksOK
  <1> QED BY <1>1, <1>3 DEF FeedInv, FeedInit, TimesOK

LEMMA StartTasks ==
  ASSUME FeedInv, NEW c \in Caller, NEW s \in Sighting, NEW at \in 0 .. high,
         ApplyRecordObservation(c, s, at) \/ ApplyRecord(c, s, at)
  PROVE  TasksOK'
PROOF
  <1>1. PICK pc \in {"record", "store"} :
          /\ Start(c, pc, s, at)
          /\ pc = "store" => s.vector = "uwb"
          /\ IsKnown(s.vector) /\ s.peer # NoPeer
    BY DEF ApplyRecordObservation, ApplyRecord, IsKnown, Vector, Weight
  <1>2. /\ task' = [task EXCEPT ![c] = [Idle EXCEPT !.pc = pc, !.sighting = s, !.at = at]]
        /\ high' = high /\ calls' = calls - 1 /\ calls > 0
    BY <1>1 DEF Start
  <1>3. high \in Nat
    BY ClockNumbers DEF FeedInv
  <1>4. DOMAIN task' = Caller /\ \A d \in Caller \ {c} : task'[d] = task[d]
    BY <1>2 DEF FeedInv, TasksOK
  <1>5. task'[c] = [Idle EXCEPT !.pc = pc, !.sighting = s, !.at = at]
    BY <1>2 DEF FeedInv, TasksOK
  <1>6. /\ DOMAIN task'[c] = DOMAIN Idle
        /\ task'[c].pc = pc /\ task'[c].at = at /\ task'[c].since = 0
        /\ task'[c].trust = 0 /\ task'[c].sighting = s
    BY <1>5 DEF Idle
  <1>7. CallOK(c)'
    <2>1. 0 \in 0 .. MaxObs /\ 0 \in 0 .. Full
      BY Tunables, FullOK
    <2> QED BY <1>1, <1>2, <1>6, <2>1 DEF CallOK, Idle, IsKnown
  <1>8. \A d \in Caller \ {c} : CallOK(d)'
    BY <1>2, <1>3, <1>4, CallStays DEF FeedInv, TasksOK, LeftOrAged
  <1>9. calls' \in 0 .. MaxCalls
    BY <1>2, MaxCallsAssumption DEF FeedInv, TasksOK
  <1> QED BY <1>4, <1>7, <1>8, <1>9 DEF TasksOK

LEMMA StoreTasks ==
  ASSUME FeedInv, NEW c \in Caller, StoreLatest(c)
  PROVE  TasksOK' /\ TimesOK'
PROOF
  <1>1. /\ task[c].pc = "store"
        /\ task' = [task EXCEPT ![c].pc = "record"]
        /\ UNCHANGED <<now, high, calls>>
    BY DEF StoreLatest
  <1>2. high \in Nat /\ high <= MaxTime /\ MaxTime \in Nat
    BY ClockNumbers DEF FeedInv
  <1>3. DOMAIN task' = Caller /\ \A d \in Caller \ {c} : task'[d] = task[d]
    BY <1>1 DEF FeedInv, TasksOK
  <1>4. CallOK(c)
    BY DEF FeedInv, TasksOK
  <1>5. /\ DOMAIN task'[c] = DOMAIN Idle
        /\ task'[c].pc = "record" /\ task'[c].at = task[c].at /\ task'[c].since = task[c].since
        /\ task'[c].trust = task[c].trust /\ task'[c].sighting = task[c].sighting
    BY <1>1, <1>4 DEF FeedInv, TasksOK, CallOK, Idle
  <1>6. CallOK(c)'
    BY <1>1, <1>4, <1>5 DEF CallOK, Idle, IsKnown
  <1>7. TasksOK'
    BY <1>1, <1>2, <1>3, <1>6, CallStays DEF FeedInv, TasksOK, LeftOrAged
  <1>8. TimesOK'
    <2> DEFINE peer == task[c].sighting.peer
               at == task[c].at
    <2>1. at \in 0 .. MaxTime
      BY <1>2, <1>4 DEF CallOK
    <2>2. \E r, z : \/ latest' = [latest EXCEPT ![peer] = [at |-> at, reading |-> r, sure |-> z]]
                    \/ latest' = latest
      BY DEF StoreLatest
    <2>3. PICK x : /\ latest' = [latest EXCEPT ![peer] = x] \/ latest' = latest
                   /\ x.at = at
      BY <2>2
    <2> HIDE DEF peer, at
    <2> QED BY <2>1, <2>3 DEF FeedInv, TimesOK
  <1> QED BY <1>7, <1>8

LEMMA RecordTasks ==
  ASSUME FeedInv, NEW c \in Caller, RecordStep(c)
  PROVE  TasksOK'
PROOF
  <1> DEFINE at == Observed(task[c].sighting, task[c].at).at
  <1>1. CallOK(c) /\ task[c].pc = "record"
    BY DEF FeedInv, TasksOK, RecordStep
  <1>2. /\ task' = [Aged(task, 1) EXCEPT ![c] = [task[c] EXCEPT !.pc = "ask", !.since = 0, !.at = at]]
        /\ high' = high /\ calls' = calls
    BY DEF RecordStep, Record
  <1>3. high \in Nat
    BY ClockNumbers DEF FeedInv
  <1>4. at \in 0 .. high
    BY <1>1, ClockNumbers DEF Observed, CallOK, FeedInv
  <1> HIDE DEF at
  <1>5. DOMAIN task' = Caller /\ \A d \in Caller \ {c} : task'[d] = Aged(task, 1)[d]
    BY <1>2, AgedOK DEF FeedInv
  <1>6. task'[c] = [task[c] EXCEPT !.pc = "ask", !.since = 0, !.at = at]
    BY <1>2, AgedOK DEF FeedInv
  <1>7. /\ DOMAIN task'[c] = DOMAIN Idle
        /\ task'[c].pc = "ask" /\ task'[c].at = at /\ task'[c].since = 0
        /\ task'[c].trust = task[c].trust /\ task'[c].sighting = task[c].sighting
    BY <1>1, <1>6 DEF CallOK, Idle
  <1>8. CallOK(c)'
    <2>1. 0 \in 0 .. MaxObs
      BY Tunables
    <2> QED BY <1>1, <1>2, <1>4, <1>7, <2>1 DEF CallOK, Idle, IsKnown
  <1>9. ASSUME NEW d \in Caller \ {c}
        PROVE  CallOK(d)'
    <2>1. CallOK(d)
      BY DEF FeedInv, TasksOK
    <2>2. LeftOrAged(d)
      <3>1. task'[d] = Aged(task, 1)[d] /\ TasksOK
        BY <1>5 DEF FeedInv
      <3>2. task[d].pc # "ask" => Aged(task, 1)[d] = task[d]
        BY <3>1, AgedOK
      <3>3. task[d].pc = "ask" => \E k \in 0 .. MaxObs : Aged(task, 1)[d] = [task[d] EXCEPT !.since = k]
        BY <3>1, AgedOK
      <3> QED BY ONLY <3>1, <3>2, <3>3 DEF LeftOrAged
    <2>3. d \in Caller /\ high' \in Nat /\ high <= high'
      BY <1>2, <1>3
    <2> QED BY ONLY <1>3, <2>1, <2>2, <2>3, CallStays
  <1> QED BY <1>2, <1>5, <1>8, <1>9 DEF FeedInv, TasksOK

LEMMA TrustTasks ==
  ASSUME FeedInv, NEW c \in Caller, TrustStep(c)
  PROVE  TasksOK'
PROOF
  <1> DEFINE tr == TrustOf(task[c].sighting.peer)
  <1>1. CallOK(c) /\ task[c].pc = "ask"
    BY DEF FeedInv, TasksOK, TrustStep, MayAsk
  <1>2. /\ task' = [task EXCEPT ![c].pc = "answered", ![c].asked = now, ![c].trust = tr]
        /\ high' = high /\ calls' = calls
    BY DEF TrustStep
  <1>3. high \in Nat
    BY ClockNumbers DEF FeedInv
  <1>4. tr \in 0 .. Full
    <2>1. obs \in Seq(Observation)
      BY DEF FeedInv, IInv, BuffersOK
    <2> QED BY <2>1, EvidenceOK, ScorePositive, FullOK DEF TrustOf, Trust
  <1> HIDE DEF tr
  <1>5. DOMAIN task' = Caller /\ \A d \in Caller \ {c} : task'[d] = task[d]
    BY <1>2 DEF FeedInv, TasksOK
  <1>6. /\ DOMAIN task'[c] = DOMAIN Idle
        /\ task'[c].pc = "answered" /\ task'[c].at = task[c].at /\ task'[c].since = task[c].since
        /\ task'[c].trust = tr /\ task'[c].sighting = task[c].sighting
    BY <1>1, <1>2 DEF FeedInv, TasksOK, CallOK, Idle
  <1>7. CallOK(c)'
    BY <1>1, <1>2, <1>4, <1>6 DEF CallOK, Idle, IsKnown
  <1>8. \A d \in Caller \ {c} : CallOK(d)'
    BY <1>2, <1>3, <1>5, CallStays DEF FeedInv, TasksOK, LeftOrAged
  <1> QED BY <1>2, <1>5, <1>7, <1>8 DEF FeedInv, TasksOK

LEMMA FeedStepInv ==
  ASSUME FeedInv, [FeedNext]_feedVars
  PROVE  FeedInv'
PROOF
  <1>1. IInv' /\ high \in Nat /\ high' \in Nat /\ high <= high'
    BY FeedStepIsStep, StepIInv, HighRises, ClockNumbers DEF FeedInv
  <1>2. ASSUME UNCHANGED <<task, calls>>
        PROVE  TasksOK'
    BY <1>1, <1>2, CallStays DEF FeedInv, TasksOK, LeftOrAged
  <1>3. ASSUME UNCHANGED latest
        PROVE  TimesOK'
    BY <1>3 DEF FeedInv, TimesOK
  <1>4. CASE UNCHANGED feedVars
    BY <1>1, <1>2, <1>3, <1>4 DEF feedVars, FeedInv
  <1>5. ASSUME NEW c \in Caller, NEW s \in Sighting, NEW at \in 0 .. high,
               ApplyRecordObservation(c, s, at) \/ ApplyRecord(c, s, at)
        PROVE  FeedInv'
    <2>1. UNCHANGED latest
      BY <1>5 DEF ApplyRecordObservation, ApplyRecord, Start, cache
    <2> QED BY <1>1, <1>3, <1>5, <2>1, StartTasks DEF FeedInv
  <1>6. ASSUME NEW c \in Caller, StoreLatest(c)
        PROVE  FeedInv'
    BY <1>1, <1>6, StoreTasks DEF FeedInv
  <1>7. ASSUME NEW c \in Caller, RecordStep(c) \/ TrustStep(c)
        PROVE  FeedInv'
    <2>1. UNCHANGED latest
      BY <1>7 DEF RecordStep, TrustStep, cache
    <2> QED BY <1>1, <1>3, <1>7, <2>1, RecordTasks, TrustTasks DEF FeedInv
  <1>8. CASE ClearAggregator
    <2>1. UNCHANGED <<latest, calls>> /\ task' = Aged(task, MaxObs)
      BY <1>8 DEF ClearAggregator
    <2>2. DOMAIN task' = Caller
      BY <2>1 DEF Aged
    <2>3. \A c \in Caller : CallOK(c)'
      <3> TAKE c \in Caller
      <3>1. LeftOrAged(c)
        <4>1. TasksOK /\ MaxObs \in Nat
          BY Tunables DEF FeedInv
        <4>2. task[c].pc # "ask" => Aged(task, MaxObs)[c] = task[c]
          BY <4>1, AgedOK
        <4>3. task[c].pc = "ask" =>
                \E k \in 0 .. MaxObs : Aged(task, MaxObs)[c] = [task[c] EXCEPT !.since = k]
          BY <4>1, AgedOK
        <4> QED BY ONLY <2>1, <4>2, <4>3 DEF LeftOrAged
      <3>2. c \in Caller /\ CallOK(c) /\ high \in Nat /\ high' \in Nat /\ high <= high'
        BY <1>1 DEF FeedInv, TasksOK
      <3> QED BY ONLY <3>1, <3>2, CallStays
    <2> QED BY <1>1, <1>3, <2>1, <2>2, <2>3 DEF FeedInv, TasksOK
  <1>9. CASE ClearLatest
    BY <1>1, <1>2, <1>9 DEF ClearLatest, FeedInv, TimesOK
  <1>10. CASE Clock
    BY <1>1, <1>2, <1>3, <1>10 DEF Clock, cache, FeedInv
  <1> QED BY <1>4, <1>5, <1>6, <1>7, <1>8, <1>9, <1>10 DEF FeedNext

\* Whatever the goroutines do, the aggregator inside behaves as one on its own:
\* all that is proved of Aggregator holds beneath the handlers.
THEOREM FeedsImplementAggregator == FeedSpec => Spec
PROOF
  <1>1. FeedInit => Init
    BY DEF FeedInit
  <1>2. FeedInv /\ [FeedNext]_feedVars => [Next]_vars
    BY FeedStepIsStep DEF FeedInv
  <1> QED BY FeedInitInv, FeedStepInv, <1>1, <1>2, PTL DEF FeedSpec, Spec

\* Type correctness of the handlers, the cache and the aggregator.
THEOREM FeedTypeCorrect == FeedSpec => []FeedTypeOK
PROOF
  <1>1. FeedInv => \A c \in Caller : /\ task[c].pc \in {"idle", "store", "record", "ask", "answered"}
                                     /\ task[c].at \in 0 .. MaxTime
                                     /\ task[c].since \in 0 .. MaxObs
                                     /\ task[c].trust \in 0 .. Full
                                     /\ task[c].pc # "idle" => IsKnown(task[c].sighting.vector)
    <2> SUFFICES ASSUME FeedInv, NEW c \in Caller
                 PROVE  /\ CallOK(c)
                        /\ task[c].at \in 0 .. MaxTime
      BY DEF CallOK
    <2>1. CallOK(c)
      BY DEF FeedInv, TasksOK
    <2>2. task[c].at \in 0 .. high
      BY <2>1 DEF CallOK
    <2> QED BY <2>1, <2>2, ClockNumbers DEF FeedInv
  <1>2. FeedInv => TimesOK /\ calls \in 0 .. MaxCalls
    BY DEF FeedInv, TasksOK
  <1>3. FeedSpec => []FeedInv
    BY FeedInitInv, FeedStepInv, PTL DEF FeedSpec
  <1>4. TypeOK /\ FeedInv => FeedTypeOK
    BY <1>1, <1>2 DEF FeedTypeOK, TimesOK
  <1> QED BY <1>3, <1>4, FeedsImplementAggregator, TypeCorrect, PTL

------------------------------------------------------------------------------
(***************************************************************************)
(* Why a handler may answer that it recorded, and that trust is 0.           *)
(***************************************************************************)

\* What a call recorded is still where it was put, one place further from the
\* end for each record since.
PlacedAt(c) ==
  task[c].pc = "ask" =>
    \/ task[c].since = MaxObs
    \/ /\ task[c].since < Len(recent)
       /\ recent[Len(recent) - task[c].since].peer = task[c].sighting.peer
       /\ recent[Len(recent) - task[c].since].at = task[c].at

Explained(c) ==
  (task[c].pc = "answered" /\ task[c].trust = 0) =>
    task[c].at < task[c].asked - Window \/ task[c].since = MaxObs

PlacedInv == \A c \in Caller : PlacedAt(c) /\ Explained(c)

\* What Record does to the memory of the last MaxObs observations.
LEMMA RecentAfterRecord ==
  ASSUME IInv, NEW s \in Sighting, NEW at \in 0 .. high, Record(s, at)
  PROVE  \E t \in {0, 1} :
           /\ Len(recent') = Len(recent) + 1 - t
           /\ Len(recent) \in Nat /\ Len(recent') >= 1 /\ Len(recent') <= MaxObs
           /\ t = 1 => Len(recent) = MaxObs
           /\ \A j \in 1 .. Len(recent) : j - t >= 1 => recent'[j - t] = recent[j]
           /\ recent'[Len(recent')] = Observed(s, at)
PROOF
  <1> DEFINE o == Observed(s, at)
             R == Append(recent, o)
             n == Len(recent)
  <1>1. o \in Observation /\ recent' = Remember(recent, o)
    BY ObservedOK DEF IInv, Record
  <1>2. recent \in Seq(Observation) /\ n \in Nat
    BY DEF IInv, BuffersOK
  <1> HIDE DEF o
  <1>3. PICK t \in {0, 1} :
           /\ recent' \in Seq(Observation)
           /\ Len(recent') = n + 1 - t
           /\ n + 1 - t <= MaxObs
           /\ t = 1 => n = MaxObs
           /\ \A j \in 1 .. n + 1 - t : recent'[j] = R[j + t]
    BY <1>1, RememberOK DEF IInv
  <1>4. R[n + 1] = o /\ \A j \in 1 .. n : R[j] = recent[j]
    BY <1>1, <1>2
  <1> HIDE DEF R, n
  <1>5. Len(recent') >= 1
    BY <1>2, <1>3, Tunables
  <1>6. recent'[Len(recent')] = o
    <2>1. n + 1 - t \in 1 .. n + 1 - t /\ (n + 1 - t) + t = n + 1
      BY <1>2, <1>3, <1>5
    <2> QED BY <1>3, <1>4, <2>1
  <1>7. ASSUME NEW j \in 1 .. n, j - t >= 1
        PROVE  recent'[j - t] = recent[j]
    <2>1. j - t \in 1 .. n + 1 - t /\ (j - t) + t = j
      BY <1>2, <1>3, <1>7
    <2> QED BY <1>3, <1>4, <2>1
  <1>8. /\ Len(recent') = n + 1 - t
        /\ n \in Nat /\ Len(recent') >= 1 /\ Len(recent') <= MaxObs
        /\ t = 1 => n = MaxObs
    BY <1>2, <1>3, <1>5
  <1> QED BY <1>3, <1>6, <1>7, <1>8 DEF n, o

LEMMA PlacedUntouched ==
  ASSUME NEW c \in Caller, PlacedAt(c), Explained(c), task'[c] = task[c], recent' = recent
  PROVE  PlacedAt(c)' /\ Explained(c)'
PROOF BY DEF PlacedAt, Explained

\* The record of another call moves what this one recorded by one place.
LEMMA PlacedAged ==
  ASSUME FeedInv, NEW s \in Sighting, NEW at \in 0 .. high, Record(s, at),
         NEW c \in Caller, PlacedAt(c), task[c].pc = "ask", task'[c] = Aged(task, 1)[c]
  PROVE  PlacedAt(c)' /\ Explained(c)'
PROOF
  <1>1. IInv /\ TasksOK /\ CallOK(c)
    BY DEF FeedInv, TasksOK
  <1>2. PICK k \in 0 .. MaxObs :
          /\ k = IF MaxObs <= task[c].since + 1 THEN MaxObs ELSE task[c].since + 1
          /\ task'[c] = [task[c] EXCEPT !.since = k]
    <2>1. \E k \in 0 .. MaxObs :
            /\ k = IF MaxObs <= task[c].since + 1 THEN MaxObs ELSE task[c].since + 1
            /\ Aged(task, 1)[c] = [task[c] EXCEPT !.since = k]
      BY <1>1, AgedOK
    <2> QED BY <2>1
  <1>3. /\ task'[c].pc = "ask" /\ task'[c].since = k
        /\ task'[c].sighting = task[c].sighting /\ task'[c].at = task[c].at
    BY <1>1, <1>2 DEF CallOK, Idle
  <1>4. CASE k = MaxObs
    BY <1>3, <1>4 DEF PlacedAt, Explained
  <1>5. CASE k # MaxObs
    <2> DEFINE n == Len(recent)
               since == task[c].since
    <2>1. since \in Nat /\ k = since + 1 /\ k < MaxObs
      BY <1>1, <1>2, <1>5, Tunables DEF CallOK
    <2>2. /\ since < n
          /\ recent[n - since].peer = task[c].sighting.peer
          /\ recent[n - since].at = task[c].at
      BY <2>1, Tunables DEF PlacedAt
    <2>3. PICK t \in {0, 1} :
           /\ Len(recent') = n + 1 - t
           /\ n \in Nat
           /\ t = 1 => n = MaxObs
           /\ \A j \in 1 .. n : j - t >= 1 => recent'[j - t] = recent[j]
      BY <1>1, RecentAfterRecord
    <2> HIDE DEF n, since
    <2>4. n - since \in 1 .. n /\ (n - since) - t >= 1
      <3>1. n \in Nat /\ since \in Nat /\ since < n /\ since + 1 < MaxObs /\ MaxObs \in Nat
        BY <2>1, <2>2, <2>3, Tunables
      <3>2. t = 0 \/ (t = 1 /\ n = MaxObs)
        BY <2>3
      <3> QED BY ONLY <3>1, <3>2
    <2>5. recent'[(n - since) - t] = recent[n - since]
      BY <2>3, <2>4
    <2>6. (n - since) - t = Len(recent') - k /\ k < Len(recent')
      <3>1. n \in Nat /\ since \in Nat /\ k = since + 1 /\ t \in Int
        BY <2>1, <2>3
      <3>2. Len(recent') = n + 1 - t
        BY <2>3
      <3> QED BY ONLY <2>4, <3>1, <3>2
    <2>7. /\ task'[c].since < Len(recent')
          /\ recent'[Len(recent') - task'[c].since].peer = task'[c].sighting.peer
          /\ recent'[Len(recent') - task'[c].since].at = task'[c].at
      BY <1>3, <2>2, <2>5, <2>6
    <2> QED BY <1>3, <2>7 DEF PlacedAt, Explained
  <1> QED BY <1>4, <1>5

\* Whoever asks with its observation in the window still in the memory is not
\* answered with 0.
LEMMA TrustExplained ==
  ASSUME FeedInv, NEW c \in Caller, TrustStep(c), PlacedAt(c)
  PROVE  PlacedAt(c)' /\ Explained(c)'
PROOF
  <1> DEFINE peer == task[c].sighting.peer
             tr == TrustOf(peer)
  <1>1. IInv /\ CallOK(c) /\ task[c].pc = "ask"
    BY DEF FeedInv, TasksOK, TrustStep, MayAsk
  <1>2. /\ task' = [task EXCEPT ![c].pc = "answered", ![c].asked = now, ![c].trust = tr]
    BY DEF TrustStep
  <1>3. /\ task'[c].pc = "answered" /\ task'[c].asked = now /\ task'[c].trust = tr
        /\ task'[c].since = task[c].since /\ task'[c].at = task[c].at
    BY <1>1, <1>2 DEF FeedInv, TasksOK, CallOK, Idle
  <1>4. obs \in Seq(Observation) /\ recent \in Seq(Observation)
    BY <1>1 DEF IInv, BuffersOK
  <1>5. ASSUME task[c].since # MaxObs, ~(task[c].at < now - Window)
        PROVE  tr # 0
    <2> DEFINE k == Len(recent) - task[c].since
    <2>1. /\ task[c].since < Len(recent)
          /\ recent[k].peer = peer /\ recent[k].at = task[c].at
      BY <1>1, <1>5 DEF PlacedAt
    <2>2. task[c].since \in Nat /\ task[c].at \in Int
      BY <1>1, ClockNumbers DEF CallOK
    <2>3. k \in 1 .. Len(recent)
      BY <1>4, <2>1, <2>2
    <2>4. recent[k].at >= now - Window
      BY <1>1, <1>5, <2>1, <2>2, ClockNumbers, Tunables
    <2> HIDE DEF k
    <2>5. recent[k] \in Evidence(recent, peer)
      BY <1>4, <2>1, <2>3, <2>4, EvidenceOK
    <2>6. Evidence(obs, peer) # {}
      BY <1>1, <2>5, SameEvidence
    <2>7. peer # NoPeer
      BY <1>1 DEF CallOK
    <2>8. tr = Score(Evidence(obs, peer))
      BY <2>7 DEF TrustOf, Trust
    <2> QED BY <1>4, <2>6, <2>8, EvidenceOK, ScorePositive, FullOK
  <1> HIDE DEF tr
  <1> QED BY <1>3, <1>5 DEF PlacedAt, Explained

LEMMA PlacedStep ==
  ASSUME FeedInv, PlacedInv, [FeedNext]_feedVars
  PROVE  PlacedInv'
PROOF
  <1> SUFFICES ASSUME NEW c \in Caller
               PROVE  PlacedAt(c)' /\ Explained(c)'
    BY DEF PlacedInv
  <1>1. PlacedAt(c) /\ Explained(c) /\ IInv /\ TasksOK
    BY DEF PlacedInv, FeedInv
  <1>2. CASE UNCHANGED feedVars \/ ClearLatest \/ Clock
    <2>1. task' = task /\ recent' = recent
      BY <1>2 DEF feedVars, ClearLatest, Clock, Tick, StepBack
    <2> QED BY <1>1, <2>1, PlacedUntouched
  <1>3. ASSUME NEW d \in Caller, NEW s \in Sighting, NEW at \in 0 .. high,
               ApplyRecordObservation(d, s, at) \/ ApplyRecord(d, s, at)
        PROVE  PlacedAt(c)' /\ Explained(c)'
    <2>1. PICK pc \in {"record", "store"} :
            task' = [task EXCEPT ![d] = [Idle EXCEPT !.pc = pc, !.sighting = s, !.at = at]]
      BY <1>3 DEF ApplyRecordObservation, ApplyRecord, Start
    <2>2. recent' = recent
      BY <1>3 DEF ApplyRecordObservation, ApplyRecord, Start
    <2>3. CASE c = d
      <3>1. task'[c].pc = pc
        BY <1>1, <2>1, <2>3 DEF TasksOK, Idle
      <3> QED BY <3>1 DEF PlacedAt, Explained
    <2>4. CASE c # d
      <3>1. task'[c] = task[c]
        BY <1>1, <2>1, <2>4 DEF TasksOK
      <3> QED BY <1>1, <2>2, <3>1, PlacedUntouched
    <2> QED BY <2>3, <2>4
  <1>4. ASSUME NEW d \in Caller, StoreLatest(d)
        PROVE  PlacedAt(c)' /\ Explained(c)'
    <2>1. task' = [task EXCEPT ![d].pc = "record"] /\ recent' = recent
      BY <1>4 DEF StoreLatest
    <2>2. CASE c = d
      <3>1. task'[c].pc = "record"
        BY <1>1, <2>1, <2>2 DEF TasksOK, CallOK, Idle
      <3> QED BY <3>1 DEF PlacedAt, Explained
    <2>3. CASE c # d
      <3>1. task'[c] = task[c]
        BY <1>1, <2>1, <2>3 DEF TasksOK
      <3> QED BY <1>1, <2>1, <3>1, PlacedUntouched
    <2> QED BY <2>2, <2>3
  <1>5. ASSUME NEW d \in Caller, RecordStep(d)
        PROVE  PlacedAt(c)' /\ Explained(c)'
    <2> DEFINE s == task[d].sighting
               at == task[d].at
    <2>1. Record(s, at) /\ s \in Sighting /\ at \in 0 .. high
      BY <1>1, <1>5 DEF RecordStep, TasksOK, CallOK
    <2>2. task' = [Aged(task, 1) EXCEPT
                     ![d] = [task[d] EXCEPT !.pc = "ask", !.since = 0, !.at = Observed(s, at).at]]
      BY <1>5 DEF RecordStep
    <2>3. DOMAIN Aged(task, 1) = Caller
      BY <1>1, AgedOK
    <2>4. CASE c = d
      <3>1. DOMAIN task[c] = DOMAIN Idle
        BY <1>1 DEF TasksOK, CallOK
      <3>2. task'[c] = [task[d] EXCEPT !.pc = "ask", !.since = 0, !.at = Observed(s, at).at]
        BY <2>2, <2>3, <2>4
      <3>3. /\ task'[c].pc = "ask" /\ task'[c].since = 0
            /\ task'[c].sighting = s /\ task'[c].at = Observed(s, at).at
        BY <2>4, <3>1, <3>2 DEF Idle
      <3>4. recent'[Len(recent')] = Observed(s, at) /\ Len(recent') \in Nat /\ Len(recent') >= 1
        BY <1>1, <2>1, RecentAfterRecord
      <3>5. Observed(s, at).peer = s.peer
        BY DEF Observed
      <3>6. Len(recent') - 0 = Len(recent')
        BY <3>4
      <3> QED BY <3>3, <3>4, <3>5, <3>6 DEF PlacedAt, Explained
    <2>5. CASE c # d
      <3>1. task'[c] = Aged(task, 1)[c]
        BY <2>2, <2>3, <2>5
      <3>2. CASE task[c].pc = "ask"
        BY <1>1, <2>1, <3>1, <3>2, PlacedAged
      <3>3. CASE task[c].pc # "ask"
        <4>1. task'[c] = task[c]
          BY <1>1, <3>1, <3>3, AgedOK
        <4> QED BY <1>1, <3>3, <4>1 DEF PlacedAt, Explained
      <3> QED BY <3>2, <3>3
    <2> QED BY <2>4, <2>5
  <1>6. ASSUME NEW d \in Caller, TrustStep(d)
        PROVE  PlacedAt(c)' /\ Explained(c)'
    <2>1. CASE c = d
      BY <1>1, <1>6, <2>1, TrustExplained
    <2>2. CASE c # d
      <3>1. task'[c] = task[c] /\ recent' = recent
        BY <1>1, <1>6, <2>2 DEF TrustStep, TasksOK
      <3> QED BY <1>1, <3>1, PlacedUntouched
    <2> QED BY <2>1, <2>2
  <1>7. CASE ClearAggregator
    <2>1. task' = Aged(task, MaxObs)
      BY <1>7 DEF ClearAggregator
    <2>2. CASE task[c].pc = "ask"
      <3>1. task[c].since \in Nat /\ DOMAIN task[c] = DOMAIN Idle
        BY <1>1 DEF TasksOK, CallOK
      <3>2. PICK k \in 0 .. MaxObs :
              /\ k = IF MaxObs <= task[c].since + MaxObs THEN MaxObs ELSE task[c].since + MaxObs
              /\ task'[c] = [task[c] EXCEPT !.since = k]
        BY <1>1, <2>1, <2>2, AgedOK, Tunables
      <3>3. k = MaxObs
        BY <3>1, <3>2, Tunables
      <3>4. task'[c].pc = "ask" /\ task'[c].since = MaxObs
        BY <2>2, <3>1, <3>2, <3>3 DEF Idle
      <3> QED BY <3>4 DEF PlacedAt, Explained
    <2>3. CASE task[c].pc # "ask"
      <3>1. task'[c] = task[c]
        BY <1>1, <2>1, <2>3, AgedOK, Tunables
      <3> QED BY <1>1, <2>3, <3>1 DEF PlacedAt, Explained
    <2> QED BY <2>2, <2>3
  <1> QED BY <1>2, <1>3, <1>4, <1>5, <1>6, <1>7 DEF FeedNext

\* A handler that answers "recorded, trust 0" has a reason outside itself, for
\* any number of goroutines and whatever they do between its two locks.
THEOREM ZeroTrustExplainedHolds == FeedSpec => []ZeroTrustExplained
PROOF
  <1>1. FeedInit => PlacedInv
    BY DEF FeedInit, PlacedInv, PlacedAt, Explained, Idle
  <1>2. PlacedInv => ZeroTrustExplained
    BY DEF PlacedInv, Explained, ZeroTrustExplained
  <1> QED BY FeedInitInv, FeedStepInv, PlacedStep, <1>1, <1>2, PTL DEF FeedSpec

------------------------------------------------------------------------------
(***************************************************************************)
(* What the compass shows is backed by the score.                            *)
(***************************************************************************)

\* The observation that the cached sample of p stands for.
Sample(p) == [vector |-> "uwb", peer |-> p, reading |-> latest[p].reading, at |-> latest[p].at]

\* A handler has stored the sample and will record it.
OnItsWay(c, p) ==
  /\ task[c].pc = "record"
  /\ task[c].sighting.vector = "uwb"
  /\ task[c].sighting.peer = p
  /\ task[c].sighting.reading = latest[p].reading
  /\ task[c].at = latest[p].at

BackedBy(p) ==
  (latest[p] # None /\ latest[p].at # 0 /\ p \notin orphans) =>
    \/ \E c \in Caller : OnItsWay(c, p)
    \/ Len(recent) = MaxObs
    \/ \E k \in 1 .. Len(recent) : recent[k] = Sample(p)

BackedInv == \A p \in Peer : BackedBy(p)

\* No step but its own record takes a sample off its way.
LEMMA BackedUntouched ==
  ASSUME NEW p \in Peer, BackedBy(p), recent' = recent, latest'[p] = latest[p],
         p \in orphans => p \in orphans',
         \A c \in Caller : task[c].pc = "record" => task'[c] = task[c]
  PROVE  BackedBy(p)'
PROOF
  <1>1. \A c \in Caller : OnItsWay(c, p) => OnItsWay(c, p)'
    BY DEF OnItsWay
  <1>2. Sample(p)' = Sample(p)
    BY DEF Sample
  <1> QED BY <1>1, <1>2 DEF BackedBy

LEMMA BackedStore ==
  ASSUME FeedInv, NEW c \in Caller, StoreLatest(c), NEW p \in Peer, BackedBy(p)
  PROVE  BackedBy(p)'
PROOF
  <1> DEFINE peer == task[c].sighting.peer
             at == task[c].at
             reading == task[c].sighting.reading
  <1>1. /\ task[c].pc = "store" /\ CallOK(c) /\ TasksOK /\ DOMAIN latest = Peer
        /\ task' = [task EXCEPT ![c].pc = "record"] /\ recent' = recent
    BY DEF FeedInv, TasksOK, TimesOK, StoreLatest
  <1>2. /\ task'[c].pc = "record" /\ task'[c].sighting = task[c].sighting /\ task'[c].at = at
        /\ \A d \in Caller : task[d].pc = "record" => task'[d] = task[d]
    BY <1>1 DEF TasksOK, CallOK, Idle
  <1>3. \/ latest' = [latest EXCEPT ![peer] = [at |-> at, reading |-> reading,
                                               sure |-> task[c].sighting.sure]]
           /\ orphans' = orphans \ {peer}
        \/ latest' = latest /\ orphans' = orphans
    BY DEF StoreLatest
  <1>4. CASE p = peer /\ latest'[p] # latest[p]
    <2>1. latest'[p].reading = reading /\ latest'[p].at = at
      BY <1>1, <1>3, <1>4
    <2>2. OnItsWay(c, p)'
      BY <1>1, <1>2, <1>4, <2>1 DEF OnItsWay, CallOK
    <2> QED BY <2>2 DEF BackedBy
  <1>5. CASE p # peer
    <2>1. latest'[p] = latest[p] /\ (p \in orphans => p \in orphans')
      BY <1>1, <1>3, <1>5
    <2> QED BY <1>1, <1>2, <2>1, BackedUntouched
  <1>6. CASE p = peer /\ latest'[p] = latest[p] /\ orphans' = orphans
    BY <1>1, <1>2, <1>6, BackedUntouched
  <1>7. CASE p = peer /\ latest'[p] = latest[p] /\ orphans' # orphans
    <2>1. latest'[p].reading = reading /\ latest'[p].at = at
      BY <1>1, <1>3, <1>7
    <2>2. OnItsWay(c, p)'
      BY <1>1, <1>2, <1>7, <2>1 DEF OnItsWay, CallOK
    <2> QED BY <2>2 DEF BackedBy
  <1> QED BY <1>4, <1>5, <1>6, <1>7

\* A record puts its own sample at the end of the memory, and pushes another
\* one out only when the memory is full.
LEMMA BackedRecord ==
  ASSUME FeedInv, NEW c \in Caller, RecordStep(c), NEW p \in Peer, BackedBy(p)
  PROVE  BackedBy(p)'
PROOF
  <1> DEFINE s == task[c].sighting
             at == task[c].at
             n == Len(recent)
  <1>1. /\ task[c].pc = "record" /\ IInv /\ TasksOK
        /\ Record(s, at) /\ s \in Sighting /\ at \in 0 .. high
        /\ latest' = latest /\ orphans' = orphans
    BY DEF FeedInv, RecordStep, TasksOK, CallOK, cache
  <1>2. task' = [Aged(task, 1) EXCEPT
                   ![c] = [task[c] EXCEPT !.pc = "ask", !.since = 0, !.at = Observed(s, at).at]]
    BY DEF RecordStep
  <1>3. ASSUME NEW d \in Caller \ {c}, task[d].pc = "record"
        PROVE  task'[d] = task[d]
    <2>1. Aged(task, 1)[d] = task[d] /\ DOMAIN Aged(task, 1) = Caller
      BY <1>1, <1>3, AgedOK
    <2> QED BY <1>2, <2>1
  <1>4. PICK t \in {0, 1} :
          /\ Len(recent') = n + 1 - t
          /\ n \in Nat /\ Len(recent') >= 1 /\ Len(recent') <= MaxObs
          /\ t = 1 => n = MaxObs
          /\ \A j \in 1 .. n : j - t >= 1 => recent'[j - t] = recent[j]
          /\ recent'[Len(recent')] = Observed(s, at)
    BY <1>1, RecentAfterRecord
  <1>5. Sample(p)' = Sample(p)
    BY <1>1 DEF Sample
  <1> SUFFICES ASSUME latest[p] # None, latest[p].at # 0, p \notin orphans
               PROVE  \/ \E d \in Caller : OnItsWay(d, p)'
                      \/ Len(recent') = MaxObs
                      \/ \E k \in 1 .. Len(recent') : recent'[k] = Sample(p)
    BY <1>1, <1>5 DEF BackedBy
  <1>6. CASE OnItsWay(c, p)
    <2>1. Observed(s, at) = Sample(p)
      BY <1>6 DEF OnItsWay, Observed, Sample
    <2>2. Len(recent') \in 1 .. Len(recent')
      BY <1>4
    <2> QED BY <1>4, <2>1, <2>2
  <1>7. ASSUME NEW d \in Caller \ {c}, OnItsWay(d, p)
        PROVE  OnItsWay(d, p)'
    BY <1>1, <1>3, <1>7 DEF OnItsWay
  <1>8. CASE n = MaxObs
    <2>1. t = 1
      BY <1>4, <1>8, Tunables
    <2> QED BY <1>4, <1>8, <2>1, Tunables
  <1>9. ASSUME n # MaxObs, NEW k \in 1 .. n, recent[k] = Sample(p)
        PROVE  \E j \in 1 .. Len(recent') : recent'[j] = Sample(p)
    <2>1. t = 0
      BY <1>4, <1>9
    <2>2. k \in 1 .. Len(recent') /\ k - t = k /\ k - t >= 1
      BY <1>4, <2>1
    <2> QED BY <1>4, <1>9, <2>2
  <1> HIDE DEF n
  <1>10. \/ \E d \in Caller : OnItsWay(d, p)
         \/ n = MaxObs
         \/ \E k \in 1 .. n : recent[k] = Sample(p)
    BY DEF BackedBy, n
  <1> QED BY <1>6, <1>7, <1>8, <1>9, <1>10

LEMMA BackedStep ==
  ASSUME FeedInv, BackedInv, [FeedNext]_feedVars
  PROVE  BackedInv'
PROOF
  <1> SUFFICES ASSUME NEW p \in Peer
               PROVE  BackedBy(p)'
    BY DEF BackedInv, Peer
  <1>1. BackedBy(p) /\ TasksOK
    BY DEF BackedInv, FeedInv
  <1>2. CASE UNCHANGED feedVars \/ Clock
    <2>1. task' = task /\ recent' = recent /\ latest' = latest /\ orphans' = orphans
      BY <1>2 DEF feedVars, Clock, Tick, StepBack, cache
    <2> QED BY <1>1, <2>1, BackedUntouched
  <1>3. ASSUME NEW d \in Caller, NEW s \in Sighting, NEW at \in 0 .. high,
               ApplyRecordObservation(d, s, at) \/ ApplyRecord(d, s, at)
        PROVE  BackedBy(p)'
    <2>1. \E x : task' = [task EXCEPT ![d] = x]
      BY <1>3 DEF ApplyRecordObservation, ApplyRecord, Start
    <2>2. recent' = recent /\ latest' = latest /\ orphans' = orphans /\ task[d].pc # "record"
      BY <1>3 DEF ApplyRecordObservation, ApplyRecord, Start, cache
    <2>3. \A c \in Caller : task[c].pc = "record" => task'[c] = task[c]
      BY <1>1, <2>1, <2>2 DEF TasksOK
    <2> QED BY <1>1, <2>2, <2>3, BackedUntouched
  <1>4. ASSUME NEW d \in Caller, StoreLatest(d)
        PROVE  BackedBy(p)'
    BY <1>1, <1>4, BackedStore
  <1>5. ASSUME NEW d \in Caller, RecordStep(d)
        PROVE  BackedBy(p)'
    BY <1>1, <1>5, BackedRecord
  <1>6. ASSUME NEW d \in Caller, TrustStep(d)
        PROVE  BackedBy(p)'
    <2>1. recent' = recent /\ latest' = latest /\ orphans' = orphans /\ task[d].pc = "ask"
      BY <1>6 DEF TrustStep, MayAsk, cache
    <2>2. \A c \in Caller : task[c].pc = "record" => task'[c] = task[c]
      BY <1>1, <1>6, <2>1 DEF TrustStep, TasksOK
    <2> QED BY <1>1, <2>1, <2>2, BackedUntouched
  <1>7. CASE ClearAggregator
    BY <1>7 DEF ClearAggregator, BackedBy
  <1>8. CASE ClearLatest
    BY <1>8 DEF ClearLatest, BackedBy
  <1> QED BY <1>2, <1>3, <1>4, <1>5, <1>6, <1>7, <1>8 DEF FeedNext

\* A verdict never claims more than the quality of its distance.
LEMMA VerdictModest ==
  ASSUME NEW o, o.reading \in Int
  PROVE  /\ Floor[Classify(o)] \in Nat /\ DistanceFactor(o.reading) \in Nat
         /\ Floor[Classify(o)] <= DistanceFactor(o.reading)
         /\ Floor[Classify(o)] <= 100
PROOF
  <1> DEFINE r == o.reading
             n == CASE r \in 1 .. 10 -> 1
                    [] r \in 11 .. 30 -> 2
                    [] r \in 31 .. 100 -> 3
                    [] OTHER -> 4
             m == IF o.sure THEN n ELSE Degrade(n)
  <1>1. /\ n \in {1, 2, 3, 4}
        /\ n = 1 => 1 <= r /\ r <= 10
        /\ n = 2 => 11 <= r /\ r <= 30
        /\ n = 3 => 31 <= r /\ r <= 100
    OBVIOUS
  <1>2. Classify(o) = Tiers[m]
    BY DEF Classify
  <1> HIDE DEF n
  <1>3. Degrade(n) = IF 4 <= n + 1 THEN 4 ELSE n + 1
    <2>1. n + 1 \in Nat
      BY <1>1
    <2> QED BY <1>1, <2>1, MinOfTwo DEF Degrade
  <1>4. m \in {1, 2, 3, 4} /\ n <= m
    BY <1>1, <1>3
  <1> HIDE DEF m
  <1>5. /\ m = 1 => Floor[Tiers[m]] = 100
        /\ m = 2 => Floor[Tiers[m]] = 90
        /\ m = 3 => Floor[Tiers[m]] = 70
        /\ m = 4 => Floor[Tiers[m]] = 40
    BY DEF Tiers, Floor
  <1>6. /\ DistanceFactor(r) \in {50, 100, 90, 70, 40}
        /\ 1 <= r /\ r <= 10 => DistanceFactor(r) = 100
        /\ 11 <= r /\ r <= 30 => DistanceFactor(r) = 90
        /\ 31 <= r /\ r <= 100 => DistanceFactor(r) \in {90, 70}
    BY DEF DistanceFactor
  <1> HIDE DEF r
  <1> QED BY <1>1, <1>2, <1>4, <1>5, <1>6 DEF r

\* One observation of UWB lends its peer at least half of its own quality.
LEMMA UwbLends ==
  ASSUME NEW e \in SUBSET Observation, NEW o \in e, o.vector = "uwb"
  PROVE  Score(e) = Full \/ Score(e) >= 60 * (95 * DistanceFactor(o.reading))
PROOF
  <1> DEFINE n == Cardinality({x.vector : x \in e})
             d == DistanceFactor(o.reading)
  <1>1. n \in Nat /\ n <= 6 /\ n # 0
    BY VectorsSeen
  <1>2. Score(e) = Boosted(Sum(e), n)
    BY <1>1 DEF Score
  <1> HIDE DEF n
  <1>3. Sum(e) \in Nat /\ Sum(e) >= 95 * d
    <2>1. \A v : Best(e, v) \in Nat
      BY BestOK
    <2>2. Best(e, "uwb") >= Quality(o)
      BY BestOK
    <2>3. Quality(o) = 95 * d /\ 95 * d \in Nat
      <3>1. Quality(o) = Weight["uwb"] * d
        BY DEF Quality
      <3>2. o.reading \in Int
        BY SightingAssumption DEF Observation
      <3>3. d \in Nat
        BY <3>2 DEF DistanceFactor
      <3> QED BY <3>1, <3>3 DEF Weight
    <2> HIDE DEF d
    <2> QED BY <2>1, <2>2, <2>3 DEF Sum
  <1>4. d \in Nat
    <2>1. o.reading \in Int
      BY SightingAssumption DEF Observation
    <2> QED BY <2>1 DEF DistanceFactor
  <1> HIDE DEF d
  <1>5. Boosted(Sum(e), n) = Full \/ Boosted(Sum(e), n) >= 60 * Sum(e)
    <2>1. 1 <= n /\ Sum(e) <= Sum(e)
      BY <1>1, <1>3
    <2> QED BY <1>1, <1>3, <2>1, BoostedOK
  <1>6. Boosted(Sum(e), n) \in Nat
    <2>1. Boosted(Sum(e), n) \in 0 .. Full
      BY <1>2, ScorePositive
    <2> QED BY <2>1, FullOK
  <1> QED BY <1>2, <1>3, <1>4, <1>5, <1>6 DEF d

\* The compass and the score agree for any sightings, clock and goroutines.
THEOREM CompassBackedHolds == FeedSpec => []CompassBacked
PROOF
  <1>1. FeedInit => BackedInv
    BY DEF FeedInit, BackedInv, BackedBy
  <1>2. FeedInv /\ BackedInv => CompassBacked
    <2> SUFFICES ASSUME FeedInv, BackedInv, NEW p \in Peer,
                        latest[p] # None, latest[p].at # 0, latest[p].at >= now - Window,
                        ~InFlight(p), p \notin orphans, ~Evicted(p)
                 PROVE  2 * TrustOf(p) >= Floor[Classify(latest[p])] * Weight["uwb"] * 120
      BY DEF CompassBacked, ApplyLatest
    <2>1. IInv /\ obs \in Seq(Observation) /\ recent \in Seq(Observation)
      BY DEF FeedInv, IInv, BuffersOK
    <2>2. PICK k \in 1 .. Len(recent) : recent[k] = Sample(p)
      <3>1. BackedBy(p) /\ DOMAIN recent = 1 .. Len(recent)
        BY <2>1 DEF BackedInv
      <3> QED BY <3>1 DEF BackedBy, InFlight, OnItsWay, Evicted, Sample
    <2> DEFINE o == recent[k]
               e == Evidence(obs, p)
               f == Floor[Classify(latest[p])]
               d == DistanceFactor(o.reading)
    <2>3. o.vector = "uwb" /\ o.peer = p /\ o.at = latest[p].at /\ o.reading = latest[p].reading
      BY <2>2 DEF Sample
    <2>4. o \in e
      <3>1. o \in Evidence(recent, p)
        BY <2>1, <2>3, EvidenceOK
      <3> QED BY <2>1, <3>1, SameEvidence
    <2>5. e \in SUBSET Observation
      BY <2>1, EvidenceOK
    <2>6. p # NoPeer /\ TrustOf(p) = Score(e)
      BY DEF Peer, TrustOf, Trust
    <2>7. Score(e) = Full \/ Score(e) >= 60 * (95 * d)
      BY <2>3, <2>4, <2>5, UwbLends
    <2>8. o.reading \in Int
      BY <2>4, <2>5, SightingAssumption DEF Observation
    <2>9. f \in Nat /\ d \in Nat /\ f <= d /\ f <= 100
      BY <2>3, <2>8, VerdictModest
    <2>10. Score(e) \in Nat
      BY <2>5, ScorePositive, FullOK
    <2>11. Weight["uwb"] = 95
      BY DEF Weight
    <2>12. Full = 1200000
      BY DEF Full
    <2> HIDE DEF o, e, f, d
    <2>13. 2 * Score(e) >= f * 95 * 120
      BY <2>7, <2>9, <2>10, <2>12
    <2> QED BY <2>6, <2>11, <2>13 DEF f
  <1> QED BY FeedInitInv, FeedStepInv, BackedStep, <1>1, <1>2, PTL DEF FeedSpec

==============================================================================
