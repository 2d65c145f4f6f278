------------------------------ MODULE Aggregator ------------------------------
(***************************************************************************)
(* The cross-vector trust aggregator of src/go/transport/aggregator.go.  One  *)
(* mutex guards it, so Record and Clear are one step each; TrustOf, View and  *)
(* AllPeers read only and are operators.  Times are milliseconds of the wall  *)
(* clock, which may be set back; a platform plugin delivers observations      *)
(* late and in any order, with the time at which they were made.              *)
(***************************************************************************)
EXTENDS Integers, Sequences, FiniteSets, FiniteSetsExt

CONSTANTS
  Sighting,   \* what a plugin can report: [vector, peer, reading]
  NoPeer,     \* the empty peer id
  TTL,        \* ObsTTLMs
  Window,     \* CrossVectorWindowMs
  MaxObs,     \* MaxObs
  Skew,       \* how far the wall clock may ever be set back
  MaxTime     \* bound: the highest time the clock is taken to

Time == 1 .. MaxTime

ASSUME TunablesAssumption ==
  /\ {TTL, Window, Skew} \subseteq Nat
  /\ MaxObs \in Nat \ {0}
  /\ MaxTime \in Nat \ {0}

\* Distances, RSSI and signal qualities are integers.
ASSUME SightingAssumption == \A s \in Sighting : s.reading \in Int

\* The defaults keep observations ten times as long as they count.
ASSUME WindowAssumption == Window + Skew <= TTL

VARIABLES
  obs,      \* the kept observations, in the order of their arrival
  now,      \* what NowFunc() returns
  high,     \* history: the highest time NowFunc() has returned
  recent    \* history: the last MaxObs observations recorded since Clear

vars == <<obs, now, high, recent>>

(***************************************************************************)
(* VectorID.                                                                 *)
(***************************************************************************)
Weight == [nfc |-> 100, uwb |-> 95, vlc |-> 85, sonic |-> 80, wifi_p2p |-> 55, ble |-> 40]

Vector == DOMAIN Weight

IsKnown(v) == v \in Vector

(***************************************************************************)
(* observationQuality, in hundredths of the weight: 1.0 is 10000.  A reading  *)
(* is a distance in decimetres (UWB), an RSSI in dBm (BLE, Wi-Fi) or a signal *)
(* quality in percent (sonic); 0 is unknown.                                  *)
(***************************************************************************)
DistanceFactor(d) ==
  CASE d <= 0   -> 50
    [] d \in 1 .. 10   -> 100
    [] d \in 11 .. 50  -> 90
    [] d \in 51 .. 100 -> 70
    [] OTHER -> 40

RssiFactor(r) ==
  CASE r = 0 -> 80
    [] r # 0 /\ r >= -50   -> 100
    [] r \in -70 .. -51    -> 85
    [] r \in -85 .. -71    -> 60
    [] OTHER -> 40

SignalFactor(q) ==
  CASE q <= 0  -> 70
    [] q >= 90 -> 100
    [] OTHER   -> q

Quality(o) ==
  Weight[o.vector] *
    CASE o.vector = "uwb" -> DistanceFactor(o.reading)
      [] o.vector \in {"ble", "wifi_p2p"} -> RssiFactor(o.reading)
      [] o.vector = "sonic" -> SignalFactor(o.reading)
      [] OTHER -> 100

(***************************************************************************)
(* computeTrust.                                                             *)
(***************************************************************************)
Of(s, p) == {k \in DOMAIN s : s[k].peer = p}

\* The observations of p that count at this moment.
Evidence(s, p) == {s[k] : k \in {j \in Of(s, p) : s[j].at >= now - Window}}

\* Mutant: the vector counts with its latest observation.
LatestOfVector(e, v) ==
  LET ofV == {o \in e : o.vector = v}
  IN  Max({0} \cup {Quality(o) : o \in {x \in ofV : \A y \in ofV : y.at <= x.at}})

\* byVector[v], which is 0 for a vector that has no observation.
Best(e, v) == Max({0} \cup {Quality(o) : o \in {x \in e : x.vector = v}})

\* The average of the vectors' best qualities times 1 + 0.5 (n - 1), at most 1,
\* in units of 1/1200000: sum * ((n + 1) / 2) / n, and 60 is a multiple of n.
Full == 120 * 10000

Sum(e) == Best(e, "nfc") + Best(e, "uwb") + Best(e, "vlc")
          + Best(e, "sonic") + Best(e, "wifi_p2p") + Best(e, "ble")

Boosted(sum, n) == Min({Full, sum * (n + 1) * (60 \div n)})

Score(e) ==
  LET n == Cardinality({o.vector : o \in e})
  IN  IF n = 0 THEN 0 ELSE Boosted(Sum(e), n)

Trust(s, p) == Score(Evidence(s, p))

TrustOf(p) == IF p = NoPeer THEN 0 ELSE Trust(obs, p)

\* LastSeenMs of View and AllPeers: over every kept observation.  The mutant
\* takes the last one that arrived.
LastArrival(s, p) == IF Of(s, p) = {} THEN 0 ELSE s[Max(Of(s, p))].at

LastSeen(s, p) == Max({0} \cup {s[k].at : k \in Of(s, p)})

\* The peers AllPeers lists.
Peers(s) == {s[k].peer : k \in DOMAIN s}

(***************************************************************************)
(* prune() and the operations, the mutants before what they change.          *)
(***************************************************************************)
\* Mutant: no cap.
Everything(s, n) == s

\* Mutant: the oldest are kept.
Oldest(s, n) == IF Len(s) > n THEN SubSeq(s, 1, n) ELSE s

Newest(s, n) == IF Len(s) > n THEN SubSeq(s, Len(s) - n + 1, Len(s)) ELSE s

\* How many leading observations are older than the cutoff: the loop stops at
\* the first that is not.
StalePrefix(s, cutoff) ==
  CHOOSE n \in 0 .. Len(s) :
    /\ \A k \in 1 .. n : s[k].at < cutoff
    /\ n < Len(s) => s[n + 1].at >= cutoff

\* Mutant: what has left the window is dropped.
WindowCutoff(t) == t - Window

Cutoff(t) == t - TTL

Prune(s) == Newest(SubSeq(s, StalePrefix(s, Cutoff(now)) + 1, Len(s)), MaxObs)

Init ==
  /\ obs = <<>>
  /\ now = 1
  /\ high = 1
  /\ recent = <<>>

\* Record: unknown vectors and empty peers are dropped; ObservedAtMs 0 is now.
Observed(s, at) ==
  [vector |-> s.vector, peer |-> s.peer, reading |-> s.reading,
   at |-> IF at = 0 THEN now ELSE at]

\* The history: what a buffer that never prunes but for its size would hold.
Remember(r, o) == Append(IF Len(r) = MaxObs THEN Tail(r) ELSE r, o)

Record(s, at) ==
  /\ IsKnown(s.vector)
  /\ s.peer # NoPeer
  /\ UNCHANGED <<now, high>>
  /\ recent' = Remember(recent, Observed(s, at))
  /\ obs' = Prune(Append(obs, Observed(s, at)))

Clear ==
  /\ obs' = <<>>
  /\ recent' = <<>>
  /\ UNCHANGED <<now, high>>

Tick ==
  /\ now < MaxTime
  /\ now' = now + 1
  /\ high' = IF now' > high THEN now' ELSE high
  /\ UNCHANGED <<obs, recent>>

\* The wall clock is set back.
StepBack ==
  /\ now' \in {t \in Time : t < now /\ t >= high - Skew}
  /\ UNCHANGED <<obs, high, recent>>

Next ==
  \/ \E s \in Sighting, at \in 0 .. high : Record(s, at)
  \/ Clear
  \/ Tick
  \/ StepBack

Spec == Init /\ [][Next]_vars

------------------------------------------------------------------------------
(***************************************************************************)
(* Properties.                                                               *)
(***************************************************************************)

Observation == {[vector |-> s.vector, peer |-> s.peer, reading |-> s.reading, at |-> t] :
                  s \in {x \in Sighting : IsKnown(x.vector) /\ x.peer # NoPeer}, t \in Time}

\* Never more than MaxObs observations are kept, each of a known vector.
TypeOK ==
  /\ \A s \in {obs, recent} : /\ DOMAIN s = 1 .. Len(s)
                              /\ Len(s) <= MaxObs
                              /\ \A k \in DOMAIN s : s[k] \in Observation
  /\ now \in Time /\ high \in Time
  /\ now <= high /\ high <= now + Skew

\* Pruning cannot be seen in the scores: what TrustOf answers is what it would
\* answer if the last MaxObs observations had all been kept, whatever order
\* they arrived in and however often the clock was set back in between.
PruningInvisible ==
  \A p \in Peers(recent) : Trust(obs, p) = Trust(recent, p)

\* View and AllPeers agree with the score beside them: a listed peer has trust
\* exactly when the LastSeenMs reported for it lies inside the window.
ViewAgrees ==
  \A p \in Peers(obs) : TrustOf(p) > 0 <=> LastSeen(obs, p) >= now - Window

\* A sighting made inside the window counts as soon as it is recorded, however
\* full the buffer is and whatever older observations arrived before it.
FreshRecordCounts ==
  [][\A s \in Sighting, at \in 0 .. high :
       ((at = 0 \/ at >= now - Window) /\ Record(s, at)) => TrustOf(s.peer)' > 0]_vars

\* As long as nothing is evicted, seeing a peer once more on a vector on which
\* it has been seen in the window never lowers its trust: a late or a weaker
\* observation does not replace a better one.
EvidenceNeverHurts ==
  [][\A s \in Sighting, at \in 0 .. high :
       /\ Len(obs) < MaxObs
       /\ \E o \in Evidence(obs, s.peer) : o.vector = s.vector
       /\ Record(s, at)
       => TrustOf(s.peer)' >= TrustOf(s.peer)]_vars

==============================================================================
