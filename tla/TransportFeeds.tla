---------------------------- MODULE TransportFeeds ----------------------------
(***************************************************************************)
(* The Apply handlers that feed the global aggregator: apply.go's             *)
(* ApplyRecordObservation and uwb.go's ApplyRecord with its cache of the last  *)
(* ranging sample per peer.  A handler takes one lock after the other (cache,  *)
(* Record, TrustOf) and holds none in between, so handlers on several          *)
(* goroutines interleave with each other and with the two Clear calls a logout *)
(* makes.  The aggregator is module Aggregator, extended.  What only reads       *)
(* (Latest, peer_trust, all_peers) is one critical section and an operator.     *)
(* A UWB sighting has one more field: whether its confidence is none or enough.  *)
(***************************************************************************)
EXTENDS Aggregator

CONSTANTS
  Caller,      \* goroutines
  None,
  MaxCalls     \* bound: handler calls

ASSUME MaxCallsAssumption == MaxCalls \in Nat

VARIABLES
  latest,      \* uwb.latest: peer -> [at, reading], or None
  task,        \* the handler each goroutine runs
  calls,       \* calls left
  newest,      \* history: the highest time stored for a peer since ClearLatest
  orphans      \* history: the peers whose cached sample a Clear of the aggregator outlived

feedVars == <<obs, now, high, recent, latest, task, calls, newest, orphans>>

cache == <<latest, newest, orphans>>

Peer == {s.peer : s \in Sighting} \ {NoPeer}

(***************************************************************************)
(* A call: where it is, what it was given, and for the properties the time    *)
(* it recorded, how many records or a Clear came after, and when it asked.    *)
(***************************************************************************)
Idle == [pc |-> "idle", sighting |-> None, at |-> 0, since |-> 0, asked |-> 0, trust |-> 0]

FeedInit ==
  /\ Init
  /\ latest = [p \in Peer |-> None]
  /\ task = [c \in Caller |-> Idle]
  /\ calls = MaxCalls
  /\ newest = [p \in Peer |-> 0]
  /\ orphans = {}

Start(c, pc, s, at) ==
  /\ calls > 0
  /\ task[c].pc \in {"idle", "answered"}
  /\ calls' = calls - 1
  /\ task' = [task EXCEPT ![c] = [Idle EXCEPT !.pc = pc, !.sighting = s, !.at = at]]
  /\ UNCHANGED <<obs, now, high, recent, cache>>

\* transport.record_observation: an unknown vector and an empty peer are errors.
ApplyRecordObservation(c, s, at) ==
  /\ IsKnown(s.vector)
  /\ s.peer # NoPeer
  /\ Start(c, "record", s, at)

(***************************************************************************)
(* The verdicts, from the closest to the most distant, by distance in         *)
(* decimetres; a low confidence pulls a verdict one tier down.                *)
(***************************************************************************)
Tiers == <<"handshake", "nearby", "sameRoom", "distant">>

Degrade(n) == Min({4, n + 1})

Classify(o) ==
  LET n == CASE o.reading \in 1 .. 10 -> 1
             [] o.reading \in 11 .. 30 -> 2
             [] o.reading \in 31 .. 100 -> 3
             [] OTHER -> 4
  IN  Tiers[IF o.sure THEN n ELSE Degrade(n)]

\* uwb.latest: the cached sample and its verdict.
ApplyLatest(p) ==
  IF latest[p] = None THEN [present |-> FALSE]
  ELSE [present |-> TRUE, observation |-> latest[p], verdict |-> Classify(latest[p])]

\* uwb.record; the verdict of its answer is Classify of the sample.
ApplyRecord(c, s, at) ==
  /\ s.vector = "uwb"
  /\ s.peer # NoPeer
  /\ Start(c, "store", s, at)

\* The mutant stores whatever arrives.
Always(p, at) == TRUE

InOrder(p, at) == latest[p] = None \/ latest[p].at <= at

\* storeLatest: out-of-order arrivals are ignored.
StoreLatest(c) ==
  LET peer == task[c].sighting.peer
      at == task[c].at
  IN  /\ task[c].pc = "store"
      /\ task' = [task EXCEPT ![c].pc = "record"]
      /\ newest' = [newest EXCEPT ![peer] = Max({@, at})]
      /\ IF InOrder(peer, at)
         THEN /\ latest' = [latest EXCEPT ![peer] = [at |-> at, reading |-> task[c].sighting.reading,
                                          sure |-> task[c].sighting.sure]]
              /\ orphans' = orphans \ {peer}
         ELSE UNCHANGED <<latest, orphans>>
      /\ UNCHANGED <<obs, now, high, recent, calls>>

\* n more records since those of the calls that have yet to ask.
Aged(t, n) ==
  [c \in Caller |-> IF t[c].pc = "ask" THEN [t[c] EXCEPT !.since = Min({MaxObs, @ + n})] ELSE t[c]]

RecordStep(c) ==
  /\ task[c].pc = "record"
  /\ Record(task[c].sighting, task[c].at)
  /\ task' = [Aged(task, 1) EXCEPT
       ![c] = [task[c] EXCEPT !.pc = "ask", !.since = 0, !.at = Observed(task[c].sighting, @).at]]
  /\ UNCHANGED <<calls, cache>>

\* Mutant: the score is asked for before the record.
AskFirst(c) == task[c].pc \in {"record", "ask"}

MayAsk(c) == task[c].pc = "ask"

\* TrustOf: the score after the record, in a critical section of its own.
TrustStep(c) ==
  /\ MayAsk(c)
  /\ task' = [task EXCEPT ![c].pc = "answered", ![c].asked = now,
                          ![c].trust = TrustOf(task[c].sighting.peer)]
  /\ UNCHANGED <<obs, now, high, recent, calls, cache>>

\* Aggregator.Clear, and ClearLatest of the cache: nothing orders the two.
ClearAggregator ==
  /\ Clear
  /\ task' = Aged(task, MaxObs)
  /\ orphans' = {p \in Peer : latest[p] # None}
  /\ UNCHANGED <<latest, newest, calls>>

ClearLatest ==
  /\ latest' = [p \in Peer |-> None]
  /\ newest' = [p \in Peer |-> 0]
  /\ orphans' = {}
  /\ UNCHANGED <<obs, now, high, recent, task, calls>>

Clock == (Tick \/ StepBack) /\ UNCHANGED <<task, calls, cache>>

FeedNext ==
  \/ \E c \in Caller, s \in Sighting, at \in 0 .. high :
       ApplyRecordObservation(c, s, at) \/ ApplyRecord(c, s, at)
  \/ \E c \in Caller : StoreLatest(c) \/ RecordStep(c) \/ TrustStep(c)
  \/ ClearAggregator
  \/ ClearLatest
  \/ Clock

FeedSpec == FeedInit /\ [][FeedNext]_feedVars

------------------------------------------------------------------------------
(***************************************************************************)
(* Properties.                                                               *)
(***************************************************************************)

\* The cache holds samples of the peers, and each call is at one of its locks.
FeedTypeOK ==
  /\ TypeOK
  /\ \A p \in Peer : latest[p] = None \/ latest[p].at \in 0 .. MaxTime
  /\ \A c \in Caller : /\ task[c].pc \in {"idle", "store", "record", "ask", "answered"}
                       /\ task[c].at \in 0 .. MaxTime
                       /\ task[c].since \in 0 .. MaxObs
                       /\ task[c].trust \in 0 .. Full
                       /\ task[c].pc # "idle" => IsKnown(task[c].sighting.vector)
  /\ calls \in 0 .. MaxCalls

\* A handler that answers "recorded, trust 0" has a reason outside itself: its
\* sighting was no longer fresh when the score was asked for, or between its
\* two locks the aggregator was cleared or filled up with newer observations.
ZeroTrustExplained ==
  \A c \in Caller :
    (task[c].pc = "answered" /\ task[c].trust = 0) =>
      task[c].at < task[c].asked - Window \/ task[c].since = MaxObs

\* Latest answers the newest sample that was stored for a peer, in whatever
\* order the handlers got to the cache.
LatestIsNewest ==
  \A p \in Peer : latest[p] # None => latest[p].at = newest[p]

InFlight(p) == \E c \in Caller : task[c].pc = "record" /\ task[c].sighting.peer = p

\* MaxObs newer observations have pushed the sample out of the aggregator.
Evicted(p) ==
  /\ Len(recent) = MaxObs
  /\ \A k \in DOMAIN recent :
       recent[k] # [vector |-> "uwb", peer |-> p,
                    reading |-> latest[p].reading, at |-> latest[p].at]

\* What a verdict says of the score of its sample, in percent of UWB's weight.
Floor == [handshake |-> 100, nearby |-> 90, sameRoom |-> 70, distant |-> 40]

\* The compass and the score agree: a peer with a fresh stamped direction in the
\* cache has at least half of the trust the verdict stands for, whatever weaker
\* vectors saw it too, once the handlers that store for it have recorded; unless
\* the aggregator has no room for it or was cleared without the cache.
CompassBacked ==
  \A p \in Peer :
    LET shown == ApplyLatest(p)
    IN  /\ shown.present
        /\ shown.observation.at # 0 /\ shown.observation.at >= now - Window
        /\ ~InFlight(p) /\ p \notin orphans /\ ~Evicted(p)
        => 2 * TrustOf(p) >= Floor[shown.verdict] * Weight["uwb"] * 120

==============================================================================
