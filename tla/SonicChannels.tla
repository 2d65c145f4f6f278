---------------------------- MODULE SonicChannels ----------------------------
(***************************************************************************)
(* Ultrasonic channel allocation of src/go/transport/sonic: the capability    *)
(* cache (capability.go), the channel health map (channel_health.go) and the  *)
(* allocator that reads both (channels.go, channels_apply.go).  Each map has  *)
(* its own lock and every look at it is a critical section of its own, so a   *)
(* caller that collects the tiers of its peers and then scans the channels    *)
(* runs interleaved with the plugins that report capability and health.       *)
(* Callers only read the two maps: one of them is all that a caller can meet. *)
(***************************************************************************)
EXTENDS Integers, Sequences, FiniteSets, FiniteSetsExt

CONSTANTS
  Peer,         \* peers, the empty id of the device itself among them
  Device,       \* what is reported of one: [platform, form, gen]
  Report,       \* health reports: [channelId, snr, loss]
  Group,        \* sets of peers a caller allocates for
  Extra,        \* sets of tiers a caller adds by itself
  Purpose,      \* purposes a caller asks for
  None,
  MaxSets,      \* bound: capability reports
  MaxReports    \* bound: health reports

ASSUME BoundsAssumption == MaxSets \in Nat /\ MaxReports \in Nat

VARIABLES
  cap,       \* selfCap and peerCap: the last tier classified for a peer, or None
  health,    \* channel id -> the last report, or None
  call,      \* the caller
  budget     \* reports left: [sets, reports]

vars == <<cap, health, call, budget>>

(***************************************************************************)
(* Tiers.                                                                    *)
(***************************************************************************)
Tier == {"legacy", "transition", "modern"}

\* Anything else a caller passes is below every tier.
TierOrder(t) ==
  CASE t = "legacy" -> 1 [] t = "transition" -> 2 [] t = "modern" -> 3 [] OTHER -> 0

TierAtLeast(have, min) == TierOrder(have) >= TierOrder(min)

\* CenterFreqCap of DefaultParams: an unknown tier gets the legacy one.
CenterFreqCap(t) ==
  CASE t = "transition" -> 20000 [] t = "modern" -> 21500 [] OTHER -> 19000

\* The device strings by their form: "iPhone" alone is generic, "iPhone<gen>,"
\* an identifier; modern and transition are the two allow-lists of Android and
\* the readable names of an iPhone.
ClassifyTier(d) ==
  CASE d.form = "empty" -> "legacy"
    [] d.form # "empty" /\ d.platform = "web" -> "transition"
    [] d.platform = "ios" /\ d.form = "generic" -> "transition"
    [] d.platform = "ios" /\ d.form = "identifier" ->
         (IF d.gen <= 10 THEN "legacy" ELSE IF d.gen <= 15 THEN "transition" ELSE "modern")
    [] d.platform \in {"ios", "android"} /\ d.form \in {"modern", "transition"} -> d.form
    [] OTHER -> "legacy"

\* minTier: no peers at all count as legacy; the mutant takes the best.
MaxTier(ts) ==
  IF ts = {} THEN "legacy" ELSE CHOOSE t \in ts : \A u \in ts : TierAtLeast(t, u)

MinTier(ts) ==
  IF ts = {} THEN "legacy" ELSE CHOOSE t \in ts : \A u \in ts : TierAtLeast(u, t)

(***************************************************************************)
(* Channels and their health.                                                *)
(***************************************************************************)
Chan(i, low, high, min, purpose) ==
  [id |-> i, low |-> low, high |-> high, minTier |-> min, purpose |-> purpose]

DefaultChannels ==
  << Chan("public", 18500, 19000, "legacy", "publicVibe"),
     Chan("groupA", 19200, 19500, "transition", "groupChat"),
     Chan("groupB", 19700, 20000, "transition", "groupChat"),
     Chan("pairing", 21000, 21500, "modern", "pairing") >>

Position == 1 .. Len(DefaultChannels)

Channel == {DefaultChannels[k] : k \in Position}

ChannelId == {c.id : c \in Channel}

\* In percent: SNR < 10 or packet loss > 0.40.
Poor(r) == r.snr < 10 \/ r.loss > 40

IsDegraded(h, i) == h[i] # None /\ Poor(h[i])

(***************************************************************************)
(* The caller: pc is "idle" with the last grant, "ask" while it collects the  *)
(* tiers of rest, or the loop of AllocateChannel it is in, at channel `at'.    *)
(***************************************************************************)
Idle == [pc |-> "idle", rest |-> {}, tiers |-> {}, purpose |-> None, at |-> 1,
         grant |-> None, fallback |-> FALSE, bad |-> {}, good |-> {}]

DegradedNow(h) == {i \in ChannelId : IsDegraded(h, i)}

\* History: the channels that were degraded, and healthy, during the call.
Watch(c, h) ==
  IF c.pc = "idle" THEN c
  ELSE [c EXCEPT !.bad = @ \cup DegradedNow(h), !.good = @ \cup (ChannelId \ DegradedNow(h))]

Init ==
  /\ cap = [p \in Peer |-> None]
  /\ health = [i \in ChannelId |-> None]
  /\ call = Idle
  /\ budget = [sets |-> MaxSets, reports |-> MaxReports]

\* SetCapability: the last report wins, whatever its updatedMs.
SetCapability(p, d) ==
  /\ budget.sets > 0
  /\ cap' = [cap EXCEPT ![p] = ClassifyTier(d)]
  /\ budget' = [budget EXCEPT !.sets = @ - 1]
  /\ UNCHANGED <<health, call>>

CapabilityOf(p) == IF cap[p] = None THEN "legacy" ELSE cap[p]

ClearCapabilities ==
  /\ cap' = [p \in Peer |-> None]
  /\ UNCHANGED <<health, call, budget>>

\* ApplyChannelHealth: an unknown channel is an error; updatedMs is not looked at.
ApplyChannelHealth(r) ==
  /\ budget.reports > 0
  /\ r.channelId \in ChannelId
  /\ health' = [health EXCEPT ![r.channelId] = r]
  /\ call' = Watch(call, health')
  /\ budget' = [budget EXCEPT !.reports = @ - 1]
  /\ UNCHANGED cap

\* A caller wants a channel; an empty purpose is the public one.
Begin(g, extra, purpose) ==
  /\ call.pc = "idle"
  /\ call' = Watch([Idle EXCEPT !.pc = "ask", !.rest = g, !.tiers = extra,
                      !.purpose = IF purpose = "" THEN "publicVibe" ELSE purpose], health)
  /\ UNCHANGED <<cap, health, budget>>

Ask(p) ==
  /\ call.pc = "ask"
  /\ p \in call.rest
  /\ call' = [call EXCEPT !.rest = @ \ {p}, !.tiers = @ \cup {CapabilityOf(p)}]
  /\ UNCHANGED <<cap, health, budget>>

\* ApplyChannelAllocate.
Allocate ==
  /\ call.pc = "ask"
  /\ call.rest = {}
  /\ call' = [call EXCEPT !.pc = "purpose"]
  /\ UNCHANGED <<cap, health, budget>>

\* The channels a loop considers: those of the purpose that the weakest peer can
\* use, then the public ones, then the public ones in any health.
Suits(c, k) ==
  LET ch == DefaultChannels[k]
  IN  IF c.pc = "purpose"
      THEN ch.purpose = c.purpose /\ TierAtLeast(MinTier(c.tiers), ch.minTier)
      ELSE ch.purpose = "publicVibe"

\* Mutant: the first channel that is degraded ends the loop.
StopAtDegraded(c) == IF c.at < Len(DefaultChannels) /\ ~Suits(c, c.at) THEN c.at + 1 ELSE 1

\* Mutant: one turn too many.
OneTooMany(c) == IF c.at <= Len(DefaultChannels) THEN c.at + 1 ELSE 1

NextAt(c) == IF c.at < Len(DefaultChannels) THEN c.at + 1 ELSE 1

\* Mutants: the last resort asks for health too; the first two loops do not.
OnlyHealthy(c) == Suits(c, c.at) /\ ~IsDegraded(health, DefaultChannels[c.at].id)

AnyHealth(c) == Suits(c, c.at)

Takes(c) ==
  /\ Suits(c, c.at)
  /\ c.pc # "anyPublic" => ~IsDegraded(health, DefaultChannels[c.at].id)

After == [purpose |-> "public", public |-> "anyPublic"]

Loop == DOMAIN After \cup {"anyPublic"}

\* What a loop does past a channel: the next one, the next loop, or no channel.
Past(c) ==
  IF NextAt(c) # 1 THEN [c EXCEPT !.at = NextAt(c)]
  ELSE IF c.pc = "anyPublic" THEN [Idle EXCEPT !.fallback = TRUE]
  ELSE [c EXCEPT !.at = 1, !.pc = After[@]]

\* One turn of a loop: the channel is granted or the next one is looked at.
Scan ==
  /\ call.pc \in Loop
  /\ \/ /\ Takes(call)
        /\ call' = [call EXCEPT !.pc = "idle", !.grant = DefaultChannels[call.at],
                                !.fallback = call.pc # "purpose"]
     \/ /\ ~Takes(call)
        /\ call' = Past(call)
  /\ UNCHANGED <<cap, health, budget>>

Next ==
  \/ \E p \in Peer, d \in Device : SetCapability(p, d)
  \/ ClearCapabilities
  \/ \E r \in Report : ApplyChannelHealth(r)
  \/ \E g \in Group, x \in Extra, u \in Purpose : Begin(g, x, u)
  \/ \E p \in Peer : Ask(p)
  \/ Allocate
  \/ Scan

\* A call that runs is not abandoned.
Spec == Init /\ [][Next]_vars /\ WF_vars(Allocate \/ Scan \/ \E p \in Peer : Ask(p))

------------------------------------------------------------------------------
(***************************************************************************)
(* Properties.                                                               *)
(***************************************************************************)

\* The maps hold tiers and reports, and a call is in one of its stages.
TypeOK ==
  /\ cap \in [Peer -> Tier \cup {None}]
  /\ \A i \in ChannelId : health[i] = None \/ (health[i] \in Report /\ health[i].channelId = i)
  /\ call.pc \in {"idle", "ask"} \cup Loop
  /\ call.at \in Position
  /\ call.grant \in Channel \cup {None}
  /\ budget.sets \in 0 .. MaxSets /\ budget.reports \in 0 .. MaxReports

Granted == call.pc = "idle" /\ call.grant # None

\* CenterFreqCap is what a device "won't emit above" (capability.go:73): the whole
\* band of a granted channel lies below the cap of every tier it was asked for,
\* whichever of the three loops granted it.
BandWithinCaps ==
  Granted => \A t \in call.tiers : call.grant.high <= CenterFreqCap(t)

Candidate(ch) == ch.purpose = call.purpose /\ \A t \in call.tiers \cup {MinTier(call.tiers)} :
                                                TierAtLeast(t, ch.minTier)

\* A caller is sent to the fallback only if every channel of its purpose that its
\* peers can use was degraded at some moment of the call.  (Not all at one
\* moment: the scan is not atomic.)
FallbackExplained ==
  (Granted /\ call.fallback) =>
    \A ch \in Channel : Candidate(ch) => ch.id \in call.bad

\* The granted channel was healthy at some moment of the call, or it is the
\* public one as the last resort after it was found degraded.
GrantExplained ==
  Granted => \/ call.grant.id \in call.good
             \/ call.grant.id = "public" /\ call.fallback /\ "public" \in call.bad

\* Every call ends with a channel, whatever is reported while it runs: the three
\* loops never come out empty.
CallEnds == (call.pc = "ask") ~> Granted

==============================================================================
