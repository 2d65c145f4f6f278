------------------------- MODULE SonicChannelsProofs -------------------------
(***************************************************************************)
(* Proofs about SonicChannels for any peers, reports, groups and purposes, and  *)
(* any values a caller passes for tiers.                                     *)
(***************************************************************************)
EXTENDS SonicChannels, TLAPS

\* A channel of the table lies below the cap of every tier that may use it, and
\* the public one below every cap.
BandSuits(ch, ts) == \A t \in ts : ch.high <= CenterFreqCap(t)

CallOK ==
  /\ DOMAIN call = DOMAIN Idle
  /\ call.at \in Position
  /\ call.pc \in {"idle", "ask"} \cup Loop
  /\ call.pc # "idle" => call.grant = None
  /\ call.grant # None => BandSuits(call.grant, call.tiers)

------------------------------------------------------------------------------
\* The orders of tiers are four numbers.
LEMMA Orders == \A t : TierOrder(t) \in 0 .. 3
  BY DEF TierOrder

\* The weakest of the tiers is one of them or, of none, legacy; no tier is weaker.
LEMMA MinTierWeakest ==
  ASSUME NEW ts
  PROVE  \A t \in ts : TierOrder(MinTier(ts)) <= TierOrder(t)
PROOF
  <1> SUFFICES ASSUME ts # {} PROVE \A t \in ts : TierOrder(MinTier(ts)) <= TierOrder(t)
    OBVIOUS
  <1>1. \E t \in ts : \A u \in ts : TierAtLeast(u, t)
    <2> DEFINE Has(n) == \E t \in ts : TierOrder(t) = n
    <2>1. \E n \in 0 .. 3 : Has(n) /\ \A m \in 0 .. 3 : m < n => ~Has(m)
      <3>1. Has(0) \/ Has(1) \/ Has(2) \/ Has(3)
        <4>1. PICK t : t \in ts
          OBVIOUS
        <4>2. TierOrder(t) = 0 \/ TierOrder(t) = 1 \/ TierOrder(t) = 2 \/ TierOrder(t) = 3
          BY Orders
        <4> QED BY <4>1, <4>2
      <3> HIDE DEF Has
      <3>2. CASE Has(0)
        BY <3>2
      <3>3. CASE ~Has(0) /\ Has(1)
        BY <3>3
      <3>4. CASE ~Has(0) /\ ~Has(1) /\ Has(2)
        BY <3>4
      <3>5. CASE ~Has(0) /\ ~Has(1) /\ ~Has(2) /\ Has(3)
        BY <3>5
      <3> QED BY <3>1, <3>2, <3>3, <3>4, <3>5
    <2>2. PICK n \in 0 .. 3 : Has(n) /\ \A m \in 0 .. 3 : m < n => ~Has(m)
      BY <2>1
    <2>3. PICK t \in ts : TierOrder(t) = n
      BY <2>2
    <2>4. ASSUME NEW u \in ts PROVE TierOrder(u) >= TierOrder(t)
      BY <2>2, <2>3, Orders
    <2> QED BY <2>4 DEF TierAtLeast
  <1>2. \A u \in ts : TierAtLeast(u, MinTier(ts))
    BY <1>1 DEF MinTier
  <1> QED BY <1>2, Orders DEF TierAtLeast

\* The table.
LEMMA Table ==
  /\ Position = 1 .. 4
  /\ \A k \in Position :
       LET ch == DefaultChannels[k]
       IN  /\ \A t : TierAtLeast(t, ch.minTier) => ch.high <= CenterFreqCap(t)
           /\ ch.purpose = "publicVibe" => \A t : ch.high <= CenterFreqCap(t)
PROOF
  <1>1. Position = 1 .. 4
    BY DEF Position, DefaultChannels
  <1>2. \A t : CenterFreqCap(t) \in {19000, 20000, 21500}
    BY DEF CenterFreqCap
  <1>3. \A t : /\ TierOrder(t) >= 2 => CenterFreqCap(t) >= 20000
               /\ TierOrder(t) >= 3 => CenterFreqCap(t) >= 21500
    BY DEF CenterFreqCap, TierOrder
  <1>4. TierOrder("transition") = 2 /\ TierOrder("modern") = 3
    BY DEF TierOrder
  <1>5. /\ DefaultChannels[1].high = 19000
        /\ DefaultChannels[2].high = 19500 /\ DefaultChannels[2].minTier = "transition"
        /\ DefaultChannels[2].purpose = "groupChat"
        /\ DefaultChannels[3].high = 20000 /\ DefaultChannels[3].minTier = "transition"
        /\ DefaultChannels[3].purpose = "groupChat"
        /\ DefaultChannels[4].high = 21500 /\ DefaultChannels[4].minTier = "modern"
        /\ DefaultChannels[4].purpose = "pairing"
    BY DEF DefaultChannels, Chan
  <1>6. ASSUME NEW k \in Position
        PROVE  LET ch == DefaultChannels[k]
               IN  /\ \A t : TierAtLeast(t, ch.minTier) => ch.high <= CenterFreqCap(t)
                   /\ ch.purpose = "publicVibe" => \A t : ch.high <= CenterFreqCap(t)
    <2>1. k = 1 \/ k = 2 \/ k = 3 \/ k = 4
      BY <1>1
    <2>2. CASE k = 1
      <3>1. \A t : 19000 <= CenterFreqCap(t)
        BY <1>2
      <3> QED BY <1>5, <2>2, <3>1
    <2>3. CASE k = 2
      BY <1>2, <1>3, <1>4, <1>5, <2>3 DEF TierAtLeast
    <2>4. CASE k = 3
      BY <1>2, <1>3, <1>4, <1>5, <2>4 DEF TierAtLeast
    <2>5. CASE k = 4
      BY <1>2, <1>3, <1>4, <1>5, <2>5 DEF TierAtLeast
    <2> QED BY <2>1, <2>2, <2>3, <2>4, <2>5
  <1> QED BY <1>1, <1>6

\* What a loop takes suits everybody it was asked for.
LEMMA TakesSuits ==
  ASSUME NEW c, c.at \in Position, Takes(c)
  PROVE  BandSuits(DefaultChannels[c.at], c.tiers)
PROOF
  <1> DEFINE ch == DefaultChannels[c.at]
  <1>1. CASE c.pc = "purpose"
    <2>1. TierAtLeast(MinTier(c.tiers), ch.minTier)
      BY <1>1 DEF Takes, Suits
    <2>2. ASSUME NEW t \in c.tiers PROVE TierAtLeast(t, ch.minTier)
      <3>1. /\ TierOrder(t) >= TierOrder(MinTier(c.tiers))
            /\ TierOrder(MinTier(c.tiers)) >= TierOrder(ch.minTier)
        BY <2>1, MinTierWeakest, Orders DEF TierAtLeast
      <3>2. /\ TierOrder(t) \in Nat /\ TierOrder(MinTier(c.tiers)) \in Nat
            /\ TierOrder(ch.minTier) \in Nat
        BY Orders
      <3> QED BY <3>1, <3>2 DEF TierAtLeast
    <2> QED BY <2>2, Table DEF BandSuits
  <1>2. CASE c.pc # "purpose"
    <2>1. ch.purpose = "publicVibe"
      BY <1>2 DEF Takes, Suits
    <2> QED BY <2>1, Table DEF BandSuits
  <1> QED BY <1>1, <1>2

------------------------------------------------------------------------------
LEMMA InitOK == Init => CallOK
PROOF
  <1>1. 1 \in Position
    BY Table
  <1> QED BY <1>1 DEF Init, CallOK, Idle

\* Only the stage, the channel looked at, the grant and the tiers matter.
LEMMA WatchOK ==
  ASSUME CallOK, NEW h, call' = Watch(call, h)
  PROVE  CallOK'
PROOF
  <1>1. /\ DOMAIN call' = DOMAIN call
        /\ call'.pc = call.pc /\ call'.at = call.at
        /\ call'.grant = call.grant /\ call'.tiers = call.tiers
    BY DEF CallOK, Watch, Idle
  <1> QED BY <1>1 DEF CallOK

LEMMA BeginOK ==
  ASSUME CallOK, NEW g, NEW x, NEW u, Begin(g, x, u)
  PROVE  CallOK'
PROOF
  <1> DEFINE fresh == [Idle EXCEPT !.pc = "ask", !.rest = g, !.tiers = x,
                         !.purpose = IF u = "" THEN "publicVibe" ELSE u]
  <1>1. call' = Watch(fresh, health)
    BY DEF Begin
  <1>2. /\ DOMAIN fresh = DOMAIN Idle
        /\ fresh.pc = "ask" /\ fresh.at = 1 /\ fresh.grant = None
    BY DEF Idle
  <1> HIDE DEF fresh
  <1>3. DOMAIN call' = DOMAIN Idle /\ call'.pc = "ask" /\ call'.at = 1 /\ call'.grant = None
    BY <1>1, <1>2 DEF Watch, Idle
  <1>4. 1 \in Position
    BY Table
  <1> QED BY <1>3, <1>4 DEF CallOK

LEMMA AskOK ==
  ASSUME CallOK, NEW p, Ask(p) \/ Allocate
  PROVE  CallOK'
PROOF
  <1>1. /\ DOMAIN call' = DOMAIN call
        /\ call'.at = call.at /\ call'.grant = call.grant
        /\ call'.pc \in {"ask", "purpose"} /\ call.pc = "ask"
    BY DEF Ask, Allocate, CallOK, Idle
  <1> QED BY <1>1 DEF CallOK, Loop, After

\* The next channel is one of the table.
LEMMA NextAtOK ==
  ASSUME NEW c, c.at \in Position
  PROVE  NextAt(c) \in Position /\ 1 \in Position
PROOF
  <1>1. Position = 1 .. 4 /\ Len(DefaultChannels) = 4
    BY Table DEF DefaultChannels
  <1> QED BY <1>1 DEF NextAt

LEMMA ScanOK ==
  ASSUME CallOK, Scan
  PROVE  CallOK'
PROOF
  <1>1. call.pc \in Loop /\ call.at \in Position /\ call.grant = None /\ DOMAIN call = DOMAIN Idle
    BY DEF Scan, CallOK, Loop, After
  <1>2. CASE Takes(call) /\ call' = [call EXCEPT !.pc = "idle", !.grant = DefaultChannels[call.at],
                                                !.fallback = call.pc # "purpose"]
    <2>1. /\ DOMAIN call' = DOMAIN Idle
          /\ call'.at = call.at /\ call'.pc = "idle" /\ call'.tiers = call.tiers
          /\ call'.grant = DefaultChannels[call.at]
      BY <1>1, <1>2 DEF Idle
    <2>2. BandSuits(DefaultChannels[call.at], call.tiers)
      BY <1>1, <1>2, TakesSuits
    <2> QED BY <1>1, <2>1, <2>2 DEF CallOK
  <1>3. CASE call' = Past(call)
    <2>1. NextAt(call) \in Position /\ 1 \in Position
      BY <1>1, NextAtOK
    <2>2. CASE NextAt(call) # 1
      <3>1. call' = [call EXCEPT !.at = NextAt(call)]
        BY <1>3, <2>2 DEF Past
      <3>2. /\ DOMAIN call' = DOMAIN Idle /\ call'.at = NextAt(call)
            /\ call'.pc = call.pc /\ call'.grant = None
        BY <1>1, <3>1 DEF Idle
      <3> QED BY <1>1, <2>1, <3>2 DEF CallOK
    <2>3. CASE NextAt(call) = 1 /\ call.pc = "anyPublic"
      <3>1. call' = [Idle EXCEPT !.fallback = TRUE]
        BY <1>3, <2>3 DEF Past
      <3>2. /\ DOMAIN call' = DOMAIN Idle /\ call'.at = 1
            /\ call'.pc = "idle" /\ call'.grant = None
        BY <3>1 DEF Idle
      <3> QED BY <2>1, <3>2 DEF CallOK
    <2>4. CASE NextAt(call) = 1 /\ call.pc # "anyPublic"
      <3>1. call' = [call EXCEPT !.at = 1, !.pc = After[call.pc]]
        BY <1>3, <2>4 DEF Past
      <3>2. After[call.pc] \in Loop
        BY <1>1, <2>4 DEF Loop, After
      <3>3. /\ DOMAIN call' = DOMAIN Idle /\ call'.at = 1
            /\ call'.pc \in Loop /\ call'.grant = None
        BY <1>1, <3>1, <3>2 DEF Idle
      <3> QED BY <2>1, <3>3 DEF CallOK
    <2> QED BY <2>2, <2>3, <2>4
  <1> QED BY <1>2, <1>3 DEF Scan

LEMMA NextOK ==
  ASSUME CallOK, [Next]_vars
  PROVE  CallOK'
PROOF
  <1>1. CASE UNCHANGED call
    BY <1>1 DEF CallOK
  <1>2. ASSUME NEW r \in Report, ApplyChannelHealth(r) PROVE CallOK'
    BY <1>2, WatchOK DEF ApplyChannelHealth
  <1>3. ASSUME NEW g \in Group, NEW x \in Extra, NEW u \in Purpose, Begin(g, x, u) PROVE CallOK'
    BY <1>3, BeginOK
  <1>4. ASSUME NEW p \in Peer, Ask(p) PROVE CallOK'
    BY <1>4, AskOK
  <1>5. CASE Allocate
    BY <1>5, AskOK
  <1>6. ASSUME NEW p \in Peer, NEW d \in Device, SetCapability(p, d) PROVE CallOK'
    BY <1>1, <1>6 DEF SetCapability
  <1>7. CASE ClearCapabilities
    BY <1>1, <1>7 DEF ClearCapabilities
  <1>8. CASE UNCHANGED vars
    BY <1>1, <1>8 DEF vars
  <1> QED BY <1>2, <1>3, <1>4, <1>5, <1>6, <1>7, <1>8, ScanOK DEF Next

\* Whatever is reported while AllocateChannel runs, the band of the channel it
\* grants lies below the cap of every tier it was asked for.
THEOREM BandWithinCapsHolds == Spec => []BandWithinCaps
PROOF
  <1>1. Init => CallOK
    BY InitOK
  <1>2. CallOK /\ [Next]_vars => CallOK'
    BY NextOK
  <1>3. CallOK => BandWithinCaps
    BY DEF CallOK, BandSuits, BandWithinCaps, Granted
  <1> QED BY <1>1, <1>2, <1>3, PTL DEF Spec

------------------------------------------------------------------------------
(***************************************************************************)
(* What the loops have seen.                                                 *)
(***************************************************************************)
IdAt(k) == DefaultChannels[k].id

\* The channels of the purpose that the weakest peer can use.
Usable(c, k) ==
  /\ DefaultChannels[k].purpose = c.purpose
  /\ TierAtLeast(MinTier(c.tiers), DefaultChannels[k].minTier)

\* Every channel a loop has passed was found degraded, those of the loops before
\* it included.
Explained(c) ==
  /\ c.pc \in {"purpose", "public"} =>
       \A k \in Position : k < c.at /\ Suits(c, k) => IdAt(k) \in c.bad
  /\ c.pc \in {"public", "anyPublic"} =>
       \A k \in Position : Usable(c, k) => IdAt(k) \in c.bad
  /\ c.pc = "anyPublic" => "public" \in c.bad

\* The history holds what is degraded, and what is healthy, at this moment.
Current(c, h) ==
  c.pc # "idle" =>
    /\ DegradedNow(h) \subseteq c.bad
    /\ ChannelId \ DegradedNow(h) \subseteq c.good

SeenInv ==
  /\ DOMAIN health = ChannelId
  /\ call.pc = "ask" => call.at = 1
  /\ Current(call, health)
  /\ Explained(call)
  /\ FallbackExplained
  /\ GrantExplained

\* A public channel of the table is the one with the id public.
LEMMA Ids ==
  /\ \A k \in Position : IdAt(k) \in ChannelId
  /\ \A k \in Position : DefaultChannels[k].purpose = "publicVibe" => IdAt(k) = "public"
PROOF
  <1>1. \A k \in Position : IdAt(k) \in ChannelId
    BY DEF IdAt, ChannelId, Channel
  <1>2. /\ DefaultChannels[1].id = "public"
        /\ DefaultChannels[2].purpose = "groupChat"
        /\ DefaultChannels[3].purpose = "groupChat"
        /\ DefaultChannels[4].purpose = "pairing"
    BY DEF DefaultChannels, Chan
  <1>3. \A k \in Position : k = 1 \/ k = 2 \/ k = 3 \/ k = 4
    BY Table
  <1>4. \A k \in Position : DefaultChannels[k].purpose = "publicVibe" => IdAt(k) = "public"
    BY <1>2, <1>3 DEF IdAt
  <1> QED BY <1>1, <1>4

\* History that grows explains what it explained.
LEMMA ExplainedKept ==
  ASSUME NEW c, NEW d, Explained(c), c.bad \subseteq d.bad,
         d.pc = c.pc, d.at = c.at, d.purpose = c.purpose, d.tiers = c.tiers
  PROVE  Explained(d)
PROOF
  <1>1. \A k \in Position : (Suits(d, k) <=> Suits(c, k)) /\ (Usable(d, k) <=> Usable(c, k))
    BY DEF Suits, Usable
  <1> QED BY <1>1 DEF Explained

\* A call that has not ended has no outcome to explain.
LEMMA NoOutcome ==
  ASSUME call'.pc # "idle" \/ call'.grant = None
  PROVE  FallbackExplained' /\ GrantExplained'
  BY DEF FallbackExplained, GrantExplained, Granted

\* An outcome does not depend on the maps.
LEMMA OutcomeKept ==
  ASSUME FallbackExplained, GrantExplained, call' = call
  PROVE  FallbackExplained' /\ GrantExplained'
  BY DEF FallbackExplained, GrantExplained, Granted, Candidate

LEMMA SeenInit == Init => SeenInv
PROOF
  <1> SUFFICES ASSUME Init PROVE SeenInv
    OBVIOUS
  <1>1. DOMAIN health = ChannelId /\ call.pc = "idle" /\ call.grant = None
    BY DEF Init, Idle
  <1> QED BY <1>1 DEF SeenInv, Current, Explained, FallbackExplained, GrantExplained, Granted

\* What Watch writes is current, and nothing it knew is lost.
LEMMA Watched ==
  ASSUME NEW c, NEW h, DOMAIN c = DOMAIN Idle
  PROVE  LET w == Watch(c, h)
         IN  /\ Current(w, h)
             /\ c.bad \subseteq w.bad
             /\ w.pc = c.pc /\ w.at = c.at /\ w.purpose = c.purpose /\ w.tiers = c.tiers
             /\ w.grant = c.grant
             /\ c.pc = "idle" => w = c
PROOF
  <1>1. CASE c.pc = "idle"
    BY <1>1 DEF Watch, Current
  <1>2. CASE c.pc # "idle"
    <2>1. Watch(c, h) = [c EXCEPT !.bad = c.bad \cup DegradedNow(h),
                                  !.good = c.good \cup (ChannelId \ DegradedNow(h))]
      BY <1>2 DEF Watch
    <2>2. {"bad", "good", "pc", "at", "purpose", "tiers", "grant"} \subseteq DOMAIN c
      BY DEF Idle
    <2>3. /\ Watch(c, h).bad = c.bad \cup DegradedNow(h)
          /\ Watch(c, h).good = c.good \cup (ChannelId \ DegradedNow(h))
          /\ Watch(c, h).pc = c.pc /\ Watch(c, h).at = c.at
          /\ Watch(c, h).purpose = c.purpose /\ Watch(c, h).tiers = c.tiers
          /\ Watch(c, h).grant = c.grant
      BY <2>1, <2>2
    <2> QED BY <1>2, <2>3 DEF Current
  <1> QED BY <1>1, <1>2

LEMMA SeenHealth ==
  ASSUME CallOK, SeenInv, NEW r, ApplyChannelHealth(r)
  PROVE  SeenInv'
PROOF
  <1>1. call' = Watch(call, health') /\ DOMAIN health' = ChannelId /\ DOMAIN call = DOMAIN Idle
    BY DEF ApplyChannelHealth, SeenInv, CallOK
  <1>2. /\ Current(call', health')
        /\ call.bad \subseteq call'.bad
        /\ call'.pc = call.pc /\ call'.at = call.at
        /\ call'.purpose = call.purpose /\ call'.tiers = call.tiers
        /\ call'.grant = call.grant
        /\ call.pc = "idle" => call' = call
    BY <1>1, Watched
  <1>3. Explained(call')
    BY <1>2, ExplainedKept DEF SeenInv
  <1>4. FallbackExplained' /\ GrantExplained'
    BY <1>2, NoOutcome, OutcomeKept DEF SeenInv
  <1> QED BY <1>1, <1>2, <1>3, <1>4 DEF SeenInv, Current, Explained, Suits, Usable

LEMMA SeenBegin ==
  ASSUME SeenInv, NEW g, NEW x, NEW u, Begin(g, x, u)
  PROVE  SeenInv'
PROOF
  <1> DEFINE fresh == [Idle EXCEPT !.pc = "ask", !.rest = g, !.tiers = x,
                         !.purpose = IF u = "" THEN "publicVibe" ELSE u]
  <1>1. call' = Watch(fresh, health) /\ health' = health
    BY DEF Begin
  <1>2. DOMAIN fresh = DOMAIN Idle /\ fresh.pc = "ask" /\ fresh.at = 1
    BY DEF Idle
  <1> HIDE DEF fresh
  <1>3. Current(call', health') /\ call'.pc = "ask" /\ call'.at = 1
    BY <1>1, <1>2, Watched
  <1>4. FallbackExplained' /\ GrantExplained'
    BY <1>3, NoOutcome
  <1> QED BY <1>1, <1>3, <1>4 DEF SeenInv, Current, Explained

LEMMA SeenAsk ==
  ASSUME CallOK, SeenInv, NEW p, Ask(p) \/ Allocate
  PROVE  SeenInv'
PROOF
  <1>1. /\ call.pc = "ask" /\ call.at = 1
        /\ call'.pc \in {"ask", "purpose"} /\ call'.at = 1
        /\ call'.bad = call.bad /\ call'.good = call.good
        /\ health' = health
    BY DEF Ask, Allocate, CallOK, Idle, SeenInv
  <1>2. Current(call', health')
    BY <1>1 DEF SeenInv, Current
  <1>3. \A k \in Position : ~(k < 1)
    BY Table
  <1>4. Explained(call')
    BY <1>1, <1>3 DEF Explained
  <1>5. FallbackExplained' /\ GrantExplained'
    BY <1>1, NoOutcome
  <1> QED BY <1>1, <1>2, <1>4, <1>5 DEF SeenInv, Current, Explained, Suits, Usable

\* A channel that is granted was healthy, or it is the last resort; and by then
\* every channel of the purpose was found degraded.
LEMMA SeenGrant ==
  ASSUME CallOK, SeenInv, call.pc \in Loop, Takes(call), health' = health,
         call' = [call EXCEPT !.pc = "idle", !.grant = DefaultChannels[call.at],
                              !.fallback = call.pc # "purpose"]
  PROVE  SeenInv'
PROOF
  <1>1. /\ call'.pc = "idle" /\ call'.grant = DefaultChannels[call.at]
        /\ call'.fallback = (call.pc # "purpose")
        /\ call'.purpose = call.purpose /\ call'.tiers = call.tiers
        /\ call'.bad = call.bad /\ call'.good = call.good
    BY DEF CallOK, Idle
  <1>2. call.pc \in {"purpose", "public", "anyPublic"} /\ call.at \in Position
    BY DEF Loop, After, CallOK
  <1>3. GrantExplained'
    <2>1. CASE call.pc # "anyPublic"
      <3>1. IdAt(call.at) \in ChannelId \ DegradedNow(health)
        BY <1>2, <2>1, Ids DEF Takes, DegradedNow, IdAt
      <3>2. IdAt(call.at) \in call.good
        BY <1>2, <3>1 DEF SeenInv, Current
      <3> QED BY <1>1, <3>2 DEF GrantExplained, IdAt
    <2>2. CASE call.pc = "anyPublic"
      <3>1. DefaultChannels[call.at].purpose = "publicVibe"
        BY <2>2 DEF Takes, Suits
      <3>2. IdAt(call.at) = "public" /\ "public" \in call.bad
        BY <1>2, <2>2, <3>1, Ids DEF SeenInv, Explained
      <3> QED BY <1>1, <2>2, <3>2 DEF GrantExplained, IdAt
    <2> QED BY <2>1, <2>2
  <1>4. FallbackExplained'
    <2> SUFFICES ASSUME call.pc # "purpose", NEW ch \in Channel, Candidate(ch)'
                 PROVE  ch.id \in call.bad
      BY <1>1 DEF FallbackExplained
    <2>1. PICK k \in Position : ch = DefaultChannels[k]
      BY DEF Channel
    <2>2. Usable(call, k)
      BY <1>1, <2>1 DEF Candidate, Usable
    <2> QED BY <1>2, <2>1, <2>2 DEF SeenInv, Explained, IdAt
  <1> QED BY <1>1, <1>3, <1>4 DEF SeenInv, Current, Explained

\* A channel that suits and is passed is degraded at this moment.
LEMMA PassedDegraded ==
  ASSUME CallOK, SeenInv, call.pc \in {"purpose", "public"}, ~Takes(call)
  PROVE  \A k \in Position : k <= call.at /\ Suits(call, k) => IdAt(k) \in call.bad
PROOF
  <1> SUFFICES ASSUME NEW k \in Position, k <= call.at, Suits(call, k)
               PROVE  IdAt(k) \in call.bad
    OBVIOUS
  <1>1. k \in Nat /\ call.at \in Nat
    BY Table DEF CallOK
  <1>2. CASE k = call.at
    <2>1. IdAt(k) \in DegradedNow(health)
      BY <1>2, Ids DEF Takes, DegradedNow, IdAt
    <2> QED BY <2>1 DEF SeenInv, Current
  <1>3. CASE k < call.at
    BY <1>3 DEF SeenInv, Explained
  <1> QED BY <1>1, <1>2, <1>3

LEMMA SeenPast ==
  ASSUME CallOK, SeenInv, call.pc \in Loop, ~Takes(call), health' = health,
         call' = Past(call)
  PROVE  SeenInv'
PROOF
  <1>1. /\ call.pc \in {"purpose", "public", "anyPublic"} /\ call.at \in Position
        /\ call.grant = None /\ DOMAIN call = DOMAIN Idle
    BY DEF Loop, After, CallOK
  <1>2. call.at \in Nat /\ 1 <= call.at /\ call.at <= 4 /\ Len(DefaultChannels) = 4
    BY <1>1, Table DEF DefaultChannels
  <1>3. CASE NextAt(call) # 1
    <2>1. NextAt(call) = call.at + 1
      BY <1>3 DEF NextAt
    <2>2. /\ call'.at = call.at + 1 /\ call'.pc = call.pc /\ call'.grant = None
          /\ call'.purpose = call.purpose /\ call'.tiers = call.tiers
          /\ call'.bad = call.bad /\ call'.good = call.good
      BY <1>1, <1>3, <2>1 DEF Past, Idle
    <2>3. \A k \in Position : /\ Suits(call', k) <=> Suits(call, k)
                              /\ Usable(call', k) <=> Usable(call, k)
      BY <2>2 DEF Suits, Usable
    <2>4. \A k \in Position : k < call.at + 1 => k <= call.at
      BY <1>2, Table
    <2>5. Explained(call')
      BY <2>2, <2>3, <2>4, PassedDegraded DEF SeenInv, Explained
    <2>6. FallbackExplained' /\ GrantExplained'
      BY <2>2, NoOutcome
    <2> QED BY <1>1, <2>2, <2>5, <2>6 DEF SeenInv, Current, Explained, Suits, Usable
  <1>4. CASE NextAt(call) = 1
    <2>1. call.at = 4
      BY <1>2, <1>4 DEF NextAt
    <2>2. CASE call.pc = "anyPublic"
      <3>1. call'.pc = "idle" /\ call'.grant = None
        BY <1>4, <2>2 DEF Past, Idle
      <3>2. FallbackExplained' /\ GrantExplained'
        BY <3>1, NoOutcome
      <3> QED BY <3>1, <3>2 DEF SeenInv, Current, Explained
    <2>3. CASE call.pc # "anyPublic"
      <3>1. /\ call'.at = 1 /\ call'.pc = After[call.pc] /\ call'.grant = None
            /\ call'.purpose = call.purpose /\ call'.tiers = call.tiers
            /\ call'.bad = call.bad /\ call'.good = call.good
        BY <1>1, <1>4, <2>3 DEF Past, Idle
      <3>2. /\ After["purpose"] = "public" /\ After["public"] = "anyPublic"
        BY DEF After
      <3>3. \A k \in Position : k <= call.at /\ ~(k < 1)
        BY <2>1, Table
      <3>4. \A k \in Position : Suits(call, k) => IdAt(k) \in call.bad
        BY <1>1, <2>3, <3>3, PassedDegraded
      <3>5. \A k \in Position : Usable(call', k) <=> Usable(call, k)
        BY <3>1 DEF Usable
      <3>6. CASE call.pc = "purpose"
        <4>1. \A k \in Position : Usable(call, k) => IdAt(k) \in call.bad
          BY <3>4, <3>6 DEF Suits, Usable
        <4> QED BY <3>1, <3>2, <3>3, <3>5, <3>6, <4>1 DEF SeenInv, Current, Explained,
                  FallbackExplained, GrantExplained, Granted
      <3>7. CASE call.pc = "public"
        <4>1. IdAt(1) \in call.bad /\ IdAt(1) = "public"
          BY <3>4, <3>7, Table DEF Suits, IdAt, DefaultChannels, Chan
        <4> QED BY <3>1, <3>2, <3>5, <3>7, <4>1 DEF SeenInv, Current, Explained,
                  FallbackExplained, GrantExplained, Granted
      <3> QED BY <1>1, <2>3, <3>6, <3>7
    <2> QED BY <2>2, <2>3
  <1> QED BY <1>3, <1>4

LEMMA SeenNext ==
  ASSUME CallOK, SeenInv, [Next]_vars
  PROVE  SeenInv'
PROOF
  <1>1. ASSUME call' = call, health' = health PROVE SeenInv'
    BY <1>1, OutcomeKept DEF SeenInv, Current, Explained, Suits, Usable
  <1>2. ASSUME NEW r \in Report, ApplyChannelHealth(r) PROVE SeenInv'
    BY <1>2, SeenHealth
  <1>3. ASSUME NEW g \in Group, NEW x \in Extra, NEW u \in Purpose, Begin(g, x, u) PROVE SeenInv'
    BY <1>3, SeenBegin
  <1>4. ASSUME NEW p \in Peer, Ask(p) PROVE SeenInv'
    BY <1>4, SeenAsk
  <1>5. CASE Allocate
    BY <1>5, SeenAsk
  <1>6. ASSUME NEW p \in Peer, NEW d \in Device, SetCapability(p, d) PROVE SeenInv'
    BY <1>1, <1>6 DEF SetCapability
  <1>7. CASE ClearCapabilities
    BY <1>1, <1>7 DEF ClearCapabilities
  <1>8. CASE Scan
    BY <1>8, SeenGrant, SeenPast DEF Scan
  <1>9. CASE UNCHANGED vars
    BY <1>1, <1>9 DEF vars
  <1> QED BY <1>2, <1>3, <1>4, <1>5, <1>6, <1>7, <1>8, <1>9 DEF Next

\* The channel that is granted was healthy at some moment of the call, or it is
\* the public one after it was found degraded, whatever is reported between two
\* turns of the loops.
THEOREM GrantExplainedHolds == Spec => []GrantExplained
PROOF
  <1>1. Init => CallOK /\ SeenInv
    BY InitOK, SeenInit
  <1>2. CallOK /\ SeenInv /\ [Next]_vars => (CallOK /\ SeenInv)'
    BY NextOK, SeenNext
  <1>3. SeenInv => GrantExplained
    BY DEF SeenInv
  <1> QED BY <1>1, <1>2, <1>3, PTL DEF Spec

\* A caller is sent to the fallback only if each channel of its purpose that all
\* its peers can use was degraded at some moment of the call.
THEOREM FallbackExplainedHolds == Spec => []FallbackExplained
PROOF
  <1>1. Init => CallOK /\ SeenInv
    BY InitOK, SeenInit
  <1>2. CallOK /\ SeenInv /\ [Next]_vars => (CallOK /\ SeenInv)'
    BY NextOK, SeenNext
  <1>3. SeenInv => FallbackExplained
    BY DEF SeenInv
  <1> QED BY <1>1, <1>2, <1>3, PTL DEF Spec

------------------------------------------------------------------------------
(***************************************************************************)
(* Types.                                                                    *)
(***************************************************************************)
\* The classifier knows three tiers, whatever a device reports.
LEMMA Classified == \A d : ClassifyTier(d) \in Tier
  BY DEF ClassifyTier, Tier

Counted == budget.sets \in 0 .. MaxSets /\ budget.reports \in 0 .. MaxReports

LEMMA TypeInit == Init => TypeOK /\ DOMAIN budget = {"sets", "reports"}
PROOF
  <1> SUFFICES ASSUME Init PROVE TypeOK /\ DOMAIN budget = {"sets", "reports"}
    OBVIOUS
  <1>1. cap \in [Peer -> Tier \cup {None}]
    BY DEF Init
  <1>2. \A i \in ChannelId : health[i] = None
    BY DEF Init
  <1>3. call.pc = "idle" /\ call.at = 1 /\ call.grant = None /\ 1 \in Position
    BY Table DEF Init, Idle
  <1>4. Counted /\ DOMAIN budget = {"sets", "reports"}
    BY BoundsAssumption DEF Init, Counted
  <1> QED BY <1>1, <1>2, <1>3, <1>4 DEF TypeOK, Counted

\* Of the maps and the budget, a report changes what it is about.
LEMMA TypeReport ==
  ASSUME TypeOK, SeenInv, DOMAIN budget = {"sets", "reports"}, [Next]_vars
  PROVE  /\ cap' \in [Peer -> Tier \cup {None}]
         /\ \A i \in ChannelId :
              health'[i] = None \/ (health'[i] \in Report /\ health'[i].channelId = i)
         /\ Counted' /\ DOMAIN budget' = {"sets", "reports"}
PROOF
  <1> DEFINE Goal == /\ cap' \in [Peer -> Tier \cup {None}]
                     /\ \A i \in ChannelId :
                          health'[i] = None \/ (health'[i] \in Report /\ health'[i].channelId = i)
                     /\ Counted' /\ DOMAIN budget' = {"sets", "reports"}
  <1>1. ASSUME cap' = cap, health' = health, budget' = budget PROVE Goal
    BY <1>1 DEF TypeOK, Counted
  <1>2. ASSUME NEW p \in Peer, NEW d \in Device, SetCapability(p, d) PROVE Goal
    <2>1. cap' \in [Peer -> Tier \cup {None}]
      BY <1>2, Classified DEF TypeOK, SetCapability
    <2>2. /\ budget'.sets = budget.sets - 1 /\ budget'.reports = budget.reports
          /\ budget.sets > 0 /\ DOMAIN budget' = {"sets", "reports"} /\ health' = health
      BY <1>2 DEF SetCapability
    <2>3. Counted'
      BY <2>2, BoundsAssumption DEF TypeOK, Counted
    <2> QED BY <2>1, <2>2, <2>3 DEF TypeOK
  <1>3. ASSUME NEW r \in Report, ApplyChannelHealth(r) PROVE Goal
    <2>1. /\ budget'.reports = budget.reports - 1 /\ budget'.sets = budget.sets
          /\ budget.reports > 0 /\ DOMAIN budget' = {"sets", "reports"} /\ cap' = cap
      BY <1>3 DEF ApplyChannelHealth
    <2>2. Counted'
      BY <2>1, BoundsAssumption DEF TypeOK, Counted
    <2>3. \A i \in ChannelId :
            health'[i] = None \/ (health'[i] \in Report /\ health'[i].channelId = i)
      BY <1>3 DEF ApplyChannelHealth, TypeOK, SeenInv
    <2> QED BY <2>1, <2>2, <2>3 DEF TypeOK
  <1>4. ASSUME ClearCapabilities PROVE Goal
    BY <1>4 DEF ClearCapabilities, TypeOK, Counted
  <1>5. ASSUME NEW g \in Group, NEW x \in Extra, NEW u \in Purpose, Begin(g, x, u) PROVE Goal
    BY <1>1, <1>5 DEF Begin
  <1>6. ASSUME NEW p \in Peer, Ask(p) PROVE Goal
    BY <1>1, <1>6 DEF Ask
  <1>7. ASSUME Allocate \/ Scan PROVE Goal
    BY <1>1, <1>7 DEF Allocate, Scan
  <1>8. ASSUME UNCHANGED vars PROVE Goal
    BY <1>1, <1>8 DEF vars
  <1> HIDE DEF Goal
  <1>9. Goal
    BY <1>2, <1>3, <1>4, <1>5, <1>6, <1>7, <1>8 DEF Next
  <1> QED BY <1>9 DEF Goal

\* What is granted is a channel of the table.
LEMMA TypeGrant ==
  ASSUME CallOK, call.grant \in Channel \cup {None}, [Next]_vars
  PROVE  call'.grant \in Channel \cup {None}
PROOF
  <1>1. ASSUME NEW r \in Report, ApplyChannelHealth(r) PROVE call'.grant = call.grant
    BY <1>1, Watched DEF ApplyChannelHealth, CallOK
  <1>2. ASSUME NEW g \in Group, NEW x \in Extra, NEW u \in Purpose, Begin(g, x, u)
        PROVE  call'.grant = None
    <2> DEFINE fresh == [Idle EXCEPT !.pc = "ask", !.rest = g, !.tiers = x,
                           !.purpose = IF u = "" THEN "publicVibe" ELSE u]
    <2>1. call' = Watch(fresh, health)
      BY <1>2 DEF Begin
    <2>2. DOMAIN fresh = DOMAIN Idle /\ fresh.grant = None
      BY DEF Idle
    <2> HIDE DEF fresh
    <2> QED BY <2>1, <2>2, Watched
  <1>3. ASSUME NEW p \in Peer, Ask(p) PROVE call'.grant = call.grant
    BY <1>3 DEF Ask, CallOK, Idle
  <1>4. CASE Allocate
    BY <1>4 DEF Allocate, CallOK, Idle
  <1>5. CASE Scan
    <2>1. call.at \in Position /\ DOMAIN call = DOMAIN Idle
      BY DEF CallOK
    <2>2. DefaultChannels[call.at] \in Channel
      BY <2>1 DEF Channel
    <2>3. CASE call' = [call EXCEPT !.pc = "idle", !.grant = DefaultChannels[call.at],
                                    !.fallback = call.pc # "purpose"]
      BY <2>1, <2>2, <2>3 DEF Idle
    <2>4. CASE call' = Past(call)
      BY <2>1, <2>4 DEF Past, Idle
    <2> QED BY <1>5, <2>3, <2>4 DEF Scan
  <1>6. CASE UNCHANGED call
    BY <1>6
  <1>7. ASSUME NEW p \in Peer, NEW d \in Device, SetCapability(p, d) PROVE UNCHANGED call
    BY <1>7 DEF SetCapability
  <1> QED BY <1>1, <1>2, <1>3, <1>4, <1>5, <1>6, <1>7 DEF Next, ClearCapabilities, vars

\* The maps hold tiers of the classifier and reports on the channel they are kept
\* under, for any peers, devices and reports.
THEOREM ChannelsTypeCorrect == Spec => []TypeOK
PROOF
  <1> DEFINE Inv == CallOK /\ SeenInv /\ TypeOK /\ DOMAIN budget = {"sets", "reports"}
  <1>1. Init => Inv
    BY InitOK, SeenInit, TypeInit
  <1>2. Inv /\ [Next]_vars => Inv'
    <2> SUFFICES ASSUME Inv, [Next]_vars PROVE Inv'
      OBVIOUS
    <2>1. CallOK' /\ SeenInv'
      BY NextOK, SeenNext
    <2>2. /\ cap' \in [Peer -> Tier \cup {None}]
          /\ \A i \in ChannelId :
               health'[i] = None \/ (health'[i] \in Report /\ health'[i].channelId = i)
          /\ Counted' /\ DOMAIN budget' = {"sets", "reports"}
      BY TypeReport
    <2>3. call'.grant \in Channel \cup {None}
      BY TypeGrant DEF TypeOK
    <2> QED BY <2>1, <2>2, <2>3 DEF TypeOK, CallOK, Counted
  <1>3. Inv => TypeOK
    OBVIOUS
  <1> HIDE DEF Inv
  <1> QED BY <1>1, <1>2, <1>3, PTL DEF Spec

==============================================================================
