-------------------------- MODULE AcousticLinkProofs --------------------------
(***************************************************************************)
(* Proofs about the acoustic link for any layout of a transmission, any sizes  *)
(* of windows and reads, any number of phones, and any length of the stream.    *)
(***************************************************************************)
EXTENDS AcousticLink, TLAPS

Packet == {None} \cup {EncodeFrame(t, second) : t \in Transmitter, second \in Int}

Sound == [start : Nat, tone : Nat, data : Packet]

Frame == [mark : Nat, data : Packet \cup {Garbled}, at : Nat]

HistoryOK == air \in Seq(Sound) /\ frames \in Seq(Frame)

FrameEnd(f) == f.mark + Gap + DataLen

\* Frames are behind the buffer: what they were read from is gone.
FramesPast == \A i \in DOMAIN frames : FrameEnd(frames[i]) <= base

\* The n windows before position at hold marker tone that no frame was read from.
Counted(at, n) ==
  \A k \in 1 .. n :
    /\ HoldsMarker(at - k * StepSize)
    /\ \A i \in DOMAIN frames : at - k * StepSize >= FrameEnd(frames[i])

\* The counter counts windows of the stream, wherever the buffer starts.
CountExact ==
  /\ state \in {"idle", "mark"} => Counted(base + nextWindow, consecutiveMarkers)
  /\ state = "gap" => Counted(base + markerEndIdx, Locks)

\* Only what the last read returned can be ahead of the windows.
AlmostDrained ==
  /\ state \in {"idle", "mark"} =>
       \E n \in Blocks : Buffered < nextWindow + WindowSize + n
  /\ state = "gap" => \E n \in Blocks : Buffered < DataEnd + WindowSize + n

\* No marker has ended.
Unmarked == state \in {"idle", "mark"} => markerEndIdx = 0

IInv ==
  /\ Unmarked
  /\ HistoryOK
  /\ ModemTypeOK
  /\ FramesPast
  /\ CountExact
  /\ LockExplained
  /\ AlmostDrained
  /\ IdleBounded
  /\ FramesExact

------------------------------------------------------------------------------
\* The lengths are natural numbers.
LEMMA LengthsNatural ==
  /\ DataLen \in Nat
  /\ WindowSize \in Nat /\ WindowSize > 0
  /\ StepSize \in Nat /\ StepSize > 0
  /\ Locks \in Nat /\ Locks > 0
  /\ SamplesPerBit \in Nat /\ SamplesPerBit > 0
  /\ {Preamble, Gap, Postamble, NBits, Keep, EndOfStream} \subseteq Nat
PROOF
  <1>1. /\ {WindowSize, StepSize, Locks, SamplesPerBit} \subseteq Nat \ {0}
        /\ {Preamble, Gap, Postamble, NBits, Keep, EndOfStream} \subseteq Nat
    BY ModemAssumption
  <1>2. ASSUME NEW a \in Nat, NEW b \in Nat PROVE a * b \in Nat
    OBVIOUS
  <1>3. DataLen \in Nat
    BY <1>1, <1>2 DEF DataLen
  <1> QED BY <1>1, <1>3

\* Some read returns something.
LEMMA BlocksPositive == Blocks # {} /\ \A n \in Blocks : n \in Nat /\ n > 0
  BY ModemAssumption

\* The frames are of their type.
LEMMA FrameTypes ==
  ASSUME HistoryOK
  PROVE  /\ \A i \in DOMAIN frames : frames[i] \in Frame /\ frames[i].mark \in Nat
         /\ DOMAIN frames = 1 .. Len(frames) /\ Len(frames) \in Nat
PROOF
  <1>1. /\ \A i \in DOMAIN frames : frames[i] \in Frame
        /\ DOMAIN frames = 1 .. Len(frames) /\ Len(frames) \in Nat
    BY DEF HistoryOK
  <1>2. \A f \in Frame : f.mark \in Nat
    BY DEF Frame
  <1> QED BY <1>1, <1>2

LEMMA InitInv == ModemInit => IInv
PROOF
  <1> SUFFICES ASSUME ModemInit PROVE IInv
    OBVIOUS
  <1> USE LengthsNatural DEF ModemInit
  <1>1. HistoryOK
    BY DEF HistoryOK
  <1>2. ModemTypeOK
    BY DEF ModemTypeOK, Buffered
  <1>3. FramesPast /\ LockExplained /\ FramesExact
    BY DEF FramesPast, LockExplained, FramesExact
  <1>4. CountExact
    <2>1. \A k \in 1 .. consecutiveMarkers : FALSE
      OBVIOUS
    <2>2. state # "gap"
      OBVIOUS
    <2>3. Counted(base + nextWindow, consecutiveMarkers)
      BY ONLY <2>1 DEF Counted
    <2> QED BY ONLY <2>2, <2>3 DEF CountExact
  <1>5. PICK n \in Blocks : n \in Nat /\ n > 0
    BY BlocksPositive
  <1>6. AlmostDrained /\ IdleBounded
    BY <1>5 DEF AlmostDrained, IdleBounded, Buffered
  <1> QED BY <1>1, <1>2, <1>3, <1>4, <1>6 DEF IInv, Unmarked

------------------------------------------------------------------------------
\* What holds marker tone still does when one more sound is in the air.
LEMMA SoundsGrow ==
  ASSUME HistoryOK, NEW s \in Sound, Play(s)
  PROVE  /\ air' \in Seq(Sound)
         /\ Sounds' = Sounds \cup {s}
         /\ \A w \in Int : HoldsMarker(w) => HoldsMarker(w)'
PROOF
  <1>1. air \in Seq(Sound) /\ air' = Append(air, s)
    BY DEF HistoryOK, Play
  <1>2. /\ air' \in Seq(Sound) /\ Len(air') = Len(air) + 1
        /\ \A i \in 1 .. Len(air) : air'[i] = air[i]
        /\ air'[Len(air) + 1] = s
    BY <1>1
  <1>3. DOMAIN air = 1 .. Len(air) /\ DOMAIN air' = 1 .. Len(air) + 1 /\ Len(air) \in Nat
    BY <1>1, <1>2
  <1>4. Sounds' = Sounds \cup {s}
    <2>1. ASSUME NEW r \in Sounds PROVE r \in Sounds'
      BY <1>2, <1>3 DEF Sounds
    <2>2. s \in Sounds'
      BY <1>2, <1>3 DEF Sounds
    <2>3. ASSUME NEW r \in Sounds' PROVE r \in Sounds \cup {s}
      <3>1. PICK i \in 1 .. Len(air) + 1 : r = air'[i]
        BY <1>3 DEF Sounds
      <3> QED BY <1>2, <1>3, <3>1 DEF Sounds
    <2> QED BY <2>1, <2>2, <2>3
  <1>5. \A w \in Int : HoldsMarker(w) => HoldsMarker(w)'
    BY <1>4 DEF HoldsMarker, Window, Part, MarkerEnd
  <1> QED BY <1>2, <1>4, <1>5

\* The sounds are of their type.
LEMMA SoundTypes ==
  ASSUME HistoryOK
  PROVE  Sounds \subseteq Sound
  BY DEF HistoryOK, Sounds

\* A sound that starts now is not what an earlier frame was read from.
LEMMA PlayFramesExact ==
  ASSUME IInv, NEW s \in Sound, s.start >= heard, Play(s),
         s.data # None => s.tone = Preamble
  PROVE  FramesExact'
PROOF
  <1> USE LengthsNatural
  <1>1. Sounds' = Sounds \cup {s} /\ frames' = frames
    BY SoundsGrow DEF IInv, Play
  <1> SUFFICES ASSUME NEW i \in DOMAIN frames, NEW r \in Sounds',
                      TakenFrom(frames[i], r), Undisturbed(r)'
               PROVE  frames[i].data = r.data
    BY <1>1 DEF FramesExact, TakenFrom
  <1>2. CASE r \in Sounds
    <2>1. Undisturbed(r)
      BY <1>1 DEF Undisturbed
    <2> QED BY <1>2, <2>1 DEF IInv, FramesExact
  <1>3. CASE r = s
    <2>1. frames[i] \in Frame /\ s.start \in Nat /\ base \in Nat /\ heard \in Int /\ base <= heard
      BY DEF IInv, HistoryOK, ModemTypeOK, Sound
    <2>2. frames[i].mark \in Nat /\ frames[i].mark <= base
      BY <2>1 DEF IInv, FramesPast, FrameEnd, Frame
    <2>3. frames[i].mark >= s.start + Preamble - WindowSize + 1
      BY <1>3, <2>1, <2>2 DEF TakenFrom, MarkerEnd
    <2>4. WindowSize <= Preamble
      BY LayoutAssumption
    <2> QED BY <2>1, <2>2, <2>3, <2>4
  <1> QED BY <1>1, <1>2, <1>3

\* Whatever starts to sound leaves the receiver as it was.
LEMMA PlayInv ==
  ASSUME IInv, NEW s \in Sound, s.start >= heard, Play(s),
         s.data # None => s.tone = Preamble
  PROVE  IInv'
PROOF
  <1> USE LengthsNatural
  <1>1. UNCHANGED <<heard, base, state, consecutiveMarkers, markerEndIdx, nextWindow, frames>>
    BY DEF Play
  <1>2. HistoryOK'
    BY <1>1, SoundsGrow DEF IInv, HistoryOK
  <1>3. ModemTypeOK'
    BY <1>1 DEF IInv, ModemTypeOK, Buffered
  <1>4. FramesPast'
    BY <1>1 DEF IInv, FramesPast, FrameEnd
  <1>5. /\ \A w \in Int : HoldsMarker(w) => HoldsMarker(w)'
        /\ base \in Nat /\ nextWindow \in Nat /\ markerEndIdx \in Nat /\ consecutiveMarkers \in Nat
    BY SoundsGrow DEF IInv, ModemTypeOK, Buffered
  <1>6. ASSUME NEW at \in Int, NEW n \in Nat, Counted(at, n), NEW k \in 1 .. n
        PROVE  /\ HoldsMarker(at - k * StepSize)'
               /\ \A i \in DOMAIN frames : at - k * StepSize >= FrameEnd(frames[i])
    <2>1. at - k * StepSize \in Int
      OBVIOUS
    <2> QED BY <1>5, <1>6, <2>1 DEF Counted
  <1>7. CountExact'
    <2>1. base + nextWindow \in Int /\ base + markerEndIdx \in Int
      BY <1>5
    <2>2. ASSUME state \in {"idle", "mark"} PROVE Counted(base + nextWindow, consecutiveMarkers)'
      <3>1. Counted(base + nextWindow, consecutiveMarkers)
        BY <2>2 DEF IInv, CountExact
      <3> QED BY <1>1, <1>5, <1>6, <2>1, <3>1 DEF Counted, FrameEnd
    <2>3. ASSUME state = "gap" PROVE Counted(base + markerEndIdx, Locks)'
      <3>1. Counted(base + markerEndIdx, Locks)
        BY <2>3 DEF IInv, CountExact
      <3> QED BY <1>1, <1>6, <2>1, <3>1 DEF Counted, FrameEnd
    <2> QED BY <1>1, <2>2, <2>3 DEF CountExact
  <1>8. LockExplained'
    <2>1. ASSUME NEW i \in DOMAIN frames, NEW k \in 1 .. Locks
          PROVE  frames[i].mark - k * StepSize \in Int
      <3>1. frames[i].mark \in Nat
        BY FrameTypes DEF IInv
      <3> QED BY <3>1
    <2> QED BY <1>1, <1>5, <2>1 DEF IInv, LockExplained, HoldsMarker
  <1>9. AlmostDrained' /\ IdleBounded'
    BY <1>1 DEF IInv, AlmostDrained, IdleBounded, Buffered, DataEnd, DataStart
  <1>10. FramesExact'
    BY PlayFramesExact
  <1> QED BY <1>1, <1>2, <1>3, <1>4, <1>7, <1>8, <1>9, <1>10 DEF IInv, Unmarked

------------------------------------------------------------------------------
\* The parts that do not look at the receiver's own variables.
LEMMA HistoryKept ==
  ASSUME IInv, UNCHANGED <<air, frames>>
  PROVE  /\ HistoryOK' /\ LockExplained' /\ FramesExact'
         /\ \A w \in Int : HoldsMarker(w) => HoldsMarker(w)'
PROOF
  <1>1. HistoryOK'
    BY DEF IInv, HistoryOK
  <1>2. Sounds' = Sounds
    BY DEF Sounds
  <1>3. \A w \in Int : HoldsMarker(w) => HoldsMarker(w)'
    BY <1>2 DEF HoldsMarker
  <1>4. LockExplained'
    BY <1>2 DEF IInv, LockExplained, HoldsMarker
  <1>5. FramesExact'
    BY <1>2 DEF IInv, FramesExact, TakenFrom, Undisturbed
  <1> QED BY <1>1, <1>3, <1>4, <1>5

\* Counting on.
LEMMA CountOn ==
  ASSUME NEW at \in Int, NEW n \in Nat, Counted(at, n), HoldsMarker(at),
         \A i \in DOMAIN frames : at >= FrameEnd(frames[i])
  PROVE  Counted(at + StepSize, n + 1)
PROOF
  <1>0. StepSize \in Nat
    BY LengthsNatural
  <1> SUFFICES ASSUME NEW k \in 1 .. n + 1
               PROVE  /\ HoldsMarker((at + StepSize) - k * StepSize)
                      /\ \A i \in DOMAIN frames : (at + StepSize) - k * StepSize >= FrameEnd(frames[i])
    BY DEF Counted
  <1>1. CASE k = 1
    <2>1. (at + StepSize) - k * StepSize = at
      BY <1>0, <1>1
    <2> QED BY <2>1
  <1>2. CASE k # 1
    <2>1. k - 1 \in 1 .. n
      BY <1>2
    <2>2. (at + StepSize) - k * StepSize = at - (k - 1) * StepSize
      BY <1>0
    <2> QED BY <2>1, <2>2 DEF Counted
  <1> QED BY <1>1, <1>2

\* A shorter count.
LEMMA CountFewer ==
  ASSUME NEW at, NEW n \in Nat, Counted(at, n + 1)
  PROVE  Counted(at, n)
PROOF
  <1>1. \A k \in 1 .. n : k \in 1 .. n + 1
    OBVIOUS
  <1> QED BY <1>1 DEF Counted

\* Where the receiver stands, in numbers.
LEMMA Numbers ==
  ASSUME ModemTypeOK
  PROVE  /\ base \in Nat /\ heard \in Nat /\ base <= heard /\ heard <= EndOfStream
         /\ Buffered \in Nat /\ Buffered = heard - base
         /\ nextWindow \in Nat /\ nextWindow <= Buffered
         /\ markerEndIdx \in Nat /\ markerEndIdx <= nextWindow
         /\ consecutiveMarkers \in Nat /\ consecutiveMarkers <= Locks
         /\ DataStart \in Nat /\ DataEnd \in Nat
         /\ DataStart = markerEndIdx + Gap /\ DataEnd = markerEndIdx + Gap + DataLen
  BY LengthsNatural DEF ModemTypeOK, Buffered, DataStart, DataEnd

\* The buffer starts behind every frame, so the next window is.
LEMMA WindowPast ==
  ASSUME IInv
  PROVE  /\ base + nextWindow \in Int
         /\ \A i \in DOMAIN frames : base + nextWindow >= FrameEnd(frames[i])
PROOF
  <1>1. base \in Nat /\ nextWindow \in Nat
    BY Numbers DEF IInv
  <1>2. ASSUME NEW i \in DOMAIN frames PROVE FrameEnd(frames[i]) \in Int /\ FrameEnd(frames[i]) <= base
    BY FrameTypes, LengthsNatural DEF IInv, FramesPast, FrameEnd
  <1> QED BY <1>1, <1>2

------------------------------------------------------------------------------
\* A window slides on: it stays inside the buffer, which is as it was.
LEMMA SlideKept ==
  ASSUME IInv, Slide, state \in {"idle", "mark"}
  PROVE  /\ nextWindow' \in 0 .. Buffered' /\ nextWindow' = nextWindow + StepSize
         /\ base' = base /\ heard' = heard /\ Buffered' = Buffered /\ FramesPast'
         /\ \E n \in Blocks : Buffered' < nextWindow + WindowSize + n
PROOF
  <1>1. /\ nextWindow \in Nat /\ Buffered \in Nat /\ StepSize \in Nat /\ WindowSize \in Nat
        /\ StepSize <= WindowSize
    BY Numbers, LengthsNatural, LayoutAssumption DEF IInv
  <1>2. nextWindow + WindowSize <= Buffered
    BY <1>1 DEF Slide, Starved
  <1>3. Buffered' = Buffered
    BY DEF Slide, Buffered
  <1>4. FramesPast'
    BY DEF Slide, IInv, FramesPast, FrameEnd
  <1> QED BY <1>1, <1>2, <1>3, <1>4 DEF Slide, IInv, AlmostDrained

LEMMA IdleMarkerInv ==
  ASSUME IInv, IdleMarker
  PROVE  IInv'
PROOF
  <1> USE LengthsNatural, Numbers
  <1>0. state = "idle" /\ Slide /\ consecutiveMarkers < Locks /\ markerEndIdx' = markerEndIdx
    BY DEF IdleMarker, IInv, ModemTypeOK
  <1>1. HistoryOK' /\ LockExplained' /\ FramesExact' /\ FramesPast'
    BY <1>0, HistoryKept, SlideKept DEF Slide
  <1>2. /\ consecutiveMarkers' = consecutiveMarkers + 1
        /\ \/ state' = "mark" /\ consecutiveMarkers' = Locks
           \/ state' = "idle" /\ consecutiveMarkers' < Locks
    BY <1>0 DEF IdleMarker, IInv
  <1>3. ModemTypeOK'
    BY <1>0, <1>2, SlideKept DEF IInv, ModemTypeOK
  <1>4. CountExact'
    <2>1. Counted(base + nextWindow, consecutiveMarkers) /\ HoldsMarker(base + nextWindow)
      BY <1>0 DEF IInv, CountExact, IdleMarker, MayDominate
    <2>2. Counted(base + nextWindow + StepSize, consecutiveMarkers + 1)
      BY <2>1, WindowPast, CountOn DEF IInv
    <2>3. /\ base' + nextWindow' = base + nextWindow + StepSize
          /\ consecutiveMarkers' = consecutiveMarkers + 1
      BY <1>0, <1>2, SlideKept DEF IInv
    <2>4. frames' = frames /\ Sounds' = Sounds
      BY <1>0 DEF Slide, Sounds
    <2>5. Counted(base + nextWindow, consecutiveMarkers)'
      BY <2>2, <2>3, <2>4 DEF Counted, HoldsMarker, FrameEnd
    <2> QED BY <1>2, <2>5 DEF CountExact
  <1>5. AlmostDrained'
    BY <1>0, <1>2, SlideKept, BlocksPositive DEF IInv, AlmostDrained
  <1>6. IdleBounded'
    BY <1>0, SlideKept DEF IInv, IdleBounded
  <1> QED BY <1>0, <1>1, <1>3, <1>4, <1>5, <1>6 DEF IInv, Unmarked

LEMMA IdleOtherInv ==
  ASSUME IInv, IdleOther
  PROVE  IInv'
PROOF
  <1> USE LengthsNatural, Numbers
  <1>0. /\ state = "idle" /\ Slide /\ state' = "idle"
        /\ consecutiveMarkers' = 0 /\ markerEndIdx' = markerEndIdx
    BY DEF IdleOther, Recount
  <1>1. HistoryOK' /\ LockExplained' /\ FramesExact' /\ FramesPast'
    BY <1>0, HistoryKept, SlideKept DEF Slide
  <1>2. ModemTypeOK'
    BY <1>0, SlideKept DEF IInv, ModemTypeOK
  <1>3. CountExact'
    <2>1. \A k \in 1 .. consecutiveMarkers' : FALSE
      BY <1>0
    <2>2. Counted(base + nextWindow, consecutiveMarkers)'
      BY ONLY <2>1 DEF Counted
    <2> QED BY <1>0, <2>2 DEF CountExact
  <1>4. AlmostDrained'
    BY <1>0, SlideKept, BlocksPositive DEF IInv, AlmostDrained
  <1>5. IdleBounded'
    BY <1>0, SlideKept DEF IInv, IdleBounded
  <1> QED BY <1>0, <1>1, <1>2, <1>3, <1>4, <1>5 DEF IInv, Unmarked

LEMMA MarkContinuesInv ==
  ASSUME IInv, MarkContinues
  PROVE  IInv'
PROOF
  <1> USE LengthsNatural, Numbers
  <1>0. /\ state = "mark" /\ Slide /\ state' = "mark" /\ consecutiveMarkers = Locks
        /\ consecutiveMarkers' = consecutiveMarkers /\ markerEndIdx' = markerEndIdx
    BY DEF MarkContinues, IInv, ModemTypeOK
  <1>1. HistoryOK' /\ LockExplained' /\ FramesExact' /\ FramesPast'
    BY <1>0, HistoryKept, SlideKept DEF Slide
  <1>2. ModemTypeOK'
    BY <1>0, SlideKept DEF IInv, ModemTypeOK
  <1>3. CountExact'
    <2>1. Counted(base + nextWindow, consecutiveMarkers) /\ HoldsMarker(base + nextWindow)
      BY <1>0 DEF IInv, CountExact, MarkContinues, MayDominate
    <2>2. Counted(base + nextWindow + StepSize, consecutiveMarkers)
      BY <2>1, WindowPast, CountOn, CountFewer DEF IInv
    <2>3. base' + nextWindow' = base + nextWindow + StepSize
      BY <1>0, SlideKept DEF IInv
    <2>4. frames' = frames /\ Sounds' = Sounds
      BY <1>0 DEF Slide, Sounds
    <2>5. Counted(base + nextWindow, consecutiveMarkers)'
      BY <1>0, <2>2, <2>3, <2>4 DEF Counted, HoldsMarker, FrameEnd
    <2> QED BY <1>0, <2>5 DEF CountExact
  <1>4. AlmostDrained'
    BY <1>0, SlideKept, BlocksPositive DEF IInv, AlmostDrained
  <1>5. IdleBounded'
    BY <1>0 DEF IdleBounded
  <1> QED BY <1>0, <1>1, <1>2, <1>3, <1>4, <1>5 DEF IInv, Unmarked

LEMMA MarkEndsInv ==
  ASSUME IInv, MarkEnds
  PROVE  IInv'
PROOF
  <1> USE LengthsNatural, Numbers
  <1>0. /\ state = "mark" /\ Slide /\ state' = "gap" /\ consecutiveMarkers = Locks
        /\ consecutiveMarkers' = consecutiveMarkers /\ markerEndIdx' = nextWindow
    BY DEF MarkEnds, IInv, ModemTypeOK
  <1>1. HistoryOK' /\ LockExplained' /\ FramesExact' /\ FramesPast'
    BY <1>0, HistoryKept, SlideKept DEF Slide
  <1>2. ModemTypeOK'
    BY <1>0, SlideKept DEF IInv, ModemTypeOK
  <1>3. CountExact'
    <2>1. Counted(base + nextWindow, Locks)
      BY <1>0 DEF IInv, CountExact
    <2>2. base' + markerEndIdx' = base + nextWindow
      BY <1>0, SlideKept DEF IInv
    <2>3. frames' = frames /\ Sounds' = Sounds
      BY <1>0 DEF Slide, Sounds
    <2>4. Counted(base + markerEndIdx, Locks)'
      BY <2>1, <2>2, <2>3 DEF Counted, HoldsMarker, FrameEnd
    <2> QED BY <1>0, <2>4 DEF CountExact
  <1>4. AlmostDrained'
    <2>1. PICK n \in Blocks : Buffered' < nextWindow + WindowSize + n
      BY <1>0, SlideKept
    <2>2. DataEnd' = nextWindow + Gap + DataLen
      BY <1>0 DEF DataEnd, DataStart
    <2>3. Buffered' < DataEnd' + WindowSize + n
      BY <1>0, <2>1, <2>2, SlideKept, BlocksPositive DEF IInv
    <2> QED BY <1>0, <2>3 DEF AlmostDrained
  <1>5. IdleBounded'
    BY <1>0 DEF IdleBounded
  <1> QED BY <1>0, <1>1, <1>2, <1>3, <1>4, <1>5 DEF IInv, Unmarked

------------------------------------------------------------------------------
\* Slot i lies inside the data of a transmission.
LEMMA SlotInData ==
  ASSUME NEW i \in 0 .. NBits - 1
  PROVE  /\ i * SamplesPerBit \in Nat
         /\ i * SamplesPerBit + SamplesPerBit <= DataLen
PROOF
  <1>0. NBits \in Nat /\ SamplesPerBit \in Nat
    BY LengthsNatural
  <1>1. ASSUME NEW a \in Nat, NEW b \in Nat, NEW c \in Nat, a <= b PROVE a * c <= b * c /\ a * c \in Nat
    BY <1>1
  <1>2. (i + 1) * SamplesPerBit <= NBits * SamplesPerBit /\ i * SamplesPerBit \in Nat
    BY <1>0, <1>1
  <1>3. (i + 1) * SamplesPerBit = i * SamplesPerBit + SamplesPerBit
    BY <1>0
  <1> QED BY <1>2, <1>3 DEF DataLen

\* A marker's end that is known to a window and a hop is known well enough.
LEMMA BitsInStep ==
  ASSUME ModemTypeOK, NEW s \in Sound, s.data # None,
         base + markerEndIdx \in MarkerEnd(s) - WindowSize + 1 .. MarkerEnd(s) + StepSize - 1
  PROVE  InStep(s)
PROOF
  <1> USE LengthsNatural, Numbers
  <1>1. s.start \in Nat /\ s.tone \in Nat /\ MarkerEnd(s) \in Nat
    BY DEF Sound, MarkerEnd
  <1>2. /\ SamplesPerBit \div 4 \in Nat /\ SamplesPerBit \div 2 \in Nat
        /\ 4 * (SamplesPerBit \div 4) <= SamplesPerBit
        /\ 2 * (SamplesPerBit \div 2) <= SamplesPerBit
    OBVIOUS
  <1>3. WindowSize <= SamplesPerBit \div 4 /\ StepSize <= SamplesPerBit \div 4
    BY <1>2, LayoutAssumption
  <1>4. ASSUME NEW i \in 0 .. NBits - 1, NEW x \in BitWindow(i) PROVE x \in Slot(s, i)
    <2> DEFINE offset == i * SamplesPerBit
    <2>1. offset \in Nat
      BY SlotInData
    <2>2. /\ x \in Int
          /\ x >= base + markerEndIdx + Gap + offset + SamplesPerBit \div 4
          /\ x <= base + markerEndIdx + Gap + offset + SamplesPerBit \div 4 + SamplesPerBit \div 2 - 1
      BY <2>1, <1>2 DEF BitWindow
    <2> HIDE DEF offset
    <2>3. /\ x >= MarkerEnd(s) + Gap + offset
          /\ x <= MarkerEnd(s) + Gap + offset + SamplesPerBit - 1
      BY <1>1, <1>2, <1>3, <2>1, <2>2
    <2> USE DEF offset
    <2> QED BY <1>1, <2>1, <2>2, <2>3 DEF Slot
  <1> QED BY <1>4 DEF InStep

\* Where a bit in step is read, an undisturbed sound sounds alone.
LEMMA NobodyElse ==
  ASSUME HistoryOK, NEW s \in Sounds, InStep(s), Undisturbed(s)
  PROVE  Alone(s)
PROOF
  <1> USE LengthsNatural
  <1> SUFFICES ASSUME NEW r \in Sounds \ {s}, NEW i \in 0 .. NBits - 1, NEW x \in BitWindow(i)
               PROVE  Part(r, x) = "silence"
    BY DEF Alone
  <1>1. s.start \in Nat /\ s.tone \in Nat /\ r.start \in Nat /\ r.tone \in Nat
    BY SoundTypes DEF Sound
  <1>2. s.data # None /\ x \in Slot(s, i)
    BY DEF InStep
  <1> DEFINE offset == i * SamplesPerBit
  <1>3. offset \in Nat /\ offset + SamplesPerBit <= DataLen
    BY SlotInData
  <1>4. /\ x \in Int
        /\ x >= s.start + s.tone + Gap + offset
        /\ x <= s.start + s.tone + Gap + offset + SamplesPerBit - 1
    BY <1>1, <1>2, <1>3 DEF Slot, MarkerEnd
  <1> HIDE DEF offset
  <1>5. x >= s.start /\ x < SoundEnd(s)
    BY <1>1, <1>2, <1>3, <1>4 DEF SoundEnd, MarkerEnd
  <1>6. CASE r.start >= SoundEnd(s)
    <2>1. x < r.start /\ x < MarkerEnd(r) + Gap
      BY <1>1, <1>2, <1>4, <1>5, <1>6 DEF SoundEnd, MarkerEnd
    <2>2. ~(r.start <= x) /\ ~(MarkerEnd(r) + Gap <= x)
      BY <1>1, <1>4, <2>1 DEF MarkerEnd
    <2> QED BY <2>2 DEF Part
  <1>7. CASE SoundEnd(r) <= s.start
    <2>1. MarkerEnd(r) <= x /\ (r.data # None => MarkerEnd(r) + Gap + DataLen <= x)
      BY <1>1, <1>4, <1>5, <1>7 DEF SoundEnd, MarkerEnd
    <2>2. ~(x < MarkerEnd(r)) /\ (r.data # None => ~(x < MarkerEnd(r) + Gap + DataLen))
      BY <1>1, <1>4, <2>1 DEF MarkerEnd
    <2> QED BY <2>2 DEF Part
  <1> QED BY <1>6, <1>7 DEF Undisturbed

\* No second sound is in step with the bits of a sound that is alone.
LEMMA OnlyOneInStep ==
  ASSUME HistoryOK, ModemTypeOK, NEW s \in Sounds, Alone(s), NEW r \in Sounds, InStep(r)
  PROVE  r = s
PROOF
  <1> USE LengthsNatural, Numbers
  <1> SUFFICES ASSUME r # s PROVE FALSE
    OBVIOUS
  <1>1. r.start \in Nat /\ r.tone \in Nat /\ r.data # None
    BY SoundTypes DEF Sound, InStep
  <1>2. 0 \in 0 .. NBits - 1 /\ SamplesPerBit \div 2 >= 1 /\ SamplesPerBit \div 4 \in Nat
    BY LayoutAssumption
  <1> DEFINE x == base + DataStart + 0 * SamplesPerBit + SamplesPerBit \div 4
  <1>3. x \in Int /\ x \in BitWindow(0)
    BY <1>2 DEF BitWindow
  <1>4. x \in Slot(r, 0)
    BY <1>2, <1>3 DEF InStep
  <1> HIDE DEF x
  <1>5. MarkerEnd(r) + Gap <= x /\ x < MarkerEnd(r) + Gap + DataLen
    BY <1>1, <1>2, <1>3, <1>4, SlotInData DEF Slot, MarkerEnd
  <1>6. ~(x < MarkerEnd(r))
    BY <1>1, <1>3, <1>5 DEF MarkerEnd
  <1>7. Part(r, x) = "data"
    BY <1>1, <1>5, <1>6 DEF Part
  <1>8. Part(r, x) = "silence"
    BY <1>2, <1>3 DEF Alone
  <1> QED BY <1>7, <1>8

\* What is read at the end of the preamble of an undisturbed transmission.
LEMMA ReadingsExact ==
  ASSUME HistoryOK, ModemTypeOK, NEW s \in Sounds, Undisturbed(s), s.data # None,
         base + markerEndIdx \in MarkerEnd(s) - WindowSize + 1 .. MarkerEnd(s) + StepSize - 1
  PROVE  Readings = {s.data}
PROOF
  <1>1. InStep(s)
    BY BitsInStep, SoundTypes
  <1>2. Alone(s)
    BY <1>1, NobodyElse
  <1>3. {r \in Sounds : InStep(r)} = {s}
    BY <1>1, <1>2, OnlyOneInStep
  <1> QED BY <1>2, <1>3 DEF Readings

------------------------------------------------------------------------------
\* What the pairs say is a packet or nothing.
LEMMA ReadingTypes ==
  ASSUME HistoryOK
  PROVE  Readings \subseteq Packet \cup {Garbled}
  BY SoundTypes DEF Readings, Sound

\* The frame that is taken out of the buffer.
LEMMA CollectFrames ==
  ASSUME IInv, CollectFrame
  PROVE  \E d \in Readings :
           LET f == [mark |-> base + markerEndIdx, data |-> d, at |-> heard]
           IN  /\ f \in Frame
               /\ frames' \in Seq(Frame)
               /\ DOMAIN frames' = DOMAIN frames \cup {Len(frames) + 1}
               /\ frames'[Len(frames) + 1] = f
               /\ \A i \in DOMAIN frames : frames'[i] = frames[i]
PROOF
  <1> USE Numbers
  <1>1. PICK d \in Readings :
          frames' = Append(frames, [mark |-> base + markerEndIdx, data |-> d, at |-> heard])
    BY DEF CollectFrame
  <1> DEFINE f == [mark |-> base + markerEndIdx, data |-> d, at |-> heard]
  <1>2. f \in Frame
    BY <1>1, ReadingTypes DEF IInv, Frame
  <1>3. frames \in Seq(Frame) /\ frames' = Append(frames, f)
    BY <1>1 DEF IInv, HistoryOK
  <1> HIDE DEF f
  <1>4. /\ frames' \in Seq(Frame)
        /\ DOMAIN frames' = 1 .. Len(frames) + 1 /\ DOMAIN frames = 1 .. Len(frames)
        /\ Len(frames) \in Nat
        /\ frames'[Len(frames) + 1] = f
        /\ \A i \in 1 .. Len(frames) : frames'[i] = frames[i]
    BY <1>2, <1>3
  <1>5. DOMAIN frames' = DOMAIN frames \cup {Len(frames) + 1}
    BY <1>4
  <1> USE DEF f
  <1> QED BY <1>2, <1>4, <1>5

LEMMA CollectFrameInv ==
  ASSUME IInv, CollectFrame
  PROVE  IInv'
PROOF
  <1> USE LengthsNatural
  <1> DEFINE last == Len(frames) + 1
  <1>1. PICK d \in Readings :
          /\ frames' \in Seq(Frame)
          /\ DOMAIN frames' = DOMAIN frames \cup {last}
          /\ frames'[last] = [mark |-> base + markerEndIdx, data |-> d, at |-> heard]
          /\ \A i \in DOMAIN frames : frames'[i] = frames[i]
    BY CollectFrames
  <1>a. DOMAIN frames = 1 .. last - 1 /\ last \in Nat
    BY FrameTypes DEF IInv
  <1> HIDE DEF last
  <1>b. /\ base \in Nat /\ heard \in Nat /\ base <= heard
        /\ Buffered \in Nat /\ Buffered = heard - base /\ markerEndIdx \in Nat
        /\ DataEnd \in Nat /\ DataEnd = markerEndIdx + Gap + DataLen
    BY Numbers DEF IInv
  <1>c. state = "gap" /\ ~(DataEnd > Buffered) /\ base' = base + DataEnd
    BY DEF CollectFrame, Starved, Consumed
  <1>2. /\ state = "gap" /\ state' = "idle" /\ consecutiveMarkers' = 0
        /\ markerEndIdx' = 0 /\ nextWindow' = 0 /\ air' = air /\ heard' = heard
        /\ base' = base + DataEnd /\ DataEnd <= Buffered
    BY <1>b, <1>c DEF CollectFrame
  <1>3. HistoryOK'
    BY <1>1, <1>2 DEF IInv, HistoryOK
  <1>4. /\ base' \in Nat /\ base' <= heard /\ Buffered' = Buffered - DataEnd /\ Buffered' \in Nat
    BY <1>2, Numbers DEF IInv, Buffered
  <1>5. ModemTypeOK'
    BY <1>2, <1>4, Numbers DEF IInv, ModemTypeOK
  <1>6. FramesPast'
    <2>1. FrameEnd(frames'[last]) = base'
      <3>1. frames'[last].mark = base + markerEndIdx
        BY <1>1
      <3> QED BY <1>c, <1>b, <3>1 DEF FrameEnd
    <2>2. ASSUME NEW i \in DOMAIN frames PROVE FrameEnd(frames'[i]) <= base'
      <3>1. FrameEnd(frames[i]) \in Int /\ FrameEnd(frames[i]) <= base
        BY FrameTypes DEF IInv, FramesPast, FrameEnd
      <3>2. frames'[i] = frames[i]
        BY <1>1
      <3> QED BY <1>2, <1>b, <3>1, <3>2
    <2> QED BY <1>1, <1>4, <2>1, <2>2 DEF FramesPast, FrameEnd
  <1>7. CountExact'
    <2>1. \A k \in 1 .. consecutiveMarkers' : FALSE
      BY <1>2
    <2>2. Counted(base + nextWindow, consecutiveMarkers)'
      BY ONLY <2>1 DEF Counted
    <2> QED BY <1>2, <2>2 DEF CountExact
  <1>8. Sounds' = Sounds
    BY <1>2 DEF Sounds
  <1>9. LockExplained'
    <2>1. ASSUME NEW i \in DOMAIN frames, NEW k \in 1 .. Locks
          PROVE  LET w == frames'[i].mark - k * StepSize
                 IN  /\ HoldsMarker(w)
                     /\ i > 1 => w >= frames'[i - 1].mark + Gap + DataLen
      <3>1. frames'[i] = frames[i] /\ (i > 1 => frames'[i - 1] = frames[i - 1])
        BY <1>1, FrameTypes DEF IInv
      <3> QED BY <3>1 DEF IInv, LockExplained
    <2>2. ASSUME NEW k \in 1 .. Locks
          PROVE  LET w == frames'[last].mark - k * StepSize
                 IN  /\ HoldsMarker(w)
                     /\ last > 1 => w >= frames'[last - 1].mark + Gap + DataLen
      <3>1. frames'[last].mark = base + markerEndIdx
        BY <1>1
      <3>2. Counted(base + markerEndIdx, Locks)
        BY <1>2 DEF IInv, CountExact
      <3>3. last > 1 => last - 1 \in DOMAIN frames /\ frames'[last - 1] = frames[last - 1]
        BY <1>1, <1>a
      <3> QED BY <3>1, <3>2, <3>3 DEF Counted, FrameEnd
    <2> QED BY <1>1, <1>8, <2>1, <2>2 DEF LockExplained, HoldsMarker
  <1>10. PICK n \in Blocks : n \in Nat /\ Buffered' < WindowSize + n
    BY <1>2, <1>4, Numbers, BlocksPositive DEF IInv, AlmostDrained
  <1>11. AlmostDrained' /\ IdleBounded'
    BY <1>2, <1>4, <1>10 DEF AlmostDrained, IdleBounded
  <1>12. FramesExact'
    <2> SUFFICES ASSUME NEW i \in DOMAIN frames', NEW s \in Sounds,
                        TakenFrom(frames'[i], s), Undisturbed(s)
                 PROVE  frames'[i].data = s.data
      BY <1>8 DEF FramesExact, TakenFrom, Undisturbed
    <2>1. CASE i \in DOMAIN frames
      BY <1>1, <2>1 DEF IInv, FramesExact
    <2>2. CASE i = last
      <3>1. frames'[i].mark = base + markerEndIdx /\ frames'[i].data = d
        BY <1>1, <2>2
      <3>2. Readings = {s.data}
        BY <3>1, ReadingsExact DEF TakenFrom, IInv
      <3> QED BY <3>1, <3>2
    <2> QED BY <1>1, <2>1, <2>2
  <1> QED BY <1>2, <1>3, <1>5, <1>6, <1>7, <1>9, <1>11, <1>12 DEF IInv, Unmarked

\* The buffer from b to h and the window at w in it, after a read of n that moved
\* both by the same.
LEMMA ReadArithmetic ==
  ASSUME NEW b \in Nat, NEW h \in Nat, NEW w \in Nat, NEW n \in Nat, NEW b1 \in Nat, NEW w1 \in Nat,
         w <= h - b, b1 + w1 = b + w, b1 <= h, b <= b1, w1 <= w
  PROVE  /\ h + n - b1 \in Nat
         /\ w1 <= h + n - b1
         /\ h + n - b1 <= h - b + n
         /\ \A size \in Nat : h - b < w + size => h + n - b1 < w1 + size + n
  OBVIOUS

\* An idle buffer is dropped up to the next window, which stays where it is in
\* the stream.
LEMMA ReadInv ==
  ASSUME IInv, NEW n \in Blocks, Read(n)
  PROVE  IInv'
PROOF
  <1> USE LengthsNatural
  <1>1. HistoryOK' /\ LockExplained' /\ FramesExact'
    BY HistoryKept DEF Read
  <1>2. /\ base \in Nat /\ heard \in Nat /\ base <= heard
        /\ Buffered \in Nat /\ Buffered = heard - base
        /\ nextWindow \in Nat /\ nextWindow <= Buffered
        /\ markerEndIdx \in Nat /\ markerEndIdx <= nextWindow
        /\ DataEnd \in Nat /\ n \in Nat /\ n > 0
    BY Numbers, BlocksPositive DEF IInv
  <1>3. /\ heard' = heard + n /\ heard' <= EndOfStream
        /\ state' = state /\ consecutiveMarkers' = consecutiveMarkers
        /\ markerEndIdx' = markerEndIdx /\ frames' = frames /\ air' = air
        /\ state \in {"idle", "mark", "gap"}
        /\ state = "gap" => Buffered < DataEnd
        /\ state # "gap" => Buffered < nextWindow + WindowSize
    <2>1. heard + n <= EndOfStream /\ heard' = heard + n /\ Starved /\ state # "eof"
      BY DEF Read
    <2>2. state = "gap" => Buffered < DataEnd
      BY <1>2, <2>1 DEF Starved
    <2>3. state # "gap" => Buffered < nextWindow + WindowSize
      BY <1>2, <2>1 DEF Starved
    <2> QED BY <2>1, <2>2, <2>3 DEF Read, IInv, ModemTypeOK
  <1>4. /\ base' + nextWindow' = base + nextWindow
        /\ base' \in Nat /\ base <= base' /\ base' <= heard
        /\ nextWindow' \in Nat /\ nextWindow' <= nextWindow
    <2>1. CASE Overlong
      BY <1>2, <2>1 DEF Read
    <2>2. CASE ~Overlong
      BY <1>2, <2>2 DEF Read
    <2> QED BY <2>1, <2>2
  <1>5. /\ Buffered' \in Nat /\ nextWindow' <= Buffered' /\ Buffered' <= Buffered + n
        /\ \A size \in Nat : Buffered < nextWindow + size => Buffered' < nextWindow' + size + n
    <2>1. Buffered' = heard + n - base'
      BY <1>2, <1>3, <1>4 DEF Buffered
    <2>2. /\ heard + n - base' \in Nat /\ nextWindow' <= heard + n - base'
          /\ heard + n - base' <= heard - base + n
          /\ \A size \in Nat :
               heard - base < nextWindow + size => heard + n - base' < nextWindow' + size + n
      <3>1. base \in Nat /\ heard \in Nat /\ nextWindow \in Nat /\ n \in Nat
        BY <1>2
      <3>2. nextWindow <= heard - base
        BY <1>2
      <3>3. /\ base' \in Nat /\ nextWindow' \in Nat /\ base' + nextWindow' = base + nextWindow
            /\ base' <= heard /\ base <= base' /\ nextWindow' <= nextWindow
        BY <1>4
      <3> QED BY ONLY <3>1, <3>2, <3>3, ReadArithmetic
    <2>3. Buffered = heard - base
      BY <1>2
    <2> QED BY ONLY <2>1, <2>2, <2>3
  <1>6. markerEndIdx' <= nextWindow' /\ (state = "gap" => nextWindow' = nextWindow)
    <2>1. CASE state = "gap"
      BY <1>2, <1>3, <2>1 DEF Read, Overlong
    <2>2. CASE state # "gap"
      BY <1>3, <1>4, <2>2 DEF IInv, Unmarked
    <2> QED BY <2>1, <2>2
  <1>7. ModemTypeOK'
    <2>1. /\ base' \in Nat /\ heard' \in base' .. EndOfStream
          /\ nextWindow' \in 0 .. Buffered' /\ markerEndIdx' \in 0 .. nextWindow'
      <3>1. heard' \in Nat /\ base' <= heard'
        BY <1>2, <1>3, <1>4
      <3>2. markerEndIdx' \in Nat
        BY <1>2, <1>3
      <3> QED BY <1>3, <1>4, <1>5, <1>6, <3>1, <3>2
    <2> QED BY <1>3, <2>1 DEF IInv, ModemTypeOK
  <1>8. FramesPast'
    <2>1. ASSUME NEW i \in DOMAIN frames PROVE FrameEnd(frames[i]) <= base'
      <3>1. FrameEnd(frames[i]) \in Int /\ FrameEnd(frames[i]) <= base
        BY FrameTypes DEF IInv, FramesPast, FrameEnd
      <3> QED BY <1>2, <1>4, <3>1
    <2> QED BY <1>3, <2>1 DEF FramesPast, FrameEnd
  <1>9. CountExact'
    <2>1. Sounds' = Sounds
      BY <1>3 DEF Sounds
    <2>2. ASSUME state \in {"idle", "mark"} PROVE Counted(base + nextWindow, consecutiveMarkers)'
      BY <1>3, <1>4, <2>1, <2>2 DEF IInv, CountExact, Counted, HoldsMarker, FrameEnd
    <2>3. ASSUME state = "gap" PROVE Counted(base + markerEndIdx, Locks)'
      <3>1. base' + markerEndIdx' = base + markerEndIdx
        BY <1>2, <1>3, <1>4, <1>6, <2>3
      <3> QED BY <1>3, <2>1, <2>3, <3>1 DEF IInv, CountExact, Counted, HoldsMarker, FrameEnd
    <2> QED BY <1>3, <2>2, <2>3 DEF CountExact
  <1>10. state # "gap" => Buffered' < nextWindow' + WindowSize + n
    BY <1>3, <1>5
  <1>11. state = "gap" => Buffered' < DataEnd' + WindowSize + n
    <2>1. DataEnd' = DataEnd
      BY <1>3 DEF DataEnd, DataStart
    <2>2. ASSUME state = "gap" PROVE Buffered' < DataEnd' + WindowSize + n
      <3>1. Buffered < DataEnd
        BY <1>3, <2>2
      <3> QED BY <1>2, <1>5, <2>1, <3>1
    <2> QED BY <2>2
  <1>12. AlmostDrained'
    BY <1>3, <1>10, <1>11 DEF AlmostDrained
  <1>13. IdleBounded'
    <2>1. ASSUME state = "idle" PROVE nextWindow' <= Keep
      BY <1>2, <2>1 DEF Read, Overlong
    <2>2. ASSUME state = "idle" PROVE Buffered' < Keep + WindowSize + StepSize + n
      <3>1. Buffered' < nextWindow' + WindowSize + n /\ nextWindow' <= Keep
        BY <1>10, <2>1, <2>2
      <3>2. WindowSize \in Nat /\ StepSize \in Nat /\ Keep \in Nat /\ n \in Nat
        BY <1>2
      <3>3. Buffered' \in Nat /\ nextWindow' \in Nat
        BY <1>4, <1>5
      <3>4. ASSUME NEW a \in Nat, NEW w \in Nat, a < w + WindowSize + n, w <= Keep
            PROVE  a < Keep + WindowSize + StepSize + n
        <4>1. w + WindowSize + n <= Keep + WindowSize + StepSize + n
          BY ONLY <3>2, <3>4
        <4> QED BY ONLY <3>2, <3>4, <4>1
      <3> QED BY <3>1, <3>3, <3>4
    <2> QED BY <1>3, <2>2 DEF IdleBounded
  <1>14. Unmarked'
    BY <1>3 DEF IInv, Unmarked
  <1> QED BY <1>1, <1>7, <1>8, <1>9, <1>12, <1>13, <1>14 DEF IInv

LEMMA EofInv ==
  ASSUME IInv, Eof
  PROVE  IInv'
PROOF
  <1>1. /\ UNCHANGED <<air, heard, base, consecutiveMarkers, markerEndIdx, nextWindow, frames>>
        /\ state' = "eof"
    BY DEF Eof
  <1>2. HistoryOK' /\ LockExplained' /\ FramesExact'
    BY <1>1, HistoryKept
  <1>3. ModemTypeOK'
    BY <1>1 DEF IInv, ModemTypeOK, Buffered
  <1>4. FramesPast'
    BY <1>1 DEF IInv, FramesPast, FrameEnd
  <1>5. CountExact' /\ AlmostDrained' /\ IdleBounded' /\ Unmarked'
    BY <1>1 DEF CountExact, AlmostDrained, IdleBounded, Unmarked
  <1> QED BY <1>2, <1>3, <1>4, <1>5 DEF IInv

------------------------------------------------------------------------------
\* A transmission starts no earlier than the latency of its phone.
LEMMA EmitInv ==
  ASSUME IInv, NEW t \in Transmitter, NEW delay \in Latency, Emit(t, delay)
  PROVE  IInv'
PROOF
  <1> USE LengthsNatural
  <1>0. heard \in Nat /\ delay \in Nat /\ Second(heard + SkewOf[t]) \in Int
    <2>1. heard \in Nat /\ delay \in Nat /\ SkewOf[t] \in Nat
      BY Numbers, LinkAssumption DEF IInv
    <2>2. SampleRate \in Nat /\ SampleRate > 0
      BY LinkAssumption
    <2> QED BY <2>1, <2>2 DEF Second
  <1> DEFINE packet == EncodeFrame(t, Second(heard + SkewOf[t]))
  <1>1. PICK start \in Played(t) \cup {heard + delay} :
          /\ \A from \in Played(t) \cup {heard + delay} : from <= start
          /\ Play(Transmission(start, packet))
    BY DEF Emit
  <1>2. packet \in Packet
    BY <1>0 DEF Packet
  <1> HIDE DEF packet
  <1>3. start \in Nat
    <2>1. Played(t) \subseteq Nat
      <3>1. ASSUME NEW s \in Sounds PROVE SoundEnd(s) \in Nat
        BY SoundTypes DEF IInv, Sound, SoundEnd, MarkerEnd
      <3> QED BY <3>1 DEF Played
    <2> QED BY <1>0, <1>1, <2>1
  <1>4. start >= heard
    BY <1>0, <1>1, <1>3
  <1> DEFINE s == Transmission(start, packet)
  <1>5. s \in Sound /\ s.start >= heard /\ s.tone = Preamble
    BY <1>2, <1>3, <1>4 DEF Transmission, Sound
  <1>6. Play(s)
    BY <1>1
  <1> HIDE DEF s
  <1> QED BY <1>5, <1>6, PlayInv

LEMMA DisturbInv ==
  ASSUME IInv, NEW length \in Whistles, Disturb(length)
  PROVE  IInv'
PROOF
  <1> DEFINE s == Whistle(heard, length)
  <1>1. heard \in Nat /\ length \in Nat
    BY Numbers, LinkAssumption DEF IInv
  <1>2. s \in Sound /\ s.start >= heard /\ s.data = None
    BY <1>1 DEF Whistle, Sound, Packet
  <1>3. Play(s)
    BY DEF Disturb
  <1> HIDE DEF s
  <1> QED BY <1>2, <1>3, PlayInv

LEMMA NextInv ==
  ASSUME IInv, [LinkNext]_modemVars
  PROVE  IInv'
PROOF
  <1>1. CASE UNCHANGED modemVars
    <2>1. HistoryOK' /\ LockExplained' /\ FramesExact'
      BY <1>1, HistoryKept DEF modemVars
    <2>2. ModemTypeOK' /\ FramesPast'
      BY <1>1 DEF modemVars, IInv, ModemTypeOK, Buffered, FramesPast, FrameEnd
    <2>3. CountExact'
      BY <1>1 DEF modemVars, IInv, CountExact, Counted, HoldsMarker, Sounds, FrameEnd
    <2>4. AlmostDrained' /\ IdleBounded' /\ Unmarked'
      BY <1>1 DEF modemVars, IInv, AlmostDrained, IdleBounded, Unmarked, Buffered, DataEnd, DataStart
    <2> QED BY <2>1, <2>2, <2>3, <2>4 DEF IInv
  <1>2. ASSUME NEW t \in Transmitter, NEW delay \in Latency, Emit(t, delay) PROVE IInv'
    BY <1>2, EmitInv
  <1>3. ASSUME NEW length \in Whistles, Disturb(length) PROVE IInv'
    BY <1>3, DisturbInv
  <1>4. CASE Run
    BY <1>4, IdleMarkerInv, IdleOtherInv, MarkContinuesInv, MarkEndsInv, CollectFrameInv, ReadInv, EofInv
       DEF Run
  <1> QED BY <1>1, <1>2, <1>3, <1>4 DEF LinkNext

LEMMA Inductive == LinkSpec => []IInv
PROOF
  <1>1. ModemInit => IInv
    BY InitInv
  <1>2. IInv /\ [LinkNext]_modemVars => IInv'
    BY NextInv
  <1> QED BY <1>1, <1>2, PTL DEF LinkSpec

\* The positions of the receiver stay inside its buffer, across frames that are
\* taken out and buffers that are dropped.
THEOREM ModemTypeCorrect == LinkSpec => []ModemTypeOK
PROOF
  <1>1. IInv => ModemTypeOK
    BY DEF IInv
  <1> QED BY <1>1, Inductive, PTL

\* Every frame that Run hands to OnFrame follows as many windows of marker tone
\* as lock it, none of them from the audio of the frame before.
THEOREM LockExplainedHolds == LinkSpec => []LockExplained
PROOF
  <1>1. IInv => LockExplained
    BY DEF IInv
  <1> QED BY <1>1, Inductive, PTL

\* The idle buffer is bounded by the limit, a window, a hop and one read.
THEOREM IdleBoundedHolds == LinkSpec => []IdleBounded
PROOF
  <1>1. IInv => IdleBounded
    BY DEF IInv
  <1> QED BY <1>1, Inductive, PTL

\* A transmission that sounds alone is delivered as it was sent, wherever its
\* windows fell on the preamble, if a window fits in a quarter of a slot.
THEOREM FramesExactHolds == LinkSpec => []FramesExact
PROOF
  <1>1. IInv => FramesExact
    BY DEF IInv
  <1> QED BY <1>1, Inductive, PTL

------------------------------------------------------------------------------
(***************************************************************************)
(* From the second a frame is stamped in to the second it is checked in.       *)
(***************************************************************************)

\* How long a sound can have to wait after its frame is stamped.
Lead == Latency \cup {Backlog}

\* From the first sample of a transmission to the last one its reading needs: the
\* bits are read as late as a slot leaves room around the middle half.
Flight ==
  Preamble + Gap + DataLen + WindowSize
    + (SamplesPerBit - SamplesPerBit \div 2 - SamplesPerBit \div 4)

\* The tolerance covers the waiting, the transmission and one more read, and no
\* clock is further ahead than it.
Timely ==
  /\ \A t \in Transmitter : SkewOf[t] <= Tolerance * SampleRate
  /\ \A d \in Lead, n \in Blocks : d + Flight + n <= Tolerance * SampleRate

StampedAt(m, t) == EncodeFrame(t, Second(m + SkewOf[t]))

\* Every transmission was stamped no longer before it starts than its speaker
\* can be behind.
Stamped ==
  \A s \in Sounds : s.data # None =>
    \E t \in Transmitter, m \in Nat, d \in Lead :
      /\ s.data = StampedAt(m, t) /\ s.tone = Preamble
      /\ m <= s.start /\ s.start <= m + d

\* Every frame that decodes came within a transmission and a read of its stamp.
Arrived ==
  \A i \in DOMAIN frames : DecodeFrame(frames[i].data) =>
    \E t \in Transmitter, m \in Nat, d \in Lead, n \in Blocks :
      /\ frames[i].data = StampedAt(m, t)
      /\ m <= frames[i].at /\ frames[i].at < m + d + Flight + n

TimeInv == Stamped /\ Arrived

LEMMA LeadNatural == Lead \subseteq Nat
  BY LinkAssumption DEF Lead

\* Emit stamps the frame and plays it as soon as the speaker is free.
LEMMA EmitTime ==
  ASSUME IInv, TimeInv, NEW t \in Transmitter, NEW delay \in Latency, Emit(t, delay)
  PROVE  TimeInv'
PROOF
  <1> USE LengthsNatural
  <1>0. heard \in Nat /\ delay \in Nat /\ Second(heard + SkewOf[t]) \in Int
    <2>1. heard \in Nat /\ delay \in Nat /\ SkewOf[t] \in Nat
      BY Numbers, LinkAssumption DEF IInv
    <2>2. SampleRate \in Nat /\ SampleRate > 0
      BY LinkAssumption
    <2> QED BY <2>1, <2>2 DEF Second
  <1> DEFINE packet == EncodeFrame(t, Second(heard + SkewOf[t]))
  <1>1. PICK start \in Played(t) \cup {heard + delay} :
          /\ \A from \in Played(t) \cup {heard + delay} : from <= start
          /\ Play(Transmission(start, packet))
    BY DEF Emit
  <1>2. packet \in Packet /\ packet = StampedAt(heard, t)
    BY <1>0 DEF Packet, StampedAt
  <1> HIDE DEF packet
  <1>3. start \in Nat /\ start >= heard
    <2>1. ASSUME NEW s \in Sounds PROVE SoundEnd(s) \in Nat
      BY SoundTypes DEF IInv, Sound, SoundEnd, MarkerEnd
    <2>2. Played(t) \subseteq Nat
      BY <2>1 DEF Played
    <2> QED BY <1>0, <1>1, <2>2
  <1>4. \E d \in Lead : start <= heard + d
    <2>1. CASE start \in Played(t)
      BY <2>1 DEF Emit, Lead
    <2>2. CASE start = heard + delay
      BY <1>0, <2>2 DEF Lead
    <2> QED BY <1>1, <2>1, <2>2
  <1> DEFINE s == Transmission(start, packet)
  <1>5. s \in Sound /\ s.start = start /\ s.tone = Preamble /\ s.data = packet
    BY <1>2, <1>3 DEF Transmission, Sound
  <1>6. Play(s)
    BY <1>1
  <1> HIDE DEF s
  <1>7. Sounds' = Sounds \cup {s}
    BY <1>5, <1>6, SoundsGrow DEF IInv
  <1>8. Stamped'
    <2> SUFFICES ASSUME NEW r \in Sounds', r.data # None
                 PROVE  \E u \in Transmitter, m \in Nat, d \in Lead :
                          /\ r.data = StampedAt(m, u) /\ r.tone = Preamble
                          /\ m <= r.start /\ r.start <= m + d
      BY DEF Stamped
    <2>1. CASE r \in Sounds
      BY <2>1 DEF TimeInv, Stamped
    <2>2. CASE r = s
      BY <1>0, <1>2, <1>3, <1>4, <1>5, <2>2
    <2> QED BY <1>7, <2>1, <2>2
  <1>9. Arrived'
    BY <1>6 DEF Play, TimeInv, Arrived
  <1> QED BY <1>8, <1>9 DEF TimeInv

\* A whistle is no transmission.
LEMMA DisturbTime ==
  ASSUME IInv, TimeInv, NEW length \in Whistles, Disturb(length)
  PROVE  TimeInv'
PROOF
  <1> DEFINE s == Whistle(heard, length)
  <1>1. heard \in Nat /\ length \in Nat
    BY Numbers, LinkAssumption DEF IInv
  <1>2. s \in Sound /\ s.data = None
    BY <1>1 DEF Whistle, Sound, Packet
  <1>3. Play(s)
    BY DEF Disturb
  <1> HIDE DEF s
  <1>4. Sounds' = Sounds \cup {s}
    BY <1>2, <1>3, SoundsGrow DEF IInv
  <1>5. Stamped'
    BY <1>2, <1>4 DEF TimeInv, Stamped
  <1>6. Arrived'
    BY <1>3 DEF Play, TimeInv, Arrived
  <1> QED BY <1>5, <1>6 DEF TimeInv

\* The sound a frame is read from began before the read, and not longer ago than
\* a transmission and a read take.
LEMMA ReadInTime ==
  ASSUME IInv, NEW s \in Sound, s.data # None, s.tone = Preamble, InStep(s),
         state = "gap", ~Starved
  PROVE  s.start <= heard /\ \E n \in Blocks : heard < s.start + Flight + n
PROOF
  <1> DEFINE q == SamplesPerBit \div 4
             h == SamplesPerBit \div 2
             from == base + DataStart
  <1>0. ModemTypeOK /\ AlmostDrained
    BY DEF IInv
  <1> USE LengthsNatural, Numbers
  <1>1. /\ q \in Nat /\ h \in Nat /\ 1 <= q /\ q <= h /\ q + h <= SamplesPerBit
    <2>1. /\ q \in Nat /\ h \in Nat /\ 4 * q <= SamplesPerBit /\ 2 * h <= SamplesPerBit
          /\ SamplesPerBit < 4 * q + 4 /\ SamplesPerBit < 2 * h + 2
      OBVIOUS
    <2>2. WindowSize <= q
      BY LayoutAssumption
    <2> HIDE DEF q, h
    <2> QED BY <2>1, <2>2
  <1>2. s.start \in Nat /\ MarkerEnd(s) = s.start + Preamble
    BY DEF Sound, MarkerEnd
  <1>3. from \in Nat
    BY <1>0
  <1>4. 0 \in 0 .. NBits - 1
    BY LayoutAssumption
  <1>5. 0 * SamplesPerBit = 0
    OBVIOUS
  <1>6. /\ BitWindow(0) = from + q .. from + q + h - 1
        /\ Slot(s, 0) = MarkerEnd(s) + Gap .. MarkerEnd(s) + Gap + SamplesPerBit - 1
    <2>1. /\ BitWindow(0) = from + 0 * SamplesPerBit + q .. from + 0 * SamplesPerBit + q + h - 1
          /\ Slot(s, 0) = MarkerEnd(s) + Gap + 0 * SamplesPerBit
                            .. MarkerEnd(s) + Gap + 0 * SamplesPerBit + SamplesPerBit - 1
      BY DEF BitWindow, Slot
    <2>2. /\ from + 0 * SamplesPerBit = from
          /\ MarkerEnd(s) + Gap + 0 * SamplesPerBit = MarkerEnd(s) + Gap
      BY <1>2, <1>3, <1>5
    <2> QED BY <2>1, <2>2
  <1> HIDE DEF q, h, from
  <1>7. from + q \in BitWindow(0) /\ from + q + h - 1 \in BitWindow(0)
    BY <1>1, <1>3, <1>6
  <1>8. BitWindow(0) \subseteq Slot(s, 0)
    BY <1>4 DEF InStep
  <1>9. /\ MarkerEnd(s) + Gap <= from + q
        /\ from + q + h - 1 <= MarkerEnd(s) + Gap + SamplesPerBit - 1
    <2> DEFINE first == MarkerEnd(s) + Gap
    <2>1. first \in Nat
      BY <1>2
    <2> HIDE DEF first
    <2>2. /\ from + q \in first .. first + SamplesPerBit - 1
          /\ from + q + h - 1 \in first .. first + SamplesPerBit - 1
      <3>1. Slot(s, 0) = first .. first + SamplesPerBit - 1
        BY <1>6 DEF first
      <3> QED BY <1>7, <1>8, <3>1
    <2>3. first <= from + q /\ from + q + h - 1 <= first + SamplesPerBit - 1
      BY <1>1, <1>3, <2>1, <2>2
    <2> QED BY <2>3 DEF first
  <1>10. /\ heard >= from + DataLen
         /\ \E n \in Blocks : heard < from + DataLen + WindowSize + n
    <2>1. DataEnd <= Buffered
      BY <1>0 DEF Starved
    <2>2. PICK n \in Blocks : Buffered < DataEnd + WindowSize + n
      BY <1>0 DEF AlmostDrained
    <2>3. n \in Nat
      BY BlocksPositive
    <2> QED BY <1>0, <2>1, <2>2, <2>3 DEF from
  <1>11. SamplesPerBit <= DataLen
    BY <1>4, <1>5, SlotInData
  <1>12. s.start <= heard
    BY <1>0, <1>1, <1>2, <1>3, <1>9, <1>10, <1>11
  <1>13. PICK n \in Blocks : heard < from + DataLen + WindowSize + n
    BY <1>10
  <1>14. n \in Nat
    BY BlocksPositive
  <1>15. Flight = Preamble + Gap + DataLen + WindowSize + (SamplesPerBit - h - q)
    BY DEF Flight, h, q
  <1>16. heard < s.start + Flight + n
    BY <1>0, <1>1, <1>2, <1>3, <1>9, <1>13, <1>14, <1>15
  <1> QED BY <1>12, <1>16

\* The frame that is taken out was stamped before it was played.
LEMMA CollectTime ==
  ASSUME IInv, TimeInv, CollectFrame
  PROVE  TimeInv'
PROOF
  <1>1. Stamped'
    BY DEF CollectFrame, TimeInv, Stamped, Sounds
  <1>2. PICK d \in Readings :
           LET f == [mark |-> base + markerEndIdx, data |-> d, at |-> heard]
           IN  /\ DOMAIN frames' = DOMAIN frames \cup {Len(frames) + 1}
               /\ frames'[Len(frames) + 1] = f
               /\ \A i \in DOMAIN frames : frames'[i] = frames[i]
    BY CollectFrames
  <1>3. ASSUME DecodeFrame(d)
        PROVE  \E t \in Transmitter, m \in Nat, l \in Lead, n \in Blocks :
                 /\ d = StampedAt(m, t)
                 /\ m <= heard /\ heard < m + l + Flight + n
    <2>1. PICK s \in Sounds : InStep(s) /\ d = s.data
      BY <1>3 DEF Readings, DecodeFrame
    <2>2. s \in Sound /\ s.data # None
      BY <2>1, SoundTypes DEF IInv, InStep
    <2>3. PICK t \in Transmitter, m \in Nat, l \in Lead :
            /\ s.data = StampedAt(m, t) /\ s.tone = Preamble
            /\ m <= s.start /\ s.start <= m + l
      BY <2>1, <2>2 DEF TimeInv, Stamped
    <2>4. s.start <= heard /\ \E n \in Blocks : heard < s.start + Flight + n
      BY <2>1, <2>2, <2>3, ReadInTime DEF CollectFrame
    <2>5. PICK n \in Blocks : heard < s.start + Flight + n
      BY <2>4
    <2>6. /\ s.start \in Nat /\ n \in Nat /\ heard \in Nat /\ l \in Nat /\ Flight \in Int
      BY <2>2, BlocksPositive, Numbers, LeadNatural, LengthsNatural DEF IInv, Sound, Flight
    <2>7. m <= heard /\ heard < m + l + Flight + n
      BY <2>3, <2>4, <2>5, <2>6
    <2> QED BY <2>1, <2>3, <2>7
  <1>4. Arrived'
    <2> SUFFICES ASSUME NEW i \in DOMAIN frames', DecodeFrame(frames'[i].data)
                 PROVE  \E t \in Transmitter, m \in Nat, l \in Lead, n \in Blocks :
                          /\ frames'[i].data = StampedAt(m, t)
                          /\ m <= frames'[i].at /\ frames'[i].at < m + l + Flight + n
      BY DEF Arrived, DecodeFrame
    <2>1. CASE i \in DOMAIN frames
      BY <1>2, <2>1 DEF TimeInv, Arrived
    <2>2. CASE i = Len(frames) + 1
      BY <1>2, <1>3, <2>2
    <2> QED BY <1>2, <2>1, <2>2
  <1> QED BY <1>1, <1>4 DEF TimeInv

\* The other steps of the receiver neither hear nor deliver anything new.
LEMMA TimeKept ==
  ASSUME TimeInv, UNCHANGED <<air, frames>>
  PROVE  TimeInv'
  BY DEF TimeInv, Stamped, Arrived, Sounds

LEMMA TimeInductive == LinkSpec => []TimeInv
PROOF
  <1>1. ModemInit => TimeInv
    BY DEF ModemInit, TimeInv, Stamped, Arrived, Sounds
  <1>2. IInv /\ TimeInv /\ [LinkNext]_modemVars => TimeInv'
    <2> SUFFICES ASSUME IInv, TimeInv, [LinkNext]_modemVars PROVE TimeInv'
      OBVIOUS
    <2>1. ASSUME NEW t \in Transmitter, NEW delay \in Latency, Emit(t, delay) PROVE TimeInv'
      BY <2>1, EmitTime
    <2>2. ASSUME NEW length \in Whistles, Disturb(length) PROVE TimeInv'
      BY <2>2, DisturbTime
    <2>3. CASE CollectFrame
      BY <2>3, CollectTime
    <2>4. CASE IdleMarker \/ IdleOther \/ MarkContinues \/ MarkEnds
      BY <2>4, TimeKept DEF IdleMarker, IdleOther, MarkContinues, MarkEnds, Slide
    <2>5. ASSUME NEW n \in Blocks, Read(n) PROVE TimeInv'
      BY <2>5, TimeKept DEF Read
    <2>6. CASE Eof
      BY <2>6, TimeKept DEF Eof
    <2>7. CASE UNCHANGED modemVars
      BY <2>7, TimeKept DEF modemVars
    <2> QED BY <2>1, <2>2, <2>3, <2>4, <2>5, <2>6, <2>7 DEF LinkNext, Run
  <1> QED BY <1>1, <1>2, Inductive, PTL DEF LinkSpec

\* Two positions no more than some whole seconds apart are in seconds no more
\* than that apart.
LEMMA SecondsApart ==
  ASSUME NEW a \in Nat, NEW b \in Nat, NEW k \in Nat, a <= b + k * SampleRate
  PROVE  Second(a) \in Nat /\ Second(b) \in Nat /\ Second(a) <= Second(b) + k
PROOF
  <1>0. SampleRate \in Nat /\ SampleRate > 0
    BY LinkAssumption
  <1> DEFINE q == a \div SampleRate
             r == b \div SampleRate
  <1>1. /\ q \in Nat /\ q * SampleRate <= a
        /\ r \in Nat /\ b < r * SampleRate + SampleRate
    BY <1>0
  <1> HIDE DEF q, r
  <1>2. ASSUME q >= r + k + 1 PROVE FALSE
    <2>1. ASSUME NEW x \in Nat, NEW y \in Nat, x >= y
          PROVE  x * SampleRate >= y * SampleRate
      BY <1>0, <2>1
    <2>2. q * SampleRate >= (r + k + 1) * SampleRate
      BY <1>1, <1>2, <2>1
    <2>3. (r + k + 1) * SampleRate = r * SampleRate + k * SampleRate + SampleRate
      BY <1>0, <1>1
    <2>4. r * SampleRate \in Nat /\ k * SampleRate \in Nat /\ q * SampleRate \in Nat
      BY <1>0, <1>1
    <2> QED BY <1>0, <1>1, <2>2, <2>3, <2>4
  <1> QED BY <1>1, <1>2 DEF Second, q, r

\* With a tolerance of as many seconds as a transmission can take, a frame is
\* accepted exactly when its phone has the secret of the listener's lobby.
THEOREM LobbyVerdictHolds == ASSUME Timely PROVE LinkSpec => []LobbyVerdict
PROOF
  <1>1. IInv /\ TimeInv => LobbyVerdict
    <2> SUFFICES ASSUME IInv, TimeInv, NEW i \in DOMAIN frames, DecodeFrame(frames[i].data)
                 PROVE  Verdict(frames[i]) = "ok" <=> frames[i].data.nonce[1] = LobbySecret
      BY DEF LobbyVerdict
    <2>1. PICK t \in Transmitter, m \in Nat, d \in Lead, n \in Blocks :
            /\ frames[i].data = StampedAt(m, t)
            /\ m <= frames[i].at /\ frames[i].at < m + d + Flight + n
      BY DEF TimeInv, Arrived
    <2> DEFINE at == frames[i].at
               stamp == m + SkewOf[t]
               nonce == frames[i].data.nonce
    <2>2. at \in Nat /\ n \in Nat /\ d \in Nat /\ stamp \in Nat /\ SkewOf[t] \in Nat
      BY FrameTypes, BlocksPositive, LeadNatural, LinkAssumption DEF IInv, Frame
    <2>3. nonce = <<SecretOf[t], Second(stamp)>>
      BY <2>1 DEF StampedAt, EncodeFrame, CohortNonce
    <2>4. Verdict(frames[i]) = "ok"
            <=> \E delta \in -Tolerance .. Tolerance :
                  <<LobbySecret, Second(at) + delta>> = nonce
      BY DEF Verdict, VerifyCohortNonce, CohortNonce
    <2>5. Tolerance \in Nat /\ SampleRate \in Nat
      BY LinkAssumption
    <2>6. Flight \in Int /\ Tolerance * SampleRate \in Nat
      BY <2>5, LengthsNatural DEF Flight
    <2>7. /\ d + Flight + n <= Tolerance * SampleRate
          /\ SkewOf[t] <= Tolerance * SampleRate
      BY DEF Timely
    <2>8. m <= at /\ at < m + d + Flight + n
      BY <2>1
    <2> HIDE DEF at, nonce
    <2>9. at <= stamp + Tolerance * SampleRate /\ stamp <= at + Tolerance * SampleRate
      BY <2>2, <2>6, <2>7, <2>8
    <2> HIDE DEF stamp
    <2>10. /\ Second(at) \in Nat /\ Second(stamp) \in Nat
           /\ Second(at) <= Second(stamp) + Tolerance
           /\ Second(stamp) <= Second(at) + Tolerance
      BY <2>2, <2>5, <2>9, SecondsApart
    <2>11. /\ Second(stamp) - Second(at) \in -Tolerance .. Tolerance
           /\ Second(at) + (Second(stamp) - Second(at)) = Second(stamp)
      BY <2>5, <2>10
    <2>12. (\E delta \in -Tolerance .. Tolerance : <<LobbySecret, Second(at) + delta>> = nonce)
             <=> nonce[1] = LobbySecret
      BY <2>3, <2>11
    <2> QED BY <2>4, <2>12 DEF nonce
  <1> QED BY <1>1, Inductive, TimeInductive, PTL

==============================================================================
