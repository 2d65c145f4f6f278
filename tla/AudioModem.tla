------------------------------ MODULE AudioModem ------------------------------
(***************************************************************************)
(* go/transport/sonic/internal/audiomodem/modem.go: Encode turns a frame into *)
(* a marker tone, a gap, a slot of tone per bit and silence; Decoder.Run finds *)
(* the end of a marker with windows that slide over what it has read so far    *)
(* and reads the bits at their places after it.                              *)
(*                                                                         *)
(* Samples are known by their position in the stream: `samples' of the code is *)
(* the stretch from `base' to `heard'.  What sounds at a position follows from  *)
(* the sounds in `air'; a window that holds some marker and something else, or  *)
(* two sounds at once, may be judged either way.  Positions are in any unit     *)
(* that divides the step.                                                    *)
(***************************************************************************)
EXTENDS Integers, Sequences

CONSTANTS
  WindowSize, StepSize,   \* the sliding window and its hop
  Locks,                  \* marker windows in a row that lock the receiver
  Preamble, Gap, Postamble,
  SamplesPerBit,
  NBits,                  \* bits of a frame
  Keep,                   \* an idle buffer longer than this is dropped
  Blocks,                 \* how many samples one Read may return
  EndOfStream,            \* bound: where the input ends
  None, Garbled           \* no frame; bits that are no frame

ASSUME ModemAssumption ==
  /\ {WindowSize, StepSize, Locks, SamplesPerBit} \subseteq Nat \ {0}
  /\ {Preamble, Gap, Postamble, NBits, Keep, EndOfStream} \subseteq Nat
  /\ Blocks \subseteq Nat \ {0} /\ Blocks # {}

\* A window fits in the quarter of a slot on either side of the bit's middle,
\* and in the preamble; a hop does not skip samples.
ASSUME LayoutAssumption ==
  /\ NBits > 0
  /\ StepSize <= WindowSize
  /\ WindowSize <= SamplesPerBit \div 4
  /\ WindowSize <= Preamble

VARIABLES
  air,                  \* the sounds, each with where it starts
  heard,                \* samples read from the stream
  base,                 \* where the buffer starts
  state,                \* "idle", "mark", "gap", and "eof" once Run returned
  consecutiveMarkers,
  markerEndIdx,
  nextWindow,
  frames                \* history: the calls of OnFrame

modemVars == <<air, heard, base, state, consecutiveMarkers, markerEndIdx, nextWindow, frames>>

(***************************************************************************)
(* Sounds.  A sound is a marker tone and, unless it is a whistle, data.        *)
(***************************************************************************)
DataLen == NBits * SamplesPerBit

Transmission(start, data) == [start |-> start, tone |-> Preamble, data |-> data]

Whistle(start, length) == [start |-> start, tone |-> length, data |-> None]

MarkerEnd(s) == s.start + s.tone

\* Where the next sound of the same speaker can start.
SoundEnd(s) == IF s.data = None THEN MarkerEnd(s) ELSE MarkerEnd(s) + Gap + DataLen + Postamble

\* What s contributes at position x.
Part(s, x) ==
  CASE s.start <= x /\ x < MarkerEnd(s) -> "marker"
    [] s.data # None /\ MarkerEnd(s) + Gap <= x /\ x < MarkerEnd(s) + Gap + DataLen -> "data"
    [] OTHER -> "silence"

Sounds == {air[i] : i \in DOMAIN air}

Play(s) ==
  /\ air' = Append(air, s)
  /\ UNCHANGED <<heard, base, state, consecutiveMarkers, markerEndIdx, nextWindow, frames>>

(***************************************************************************)
(* Decoder.Run.                                                              *)
(***************************************************************************)
ModemInit ==
  /\ air = <<>>
  /\ heard = 0
  /\ base = 0
  /\ state = "idle"
  /\ consecutiveMarkers = 0
  /\ markerEndIdx = 0
  /\ nextWindow = 0
  /\ frames = <<>>

Buffered == heard - base

DataStart == markerEndIdx + Gap

DataEnd == DataStart + DataLen

\* The inner loop breaks: the next window, or the data, is not all there yet.
Starved == (IF state = "gap" THEN DataEnd ELSE nextWindow + WindowSize) > Buffered

Window(w) == w .. w + WindowSize - 1

HoldsMarker(w) == \E s \in Sounds, x \in Window(w) : Part(s, x) = "marker"

PureMarker(w) ==
  \E s \in Sounds : \A x \in Window(w) :
    /\ Part(s, x) = "marker"
    /\ \A r \in Sounds \ {s} : Part(r, x) = "silence"

\* Whether the marker dominates the next window.
MayDominate == HoldsMarker(base + nextWindow)
MayYield == ~PureMarker(base + nextWindow)

Slide ==
  /\ ~Starved
  /\ nextWindow' = nextWindow + StepSize
  /\ UNCHANGED <<air, heard, base, frames>>

\* Mutant: a window without the marker does not start the count again.
KeepCount == consecutiveMarkers

Recount == 0

IdleMarker ==
  /\ state = "idle"
  /\ Slide
  /\ MayDominate
  /\ consecutiveMarkers' = consecutiveMarkers + 1
  /\ state' = IF consecutiveMarkers' >= Locks THEN "mark" ELSE "idle"
  /\ UNCHANGED markerEndIdx

IdleOther ==
  /\ state = "idle"
  /\ Slide
  /\ MayYield
  /\ consecutiveMarkers' = Recount
  /\ UNCHANGED <<state, markerEndIdx>>

MarkContinues ==
  /\ state = "mark"
  /\ Slide
  /\ MayDominate
  /\ UNCHANGED <<state, consecutiveMarkers, markerEndIdx>>

MarkEnds ==
  /\ state = "mark"
  /\ Slide
  /\ MayYield
  /\ markerEndIdx' = nextWindow
  /\ state' = "gap"
  /\ UNCHANGED consecutiveMarkers

\* Mutant: the slot from its first sample on.
SlotStart(i) == LET from == base + DataStart + i * SamplesPerBit
                IN  from .. from + SamplesPerBit \div 2 - 1

\* The middle half of slot i.
BitWindow(i) == LET from == base + DataStart + i * SamplesPerBit + SamplesPerBit \div 4
                IN  from .. from + SamplesPerBit \div 2 - 1

Slot(s, i) == LET from == MarkerEnd(s) + Gap + i * SamplesPerBit
              IN  from .. from + SamplesPerBit - 1

\* Each bit is read where s sounds it.
InStep(s) == s.data # None /\ \A i \in 0 .. NBits - 1 : BitWindow(i) \subseteq Slot(s, i)

Alone(s) ==
  \A r \in Sounds \ {s}, i \in 0 .. NBits - 1 : \A x \in BitWindow(i) : Part(r, x) = "silence"

\* What the Goertzel pairs say: the frame of the sound the bits are read from;
\* over other sounds the stronger tone wins in each slot.
Readings ==
  LET instep == {s \in Sounds : InStep(s)}
  IN  IF \E s \in instep : Alone(s)
      THEN {s.data : s \in instep}
      ELSE {s.data : s \in instep} \cup {Garbled}

\* Mutant: all that was read goes with the frame.
AllConsumed == heard

Consumed == base + DataEnd

CollectFrame ==
  /\ state = "gap"
  /\ ~Starved
  /\ \E d \in Readings :
       frames' = Append(frames, [mark |-> base + markerEndIdx, data |-> d, at |-> heard])
  /\ base' = Consumed
  /\ state' = "idle"
  /\ consecutiveMarkers' = 0
  /\ markerEndIdx' = 0
  /\ nextWindow' = 0
  /\ UNCHANGED <<air, heard>>

\* Mutants: an idle buffer is never dropped; the buffer is dropped in any state.
NeverOverlong == FALSE
OverlongAnyway == nextWindow > Keep

Overlong == state = "idle" /\ nextWindow > Keep

\* The end of one turn of the outer loop and the Read of the next.
Read(n) ==
  /\ state # "eof"
  /\ Starved
  /\ heard + n <= EndOfStream
  /\ heard' = heard + n
  /\ IF Overlong
     THEN base' = base + nextWindow /\ nextWindow' = 0
     ELSE UNCHANGED <<base, nextWindow>>
  /\ UNCHANGED <<air, state, consecutiveMarkers, markerEndIdx, frames>>

Eof ==
  /\ state # "eof"
  /\ Starved
  /\ \A n \in Blocks : heard + n > EndOfStream
  /\ state' = "eof"
  /\ UNCHANGED <<air, heard, base, consecutiveMarkers, markerEndIdx, nextWindow, frames>>

Run ==
  \/ IdleMarker \/ IdleOther \/ MarkContinues \/ MarkEnds \/ CollectFrame
  \/ \E n \in Blocks : Read(n)
  \/ Eof

------------------------------------------------------------------------------
(***************************************************************************)
(* Properties of the receiver.                                               *)
(***************************************************************************)

\* The window and the marker's end stay inside the buffer, and the receiver has
\* not left the marker it counts.
ModemTypeOK ==
  /\ base \in Nat /\ heard \in base .. EndOfStream
  /\ state \in {"idle", "mark", "gap", "eof"}
  /\ nextWindow \in 0 .. Buffered
  /\ markerEndIdx \in 0 .. nextWindow
  /\ consecutiveMarkers \in 0 .. Locks
  /\ state = "idle" => consecutiveMarkers < Locks
  /\ state \in {"mark", "gap"} => consecutiveMarkers = Locks

\* Every frame follows as many windows of marker tone as lock the receiver, one
\* hop apart, none of them taken from the audio of the frame before.
LockExplained ==
  \A i \in DOMAIN frames, k \in 1 .. Locks :
    LET w == frames[i].mark - k * StepSize
    IN  /\ HoldsMarker(w)
        /\ i > 1 => w >= frames[i - 1].mark + Gap + DataLen

\* f was taken at the end of the preamble of s.
TakenFrom(f, s) ==
  /\ s.data # None
  /\ f.mark \in MarkerEnd(s) - WindowSize + 1 .. MarkerEnd(s) + StepSize - 1

\* Nothing but s sounds from its first sample to its last; others may end and begin
\* right there.
Undisturbed(s) ==
  \A r \in Sounds \ {s} : r.start >= SoundEnd(s) \/ SoundEnd(r) <= s.start

\* Wherever its windows fell on the preamble, a transmission that sounded alone is
\* delivered as it was sent.
FramesExact ==
  \A i \in DOMAIN frames, s \in Sounds :
    TakenFrom(frames[i], s) /\ Undisturbed(s) => frames[i].data = s.data

\* Long silence does not fill the buffer.
IdleBounded ==
  state = "idle" => \E n \in Blocks : Buffered < Keep + WindowSize + StepSize + n

Taken(s) == \E i \in DOMAIN frames : TakenFrom(frames[i], s)

\* While s began the receiver was collecting bits that no transmission sent, and
\* what had locked it was another sound: a mark in the preamble of s is no excuse
\* when s alone was in the windows before it.
Deaf(s) ==
  \E i \in DOMAIN frames :
    /\ frames[i].mark <= MarkerEnd(s)
    /\ frames[i].mark + Gap + DataLen > s.start
    /\ \E r \in Sounds \ {s}, k \in 1 .. Locks :
         \E x \in Window(frames[i].mark - k * StepSize) : Part(r, x) = "marker"
    /\ \A r \in Sounds : ~(TakenFrom(frames[i], r) /\ Undisturbed(r))

==============================================================================
