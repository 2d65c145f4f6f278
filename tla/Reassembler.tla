----------------------------- MODULE Reassembler -----------------------------
(***************************************************************************)
(* src/src/chunk.js: chunk() cuts payloads into frames, a lossy medium hands *)
(* frames to one Reassembler, whose add() collects them.  The medium may lose,*)
(* repeat and reorder frames and may garble the bytes of one; `Wire' is all  *)
(* it can hand over, so an adversarial medium is the free choice of a frame. *)
(***************************************************************************)
EXTENDS Integers, Sequences, FiniteSets

CONSTANTS
  Transfer,   \* the payloads that are sent
  IdOf,       \* IdOf[t]: the id option of the call chunk(t)
  LenOf,      \* LenOf[t]: length of the payload in bytes
  SizeOf,     \* SizeOf[t]: the size option of the call chunk(t)
  Noise,      \* what a garbled body reads
  None        \* null

ASSUME TransferAssumption ==
  /\ LenOf \in [Transfer -> Nat]
  /\ SizeOf \in [Transfer -> Int]
  /\ None \notin {IdOf[t] : t \in Transfer}

VARIABLES
  id,      \* _id: the transfer being collected, or None
  total,   \* _total: how many frames it has
  parts    \* _parts: index -> bytes

vars == <<id, total, parts>>

(***************************************************************************)
(* chunk(payload, {id, size})                                                *)
(***************************************************************************)
Step(t) == IF SizeOf[t] < 1 THEN 1 ELSE SizeOf[t]

\* Math.max(1, Math.ceil(length / step)): an empty payload is one empty frame.
\* The mutant rounds down and loses the remainder.
FloorCount(len, step) == IF len < step THEN 1 ELSE len \div step

FrameCount(len, step) == IF len = 0 THEN 1 ELSE (len + step - 1) \div step

Total(t) == FrameCount(LenOf[t], Step(t))

\* A byte is known by its payload and its position in it.
Payload(t) == [p \in 1 .. LenOf[t] |-> <<t, p>>]

\* subarray(index * step, index * step + step) stops at the end of the payload.
Slice(t, k) ==
  LET to == (k + 1) * Step(t)
  IN  SubSeq(Payload(t), k * Step(t) + 1, IF to < LenOf[t] THEN to ELSE LenOf[t])

\* The CRC is idealised: different bytes have different checksums.
Crc(bytes) == <<"crc", bytes>>

Frame(t, k) ==
  [id |-> IdOf[t], index |-> k, total |-> Total(t),
   bytes |-> Slice(t, k), crc |-> Crc(Slice(t, k))]

Frames(t) == {Frame(t, k) : k \in 0 .. Total(t) - 1}

Garbled(f) == [f EXCEPT !.bytes = Noise]

Wire == UNION {Frames(t) \cup {Garbled(f) : f \in Frames(t)} : t \in Transfer}

(***************************************************************************)
(* class Reassembler                                                         *)
(***************************************************************************)
\* constructor()
Init ==
  /\ id = None
  /\ total = 0
  /\ parts = <<>>

\* The two checks of add(), each after the mutant that leaves it out.
AnyFrame(f) == TRUE

Intact(f) == f.crc = Crc(f.bytes)

AnyTransfer(f) == TRUE

\* The id is latched first, so the first frame is always of this transfer.
ThisTransfer(f) == id = None \/ f.id = id

\* The map keeps one entry for each index, the last one set.  The mutant
\* stores frames by arrival.
PutNext(ps, f) == [k \in DOMAIN ps \cup {Cardinality(DOMAIN ps)} |->
                     IF k \in DOMAIN ps THEN ps[k] ELSE f.bytes]

Put(ps, f) == [k \in DOMAIN ps \cup {f.index} |->
                 IF k = f.index THEN f.bytes ELSE ps[k]]

\* add(frame): the first frame of all latches id and total whether or not its
\* CRC is right; a frame of another transfer or with a bad CRC is rejected.
Add(f) ==
  /\ id' = IF id = None THEN f.id ELSE id
  /\ total' = IF id = None THEN f.total ELSE total
  /\ parts' = IF ThisTransfer(f) /\ Intact(f) THEN Put(parts, f) ELSE parts

Next == \E f \in Wire : Add(f)

Spec == Init /\ [][Next]_vars

\* get complete()
Complete == total > 0 /\ Cardinality(DOMAIN parts) = total

\* missing()
Missing == {k \in 0 .. total - 1 : k \notin DOMAIN parts}

\* bytes(): the parts joined in the order of their indices.
Bytes ==
  LET joined[k \in 0 .. total] == IF k = 0 THEN <<>> ELSE joined[k - 1] \o parts[k - 1]
  IN  joined[total]

------------------------------------------------------------------------------
(***************************************************************************)
(* Properties.                                                               *)
(***************************************************************************)

\* The collector holds the id of a transfer and bytes under indices.
TypeOK ==
  /\ id \in {IdOf[t] : t \in Transfer} \cup {None}
  /\ total \in Nat
  /\ DOMAIN parts \subseteq Nat
  /\ \A k \in DOMAIN parts : parts[k] \in UNION {{Slice(t, j) : j \in 0 .. Total(t) - 1} : t \in Transfer}

\* "Verifies integrity on completion" (chunk.js): when the transfer is complete
\* nothing is missing and bytes() returns a payload that was sent, whatever was
\* lost, repeated, reordered, garbled or sent by another transfer on the way.
CompleteIsExact ==
  Complete =>
    /\ Missing = {}
    /\ \E t \in Transfer : id = IdOf[t] /\ Bytes = Payload(t)

\* The list a receiver asks to be resent is right: once a transfer is known it
\* is empty exactly when the transfer is complete, so a sender that resends
\* what is missing neither stops too early nor goes on for ever.
MissingDecidesCompletion == id # None => (Missing = {} <=> Complete)

\* Frames only ever add: a part that arrived intact is not lost or changed by a
\* duplicate or by a frame of another transfer, and the transfer being
\* collected is never swapped for another.
NeverLosesGround ==
  [][/\ id # None => id' = id /\ total' = total
     /\ DOMAIN parts \subseteq DOMAIN parts'
     /\ \A k \in DOMAIN parts : parts'[k] = parts[k]]_vars

==============================================================================
