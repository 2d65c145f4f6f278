------------------------------ MODULE VlcChunks ------------------------------
(***************************************************************************)
(* go/transport/vlc/vlc.go: a payload becomes chunks that a screen shows over  *)
(* and over, a camera collects what it catches, in any order, again and again   *)
(* or misread, and Decode puts a payload together.  A chunk says its index and   *)
(* how many there are, both in 16 bits, and not which payload it is of.         *)
(***************************************************************************)
EXTENDS Integers, Sequences, FiniteSets

CONSTANTS
  Payload,           \* what may be shown: sequences of bytes
  ChunkPayloadLen,
  MaxChunks,         \* maxChunks, which is also how many values a uint16 has
  MaxSeen,           \* bound: chunks collected for one Decode
  MaxShown,          \* bound: payloads shown
  Error              \* no payload

ASSUME VlcAssumption ==
  /\ Payload \subseteq Seq(Nat)
  /\ {ChunkPayloadLen, MaxChunks} \subseteq Nat \ {0}
  /\ {MaxSeen, MaxShown} \subseteq Nat

VARIABLES
  shown,     \* the payloads that were encoded and shown
  seen,      \* the chunks the camera collected
  decoded    \* what the last Decode of them returned

vars == <<shown, seen, decoded>>

Uint16(n) == n % MaxChunks

Total(p) == (Len(p) + ChunkPayloadLen - 1) \div ChunkPayloadLen

\* Bytes start .. end of the payload and zeros after its last.
Piece(p, k) ==
  [j \in 1 .. ChunkPayloadLen |->
     LET at == k * ChunkPayloadLen + j IN IF at <= Len(p) THEN p[at] ELSE 0]

Chunk(p, k) ==
  [index |-> Uint16(k), total |-> Uint16(Total(p)), body |-> Piece(p, k), crc |-> TRUE]

Chunks(p) == {Chunk(p, k) : k \in 0 .. Total(p) - 1}

\* What the 16 bits of the CRC are there to catch.
Misread(c) == [c EXCEPT !.crc = FALSE]

Encodable(p) == p # <<>> /\ Total(p) <= MaxChunks

Init ==
  /\ shown = {}
  /\ seen = <<>>
  /\ decoded = Error

ApplyEncode(p) ==
  /\ Encodable(p)
  /\ Cardinality(shown) < MaxShown
  /\ shown' = shown \cup {p}
  /\ UNCHANGED <<seen, decoded>>

OnScreen == UNION {Chunks(p) : p \in shown}

Capture(c) ==
  /\ Len(seen) < MaxSeen
  /\ seen' = Append(seen, c)
  /\ UNCHANGED <<shown, decoded>>

\* Bytes 1 .. n, where n is the place of the last that is not zero.
TrimPad(b) ==
  LET kept == {i \in 1 .. Len(b) : \A j \in i .. Len(b) : b[j] = 0}
  IN  SubSeq(b, 1, Len(b) - Cardinality(kept))

\* Pieces 0 .. n - 1, one after the other.
Joined(piece, n) ==
  [i \in 1 .. n * ChunkPayloadLen |->
     piece[(i - 1) \div ChunkPayloadLen][((i - 1) % ChunkPayloadLen) + 1]]

\* indexed: the last chunk of each index wins.
Indexed(chunks) ==
  LET Of(k) == {i \in DOMAIN chunks : chunks[i].index = k}
  IN  [k \in {chunks[i].index : i \in DOMAIN chunks} |->
         chunks[CHOOSE i \in Of(k) : \A j \in Of(k) : j <= i].body]

\* Mutant: the totals are not compared.
Unchecked(chunks) == chunks # <<>> /\ \A i \in DOMAIN chunks : chunks[i].crc

\* Every chunk passes the CRC, agrees on the total and has an index below it.
Consistent(chunks) ==
  /\ chunks # <<>>
  /\ \A i \in DOMAIN chunks :
       /\ chunks[i].crc
       /\ chunks[i].total = chunks[1].total
       /\ chunks[i].index < chunks[i].total

Decode(chunks) ==
  LET indexed == Indexed(chunks)
      total == chunks[1].total
  IN  IF Consistent(chunks) /\ Cardinality(DOMAIN indexed) >= total
      THEN TrimPad(Joined(indexed, total))
      ELSE Error

ApplyDecode ==
  /\ decoded' = Decode(seen)
  /\ UNCHANGED <<shown, seen>>

\* The camera starts over.
Restart ==
  /\ seen # <<>>
  /\ seen' = <<>>
  /\ decoded' = Error
  /\ UNCHANGED shown

Next ==
  \/ \E p \in Payload : ApplyEncode(p)
  \/ \E c \in OnScreen : Capture(c) \/ Capture(Misread(c))
  \/ ApplyDecode
  \/ Restart

Spec == Init /\ [][Next]_vars

------------------------------------------------------------------------------
(***************************************************************************)
(* Properties.                                                               *)
(***************************************************************************)

\* A byte sequence without the zeros at its end.
Stripped(p) ==
  SubSeq(p, 1, CHOOSE n \in 0 .. Len(p) :
                 /\ n = 0 \/ p[n] # 0
                 /\ \A i \in n + 1 .. Len(p) : p[i] = 0)

\* Chunks of payloads that say the same number of chunks can be joined, piece by
\* piece in their places, and nothing else can.
DecodedWasShown ==
  decoded # Error =>
    \E n \in 1 .. MaxChunks - 1 :
      LET candidates == {p \in shown : Total(p) = n}
      IN  \E of \in [0 .. n - 1 -> candidates] :
            decoded = Stripped(Joined([k \in 0 .. n - 1 |-> Piece(of[k], k)], n))

\* What was collected is every chunk of p, whatever the order and however often.
AllSeen(p) == {seen[i] : i \in DOMAIN seen} = Chunks(p)

\* A collection of all the chunks of one payload decodes to it, up to the zeros
\* at its end, and what decodes was shown.  A payload of as many chunks as the
\* counter has values is left out: AcceptedDecodes is about it.
DecodeExact ==
  /\ DecodedWasShown
  /\ \A p \in shown : AllSeen(p) /\ Total(p) < MaxChunks => Decode(seen) = Stripped(p)

\* Encode returns an error for a payload the chunks cannot carry; any other one
\* can be put together from its chunks.
AcceptedDecodes == \A p \in shown : AllSeen(p) => Decode(seen) # Error

==============================================================================
