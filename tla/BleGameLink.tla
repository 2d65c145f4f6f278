----------------------------- MODULE BleGameLink -----------------------------
(***************************************************************************)
(* Game payloads over BLE frames: the codec of src/src/blegame.js, driven as  *)
(* src/test/ble-game-link.test.mjs drives it.  A sender puts the frames of a  *)
(* transfer on the air, a receiver keeps every valid frame by its index,      *)
(* whatever its kind, and asks for the missing ones with one ack frame.       *)
(* Frames are lost, repeated, reordered and corrupted, strangers in range     *)
(* send transfers of their own, and other receivers send acks of theirs.  A   *)
(* corrupted frame is rejected by its checksum and changes nothing.  A radio  *)
(* does not hear itself: the receiver's own acks reach its sender only.       *)
(***************************************************************************)
EXTENDS Integers, Sequences, FiniteSets

CONSTANTS
  Transfer,     \* the payloads that may be sent
  Wanted,       \* the one this receiver and its sender are about
  GameOf,       \* GameOf[t], IdOf[t]: the ids passed to encodeBleGameTransfer
  IdOf,
  LenOf,        \* LenOf[t]: length of the payload
  PayloadMax,   \* BLE_GAME_PAYLOAD_BYTES
  Byte,         \* values of a byte: 256
  Overheard,    \* the sets of indices other receivers may ask for
  MaxSent       \* bound: transfers that are begun

ASSUME LinkAssumption ==
  /\ Wanted \in Transfer
  /\ {GameOf, IdOf, LenOf} \subseteq [Transfer -> Nat]
  /\ PayloadMax \in Nat \ {0}
  /\ Byte \in Nat \ {0, 1}
  /\ MaxSent \in Nat

VARIABLES
  air,     \* the frames the receiver may still hear
  acks,    \* its own acks, which its sender may still hear
  sent,    \* history: the transfers that were begun
  asked,   \* history: the acks of other receivers
  seen,    \* index -> the frame kept for it
  total    \* the total of the last valid frame

vars == <<air, acks, sent, asked, seen, total>>

(***************************************************************************)
(* The codec.                                                                *)
(***************************************************************************)
FrameCount(t) == IF LenOf[t] = 0 THEN 1 ELSE (LenOf[t] + PayloadMax - 1) \div PayloadMax

\* A byte is known by its payload and its position.
Payload(t) == [p \in 1 .. LenOf[t] |-> <<t, p>>]

Slice(t, k) ==
  LET to == (k + 1) * PayloadMax
  IN  SubSeq(Payload(t), k * PayloadMax + 1, IF to < LenOf[t] THEN to ELSE LenOf[t])

\* Mutant: the numbers are written as they are.
Wide(n) == n

\* u8: every number of the header loses what does not fit a byte.
U8(n) == n % Byte

Data(t, k) ==
  [kind |-> "data", gameId |-> U8(GameOf[t]), transferId |-> U8(IdOf[t]),
   index |-> U8(k), total |-> U8(FrameCount(t)), payload |-> Slice(t, k)]

\* encodeBleGameTransfer refuses more frames than the total can count.
Fits(t) == FrameCount(t) <= Byte - 1

Frames(t) == {Data(t, k) : k \in 0 .. FrameCount(t) - 1}

OwnFrames == Frames(Wanted)

\* An ack carries the missing indices in ascending order, one byte each, and the
\* default index and total.
InOrder(ks) ==
  [i \in 1 .. Cardinality(ks) |->
     <<"missing", CHOOSE k \in ks : Cardinality({j \in ks : j < k}) = i - 1>>]

Ack(t, ks) ==
  [kind |-> "ack", gameId |-> U8(GameOf[t]), transferId |-> U8(IdOf[t]),
   index |-> 0, total |-> 1, payload |-> InOrder(ks)]

\* The payload of a frame names an index.
Names(f, k) == \E i \in DOMAIN f.payload : f.payload[i] = <<"missing", k>>

\* decodeBleGameTransfer, on the frames the receiver keeps.  The kinds are not
\* compared.  Each check comes after the mutant that leaves it out.
AnyTransfer(fs) == TRUE

SameTransfer(fs) ==
  \A f, g \in fs : <<f.gameId, f.transferId, f.total>> = <<g.gameId, g.transferId, g.total>>

Kept == {seen[k] : k \in DOMAIN seen}

AllThere(fs) ==
  \A f \in fs : Cardinality(DOMAIN seen) = f.total /\ 0 .. f.total - 1 \subseteq DOMAIN seen

Decodes == Kept # {} /\ SameTransfer(Kept) /\ AllThere(Kept)

\* The first n parts, one after the other.
Joined(parts, n) ==
  LET joined[k \in 0 .. n] == IF k = 0 THEN <<>> ELSE joined[k - 1] \o parts[k - 1]
  IN  joined[n]

Decoded == Joined([k \in DOMAIN seen |-> seen[k].payload], Cardinality(DOMAIN seen))

(***************************************************************************)
(* The link.                                                                 *)
(***************************************************************************)
Init ==
  /\ air = {} /\ acks = {}
  /\ sent = {} /\ asked = {}
  /\ seen = <<>>
  /\ total = 0

Send(t) ==
  /\ t \notin sent
  /\ Cardinality(sent) < MaxSent
  /\ Fits(t)
  /\ sent' = sent \cup {t}
  /\ air' = air \cup Frames(t)
  /\ UNCHANGED <<acks, asked, seen, total>>

\* A frame that nobody takes is lost as well: this is for those the fairness below
\* counts on.
Lose(f) ==
  /\ f \in OwnFrames \cup acks
  /\ air' = air \ {f}
  /\ acks' = acks \ {f}
  /\ UNCHANGED <<sent, asked, seen, total>>

\* ingest(): any valid frame replaces what was kept for its index, an ack too.
Ingest(f) ==
  /\ seen' = [k \in DOMAIN seen \cup {f.index} |-> IF k = f.index THEN f ELSE seen[k]]
  /\ total' = f.total
  /\ UNCHANGED <<air, acks, sent, asked>>

\* missing(), after a mutant that forgets the last index.
MissingButLast == {k \in 0 .. total - 2 : k \notin DOMAIN seen}

Missing == {k \in 0 .. total - 1 : k \notin DOMAIN seen}

\* The receiver asks again for as long as something is missing; with more than
\* an ack can name encodeBleGameFrame throws.
Nack ==
  /\ Missing # {}
  /\ Cardinality(Missing) <= PayloadMax
  /\ acks' = acks \cup {Ack(Wanted, Missing)}
  /\ UNCHANGED <<air, sent, asked, seen, total>>

\* Another receiver of a transfer misses some of its frames, and asks for them
\* within our hearing.
OthersNack(t, ks) ==
  /\ t \in sent
  /\ ks # {} /\ ks \subseteq 0 .. FrameCount(t) - 1
  /\ Cardinality(ks) <= PayloadMax
  /\ air' = air \cup {Ack(t, ks)}
  /\ asked' = asked \cup {Ack(t, ks)}
  /\ UNCHANGED <<acks, sent, seen, total>>

\* Mutant: the indices of the ack are taken as counts.
ResendBefore(a) ==
  /\ a.kind = "ack"
  /\ Wanted \in sent
  /\ air' = air \cup {f \in OwnFrames : Names(a, f.index + 1)}
  /\ UNCHANGED <<acks, sent, asked, seen, total>>

\* The sender answers any ack with the frames it names, frames[i]; an index that
\* is not its own names none.
Resend(a) ==
  /\ a.kind = "ack"
  /\ Wanted \in sent
  /\ air' = air \cup {f \in OwnFrames : Names(a, f.index)}
  /\ UNCHANGED <<acks, sent, asked, seen, total>>

Next ==
  \/ \E t \in Transfer : Send(t) \/ \E ks \in Overheard : OthersNack(t, ks)
  \/ \E f \in air : Ingest(f)
  \/ \E f \in air \cup acks : Lose(f) \/ Resend(f)
  \/ Nack

\* The receiver keeps asking, and a frame or an ack that is on the air again and
\* again is heard: loss is not for ever.  Nothing makes a sender begin.
Fairness ==
  /\ WF_vars(Nack)
  /\ \A f \in OwnFrames : SF_vars(f \in air /\ Ingest(f))
  /\ SF_vars(\E a \in acks : Resend(a))

Spec == Init /\ [][Next]_vars /\ Fairness

------------------------------------------------------------------------------
(***************************************************************************)
(* Properties.                                                               *)
(***************************************************************************)

FramesSent == UNION {Frames(t) : t \in sent}

\* What is kept is a frame that was sent or an ack of another receiver, under its
\* own index, and every number of a header is a byte.
TypeOK ==
  /\ sent \subseteq Transfer
  /\ Kept \subseteq FramesSent \cup asked
  /\ \A k \in DOMAIN seen : seen[k].index = k
  /\ total \in 0 .. Byte - 1
  /\ \A f \in air \cup acks : {f.gameId, f.transferId, f.index, f.total} \subseteq 0 .. Byte - 1

\* The transfers a frame may be of, as far as its header tells.
Like(f) ==
  {t \in sent : <<U8(GameOf[t]), U8(IdOf[t]), FrameCount(t)>> = <<f.gameId, f.transferId, f.total>>}

\* What decodes, whatever was lost, repeated or overwritten, is an ack that is all
\* that was kept (decodeBleGameTransfer does not refuse it), or slices, each in its
\* place, of transfers with the header that was kept; when one transfer only has
\* that header, it is its payload, whole and in order.
DecodeExact ==
  Decodes =>
    \/ \E a \in asked : Kept = {a} /\ Decoded = a.payload
    \/ \E f \in Kept :
         /\ \E of \in [0 .. f.total - 1 -> Like(f)] :
              Decoded = Joined([k \in 0 .. f.total - 1 |-> Slice(of[k], k)], f.total)
         /\ \A t \in sent : Like(f) = {t} => Decoded = Payload(t)

\* Nobody but the sender was heard.
Alone == sent = {Wanted} /\ asked = {}

\* missing() is a sound guide: with nothing missing the transfer decodes, or it is
\* refused as mixed, and then somebody else was in range.
NothingMissing ==
  (total > 0 /\ Missing = {}) => Decodes \/ (~SameTransfer(Kept) /\ ~Alone)

\* ARQ recovers: as long as nobody else is heard, a receiver that misses no more
\* than one ack can name ends up with the payload.
Recovers ==
  (Alone /\ total > 0 /\ Cardinality(Missing) <= PayloadMax) ~>
    ((Decodes /\ Decoded = Payload(Wanted)) \/ ~Alone)

==============================================================================
