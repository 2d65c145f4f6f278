--------------------------- MODULE BleGameLinkProofs ---------------------------
(***************************************************************************)
(* Proofs about the game link for any payloads, any ids, any size of a frame   *)
(* and any width of the numbers in a header.  A transfer is cut as chunk()      *)
(* cuts it, so what is proved of slices there is used here.                     *)
(***************************************************************************)
EXTENDS BleGameLink, FiniteSetTheorems, TLAPS

Chunk == INSTANCE ReassemblerProofs WITH
  SizeOf <- [t \in Transfer |-> PayloadMax],
  Noise <- 0, None <- -1, id <- -1,
  total <- Cardinality(DOMAIN seen),
  parts <- [k \in DOMAIN seen |-> seen[k].payload]

\* Who sends has a payload whose frames a byte can count.
SentFit == \A t \in sent : Fits(t)

\* On the air are frames of transfers that were begun and acks of others; the
\* receiver's own acks are acks.
AirOK ==
  /\ air \subseteq FramesSent \cup asked
  /\ \A a \in acks : \E ks : a = Ack(Wanted, ks)
  /\ \A a \in asked : \E t \in sent : \E ks : IsFiniteSet(ks) /\ a = Ack(t, ks)

\* The total is the one of a frame that is kept.
TotalKept ==
  IF total = 0 THEN DOMAIN seen = {} ELSE \E k \in DOMAIN seen : seen[k].total = total

IInv == TypeOK /\ SentFit /\ AirOK /\ TotalKept

(***************************************************************************)
(* The codec.                                                                *)
(***************************************************************************)

\* What chunk() assumes of its transfers holds of these.
LEMMA CutAsChunks == Chunk!TransferAssumption
  BY LinkAssumption DEF Chunk!TransferAssumption

\* The slices and their number are those of chunk().
LEMMA SameSlices ==
  ASSUME NEW t \in Transfer
  PROVE  /\ FrameCount(t) = Chunk!Total(t)
         /\ Payload(t) = Chunk!Payload(t)
         /\ \A k \in Nat : Slice(t, k) = Chunk!Slice(t, k)
PROOF
  <1>1. Chunk!Step(t) = PayloadMax
    BY LinkAssumption DEF Chunk!Step
  <1>2. Payload(t) = Chunk!Payload(t)
    BY DEF Payload, Chunk!Payload
  <1>3. FrameCount(t) = Chunk!Total(t)
    BY <1>1 DEF FrameCount, Chunk!Total, Chunk!FrameCount
  <1>4. ASSUME NEW k \in Nat PROVE Slice(t, k) = Chunk!Slice(t, k)
    BY <1>1, <1>2 DEF Slice, Chunk!Slice
  <1> QED BY <1>2, <1>3, <1>4

\* There is a frame of every transfer.
LEMMA FramesCounted ==
  ASSUME NEW t \in Transfer
  PROVE  FrameCount(t) \in Nat /\ FrameCount(t) >= 1
  BY SameSlices, CutAsChunks, Chunk!TotalPositive

\* A number of a header is a byte, and itself if it is one.
LEMMA ByteOf ==
  /\ \A n \in Nat : U8(n) \in 0 .. Byte - 1
  /\ \A n \in 0 .. Byte - 1 : U8(n) = n
PROOF
  <1>1. Byte \in Nat /\ Byte >= 2
    BY LinkAssumption
  <1> QED BY <1>1 DEF U8

\* In a transfer that fits, every frame tells its own index and the number of
\* all of them.
LEMMA FrameTells ==
  ASSUME NEW t \in Transfer, Fits(t), NEW f \in Frames(t)
  PROVE  /\ f.kind = "data"
         /\ f.index \in 0 .. FrameCount(t) - 1
         /\ f.payload = Slice(t, f.index)
         /\ f.total = FrameCount(t)
         /\ f.gameId = U8(GameOf[t])
         /\ f.transferId = U8(IdOf[t])
         /\ {f.gameId, f.transferId, f.index, f.total} \subseteq 0 .. Byte - 1
PROOF
  <1>1. PICK k \in 0 .. FrameCount(t) - 1 : f = Data(t, k)
    BY DEF Frames
  <1>2. /\ FrameCount(t) \in 0 .. Byte - 1
        /\ k \in 0 .. Byte - 1
    BY <1>1, FramesCounted, LinkAssumption DEF Fits
  <1>3. U8(FrameCount(t)) = FrameCount(t) /\ U8(k) = k
    BY <1>2, ByteOf
  <1>4. GameOf[t] \in Nat /\ IdOf[t] \in Nat
    BY LinkAssumption
  <1>5. U8(GameOf[t]) \in 0 .. Byte - 1 /\ U8(IdOf[t]) \in 0 .. Byte - 1
    BY <1>4, ByteOf
  <1> QED BY <1>1, <1>2, <1>3, <1>5 DEF Data

\* An ack has the index and the total of a transfer of one frame.
LEMMA AckTells ==
  ASSUME NEW t \in Transfer, NEW ks
  PROVE  /\ Ack(t, ks).kind = "ack" /\ Ack(t, ks).index = 0 /\ Ack(t, ks).total = 1
         /\ {Ack(t, ks).gameId, Ack(t, ks).transferId, Ack(t, ks).index, Ack(t, ks).total}
              \subseteq 0 .. Byte - 1
PROOF
  <1>1. GameOf[t] \in Nat /\ IdOf[t] \in Nat
    BY LinkAssumption
  <1>2. U8(GameOf[t]) \in 0 .. Byte - 1 /\ U8(IdOf[t]) \in 0 .. Byte - 1
    BY <1>1, ByteOf
  <1>3. 0 \in 0 .. Byte - 1 /\ 1 \in 0 .. Byte - 1
    BY LinkAssumption
  <1> QED BY <1>2, <1>3 DEF Ack

\* Whatever can be heard has a positive total and an index below it, and its
\* numbers are bytes.
LEMMA Heard ==
  ASSUME IInv, NEW f \in FramesSent \cup asked
  PROVE  /\ f.total \in 1 .. Byte - 1
         /\ f.index \in 0 .. f.total - 1
         /\ {f.gameId, f.transferId, f.index, f.total} \subseteq 0 .. Byte - 1
PROOF
  <1>1. CASE f \in FramesSent
    <2>1. PICK t \in sent : f \in Frames(t)
      BY <1>1 DEF FramesSent
    <2>2. t \in Transfer /\ Fits(t)
      BY DEF IInv, TypeOK, SentFit
    <2>3. FrameCount(t) \in 1 .. Byte - 1
      BY <2>2, FramesCounted, LinkAssumption DEF Fits
    <2> QED BY <2>1, <2>2, <2>3, FrameTells
  <1>2. CASE f \in asked
    <2>1. PICK t \in sent : \E ks : f = Ack(t, ks)
      BY <1>2 DEF IInv, AirOK
    <2>2. t \in Transfer
      BY DEF IInv, TypeOK
    <2>3. 1 \in 1 .. Byte - 1
      BY LinkAssumption
    <2> QED BY <2>1, <2>2, <2>3, AckTells
  <1> QED BY <1>1, <1>2

(***************************************************************************)
(* The invariant.                                                            *)
(***************************************************************************)

\* Nothing was sent and nothing is kept.
LEMMA InitInv == Init => IInv
  BY LinkAssumption DEF Init, IInv, TypeOK, Kept, SentFit, AirOK, TotalKept

\* A transfer that fits adds its frames to the air.
LEMMA SendInv == ASSUME IInv, NEW t \in Transfer, Send(t) PROVE IInv'
PROOF
  <1>1. sent' = sent \cup {t} /\ air' = air \cup Frames(t) /\ Fits(t)
    BY DEF Send
  <1>2. UNCHANGED <<acks, asked, seen, total>>
    BY DEF Send
  <1>3. SentFit'
    BY <1>1 DEF IInv, SentFit
  <1>4. FramesSent \subseteq FramesSent' /\ Frames(t) \subseteq FramesSent'
    BY <1>1 DEF FramesSent
  <1>5. AirOK'
    BY <1>1, <1>2, <1>4 DEF IInv, AirOK
  <1>6. \A f \in air' \cup acks' : {f.gameId, f.transferId, f.index, f.total} \subseteq 0 .. Byte - 1
    BY <1>1, <1>2, FrameTells DEF IInv, TypeOK
  <1>7. \A k \in DOMAIN seen' : seen'[k] \in FramesSent' \cup asked' /\ seen'[k].index = k
    BY <1>2, <1>4 DEF IInv, TypeOK, Kept
  <1>8. sent' \subseteq Transfer /\ total' \in 0 .. Byte - 1
    BY <1>1, <1>2 DEF IInv, TypeOK
  <1>9. TypeOK'
    BY <1>6, <1>7, <1>8 DEF TypeOK, Kept
  <1>10. TotalKept'
    BY <1>2 DEF IInv, TotalKept
  <1> QED BY <1>3, <1>5, <1>9, <1>10 DEF IInv

\* Steps that only change what can be heard, or ask for more, keep the invariant
\* when all of it is a frame that was sent or an ack.
LEMMA AirInv ==
  ASSUME IInv, UNCHANGED <<sent, seen, total>>, asked \subseteq asked',
         \A f \in air' : f \in air \/ f \in FramesSent \/ f \in asked',
         \A a \in acks' : a \in acks \/ \E ks : a = Ack(Wanted, ks),
         \A a \in asked' : \/ a \in asked
                           \/ \E t \in sent : \E ks : IsFiniteSet(ks) /\ a = Ack(t, ks)
  PROVE  IInv'
PROOF
  <1>1. FramesSent' = FramesSent
    BY DEF FramesSent
  <1>2. AirOK'
    BY <1>1 DEF IInv, AirOK
  <1>3. ASSUME NEW f \in air' \cup acks'
        PROVE  {f.gameId, f.transferId, f.index, f.total} \subseteq 0 .. Byte - 1
    <2>1. CASE f \in air \cup acks
      BY <2>1 DEF IInv, TypeOK
    <2>2. CASE f \in FramesSent
      BY <2>2, Heard
    <2>3. CASE \E t \in Transfer : \E ks : f = Ack(t, ks)
      BY <2>3, AckTells
    <2>4. sent \subseteq Transfer /\ Wanted \in Transfer
      BY LinkAssumption DEF IInv, TypeOK
    <2>5. \A a \in asked : \E t \in sent : \E ks : a = Ack(t, ks)
      BY DEF IInv, AirOK
    <2> QED BY <2>1, <2>2, <2>3, <2>4, <2>5
  <1>4. TypeOK'
    BY <1>1, <1>3 DEF IInv, TypeOK, Kept
  <1>5. SentFit' /\ TotalKept'
    BY DEF IInv, SentFit, TotalKept
  <1> QED BY <1>2, <1>4, <1>5 DEF IInv

\* What is heard, a frame or an ack, is kept under its own index.
LEMMA IngestInv == ASSUME IInv, NEW f \in air, Ingest(f) PROVE IInv'
PROOF
  <1>1. /\ seen' = [k \in DOMAIN seen \cup {f.index} |-> IF k = f.index THEN f ELSE seen[k]]
        /\ total' = f.total
        /\ air' = air /\ acks' = acks /\ sent' = sent /\ asked' = asked
    BY DEF Ingest
  <1>2. f \in FramesSent \cup asked
    BY DEF IInv, AirOK
  <1>3. f.total \in 1 .. Byte - 1
    BY <1>2, Heard
  <1>4. f.total \in 0 .. Byte - 1 /\ f.total # 0
    BY <1>3, LinkAssumption
  <1>5. /\ DOMAIN seen' = DOMAIN seen \cup {f.index}
        /\ seen'[f.index] = f
        /\ \A k \in DOMAIN seen : k # f.index => seen'[k] = seen[k]
    BY <1>1
  <1>6. FramesSent' = FramesSent
    BY <1>1 DEF FramesSent
  <1>7. \A k \in DOMAIN seen' : seen'[k] \in FramesSent' \cup asked' /\ seen'[k].index = k
    BY <1>1, <1>2, <1>5, <1>6 DEF IInv, TypeOK, Kept
  <1>8. TypeOK'
    <2>1. Kept' \subseteq FramesSent' \cup asked' /\ \A k \in DOMAIN seen' : seen'[k].index = k
      BY <1>7 DEF Kept
    <2>2. sent' \subseteq Transfer /\ total' \in 0 .. Byte - 1
      BY <1>1, <1>4 DEF IInv, TypeOK
    <2>3. \A g \in air' \cup acks' : {g.gameId, g.transferId, g.index, g.total} \subseteq 0 .. Byte - 1
      BY <1>1 DEF IInv, TypeOK
    <2> QED BY <2>1, <2>2, <2>3 DEF TypeOK
  <1>9. TotalKept'
    BY <1>1, <1>4, <1>5 DEF TotalKept
  <1>10. SentFit' /\ AirOK'
    BY <1>1, <1>6 DEF IInv, SentFit, AirOK
  <1> QED BY <1>8, <1>9, <1>10 DEF IInv

\* What an ack names and the sender has is a frame of the transfer it began.
LEMMA ResendInv == ASSUME IInv, NEW a, Resend(a) PROVE IInv'
PROOF
  <1>1. /\ Wanted \in sent
        /\ \A f \in air' : f \in air \/ f \in Frames(Wanted)
        /\ UNCHANGED <<acks, sent, asked, seen, total>>
    BY DEF Resend, OwnFrames
  <1>2. Frames(Wanted) \subseteq FramesSent
    BY <1>1 DEF FramesSent
  <1> QED BY <1>1, <1>2, AirInv

\* The invariant holds in every reachable state.
LEMMA Invariance == Spec => []IInv
PROOF
  <1>1. IInv /\ [Next]_vars => IInv'
    <2> SUFFICES ASSUME IInv, [Next]_vars PROVE IInv'
      OBVIOUS
    <2>1. ASSUME NEW t \in Transfer, Send(t) PROVE IInv'
      BY <2>1, SendInv
    <2>2. ASSUME NEW f, Lose(f) PROVE IInv'
      BY <2>2, AirInv DEF Lose
    <2>3. ASSUME NEW f \in air, Ingest(f) PROVE IInv'
      BY <2>3, IngestInv
    <2>4. ASSUME NEW a, Resend(a) PROVE IInv'
      BY <2>4, ResendInv
    <2>5. ASSUME Nack PROVE IInv'
      BY <2>5, AirInv DEF Nack
    <2>6. ASSUME NEW t \in Transfer, NEW ks, OthersNack(t, ks) PROVE IInv'
      <3>1. IsFiniteSet(ks)
        <4>1. ks \subseteq 0 .. FrameCount(t) - 1 /\ FrameCount(t) \in Nat
          BY <2>6, FramesCounted DEF OthersNack
        <4>2. IsFiniteSet(0 .. FrameCount(t) - 1)
          BY <4>1, FS_Interval
        <4> QED BY <4>1, <4>2, FS_Subset
      <3> QED BY <2>6, <3>1, AirInv DEF OthersNack
    <2>7. ASSUME UNCHANGED vars PROVE IInv'
      BY <2>7, AirInv DEF vars
    <2> QED BY <2>1, <2>2, <2>3, <2>4, <2>5, <2>6, <2>7 DEF Next
  <1> QED BY <1>1, InitInv, PTL DEF Spec

\* What is kept are frames of transfers that were sent and acks of other
\* receivers, each under its own index, and every number of a header is a byte.
THEOREM LinkTypeCorrect == Spec => []TypeOK
PROOF
  <1>1. IInv => TypeOK
    BY DEF IInv
  <1> QED BY <1>1, Invariance, PTL

(***************************************************************************)
(* What is kept and what decodes.                                            *)
(***************************************************************************)

\* Whoever hears nobody but the sender keeps frames of the wanted transfer only.
LEMMA AloneKeepsOne == ASSUME IInv, Alone PROVE SameTransfer(Kept)
PROOF
  <1>1. Wanted \in Transfer /\ Fits(Wanted)
    BY DEF IInv, TypeOK, SentFit, Alone
  <1>2. \A f \in Kept : f \in Frames(Wanted)
    BY DEF IInv, TypeOK, FramesSent, Alone, Kept
  <1>3. \A f \in Kept : <<f.gameId, f.transferId, f.total>>
                         = <<U8(GameOf[Wanted]), U8(IdOf[Wanted]), FrameCount(Wanted)>>
    BY <1>1, <1>2, FrameTells
  <1> QED BY <1>3 DEF SameTransfer

\* Frames that agree and have all the indices below a total that is theirs are all
\* there, and no more than that.
LEMMA KeptInRange ==
  ASSUME IInv, SameTransfer(Kept), NEW k \in DOMAIN seen,
         0 .. seen[k].total - 1 \subseteq DOMAIN seen
  PROVE  /\ seen[k].total \in Nat \ {0}
         /\ DOMAIN seen = 0 .. seen[k].total - 1
         /\ Cardinality(DOMAIN seen) = seen[k].total
         /\ AllThere(Kept)
PROOF
  <1>1. \A j \in DOMAIN seen : /\ seen[j] \in FramesSent \cup asked
                               /\ seen[j].index = j
                               /\ seen[j].total = seen[k].total
    BY DEF IInv, TypeOK, SameTransfer, Kept
  <1>2. \A j \in DOMAIN seen : j \in 0 .. seen[k].total - 1
    BY <1>1, Heard
  <1>3. seen[k].total \in Nat \ {0}
    BY <1>1, Heard
  <1>4. DOMAIN seen = 0 .. seen[k].total - 1
    BY <1>2
  <1>5. Cardinality(DOMAIN seen) = seen[k].total
    <2>1. ASSUME NEW n \in Nat \ {0} PROVE Cardinality(0 .. n - 1) = n
      BY FS_Interval
    <2> QED BY ONLY <1>3, <1>4, <2>1
  <1>6. AllThere(Kept)
    BY <1>1, <1>5 DEF AllThere, Kept
  <1> QED BY <1>3, <1>4, <1>5, <1>6

\* A receiver that misses nothing can decode, unless frames of several transfers
\* were kept, and then it did not hear its sender alone: what it asks for is all it
\* needs.
THEOREM NothingMissingHolds == Spec => []NothingMissing
PROOF
  <1>1. IInv => NothingMissing
    <2> SUFFICES ASSUME IInv, total > 0, Missing = {}
                 PROVE  Decodes \/ (~SameTransfer(Kept) /\ ~Alone)
      BY DEF NothingMissing
    <2>1. PICK k \in DOMAIN seen : seen[k].total = total
      BY DEF IInv, TypeOK, TotalKept
    <2>2. 0 .. seen[k].total - 1 \subseteq DOMAIN seen
      BY <2>1 DEF Missing
    <2>3. CASE SameTransfer(Kept)
      <3>1. AllThere(Kept)
        BY <2>2, <2>3, KeptInRange
      <3>2. Kept # {}
        BY DEF Kept
      <3> QED BY <2>3, <3>1, <3>2 DEF Decodes
    <2>4. CASE ~SameTransfer(Kept)
      BY <2>4, AloneKeepsOne
    <2> QED BY <2>3, <2>4
  <1> QED BY <1>1, Invariance, PTL

\* All the slices of a transfer, joined, are its payload.
LEMMA SlicesDecode ==
  ASSUME NEW t \in Transfer, NEW ps, \A k \in 0 .. FrameCount(t) - 1 : ps[k] = Slice(t, k)
  PROVE  Joined(ps, FrameCount(t)) = Payload(t)
PROOF
  <1> DEFINE n == FrameCount(t)
             up == [k \in 0 .. n |-> Chunk!UpTo(t, k)]
             J == CHOOSE g : g = [k \in 0 .. n |-> IF k = 0 THEN <<>> ELSE g[k - 1] \o ps[k - 1]]
  <1>1. n \in Nat
    BY FramesCounted
  <1>2. \A k \in 0 .. n - 1 : ps[k] = Chunk!Slice(t, k)
    BY <1>1, SameSlices
  <1>3. Joined(ps, n) = J[n]
    BY DEF Joined
  <1>4. Chunk!Joins(up, ps, n)
    <2> HIDE DEF n
    <2> QED BY <1>1, <1>2, CutAsChunks, Chunk!SlicesJoin
  <1>5. up[n] = Payload(t)
    <2>1. up[n] = Chunk!UpTo(t, Chunk!Total(t))
      BY <1>1, SameSlices
    <2> QED BY <2>1, SameSlices, CutAsChunks, Chunk!AllSlices
  <1> HIDE DEF up, n
  <1>6. up = [k \in 0 .. n |-> IF k = 0 THEN <<>> ELSE up[k - 1] \o ps[k - 1]]
    BY <1>4 DEF Chunk!Joins
  <1>7. J = [k \in 0 .. n |-> IF k = 0 THEN <<>> ELSE J[k - 1] \o ps[k - 1]]
    BY <1>6
  <1> HIDE DEF J
  <1>8. J = up
    <2>1. Chunk!Joins(J, ps, n)
      BY <1>7 DEF Chunk!Joins
    <2> QED BY <1>1, <1>4, <2>1, CutAsChunks, Chunk!JoinsUnique
  <1> QED BY <1>3, <1>5, <1>8 DEF n

\* One part is joined to itself.
LEMMA OnePart ==
  ASSUME NEW ps, NEW S, ps[0] \in Seq(S)
  PROVE  Joined(ps, 1) = ps[0]
PROOF
  <1> DEFINE J == CHOOSE g : g = [k \in 0 .. 1 |-> IF k = 0 THEN <<>> ELSE g[k - 1] \o ps[k - 1]]
             h == [k \in 0 .. 1 |-> IF k = 0 THEN <<>> ELSE ps[0]]
  <1>1. <<>> \o ps[0] = ps[0]
    OBVIOUS
  <1>2. \A k \in 0 .. 1 : k = 0 \/ (k = 1 /\ k - 1 = 0)
    OBVIOUS
  <1>3. h[0] = <<>>
    OBVIOUS
  <1>4. h = [k \in 0 .. 1 |-> IF k = 0 THEN <<>> ELSE h[k - 1] \o ps[k - 1]]
    <2> HIDE DEF h
    <2>1. \A k \in 0 .. 1 : (IF k = 0 THEN <<>> ELSE ps[0]) = (IF k = 0 THEN <<>> ELSE h[k - 1] \o ps[k - 1])
      BY <1>1, <1>2, <1>3
    <2> QED BY <2>1 DEF h
  <1> HIDE DEF h
  <1>5. J = [k \in 0 .. 1 |-> IF k = 0 THEN <<>> ELSE J[k - 1] \o ps[k - 1]]
    BY <1>4
  <1>6. Joined(ps, 1) = J[1]
    BY DEF Joined
  <1> HIDE DEF J
  <1>7. J[0] = <<>> /\ J[1] = J[0] \o ps[0]
    BY <1>5
  <1> QED BY <1>1, <1>6, <1>7

\* The payload of an ack is a sequence.
LEMMA AckPayload ==
  ASSUME NEW t, NEW ks, IsFiniteSet(ks)
  PROVE  \E S : Ack(t, ks).payload \in Seq(S)
PROOF
  <1> DEFINE n == Cardinality(ks)
             byte(i) == <<"missing", CHOOSE k \in ks : Cardinality({j \in ks : j < k}) = i - 1>>
             p == [i \in 1 .. n |-> byte(i)]
             S == {byte(i) : i \in 1 .. n}
  <1>1. n \in Nat
    BY FS_CardinalityType
  <1>2. InOrder(ks) = p
    BY DEF InOrder
  <1> HIDE DEF n, byte
  <1>3. Ack(t, ks).payload = p
    BY <1>2 DEF Ack
  <1>4. p \in [1 .. n -> S]
    OBVIOUS
  <1>5. p \in Seq(S)
    BY <1>1, <1>4
  <1> QED BY <1>3, <1>5

\* An ack that is kept where everything decodes is all that is kept.
LEMMA AckDecodes ==
  ASSUME IInv, Decodes, NEW k \in DOMAIN seen, seen[k] \in asked
  PROVE  Kept = {seen[k]} /\ Decoded = seen[k].payload
PROOF
  <1>1. PICK t \in sent : \E ks : IsFiniteSet(ks) /\ seen[k] = Ack(t, ks)
    BY DEF IInv, AirOK
  <1>2. t \in Transfer
    BY DEF IInv, TypeOK
  <1>3. seen[k].index = 0 /\ seen[k].total = 1
    BY <1>1, <1>2, AckTells
  <1>4. k = 0
    BY <1>3 DEF IInv, TypeOK
  <1>5. SameTransfer(Kept) /\ 0 .. seen[k].total - 1 \subseteq DOMAIN seen
    BY DEF Decodes, AllThere, Kept
  <1>6. DOMAIN seen = 0 .. seen[k].total - 1 /\ Cardinality(DOMAIN seen) = seen[k].total
    BY <1>5, KeptInRange
  <1>7. DOMAIN seen = {0} /\ Cardinality(DOMAIN seen) = 1
    BY <1>3, <1>6
  <1>8. Kept = {seen[k]}
    BY <1>4, <1>7 DEF Kept
  <1> DEFINE ps == [j \in DOMAIN seen |-> seen[j].payload]
  <1>9. ps[0] = seen[k].payload
    BY <1>4, <1>7
  <1>10. Decoded = Joined(ps, 1)
    BY <1>7 DEF Decoded
  <1>11. \E S : seen[k].payload \in Seq(S)
    BY <1>1, AckPayload
  <1> HIDE DEF ps
  <1>12. Joined(ps, 1) = ps[0]
    BY <1>9, <1>11, OnePart
  <1> QED BY <1>8, <1>9, <1>10, <1>12

\* Frames that are kept where everything decodes are slices of transfers that look
\* the same.
LEMMA FramesDecode ==
  ASSUME IInv, Decodes, NEW k \in DOMAIN seen, \A j \in DOMAIN seen : seen[j] \in FramesSent
  PROVE  LET n == seen[k].total
         IN  /\ \E of \in [0 .. n - 1 -> Like(seen[k])] :
                  Decoded = Joined([j \in 0 .. n - 1 |-> Slice(of[j], j)], n)
             /\ \A t \in sent : Like(seen[k]) = {t} => Decoded = Payload(t)
PROOF
  <1> DEFINE n == seen[k].total
             of == [j \in 0 .. n - 1 |-> CHOOSE u \in sent : seen[j] \in Frames(u)]
             ps == [j \in 0 .. n - 1 |-> Slice(of[j], j)]
  <1>1. SameTransfer(Kept) /\ 0 .. n - 1 \subseteq DOMAIN seen
    BY DEF Decodes, AllThere, Kept
  <1>2. n \in Nat \ {0} /\ DOMAIN seen = 0 .. n - 1 /\ Cardinality(DOMAIN seen) = n
    BY <1>1, KeptInRange
  <1>3. ASSUME NEW j \in 0 .. n - 1
        PROVE  of[j] \in Like(seen[k]) /\ FrameCount(of[j]) = n /\ seen[j].payload = Slice(of[j], j)
    <2> DEFINE u == of[j]
    <2>1. \E t \in sent : seen[j] \in Frames(t)
      BY <1>2 DEF FramesSent
    <2>2. u = CHOOSE t \in sent : seen[j] \in Frames(t)
      OBVIOUS
    <2> HIDE DEF u
    <2>3. u \in sent /\ seen[j] \in Frames(u)
      BY <2>1, <2>2
    <2>4. u \in Transfer /\ Fits(u)
      BY <2>3 DEF IInv, TypeOK, SentFit
    <2>5. seen[j].index = j
      BY <1>2 DEF IInv, TypeOK
    <2>6. /\ seen[j].payload = Slice(u, j)
          /\ <<U8(GameOf[u]), U8(IdOf[u]), FrameCount(u)>>
               = <<seen[j].gameId, seen[j].transferId, seen[j].total>>
      BY <2>3, <2>4, <2>5, FrameTells
    <2>7. <<seen[j].gameId, seen[j].transferId, seen[j].total>>
            = <<seen[k].gameId, seen[k].transferId, seen[k].total>>
      BY <1>1, <1>2 DEF SameTransfer, Kept
    <2>8. u \in Like(seen[k])
      BY <2>3, <2>6, <2>7 DEF Like
    <2>9. FrameCount(u) = n
      BY <2>6, <2>7
    <2> QED BY <2>6, <2>8, <2>9 DEF u
  <1> HIDE DEF of, n
  <1>4. [j \in DOMAIN seen |-> seen[j].payload] = ps
    BY <1>2, <1>3
  <1>5. Decoded = Joined(ps, n)
    BY <1>2, <1>4 DEF Decoded
  <1>6. of \in [0 .. n - 1 -> Like(seen[k])]
    <2>1. of = [j \in 0 .. n - 1 |-> of[j]]
      BY DEF of
    <2> QED BY <1>3, <2>1
  <1>7. ASSUME NEW t \in sent, Like(seen[k]) = {t} PROVE Decoded = Payload(t)
    <2>1. \A j \in 0 .. n - 1 : of[j] = t
      BY <1>3, <1>7
    <2>2. FrameCount(t) = n
      BY <1>2, <1>3, <2>1
    <2>3. t \in Transfer
      BY DEF IInv, TypeOK
    <2>4. \A j \in 0 .. FrameCount(t) - 1 : ps[j] = Slice(t, j)
      BY <2>1, <2>2
    <2> HIDE DEF ps
    <2> QED BY <1>5, <2>2, <2>3, <2>4, SlicesDecode
  <1> QED BY <1>5, <1>6, <1>7 DEF n

\* What decodes, in spite of loss, repetition and whoever else is in range, is an
\* ack that is all that was kept, or slices, each in its place, of transfers that have
\* the header that was kept; the payload of the one transfer that has it, byte for
\* byte, when there is one only.
THEOREM DecodeExactHolds == Spec => []DecodeExact
PROOF
  <1>1. IInv => DecodeExact
    <2> SUFFICES ASSUME IInv, Decodes
                 PROVE  \/ \E a \in asked : Kept = {a} /\ Decoded = a.payload
                        \/ \E f \in Kept :
                             /\ \E of \in [0 .. f.total - 1 -> Like(f)] :
                                  Decoded = Joined([k \in 0 .. f.total - 1 |-> Slice(of[k], k)], f.total)
                             /\ \A t \in sent : Like(f) = {t} => Decoded = Payload(t)
      BY DEF DecodeExact
    <2>1. CASE \E k \in DOMAIN seen : seen[k] \in asked
      BY <2>1, AckDecodes
    <2>2. CASE \A k \in DOMAIN seen : seen[k] \notin asked
      <3>1. \A j \in DOMAIN seen : seen[j] \in FramesSent
        BY <2>2 DEF IInv, TypeOK, Kept
      <3>2. PICK k \in DOMAIN seen : TRUE
        BY DEF Decodes, Kept
      <3>3. seen[k] \in Kept
        BY DEF Kept
      <3> QED BY <3>1, <3>3, FramesDecode
    <2> QED BY <2>1, <2>2
  <1> QED BY <1>1, Invariance, PTL

================================================================================
