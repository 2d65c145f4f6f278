---------------------------- MODULE VlcChunksProofs ----------------------------
(***************************************************************************)
(* Proofs about VlcChunks for any payloads, any length of a chunk's body, any  *)
(* width of the counter and any number of chunks seen.                        *)
(***************************************************************************)
EXTENDS VlcChunks, FiniteSetTheorems, WellFoundedInduction, TLAPS

\* What is on the screen came through Encode.
ShownOK == shown \subseteq Payload /\ \A p \in shown : Encodable(p)

\* What the camera collected was on the screen, misread or not.
Caught(c) == \E p \in shown : \E k \in 0 .. Total(p) - 1 : c \in {Chunk(p, k), Misread(Chunk(p, k))}

Reading ==
  [index : Nat, total : Nat, body : [1 .. ChunkPayloadLen -> Nat], crc : BOOLEAN]

SeenOK ==
  /\ seen \in Seq(Reading)
  /\ \A i \in DOMAIN seen : Caught(seen[i])

IInv == ShownOK /\ SeenOK /\ DecodedWasShown

(***************************************************************************)
(* Numbers and sequences.                                                    *)
(***************************************************************************)

\* A set of natural numbers that is not empty has a least element.
LEMMA Least ==
  ASSUME NEW S \in SUBSET Nat, S # {}
  PROVE  \E n \in S : \A m \in S : n <= m
PROOF
  <1> DEFINE R == OpToRel(<, Nat)
  <1>1. \E x \in S : \A y \in S : ~(<<y, x>> \in R)
    BY NatLessThanWellFounded, WFMin
  <1>2. \A x, y \in Nat : x < y => <<x, y>> \in R
    BY DEF OpToRel
  <1> HIDE DEF R
  <1>3. PICK x \in S : \A y \in S : ~(<<y, x>> \in R)
    BY <1>1
  <1>4. \A y \in S : ~(y < x)
    BY <1>2, <1>3
  <1> QED BY <1>3, <1>4

\* A set of positions that is not empty has a last element.
LEMMA Last ==
  ASSUME NEW n \in Nat, NEW S \in SUBSET (1 .. n), S # {}
  PROVE  \E i \in S : \A j \in S : j <= i
PROOF
  <1> DEFINE T == {n - i : i \in S}
  <1>1. T \in SUBSET Nat /\ T # {}
    <2>1. ASSUME NEW i \in S PROVE n - i \in Nat
      OBVIOUS
    <2> QED BY <2>1
  <1>2. PICK m \in T : \A x \in T : m <= x
    <2> HIDE DEF T
    <2> QED BY <1>1, Least
  <1>3. PICK i \in S : m = n - i
    BY <1>2
  <1>4. \A j \in S : n - i <= n - j
    BY <1>2, <1>3
  <1> QED BY <1>4

\* Lengths are natural numbers, and a chunk has some.
LEMMA Lengths ==
  /\ ChunkPayloadLen \in Nat /\ ChunkPayloadLen > 0
  /\ MaxChunks \in Nat /\ MaxChunks > 0
  /\ \A n \in Nat : n * ChunkPayloadLen \in Nat
  /\ \A p \in Payload : p \in Seq(Nat) /\ Len(p) \in Nat
  BY VlcAssumption

\* Every payload that is not empty has chunks, and they have room for it.
LEMMA TotalCovers ==
  ASSUME NEW p \in Payload, p # <<>>
  PROVE  Total(p) \in Nat /\ Total(p) >= 1 /\ Total(p) * ChunkPayloadLen >= Len(p)
PROOF
  <1>1. Len(p) \in Nat /\ Len(p) >= 1
    BY Lengths
  <1>2. ASSUME NEW len \in Nat, len >= 1, NEW step \in Nat, step > 0
        PROVE  /\ (len + step - 1) \div step \in Nat
               /\ (len + step - 1) \div step >= 1
               /\ ((len + step - 1) \div step) * step >= len
    <2> DEFINE n == len + step - 1
               q == n \div step
    <2>1. n \in Nat /\ n >= step /\ n = len + (step - 1)
      BY <1>2
    <2> HIDE DEF n
    <2>2. q \in Nat /\ n < q * step + step /\ q >= 1
      BY <1>2, <2>1
    <2>3. q * step \in Nat
      BY <1>2, <2>2
    <2> HIDE DEF q
    <2>4. q * step >= len
      BY <1>2, <2>1, <2>2, <2>3
    <2> QED BY <2>2, <2>4 DEF q, n
  <1> QED BY <1>1, <1>2, Lengths DEF Total

\* Position i of pieces that lie one after the other is in piece (i - 1) \div
\* length.
LEMMA PlaceOf ==
  ASSUME NEW n \in Nat, NEW i \in 1 .. n * ChunkPayloadLen
  PROVE  /\ (i - 1) \div ChunkPayloadLen \in 0 .. n - 1
         /\ ((i - 1) % ChunkPayloadLen) + 1 \in 1 .. ChunkPayloadLen
         /\ ((i - 1) \div ChunkPayloadLen) * ChunkPayloadLen + (((i - 1) % ChunkPayloadLen) + 1) = i
PROOF
  <1> DEFINE L == ChunkPayloadLen
             a == i - 1
             q == a \div L
             r == a % L
  <1>1. L \in Nat /\ L > 0 /\ n * L \in Nat
    BY Lengths
  <1>2. a \in Nat /\ a < n * L /\ a + 1 = i
    BY <1>1
  <1> HIDE DEF a, L
  <1>3. q \in Nat /\ r \in Nat /\ r < L /\ q * L + r = a
    BY <1>1, <1>2
  <1> HIDE DEF q, r
  <1>4. q * L \in Nat
    BY <1>1, <1>3
  <1>5. ASSUME q >= n PROVE FALSE
    <2>1. q * L >= n * L
      BY <1>1, <1>3, <1>5
    <2> QED BY <1>1, <1>2, <1>3, <1>4, <2>1
  <1>6. q \in 0 .. n - 1 /\ r + 1 \in 1 .. L /\ q * L + (r + 1) = i
    BY <1>1, <1>2, <1>3, <1>4, <1>5
  <1> QED BY <1>6 DEF q, r, a, L

\* m is where the zeros at the end of b begin.
EndsAt(b, m) ==
  /\ m \in 0 .. Len(b)
  /\ m = 0 \/ b[m] # 0
  /\ \A i \in m + 1 .. Len(b) : b[i] = 0

\* Every sequence ends somewhere.
LEMMA EndExists ==
  ASSUME NEW b \in Seq(Nat)
  PROVE  \E m \in 0 .. Len(b) : EndsAt(b, m)
PROOF
  <1> DEFINE Ends == {m \in 0 .. Len(b) : \A i \in m + 1 .. Len(b) : b[i] = 0}
  <1>1. Len(b) \in Nat
    OBVIOUS
  <1>2. Ends \in SUBSET Nat /\ Len(b) \in Ends
    BY <1>1
  <1>3. \E m \in Ends : \A x \in Ends : m <= x
    <2> HIDE DEF Ends
    <2> QED BY <1>2, Least
  <1>4. PICK m \in Ends : \A x \in Ends : m <= x
    BY <1>3
  <1>5. ASSUME m # 0, b[m] = 0 PROVE FALSE
    <2>1. m - 1 \in 0 .. Len(b)
      BY <1>1, <1>5
    <2>2. \A i \in (m - 1) + 1 .. Len(b) : i = m \/ i \in m + 1 .. Len(b)
      BY <1>1
    <2>3. m - 1 \in Ends
      BY <1>4, <1>5, <2>1, <2>2
    <2>4. m \in Nat
      BY <1>1, <1>4
    <2> HIDE DEF Ends
    <2>5. m <= m - 1
      BY <1>4, <2>3
    <2> QED BY <2>4, <2>5
  <1> QED BY <1>4, <1>5 DEF EndsAt

\* n - m positions come after the first m of n.
LEMMA CountAfter ==
  ASSUME NEW n \in Nat, NEW m \in Nat, m <= n
  PROVE  Cardinality(m + 1 .. n) = n - m
PROOF
  <1> DEFINE a == m + 1
  <1>1. a \in Int /\ n \in Int
    OBVIOUS
  <1> HIDE DEF a
  <1>2. Cardinality(a .. n) = IF a > n THEN 0 ELSE n - a + 1
    BY <1>1, FS_Interval
  <1> QED BY <1>2 DEF a

\* TrimPad and Stripped both cut there.
LEMMA CutAtEnd ==
  ASSUME NEW b \in Seq(Nat), NEW m \in 0 .. Len(b), EndsAt(b, m)
  PROVE  TrimPad(b) = SubSeq(b, 1, m) /\ Stripped(b) = SubSeq(b, 1, m)
PROOF
  <1>1. Len(b) \in Nat /\ m \in Nat /\ m <= Len(b)
    OBVIOUS
  <1>2. TrimPad(b) = SubSeq(b, 1, m)
    <2> DEFINE kept == {i \in 1 .. Len(b) : \A j \in i .. Len(b) : b[j] = 0}
    <2>1. kept = m + 1 .. Len(b)
      <3>1. ASSUME NEW i \in kept PROVE i \in m + 1 .. Len(b)
        BY <1>1, <3>1 DEF EndsAt
      <3>2. ASSUME NEW i \in m + 1 .. Len(b) PROVE i \in kept
        BY <1>1, <3>2 DEF EndsAt
      <3> QED BY <3>1, <3>2
    <2>2. Cardinality(m + 1 .. Len(b)) = Len(b) - m
      BY <1>1, CountAfter
    <2> HIDE DEF kept
    <2>3. Len(b) - Cardinality(kept) = m
      BY <1>1, <2>1, <2>2
    <2> USE DEF kept
    <2> QED BY <2>3 DEF TrimPad
  <1>3. Stripped(b) = SubSeq(b, 1, m)
    <2> DEFINE e == CHOOSE n \in 0 .. Len(b) :
                      /\ n = 0 \/ b[n] # 0
                      /\ \A i \in n + 1 .. Len(b) : b[i] = 0
    <2>1. e \in 0 .. Len(b) /\ (e = 0 \/ b[e] # 0) /\ \A i \in e + 1 .. Len(b) : b[i] = 0
      BY DEF EndsAt
    <2>2. Stripped(b) = SubSeq(b, 1, e)
      BY DEF Stripped
    <2> HIDE DEF e
    <2>3. e = m
      BY <1>1, <2>1 DEF EndsAt
    <2> QED BY <2>2, <2>3
  <1> QED BY <1>2, <1>3

(***************************************************************************)
(* Chunks.                                                                   *)
(***************************************************************************)

\* Pieces 0 .. n - 1 of bodies of the right length.
Pieces(n) == [0 .. n - 1 -> [1 .. ChunkPayloadLen -> Nat]]

\* A piece is as long as a chunk's body.
LEMMA PieceType ==
  ASSUME NEW p \in Payload, NEW k \in Nat
  PROVE  Piece(p, k) \in [1 .. ChunkPayloadLen -> Nat]
PROOF
  <1>1. p \in Seq(Nat) /\ Len(p) \in Nat /\ k * ChunkPayloadLen \in Nat /\ ChunkPayloadLen \in Nat
    BY Lengths
  <1>2. ASSUME NEW j \in 1 .. ChunkPayloadLen
        PROVE  (IF k * ChunkPayloadLen + j <= Len(p) THEN p[k * ChunkPayloadLen + j] ELSE 0) \in Nat
    <2>1. k * ChunkPayloadLen + j \in Nat /\ k * ChunkPayloadLen + j >= 1
      BY <1>1
    <2> QED BY <1>1, <2>1
  <1> QED BY <1>2 DEF Piece

\* A chunk tells its index, and the number of chunks unless the counter has come
\* round; one that was misread is known by its CRC.
LEMMA ChunkTells ==
  ASSUME NEW p \in Payload, Encodable(p), NEW k \in 0 .. Total(p) - 1
  PROVE  /\ Total(p) \in 1 .. MaxChunks
         /\ Chunk(p, k).index = k
         /\ Chunk(p, k).total = IF Total(p) = MaxChunks THEN 0 ELSE Total(p)
         /\ Chunk(p, k).body = Piece(p, k)
         /\ Chunk(p, k).crc = TRUE /\ Misread(Chunk(p, k)).crc = FALSE
PROOF
  <1>1. Total(p) \in Nat /\ Total(p) >= 1 /\ Total(p) <= MaxChunks
    BY TotalCovers DEF Encodable
  <1>2. MaxChunks \in Nat /\ MaxChunks > 0
    BY Lengths
  <1>3. Uint16(k) = k
    BY <1>1, <1>2 DEF Uint16
  <1>4. Uint16(Total(p)) = IF Total(p) = MaxChunks THEN 0 ELSE Total(p)
    BY <1>1, <1>2 DEF Uint16
  <1> QED BY <1>1, <1>2, <1>3, <1>4 DEF Chunk, Misread

\* The chunks that decode are of payloads that say the same number, and each is a
\* piece in its place.
LEMMA ConsistentTells ==
  ASSUME ShownOK, SeenOK, Consistent(seen)
  PROVE  /\ 1 \in DOMAIN seen
         /\ seen[1].total \in 1 .. MaxChunks - 1
         /\ \A i \in DOMAIN seen :
              /\ seen[i].index \in 0 .. seen[1].total - 1
              /\ \E p \in shown : /\ Total(p) = seen[1].total
                                 /\ seen[i].body = Piece(p, seen[i].index)
PROOF
  <1>1. seen # <<>> /\ \A i \in DOMAIN seen : /\ seen[i].crc
                                              /\ seen[i].total = seen[1].total
                                              /\ seen[i].index < seen[i].total
    BY DEF Consistent
  <1>2. 1 \in DOMAIN seen
    <2>1. seen \in Seq(Reading)
      BY DEF SeenOK
    <2> HIDE DEF Consistent
    <2>2. ASSUME NEW S, NEW s \in Seq(S), s # <<>> PROVE 1 \in DOMAIN s
      BY <2>2
    <2> QED BY <1>1, <2>1, <2>2
  <1>3. ASSUME NEW i \in DOMAIN seen
        PROVE  /\ seen[1].total \in 1 .. MaxChunks - 1
               /\ seen[i].index \in 0 .. seen[1].total - 1
               /\ \E p \in shown : /\ Total(p) = seen[1].total
                                  /\ seen[i].body = Piece(p, seen[i].index)
    <2>1. PICK p \in shown : \E k \in 0 .. Total(p) - 1 :
            seen[i] \in {Chunk(p, k), Misread(Chunk(p, k))}
      BY DEF SeenOK, Caught
    <2>2. PICK k \in 0 .. Total(p) - 1 : seen[i] \in {Chunk(p, k), Misread(Chunk(p, k))}
      BY <2>1
    <2>3. p \in Payload /\ Encodable(p)
      BY DEF ShownOK
    <2>4. seen[i] = Chunk(p, k)
      BY <1>1, <2>2, <2>3, ChunkTells
    <2>5. /\ Total(p) \in 1 .. MaxChunks
          /\ seen[i].index = k /\ seen[i].body = Piece(p, k)
          /\ seen[i].total = IF Total(p) = MaxChunks THEN 0 ELSE Total(p)
      <3>1. /\ Total(p) \in 1 .. MaxChunks
            /\ Chunk(p, k).index = k /\ Chunk(p, k).body = Piece(p, k)
            /\ Chunk(p, k).total = IF Total(p) = MaxChunks THEN 0 ELSE Total(p)
        BY <2>3, ChunkTells
      <3> QED BY ONLY <2>4, <3>1
    <2>6. /\ seen[i].total = seen[1].total /\ k < seen[1].total
      BY <1>1, <2>5
    <2>7. Total(p) # MaxChunks
      BY <2>2, <2>5, <2>6
    <2>8. seen[1].total = Total(p) /\ Total(p) \in 1 .. MaxChunks - 1
      BY <2>5, <2>6, <2>7, Lengths
    <2> QED BY <2>5, <2>8
  <1> QED BY <1>2, <1>3

\* What is kept for an index is the body of some chunk with it.
LEMMA IndexedTells ==
  ASSUME SeenOK
  PROVE  /\ DOMAIN Indexed(seen) = {seen[i].index : i \in DOMAIN seen}
         /\ Indexed(seen) = [k \in DOMAIN Indexed(seen) |-> Indexed(seen)[k]]
         /\ \A k \in DOMAIN Indexed(seen) :
              \E i \in DOMAIN seen : seen[i].index = k /\ Indexed(seen)[k] = seen[i].body
PROOF
  <1> DEFINE Of(k) == {i \in DOMAIN seen : seen[i].index = k}
             last(k) == CHOOSE i \in Of(k) : \A j \in Of(k) : j <= i
  <1>1. Indexed(seen) = [k \in {seen[i].index : i \in DOMAIN seen} |-> seen[last(k)].body]
    BY DEF Indexed
  <1>2. ASSUME NEW k \in {seen[i].index : i \in DOMAIN seen}
        PROVE  last(k) \in Of(k)
    <2>1. Of(k) \in SUBSET (1 .. Len(seen)) /\ Of(k) # {} /\ Len(seen) \in Nat
      BY DEF SeenOK
    <2>2. \E i \in Of(k) : \A j \in Of(k) : j <= i
      <3> HIDE DEF Of
      <3> QED BY <2>1, Last
    <2> QED BY <2>2
  <1> HIDE DEF last
  <1> QED BY <1>1, <1>2

\* Bodies that are joined are a sequence of bytes.
LEMMA JoinedType ==
  ASSUME NEW n \in Nat, NEW piece \in Pieces(n)
  PROVE  Joined(piece, n) \in Seq(Nat) /\ Len(Joined(piece, n)) = n * ChunkPayloadLen
PROOF
  <1>1. n * ChunkPayloadLen \in Nat
    BY Lengths
  <1>2. ASSUME NEW i \in 1 .. n * ChunkPayloadLen
        PROVE  piece[(i - 1) \div ChunkPayloadLen][((i - 1) % ChunkPayloadLen) + 1] \in Nat
    BY PlaceOf DEF Pieces
  <1> DEFINE m == n * ChunkPayloadLen
  <1>3. Joined(piece, n) \in [1 .. m -> Nat]
    BY <1>2 DEF Joined
  <1> HIDE DEF m
  <1>4. m \in Nat
    BY <1>1 DEF m
  <1>5. ASSUME NEW f \in [1 .. m -> Nat] PROVE f \in Seq(Nat) /\ Len(f) = m
    BY <1>4
  <1> QED BY <1>3, <1>5 DEF m

\* A chunk is what a camera may read, misread or not.
LEMMA ChunkType ==
  ASSUME NEW p \in Payload, Encodable(p), NEW k \in 0 .. Total(p) - 1
  PROVE  Chunk(p, k) \in Reading /\ Misread(Chunk(p, k)) \in Reading
PROOF
  <1>1. k \in Nat /\ Total(p) \in Nat /\ Piece(p, k) \in [1 .. ChunkPayloadLen -> Nat]
    <2>1. Total(p) \in 1 .. MaxChunks /\ MaxChunks \in Nat
      BY ChunkTells, Lengths
    <2>2. k \in Nat /\ Total(p) \in Nat
      BY <2>1
    <2> QED BY <2>2, PieceType
  <1>2. ASSUME NEW n \in Nat PROVE Uint16(n) \in Nat
    <2>1. MaxChunks \in Nat /\ MaxChunks > 0
      BY Lengths
    <2> QED BY <2>1 DEF Uint16
  <1>3. Uint16(k) \in Nat /\ Uint16(Total(p)) \in Nat
    BY <1>1, <1>2
  <1>4. Chunk(p, k) \in Reading
    BY <1>1, <1>3 DEF Chunk, Reading
  <1>5. ASSUME NEW c \in Reading PROVE Misread(c) \in Reading
    BY DEF Misread, Reading
  <1> QED BY <1>4, <1>5

(***************************************************************************)
(* What Decode returns.                                                      *)
(***************************************************************************)

\* d is joined from pieces, each in its place, of payloads that were shown.
WasShown(d) ==
  \E n \in 1 .. MaxChunks - 1 :
    LET candidates == {p \in shown : Total(p) = n}
    IN  \E of \in [0 .. n - 1 -> candidates] :
          d = Stripped(Joined([k \in 0 .. n - 1 |-> Piece(of[k], k)], n))

\* A body of the right form is trimmed to where it ends.
LEMMA TrimStrips ==
  ASSUME NEW b \in Seq(Nat)
  PROVE  TrimPad(b) = Stripped(b)
  BY EndExists, CutAtEnd

\* What decodes is joined from as many pieces as every chunk says there are.
LEMMA DecodeShown ==
  ASSUME ShownOK, SeenOK, Decode(seen) # Error
  PROVE  WasShown(Decode(seen))
PROOF
  <1> DEFINE indexed == Indexed(seen)
             n == seen[1].total
             candidates == {p \in shown : Total(p) = n}
  <1>1. /\ Consistent(seen) /\ Cardinality(DOMAIN indexed) >= n
        /\ Decode(seen) = TrimPad(Joined(indexed, n))
    BY DEF Decode
  <1>2. /\ n \in 1 .. MaxChunks - 1
        /\ \A i \in DOMAIN seen :
             /\ seen[i].index \in 0 .. n - 1
             /\ \E p \in candidates : seen[i].body = Piece(p, seen[i].index)
    BY <1>1, ConsistentTells
  <1>3. n \in Nat
    BY <1>2, Lengths
  <1>4. /\ DOMAIN indexed \subseteq 0 .. n - 1
        /\ \A k \in DOMAIN indexed : \E p \in candidates : indexed[k] = Piece(p, k)
        /\ indexed = [k \in DOMAIN indexed |-> indexed[k]]
    <2> HIDE DEF indexed, candidates, n
    <2>1. /\ DOMAIN indexed = {seen[i].index : i \in DOMAIN seen}
          /\ indexed = [k \in DOMAIN indexed |-> indexed[k]]
          /\ \A k \in DOMAIN indexed :
               \E i \in DOMAIN seen : seen[i].index = k /\ indexed[k] = seen[i].body
      BY IndexedTells DEF indexed
    <2> QED BY <1>2, <2>1
  <1>5. DOMAIN indexed = 0 .. n - 1
    <2> HIDE DEF indexed, n
    <2>1. IsFiniteSet(0 .. n - 1) /\ Cardinality(0 .. n - 1) = n
      BY <1>3, FS_Interval
    <2>2. Cardinality(DOMAIN indexed) <= n
      BY <1>4, <2>1, FS_Subset
    <2>3. Cardinality(DOMAIN indexed) \in Nat
      BY <1>4, <2>1, FS_Subset, FS_CardinalityType
    <2>4. Cardinality(DOMAIN indexed) = n
      BY <1>1, <1>3, <2>2, <2>3
    <2> QED BY <1>4, <2>1, <2>4, FS_Subset
  <1> DEFINE of == [k \in 0 .. n - 1 |-> CHOOSE p \in candidates : indexed[k] = Piece(p, k)]
  <1>6. /\ of \in [0 .. n - 1 -> candidates]
        /\ \A k \in 0 .. n - 1 : indexed[k] = Piece(of[k], k)
    <2> HIDE DEF indexed, n, candidates
    <2>1. ASSUME NEW k \in 0 .. n - 1
          PROVE  /\ (CHOOSE p \in candidates : indexed[k] = Piece(p, k)) \in candidates
                 /\ indexed[k] = Piece(CHOOSE p \in candidates : indexed[k] = Piece(p, k), k)
      BY <1>4, <1>5
    <2> QED BY <2>1
  <1> HIDE DEF of
  <1>7. indexed = [k \in 0 .. n - 1 |-> Piece(of[k], k)]
    <2> HIDE DEF indexed, n, candidates
    <2> QED BY <1>4, <1>5, <1>6
  <1>8. indexed \in Pieces(n)
    <2>1. candidates \subseteq Payload
      BY DEF ShownOK
    <2> HIDE DEF indexed, n, candidates
    <2>2. ASSUME NEW k \in 0 .. n - 1 PROVE Piece(of[k], k) \in [1 .. ChunkPayloadLen -> Nat]
      BY <1>3, <1>6, <2>1, PieceType
    <2> QED BY <1>7, <2>2 DEF Pieces
  <1>9. Decode(seen) = Stripped(Joined(indexed, n))
    <2> HIDE DEF indexed, n
    <2> QED BY <1>1, <1>3, <1>8, JoinedType, TrimStrips
  <1>10. Decode(seen) = Stripped(Joined([k \in 0 .. n - 1 |-> Piece(of[k], k)], n))
    <2> HIDE DEF indexed, n
    <2> QED BY <1>7, <1>9
  <1> HIDE DEF n
  <1> QED BY <1>2, <1>6, <1>10 DEF WasShown

\* The pieces of a payload, joined, are the payload and zeros.
LEMMA JoinedPieces ==
  ASSUME NEW p \in Payload, NEW n \in Nat, NEW i \in 1 .. n * ChunkPayloadLen
  PROVE  Joined([k \in 0 .. n - 1 |-> Piece(p, k)], n)[i] = IF i <= Len(p) THEN p[i] ELSE 0
PROOF
  <1> DEFINE q == (i - 1) \div ChunkPayloadLen
             j == ((i - 1) % ChunkPayloadLen) + 1
  <1>1. /\ q \in 0 .. n - 1
        /\ j \in 1 .. ChunkPayloadLen
        /\ q * ChunkPayloadLen + j = i
    BY PlaceOf
  <1>2. Joined([k \in 0 .. n - 1 |-> Piece(p, k)], n)[i] = [k \in 0 .. n - 1 |-> Piece(p, k)][q][j]
    BY DEF Joined
  <1> HIDE DEF q, j
  <1>3. Joined([k \in 0 .. n - 1 |-> Piece(p, k)], n)[i] = Piece(p, q)[j]
    BY <1>1, <1>2
  <1> QED BY <1>1, <1>3 DEF Piece

\* Zeros behind a payload do not count.
LEMMA ZerosStripped ==
  ASSUME NEW p \in Seq(Nat), NEW b \in Seq(Nat), Len(p) <= Len(b),
         \A i \in 1 .. Len(b) : b[i] = IF i <= Len(p) THEN p[i] ELSE 0
  PROVE  Stripped(b) = Stripped(p)
PROOF
  <1>1. Len(p) \in Nat /\ Len(b) \in Nat
    OBVIOUS
  <1>2. PICK m \in 0 .. Len(p) : EndsAt(p, m)
    BY EndExists
  <1>3. m \in Nat /\ m <= Len(p) /\ m \in 0 .. Len(b)
    BY <1>1, <1>2
  <1>4. EndsAt(b, m)
    <2>1. m = 0 \/ b[m] # 0
      BY <1>1, <1>2, <1>3 DEF EndsAt
    <2>2. \A i \in m + 1 .. Len(b) : b[i] = 0
      BY <1>1, <1>2, <1>3 DEF EndsAt
    <2> QED BY <1>3, <2>1, <2>2 DEF EndsAt
  <1>5. SubSeq(b, 1, m) = SubSeq(p, 1, m)
    <2>1. \A i \in 1 .. m : b[i] = p[i]
      BY <1>1, <1>3
    <2>2. ASSUME NEW s \in Seq(Nat), NEW r \in Seq(Nat), m <= Len(s), m <= Len(r),
                 \A i \in 1 .. m : s[i] = r[i]
          PROVE  SubSeq(s, 1, m) = SubSeq(r, 1, m)
      BY <1>3, <2>2
    <2> QED BY <1>1, <1>3, <2>1, <2>2
  <1> QED BY <1>2, <1>3, <1>4, <1>5, CutAtEnd

\* When every chunk of one payload was collected, and nothing else, that payload
\* is what decodes, whatever the order and however often.
LEMMA DecodeAll ==
  ASSUME ShownOK, SeenOK, NEW p \in shown, AllSeen(p), Total(p) < MaxChunks
  PROVE  Decode(seen) = Stripped(p)
PROOF
  <1> DEFINE n == Total(p)
             indexed == Indexed(seen)
             b == Joined(indexed, n)
  <1>1. p \in Payload /\ Encodable(p) /\ p # <<>>
    BY DEF ShownOK, Encodable
  <1>2. n \in Nat /\ n >= 1 /\ n * ChunkPayloadLen >= Len(p)
    BY <1>1, TotalCovers
  <1>3. ASSUME NEW k \in 0 .. n - 1
        PROVE  /\ Chunk(p, k).index = k /\ Chunk(p, k).total = n
               /\ Chunk(p, k).body = Piece(p, k) /\ Chunk(p, k).crc = TRUE
    <2>1. /\ Chunk(p, k).index = k
          /\ Chunk(p, k).total = IF n = MaxChunks THEN 0 ELSE n
          /\ Chunk(p, k).body = Piece(p, k) /\ Chunk(p, k).crc = TRUE
      BY <1>1, ChunkTells
    <2>2. n # MaxChunks
      BY <1>2, Lengths
    <2> QED BY ONLY <2>1, <2>2
  <1>4. \A i \in DOMAIN seen : \E k \in 0 .. n - 1 : seen[i] = Chunk(p, k)
    BY DEF AllSeen, Chunks
  <1>5. \A k \in 0 .. n - 1 : \E i \in DOMAIN seen : seen[i] = Chunk(p, k)
    BY DEF AllSeen, Chunks
  <1> HIDE DEF n
  <1>6. \A i \in DOMAIN seen :
          /\ seen[i].index \in 0 .. n - 1 /\ seen[i].total = n
          /\ seen[i].body = Piece(p, seen[i].index) /\ seen[i].crc = TRUE
    <2> TAKE i \in DOMAIN seen
    <2>1. PICK k \in 0 .. n - 1 : seen[i] = Chunk(p, k)
      BY <1>4
    <2>2. /\ Chunk(p, k).index = k /\ Chunk(p, k).total = n
          /\ Chunk(p, k).body = Piece(p, k) /\ Chunk(p, k).crc = TRUE
      BY <1>3
    <2> QED BY ONLY <2>1, <2>2
  <1>7. 0 \in 0 .. n - 1
    BY <1>2
  <1>8. 1 \in DOMAIN seen /\ seen # <<>>
    <2>1. PICK i \in DOMAIN seen : seen[i] = Chunk(p, 0)
      BY <1>5, <1>7
    <2>2. seen \in Seq(Reading)
      BY DEF SeenOK
    <2>3. ASSUME NEW S, NEW s \in Seq(S), NEW x \in DOMAIN s
          PROVE  1 \in DOMAIN s /\ s # <<>>
      OBVIOUS
    <2> QED BY <2>1, <2>2, <2>3
  <1>9. seen[1].total = n /\ Consistent(seen)
    <2>1. \A i \in DOMAIN seen : seen[i].index < n
      BY <1>2, <1>6
    <2> QED BY <1>6, <1>8, <2>1 DEF Consistent
  <1>10. /\ DOMAIN indexed = 0 .. n - 1
         /\ indexed = [k \in 0 .. n - 1 |-> Piece(p, k)]
    <2> HIDE DEF indexed
    <2>1. /\ DOMAIN indexed = {seen[i].index : i \in DOMAIN seen}
          /\ indexed = [k \in DOMAIN indexed |-> indexed[k]]
          /\ \A k \in DOMAIN indexed :
               \E i \in DOMAIN seen : seen[i].index = k /\ indexed[k] = seen[i].body
      BY IndexedTells DEF indexed
    <2>2. DOMAIN indexed \subseteq 0 .. n - 1
      BY <1>6, <2>1
    <2>3. ASSUME NEW k \in 0 .. n - 1 PROVE k \in DOMAIN indexed
      <3>1. PICK i \in DOMAIN seen : seen[i] = Chunk(p, k)
        BY <1>5
      <3>2. seen[i].index = k
        BY <1>3, <3>1
      <3> QED BY <2>1, <3>2
    <2>4. DOMAIN indexed = 0 .. n - 1
      BY <2>2, <2>3
    <2>5. \A k \in 0 .. n - 1 : indexed[k] = Piece(p, k)
      BY <1>6, <2>1, <2>4
    <2> QED BY <2>1, <2>4, <2>5
  <1>11. Cardinality(DOMAIN indexed) >= n
    BY <1>2, <1>10, FS_Interval
  <1>12. Decode(seen) = TrimPad(b)
    BY <1>9, <1>11 DEF Decode
  <1>13. indexed \in Pieces(n)
    <2> HIDE DEF indexed
    <2>1. \A k \in 0 .. n - 1 : Piece(p, k) \in [1 .. ChunkPayloadLen -> Nat]
      BY <1>1, <1>2, PieceType
    <2> QED BY <1>10, <2>1 DEF Pieces
  <1>14. b \in Seq(Nat) /\ Len(b) = n * ChunkPayloadLen
    <2> HIDE DEF indexed
    <2> QED BY <1>2, <1>13, JoinedType
  <1>15. \A i \in 1 .. n * ChunkPayloadLen : b[i] = IF i <= Len(p) THEN p[i] ELSE 0
    BY <1>1, <1>2, <1>10, JoinedPieces
  <1> HIDE DEF b, indexed
  <1>16. Stripped(b) = Stripped(p)
    <2>1. Len(p) \in Nat /\ p \in Seq(Nat) /\ n * ChunkPayloadLen \in Nat
      BY <1>1, <1>2, Lengths
    <2> QED BY <1>2, <1>14, <1>15, <2>1, ZerosStripped
  <1> QED BY <1>12, <1>14, <1>16, TrimStrips

(***************************************************************************)
(* The invariant.                                                            *)
(***************************************************************************)

\* What was shown stays shown.
LEMMA ShownGrows ==
  ASSUME NEW d, WasShown(d), shown \subseteq shown'
  PROVE  WasShown(d)'
  BY DEF WasShown

\* Nothing was shown, seen or decoded.
LEMMA InitInv == Init => IInv
  BY DEF Init, IInv, ShownOK, SeenOK, DecodedWasShown

\* Encode adds a payload it accepts.
LEMMA EncodeInv ==
  ASSUME IInv, NEW p \in Payload, ApplyEncode(p)
  PROVE  IInv'
PROOF
  <1>1. Encodable(p) /\ shown' = shown \cup {p} /\ seen' = seen /\ decoded' = decoded
    BY DEF ApplyEncode
  <1>2. ShownOK'
    BY <1>1 DEF IInv, ShownOK
  <1>3. SeenOK'
    BY <1>1 DEF IInv, SeenOK, Caught
  <1>4. DecodedWasShown'
    <2> SUFFICES ASSUME decoded' # Error PROVE WasShown(decoded)'
      BY DEF DecodedWasShown, WasShown
    <2>1. WasShown(decoded)
      BY <1>1 DEF IInv, DecodedWasShown, WasShown
    <2> QED BY <1>1, <2>1, ShownGrows DEF WasShown
  <1> QED BY <1>2, <1>3, <1>4 DEF IInv

\* The camera adds what is on the screen, as it is or misread.
LEMMA CaptureInv ==
  ASSUME IInv, NEW c \in OnScreen, Capture(c) \/ Capture(Misread(c))
  PROVE  IInv'
PROOF
  <1>1. PICK d \in {c, Misread(c)} : seen' = Append(seen, d)
    BY DEF Capture
  <1>2. shown' = shown /\ decoded' = decoded
    BY DEF Capture
  <1>3. PICK p \in shown : \E k \in 0 .. Total(p) - 1 : c = Chunk(p, k)
    BY DEF OnScreen, Chunks
  <1>4. p \in Payload /\ Encodable(p)
    BY DEF IInv, ShownOK
  <1>5. d \in Reading /\ Caught(d)
    BY <1>1, <1>3, <1>4, ChunkType DEF Caught
  <1>6. seen' \in Seq(Reading) /\ \A i \in DOMAIN seen' : Caught(seen'[i])
    <2>1. seen \in Seq(Reading)
      BY DEF IInv, SeenOK
    <2>2. ASSUME NEW i \in DOMAIN Append(seen, d)
          PROVE  Append(seen, d)[i] = d \/ (i \in DOMAIN seen /\ Append(seen, d)[i] = seen[i])
      BY <1>5, <2>1
    <2> QED BY <1>1, <1>5, <2>1, <2>2 DEF IInv, SeenOK
  <1>7. SeenOK'
    BY <1>2, <1>6 DEF SeenOK, Caught
  <1>8. ShownOK' /\ DecodedWasShown'
    BY <1>2 DEF IInv, ShownOK, DecodedWasShown
  <1> QED BY <1>7, <1>8 DEF IInv

\* The invariant holds in every reachable state.
LEMMA Invariance == Spec => []IInv
PROOF
  <1>1. IInv /\ [Next]_vars => IInv'
    <2> SUFFICES ASSUME IInv, [Next]_vars PROVE IInv'
      OBVIOUS
    <2>1. ASSUME NEW p \in Payload, ApplyEncode(p) PROVE IInv'
      BY <2>1, EncodeInv
    <2>2. ASSUME NEW c \in OnScreen, Capture(c) \/ Capture(Misread(c)) PROVE IInv'
      BY <2>2, CaptureInv
    <2>3. ASSUME ApplyDecode PROVE IInv'
      <3>1. ShownOK' /\ SeenOK'
        BY <2>3 DEF ApplyDecode, IInv, ShownOK, SeenOK, Caught
      <3>2. DecodedWasShown'
        <4>1. decoded' = Decode(seen) /\ shown' = shown
          BY <2>3 DEF ApplyDecode
        <4> SUFFICES ASSUME Decode(seen) # Error PROVE DecodedWasShown'
          BY <4>1 DEF DecodedWasShown
        <4>2. WasShown(Decode(seen))
          BY DecodeShown DEF IInv
        <4> QED BY <4>1, <4>2 DEF DecodedWasShown, WasShown
      <3> QED BY <3>1, <3>2 DEF IInv
    <2>4. ASSUME Restart PROVE IInv'
      BY <2>4 DEF Restart, IInv, ShownOK, SeenOK, DecodedWasShown
    <2>5. ASSUME UNCHANGED vars PROVE IInv'
      BY <2>5 DEF vars, IInv, ShownOK, SeenOK, Caught, DecodedWasShown
    <2> QED BY <2>1, <2>2, <2>3, <2>4, <2>5 DEF Next
  <1> QED BY <1>1, InitInv, PTL DEF Spec

\* A collection of all the chunks of one payload decodes to it, and whatever
\* decodes was shown piece by piece, unless the number of chunks came round.
THEOREM DecodeExactHolds == Spec => []DecodeExact
PROOF
  <1>1. IInv => DecodeExact
    BY DecodeAll DEF IInv, DecodeExact
  <1> QED BY <1>1, Invariance, PTL

================================================================================
