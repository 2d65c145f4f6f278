-------------------------- MODULE ReassemblerProofs --------------------------
(***************************************************************************)
(* Proofs about Reassembler for any transfers with ids of their own, payloads *)
(* and frame sizes of any length.                                            *)
(***************************************************************************)
EXTENDS Reassembler, FiniteSetTheorems, WellFoundedInduction, TLAPS

IdsDistinct == \A t, u \in Transfer : IdOf[t] = IdOf[u] => t = u

\* What is collected are slices of the one payload whose id was latched, each
\* in its own place.
PartsExact ==
  id # None =>
    \E t \in Transfer :
      /\ id = IdOf[t] /\ total = Total(t)
      /\ DOMAIN parts \subseteq 0 .. Total(t) - 1
      /\ \A k \in DOMAIN parts : parts[k] = Slice(t, k)

NothingYet == id = None => total = 0 /\ DOMAIN parts = {}

IInv == PartsExact /\ NothingYet

\* chunk() makes at least one frame of any payload.
LEMMA TotalPositive ==
  ASSUME NEW t \in Transfer
  PROVE  Total(t) \in Nat /\ Total(t) >= 1
PROOF
  <1>1. /\ LenOf[t] \in Nat
        /\ Step(t) \in Nat /\ Step(t) >= 1
    BY TransferAssumption DEF Step
  <1>2. ASSUME NEW len \in Nat, NEW step \in Nat, step >= 1
        PROVE  FrameCount(len, step) \in Nat /\ FrameCount(len, step) >= 1
    <2>1. CASE len = 0
      BY <2>1 DEF FrameCount
    <2>2. CASE len # 0
      <3>1. len + step - 1 \in Nat /\ len + step - 1 >= step
        BY <1>2, <2>2
      <3>2. ASSUME NEW n \in Nat, n >= step PROVE n \div step \in Nat /\ n \div step >= 1
        BY <1>2, <3>2
      <3> QED BY <2>2, <3>1, <3>2 DEF FrameCount
    <2> QED BY <2>1, <2>2
  <1> QED BY <1>1, <1>2 DEF Total

\* A frame that passes the CRC check carries a slice of its transfer under the
\* slice's index.
LEMMA WireFrame ==
  ASSUME NEW f \in Wire
  PROVE  \E t \in Transfer : \E k \in 0 .. Total(t) - 1 :
           /\ f.id = IdOf[t] /\ f.total = Total(t) /\ f.index = k
           /\ Intact(f) => f.bytes = Slice(t, k)
PROOF
  <1>1. PICK t \in Transfer : f \in Frames(t) \cup {Garbled(g) : g \in Frames(t)}
    BY DEF Wire
  <1>2. PICK k \in 0 .. Total(t) - 1 : f = Frame(t, k) \/ f = Garbled(Frame(t, k))
    BY <1>1 DEF Frames
  <1>3. CASE f = Frame(t, k)
    BY <1>3 DEF Frame
  <1>4. CASE f = Garbled(Frame(t, k))
    <2>1. /\ f.id = IdOf[t] /\ f.total = Total(t) /\ f.index = k
          /\ f.crc = Crc(Slice(t, k))
      BY <1>4 DEF Garbled, Frame
    <2>2. Intact(f) => f.bytes = Slice(t, k)
      BY <2>1 DEF Intact, Crc
    <2> QED BY <2>1, <2>2
  <1> QED BY <1>2, <1>3, <1>4

\* An empty collector.
LEMMA InitInv == Init => IInv
  BY DEF Init, IInv, PartsExact, NothingYet

\* The map's entries are the old ones and the one just set.
LEMMA PutEntries ==
  ASSUME NEW ps, NEW f
  PROVE  /\ DOMAIN Put(ps, f) = DOMAIN ps \cup {f.index}
         /\ Put(ps, f)[f.index] = f.bytes
         /\ \A k \in DOMAIN ps : k # f.index => Put(ps, f)[k] = ps[k]
  BY DEF Put

\* add() keeps the collection exact: with ids of their own, the frames of other
\* transfers are told apart, and the CRC stops what was garbled.
LEMMA AddInv ==
  ASSUME IdsDistinct, IInv, NEW f \in Wire, Add(f)
  PROVE  IInv'
PROOF
  <1>0. PICK t \in Transfer : \E k \in 0 .. Total(t) - 1 :
          /\ f.id = IdOf[t] /\ f.total = Total(t) /\ f.index = k
          /\ Intact(f) => f.bytes = Slice(t, k)
    BY WireFrame
  <1>1. PICK k \in 0 .. Total(t) - 1 :
          /\ f.id = IdOf[t] /\ f.total = Total(t) /\ f.index = k
          /\ Intact(f) => f.bytes = Slice(t, k)
    BY <1>0
  <1>2. id' # None
    BY <1>1, TransferAssumption DEF Add
  <1>3. PICK u \in Transfer :
          /\ id' = IdOf[u] /\ total' = Total(u)
          /\ DOMAIN parts \subseteq 0 .. Total(u) - 1
          /\ \A j \in DOMAIN parts : parts[j] = Slice(u, j)
    <2>1. CASE id = None
      BY <1>1, <2>1 DEF Add, IInv, NothingYet
    <2>2. CASE id # None
      BY <2>2 DEF Add, IInv, PartsExact
    <2> QED BY <2>1, <2>2
  <1>4. CASE ThisTransfer(f) /\ Intact(f)
    <2>1. t = u
      BY <1>1, <1>3, <1>4 DEF Add, ThisTransfer, IdsDistinct
    <2>2. parts' = Put(parts, f)
      BY <1>4 DEF Add
    <2>3. /\ DOMAIN parts' = DOMAIN parts \cup {k}
          /\ parts'[k] = Slice(u, k)
          /\ \A j \in DOMAIN parts : j # k => parts'[j] = parts[j]
      <3>1. f.index = k /\ f.bytes = Slice(u, k)
        BY <1>1, <1>4, <2>1
      <3> QED BY <2>2, <3>1, PutEntries
    <2>4. DOMAIN parts' \subseteq 0 .. Total(u) - 1
      BY <1>3, <2>1, <2>3
    <2>5. \A j \in DOMAIN parts' : parts'[j] = Slice(u, j)
      BY <1>3, <2>3
    <2> QED BY <1>2, <1>3, <2>4, <2>5 DEF IInv, PartsExact, NothingYet
  <1>5. CASE ~(ThisTransfer(f) /\ Intact(f))
    <2>1. parts' = parts
      BY <1>5 DEF Add
    <2> QED BY <1>2, <1>3, <2>1 DEF IInv, PartsExact, NothingYet
  <1> QED BY <1>4, <1>5

\* The invariant holds in every reachable state.
LEMMA Invariance == ASSUME IdsDistinct PROVE Spec => []IInv
PROOF
  <1>1. IInv /\ [Next]_vars => IInv'
    <2> SUFFICES ASSUME IInv, [Next]_vars PROVE IInv'
      OBVIOUS
    <2>1. CASE Next
      BY <2>1, AddInv DEF Next
    <2>2. CASE UNCHANGED vars
      BY <2>2 DEF vars, IInv, PartsExact, NothingYet
    <2> QED BY <2>1, <2>2
  <1> QED BY <1>1, InitInv, PTL DEF Spec

\* Every part that add() holds is the right slice of the latched transfer.
THEOREM PartsExactHolds == ASSUME IdsDistinct PROVE Spec => []PartsExact
PROOF
  <1>1. IInv => PartsExact
    BY DEF IInv
  <1> QED BY <1>1, Invariance, PTL

\* complete and missing() agree, so that a resend loop that asks for what is
\* missing ends exactly when the payload is there.
THEOREM MissingDecidesCompletionHolds ==
  ASSUME IdsDistinct PROVE Spec => []MissingDecidesCompletion
PROOF
  <1>1. IInv => MissingDecidesCompletion
    <2> SUFFICES ASSUME IInv, id # None PROVE Missing = {} <=> Complete
      BY DEF MissingDecidesCompletion
    <2>1. PICK t \in Transfer : /\ total = Total(t)
                               /\ DOMAIN parts \subseteq 0 .. Total(t) - 1
      BY DEF IInv, PartsExact
    <2>2. total \in Nat /\ total >= 1
      BY <2>1, TotalPositive
    <2>3. /\ IsFiniteSet(0 .. total - 1)
          /\ Cardinality(0 .. total - 1) = total
      BY <2>2, FS_Interval
    <2>4. Missing = {} => DOMAIN parts = 0 .. total - 1
      BY <2>1 DEF Missing
    <2>5. Cardinality(DOMAIN parts) = total => DOMAIN parts = 0 .. total - 1
      BY <2>1, <2>3, FS_Subset
    <2>6. DOMAIN parts = 0 .. total - 1 => Missing = {}
      BY DEF Missing
    <2> QED BY <2>2, <2>3, <2>4, <2>5, <2>6 DEF Complete
  <1> QED BY <1>1, Invariance, PTL

\* No frame takes back what was collected.
THEOREM NeverLosesGroundHolds ==
  ASSUME IdsDistinct PROVE Spec => NeverLosesGround
PROOF
  <1> DEFINE Ground ==
        /\ id # None => id' = id /\ total' = total
        /\ DOMAIN parts \subseteq DOMAIN parts'
        /\ \A k \in DOMAIN parts : parts'[k] = parts[k]
  <1>1. IInv /\ IInv' /\ [Next]_vars => [Ground]_vars
    <2> SUFFICES ASSUME IInv, IInv', NEW f \in Wire, Add(f) PROVE Ground
      BY DEF Next
    <2>1. id # None => id' = id /\ total' = total
      BY DEF Add
    <2>2. DOMAIN parts \subseteq DOMAIN parts'
      BY PutEntries DEF Add
    <2>3. \A k \in DOMAIN parts : parts'[k] = parts[k]
      <3>1. CASE id = None
        BY <3>1 DEF IInv, NothingYet
      <3>2. CASE id # None
        <4>1. PICK t \in Transfer :
                id = IdOf[t] /\ \A k \in DOMAIN parts : parts[k] = Slice(t, k)
          BY <3>2 DEF IInv, PartsExact
        <4>2. PICK u \in Transfer :
                id' = IdOf[u] /\ \A k \in DOMAIN parts' : parts'[k] = Slice(u, k)
          BY <2>1, <3>2 DEF IInv, PartsExact
        <4>3. t = u
          BY <2>1, <3>2, <4>1, <4>2 DEF IdsDistinct
        <4> QED BY <2>2, <4>1, <4>2, <4>3
      <3> QED BY <3>1, <3>2
    <2> QED BY <2>1, <2>2, <2>3
  <1> QED BY <1>1, Invariance, PTL DEF Spec, NeverLosesGround

\* A set of natural numbers that is not empty has a least element.
LEMMA Least ==
  ASSUME NEW S \in SUBSET Nat, S # {}
  PROVE  \E n \in S : \A m \in S : n <= m
PROOF
  <1> DEFINE R == OpToRel(<, Nat)
  <1>1. \E x \in S : \A y \in S : ~(<<y, x>> \in R)
    BY NatLessThanWellFounded, WFMin
  <1>2. \A x, y \in Nat : x < y => <<x, y>> \in R
    BY DEF OpToRel
  <1> HIDE DEF R
  <1>3. PICK x \in S : \A y \in S : ~(<<y, x>> \in R)
    BY <1>1
  <1>4. \A y \in S : ~(y < x)
    BY <1>2, <1>3
  <1> QED BY <1>3, <1>4

\* The pieces put one after another so far, for as long as the pieces are these.
Joins(up, ps, n) ==
  up = [k \in 0 .. n |-> IF k = 0 THEN <<>> ELSE up[k - 1] \o ps[k - 1]]

\* Joining pieces is a function of the pieces.
LEMMA JoinsUnique ==
  ASSUME NEW n \in Nat, NEW ps, NEW up, NEW uq, Joins(up, ps, n), Joins(uq, ps, n)
  PROVE  up = uq
PROOF
  <1> DEFINE Bad == {k \in 0 .. n : up[k] # uq[k]}
  <1>1. ASSUME Bad # {} PROVE FALSE
    <2>0. Bad \in SUBSET Nat
      OBVIOUS
    <2>1. PICK k \in Bad : \A m \in Bad : k <= m
      <3> HIDE DEF Bad
      <3> QED BY <1>1, <2>0, Least
    <2>2. CASE k = 0
      BY <2>1, <2>2 DEF Joins
    <2>3. CASE k # 0
      <3>1. k \in 0 .. n /\ k - 1 \in 0 .. n /\ k - 1 \notin Bad
        BY <2>1, <2>3
      <3>2. up[k - 1] = uq[k - 1]
        BY <3>1
      <3>3. up[k] = up[k - 1] \o ps[k - 1] /\ uq[k] = uq[k - 1] \o ps[k - 1]
        BY <2>3, <3>1 DEF Joins
      <3> QED BY <2>1, <3>2, <3>3
    <2> QED BY <2>2, <2>3
  <1>2. \A k \in 0 .. n : up[k] = uq[k]
    BY <1>1
  <1>3. /\ up = [k \in 0 .. n |-> up[k]]
        /\ uq = [k \in 0 .. n |-> uq[k]]
    BY DEF Joins
  <1> QED BY <1>2, <1>3

\* bytes() is what the pieces give that are put one after another.
LEMMA BytesJoins ==
  ASSUME total \in Nat, NEW up, Joins(up, parts, total)
  PROVE  Bytes = up[total]
PROOF
  <1> DEFINE J == CHOOSE g : g = [k \in 0 .. total |-> IF k = 0 THEN <<>> ELSE g[k - 1] \o parts[k - 1]]
  <1>1. Bytes = J[total]
    BY DEF Bytes
  <1>2. \E g : g = [k \in 0 .. total |-> IF k = 0 THEN <<>> ELSE g[k - 1] \o parts[k - 1]]
    BY DEF Joins
  <1>3. J = [k \in 0 .. total |-> IF k = 0 THEN <<>> ELSE J[k - 1] \o parts[k - 1]]
    BY <1>2
  <1> HIDE DEF J
  <1>4. Joins(J, parts, total)
    BY <1>3 DEF Joins
  <1>5. J = up
    BY ONLY <1>4, Joins(up, parts, total), total \in Nat, JoinsUnique
  <1> QED BY <1>1, <1>5

\* The first k slices of a payload hold its first bytes.
UpTo(t, k) ==
  SubSeq(Payload(t), 1, IF k * Step(t) < LenOf[t] THEN k * Step(t) ELSE LenOf[t])

\* Two neighbouring stretches of a sequence are one.
LEMMA Neighbours ==
  ASSUME NEW S, NEW p \in Seq(S), NEW a \in Nat, NEW b \in Nat, a <= b, b <= Len(p)
  PROVE  SubSeq(p, 1, a) \o SubSeq(p, a + 1, b) = SubSeq(p, 1, b)
  OBVIOUS

\* Nothing is left behind the end of a sequence.
LEMMA PastTheEnd ==
  ASSUME NEW S, NEW p \in Seq(S), NEW a \in Nat, a >= Len(p)
  PROVE  p \o SubSeq(p, a + 1, Len(p)) = p
  OBVIOUS

LEMMA Whole ==
  ASSUME NEW S, NEW p \in Seq(S)
  PROVE  SubSeq(p, 1, Len(p)) = p /\ SubSeq(p, 1, 0) = <<>>
  OBVIOUS

\* A payload is a sequence of its bytes.
LEMMA PayloadSeq ==
  ASSUME NEW t \in Transfer
  PROVE  /\ LenOf[t] \in Nat
         /\ Payload(t) \in Seq({t} \X Nat)
         /\ Len(Payload(t)) = LenOf[t]
PROOF
  <1>1. LenOf[t] \in Nat
    BY TransferAssumption
  <1> QED BY <1>1 DEF Payload

\* The next slice begins where the ones before it end.
LEMMA SliceFollows ==
  ASSUME NEW t \in Transfer, NEW k \in Nat
  PROVE  UpTo(t, k) \o Slice(t, k) = UpTo(t, k + 1)
PROOF
  <1> DEFINE a == k * Step(t)
             b == (k + 1) * Step(t)
  <1>1. Step(t) \in Nat /\ Step(t) >= 1 /\ LenOf[t] \in Nat
    BY TransferAssumption DEF Step
  <1>2. ASSUME NEW step \in Nat
        PROVE  k * step \in Nat /\ (k + 1) * step \in Nat /\ k * step <= (k + 1) * step
    OBVIOUS
  <1>3. a \in Nat /\ b \in Nat /\ a <= b
    BY <1>1, <1>2
  <1>4. /\ UpTo(t, k) = SubSeq(Payload(t), 1, IF a < LenOf[t] THEN a ELSE LenOf[t])
        /\ UpTo(t, k + 1) = SubSeq(Payload(t), 1, IF b < LenOf[t] THEN b ELSE LenOf[t])
        /\ Slice(t, k) = SubSeq(Payload(t), a + 1, IF b < LenOf[t] THEN b ELSE LenOf[t])
    BY DEF UpTo, Slice
  <1> HIDE DEF a, b
  <1>5. CASE a < LenOf[t]
    <2> DEFINE e == IF b < LenOf[t] THEN b ELSE LenOf[t]
    <2>1. e \in Nat /\ a <= e /\ e <= LenOf[t]
      BY <1>1, <1>3, <1>5
    <2>2. /\ UpTo(t, k) = SubSeq(Payload(t), 1, a)
          /\ UpTo(t, k + 1) = SubSeq(Payload(t), 1, e)
          /\ Slice(t, k) = SubSeq(Payload(t), a + 1, e)
      BY <1>4, <1>5
    <2> HIDE DEF e
    <2>3. SubSeq(Payload(t), 1, a) \o SubSeq(Payload(t), a + 1, e) = SubSeq(Payload(t), 1, e)
      BY <1>3, <2>1, PayloadSeq, Neighbours
    <2> QED BY ONLY <2>2, <2>3
  <1>6. CASE ~(a < LenOf[t])
    <2>1. ~(b < LenOf[t]) /\ a >= LenOf[t]
      BY <1>1, <1>3, <1>6
    <2>2. /\ UpTo(t, k) = SubSeq(Payload(t), 1, LenOf[t])
          /\ UpTo(t, k + 1) = SubSeq(Payload(t), 1, LenOf[t])
          /\ Slice(t, k) = SubSeq(Payload(t), a + 1, LenOf[t])
      BY <1>4, <1>6, <2>1
    <2>3. UpTo(t, k) = Payload(t) /\ UpTo(t, k + 1) = Payload(t)
      BY <2>2, PayloadSeq, Whole
    <2> QED BY <1>3, <2>1, <2>2, <2>3, PayloadSeq, PastTheEnd
  <1> QED BY <1>5, <1>6

\* No slices are nothing, and all of them are the payload: the count of frames
\* leaves no remainder behind.
LEMMA AllSlices ==
  ASSUME NEW t \in Transfer
  PROVE  UpTo(t, 0) = <<>> /\ UpTo(t, Total(t)) = Payload(t)
PROOF
  <1>1. Step(t) \in Nat /\ Step(t) >= 1 /\ LenOf[t] \in Nat
    BY TransferAssumption DEF Step
  <1>2. UpTo(t, 0) = <<>>
    <2>1. UpTo(t, 0) = SubSeq(Payload(t), 1, 0)
      <3>1. 0 * Step(t) = 0 /\ (~(0 < LenOf[t]) => LenOf[t] = 0)
        BY <1>1
      <3> QED BY <3>1 DEF UpTo
    <2> QED BY <2>1, PayloadSeq, Whole
  <1>3. ASSUME NEW len \in Nat, NEW step \in Nat, step >= 1
        PROVE  ~(FrameCount(len, step) * step < len)
    <2>1. CASE len = 0
      BY <1>3, <2>1 DEF FrameCount
    <2>2. CASE len # 0
      <3> DEFINE n == len + step - 1
                 q == n \div step
      <3>1. n \in Nat /\ n = len + (step - 1)
        BY <1>3, <2>2
      <3>2. FrameCount(len, step) = q
        BY <2>2 DEF FrameCount
      <3> HIDE DEF n
      <3>3. q \in Nat /\ n < q * step + step
        BY <1>3, <3>1
      <3> HIDE DEF q
      <3>4. q * step \in Nat
        BY <1>3, <3>3
      <3> QED BY <1>3, <3>1, <3>2, <3>3, <3>4
    <2> QED BY <2>1, <2>2
  <1>4. UpTo(t, Total(t)) = SubSeq(Payload(t), 1, LenOf[t])
    BY <1>1, <1>3 DEF UpTo, Total
  <1> QED BY <1>2, <1>4, PayloadSeq, Whole

\* Slices 0 .. n - 1 of a transfer, joined in the order of their indices.
LEMMA SlicesJoin ==
  ASSUME NEW t \in Transfer, NEW n \in Nat, NEW ps,
         \A k \in 0 .. n - 1 : ps[k] = Slice(t, k)
  PROVE  Joins([k \in 0 .. n |-> UpTo(t, k)], ps, n)
PROOF
  <1> DEFINE up == [k \in 0 .. n |-> UpTo(t, k)]
  <1>1. ASSUME NEW k \in 0 .. n
        PROVE  up[k] = IF k = 0 THEN <<>> ELSE up[k - 1] \o ps[k - 1]
    <2>1. CASE k = 0
      BY <2>1, AllSlices
    <2>2. CASE k # 0
      <3>1. k - 1 \in Nat /\ k - 1 \in 0 .. n - 1 /\ k - 1 \in 0 .. n /\ (k - 1) + 1 = k
        BY <2>2
      <3>2. up[k - 1] = UpTo(t, k - 1) /\ up[k] = UpTo(t, k)
        BY <3>1
      <3>3. ps[k - 1] = Slice(t, k - 1)
        BY <3>1
      <3>4. UpTo(t, k - 1) \o Slice(t, k - 1) = UpTo(t, k)
        BY <3>1, SliceFollows
      <3> HIDE DEF up
      <3> QED BY <2>2, <3>2, <3>3, <3>4
    <2> QED BY <2>1, <2>2
  <1> HIDE DEF up
  <1>2. up = [k \in 0 .. n |-> up[k]]
    BY DEF up
  <1>3. up = [k \in 0 .. n |-> IF k = 0 THEN <<>> ELSE up[k - 1] \o ps[k - 1]]
    BY <1>1, <1>2
  <1> QED BY <1>3 DEF Joins, up

\* A transfer that is complete is the payload that was sent, byte for byte, for
\* payloads and frame sizes of any length, and nothing of it is missing.
THEOREM CompleteIsExactHolds ==
  ASSUME IdsDistinct PROVE Spec => []CompleteIsExact
PROOF
  <1>1. IInv => CompleteIsExact
    <2> SUFFICES ASSUME IInv, Complete
                 PROVE  Missing = {} /\ \E t \in Transfer : id = IdOf[t] /\ Bytes = Payload(t)
      BY DEF CompleteIsExact
    <2>1. id # None
      BY DEF IInv, NothingYet, Complete
    <2>2. PICK t \in Transfer :
            /\ id = IdOf[t] /\ total = Total(t)
            /\ DOMAIN parts \subseteq 0 .. Total(t) - 1
            /\ \A k \in DOMAIN parts : parts[k] = Slice(t, k)
      BY <2>1 DEF IInv, PartsExact
    <2>3. total \in Nat /\ total >= 1
      BY <2>2, TotalPositive
    <2>4. DOMAIN parts = 0 .. total - 1
      <3>1. /\ IsFiniteSet(0 .. total - 1)
            /\ Cardinality(0 .. total - 1) = total
        BY <2>3, FS_Interval
      <3> QED BY <2>2, <3>1, FS_Subset DEF Complete
    <2>5. Missing = {}
      BY <2>4 DEF Missing
    <2>6. Joins([k \in 0 .. total |-> UpTo(t, k)], parts, total)
      BY <2>2, <2>3, <2>4, SlicesJoin
    <2>7. Bytes = [k \in 0 .. total |-> UpTo(t, k)][total]
      BY <2>3, <2>6, BytesJoins
    <2>8. Bytes = Payload(t)
      <3>1. Bytes = UpTo(t, Total(t))
        BY <2>2, <2>3, <2>7
      <3> QED BY <3>1, AllSlices
    <2> QED BY <2>2, <2>5, <2>8
  <1> QED BY <1>1, Invariance, PTL

\* What a collector holds has the right type, whether or not ids are distinct:
\* the parts are slices of payloads that were cut.
THEOREM TypeCorrect == Spec => []TypeOK
PROOF
  <1>1. Init => TypeOK
    BY DEF Init, TypeOK
  <1>2. TypeOK /\ [Next]_vars => TypeOK'
    <2> SUFFICES ASSUME TypeOK, [Next]_vars PROVE TypeOK'
      OBVIOUS
    <2>1. ASSUME NEW f \in Wire, Add(f) PROVE TypeOK'
      <3>1. PICK t \in Transfer : \E k \in 0 .. Total(t) - 1 :
              /\ f.id = IdOf[t] /\ f.total = Total(t) /\ f.index = k
              /\ Intact(f) => f.bytes = Slice(t, k)
        BY WireFrame
      <3>2. PICK k \in 0 .. Total(t) - 1 :
              /\ f.id = IdOf[t] /\ f.total = Total(t) /\ f.index = k
              /\ Intact(f) => f.bytes = Slice(t, k)
        BY <3>1
      <3>3. Total(t) \in Nat /\ k \in Nat
        BY TotalPositive
      <3>4. /\ id' \in {IdOf[u] : u \in Transfer} \cup {None}
            /\ total' \in Nat
        BY <2>1, <3>2, <3>3 DEF Add, TypeOK
      <3>5. /\ DOMAIN parts' \subseteq Nat
            /\ \A j \in DOMAIN parts' :
                 parts'[j] \in UNION {{Slice(u, i) : i \in 0 .. Total(u) - 1} : u \in Transfer}
        <4>1. CASE ThisTransfer(f) /\ Intact(f)
          <5>1. /\ DOMAIN parts' = DOMAIN parts \cup {k}
                /\ parts'[k] = Slice(t, k)
                /\ \A j \in DOMAIN parts : j # k => parts'[j] = parts[j]
            BY <2>1, <3>2, <4>1, PutEntries DEF Add
          <5> QED BY <3>3, <5>1 DEF TypeOK
        <4>2. CASE ~(ThisTransfer(f) /\ Intact(f))
          BY <2>1, <4>2 DEF Add, TypeOK
        <4> QED BY <4>1, <4>2
      <3> QED BY <3>4, <3>5 DEF TypeOK
    <2>2. CASE UNCHANGED vars
      BY <2>2 DEF vars, TypeOK
    <2> QED BY <2>1, <2>2 DEF Next
  <1> QED BY <1>1, <1>2, PTL DEF Spec

==============================================================================
