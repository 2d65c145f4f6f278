---------------------------- MODULE PairingProofs ----------------------------
(***************************************************************************)
(* Proofs about Pairing for any sets of endpoints, rooms, builds and nonces. *)
(* The argument is about provenance: every message on the air was sent by an *)
(* endpoint that was in the right state, and what an endpoint took from a    *)
(* message it still holds, because nothing it holds is ever replaced.  The    *)
(* second part is about the same endpoints on the loopback bus.              *)
(***************************************************************************)
EXTENDS LoopbackPairing, SequenceTheorems, TLAPS

USE DEF Endpoint

(***************************************************************************)
(* The inductive invariant.                                                  *)
(***************************************************************************)

\* Each role only goes through its own states.
RoleStates ==
  /\ \A i \in Initiator : state[i] \in {"idle", "offered", "paired", "failed"}
  /\ \A r \in Responder : state[r] \in {"idle", "answered", "paired", "failed"}

\* A session is derived from the nonce taken, and held from the moment the
\* endpoint leaves its waiting state.
SessionDerived ==
  \A e \in Endpoint :
    /\ session[e] # None =>
         /\ theirNonce[e] \in Nonce
         /\ session[e] = Derive(RoomOf[e], NonceOf[e], theirNonce[e])
    /\ session[e] = None => theirNonce[e] = None
    /\ state[e] \in {"idle", "offered"} => session[e] = None
    /\ state[e] \in {"answered", "paired"} => session[e] # None

\* Where the messages on the air come from.
OffersSent ==
  \A m \in air : m.type = "offer" => \E i \in Initiator : m = Offer(i)

AnswersSent ==
  \A m \in air : m.type = "answer" =>
    \E r \in Responder : m = Answer(r) /\ session[r] # None

ConfirmsSent ==
  \A m \in air : m.type = "confirm" =>
    \E i \in Initiator : /\ m = Confirm(i, session[i])
                         /\ session[i] # None

\* In every room and version heard on the air an initiator began.
RoomsBegun ==
  \A m \in air :
    \E i \in Initiator : /\ Offer(i) \in air
                         /\ RoomOf[i] = m.room
                         /\ VersionOf[i] = m.v

\* The endpoint whose nonce d took: of the other role, same room and version.
Took(d, e) ==
  /\ theirNonce[d] = NonceOf[e]
  /\ RoomOf[d] = RoomOf[e]
  /\ VersionOf[d] = VersionOf[e]

ResponderTook ==
  \A r \in Responder : session[r] # None => \E i \in Initiator : Took(r, i)

InitiatorTook ==
  \A i \in Initiator :
    session[i] # None =>
      /\ state[i] \in {"paired", "failed"}
      /\ \E r \in Responder : Took(i, r) /\ session[r] # None

\* A paired responder has seen its session in an initiator's confirm.
ResponderAgreed ==
  \A r \in Responder :
    state[r] = "paired" => \E i \in Initiator : session[i] = session[r]

IInv ==
  /\ TypeOK
  /\ RoleStates
  /\ SessionDerived
  /\ OffersSent
  /\ AnswersSent
  /\ ConfirmsSent
  /\ RoomsBegun
  /\ ResponderTook
  /\ InitiatorTook
  /\ ResponderAgreed
  /\ FailureExplained

(***************************************************************************)
(* The initial states satisfy it, and every action preserves it.             *)
(***************************************************************************)

\* A created endpoint is idle and the air is silent.
LEMMA InitInv == Init => IInv
  BY DEF Init, IInv, TypeOK, PairingState, RoleStates, SessionDerived, OffersSent,
         AnswersSent, ConfirmsSent, RoomsBegun, ResponderTook, InitiatorTook,
         ResponderAgreed, FailureExplained

\* start() only adds an offer, sent by an initiator that holds no session.
LEMMA StartInv ==
  ASSUME IInv, NEW i \in Initiator, Start(i)
  PROVE  IInv'
PROOF
  <1> USE RolesAssumption, EndpointAssumption DEF IInv, Start
  <1>1. /\ \A e \in Endpoint : e # i => state'[e] = state[e]
        /\ state'[i] = "offered"
        /\ Offer(i) \in Message
    BY DEF TypeOK, Offer, Message
  <1>2. TypeOK'
    BY <1>1 DEF TypeOK, PairingState
  <1>3. RoleStates'
    BY <1>1 DEF RoleStates
  <1>4. SessionDerived'
    BY <1>1 DEF SessionDerived
  <1>5. OffersSent' /\ AnswersSent' /\ ConfirmsSent'
    BY DEF OffersSent, AnswersSent, ConfirmsSent, Offer
  <1>6. RoomsBegun'
    BY DEF RoomsBegun, Offer
  <1>7. ResponderTook' /\ InitiatorTook'
    BY <1>1 DEF ResponderTook, InitiatorTook, Took, SessionDerived
  <1>8. ResponderAgreed'
    BY <1>1 DEF ResponderAgreed
  <1>9. FailureExplained'
    BY <1>1 DEF FailureExplained
  <1> QED BY <1>2, <1>3, <1>4, <1>5, <1>6, <1>7, <1>8, <1>9

\* fail() disturbs only what is said of failed endpoints, so it is enough to
\* explain the failure.
LEMMA FailInv ==
  ASSUME IInv, NEW e \in Endpoint, Fail(e), FailureExplained'
  PROVE  IInv'
PROOF
  <1> USE RolesAssumption DEF IInv, Fail
  <1>1. /\ \A d \in Endpoint : d # e => state'[d] = state[d]
        /\ state'[e] = "failed"
    BY DEF TypeOK
  <1>2. TypeOK'
    BY <1>1 DEF TypeOK, PairingState
  <1>3. RoleStates'
    BY <1>1 DEF RoleStates
  <1>4. SessionDerived'
    BY <1>1 DEF SessionDerived
  <1>5. OffersSent' /\ AnswersSent' /\ ConfirmsSent' /\ RoomsBegun'
    BY DEF OffersSent, AnswersSent, ConfirmsSent, RoomsBegun
  <1>6. ResponderTook' /\ InitiatorTook'
    BY <1>1 DEF ResponderTook, InitiatorTook, Took
  <1>7. ResponderAgreed'
    BY <1>1 DEF ResponderAgreed
  <1> QED BY <1>2, <1>3, <1>4, <1>5, <1>6, <1>7

\* An idle responder takes an offer: it took the nonce of the initiator that
\* sent it, and nobody held its (empty) session before.
LEMMA ReceiveOfferInv ==
  ASSUME IInv, NEW r \in Responder, NEW m \in air, ReceiveOffer(r, m)
  PROVE  IInv'
PROOF
  <1> USE RolesAssumption, EndpointAssumption, NoneAssumption DEF IInv
  <1>1. PICK i \in Initiator : m = Offer(i)
    BY DEF ReceiveOffer, Accepts, OffersSent
  <1>2. /\ RoomOf[i] = RoomOf[r] /\ VersionOf[i] = VersionOf[r]
        /\ m.nonce = NonceOf[i]
        /\ state[r] = "idle" /\ session[r] = None
    BY <1>1 DEF ReceiveOffer, Accepts, SameVersion, SameRoom, Offer, SessionDerived
  <1>3. /\ \A e \in Endpoint : e # r => /\ state'[e] = state[e]
                                       /\ session'[e] = session[e]
                                       /\ theirNonce'[e] = theirNonce[e]
        /\ state'[r] = "answered"
        /\ theirNonce'[r] = NonceOf[i]
        /\ session'[r] = Derive(RoomOf[r], NonceOf[r], NonceOf[i])
        /\ air' = air \cup {Answer(r)}
    BY <1>2 DEF ReceiveOffer, Bind, TypeOK
  <1>4. /\ Derive(RoomOf[r], NonceOf[r], NonceOf[i]) \in Session
        /\ Answer(r) \in Message
    BY DEF Derive, Session, Answer, Message
  <1>5. TypeOK'
    BY <1>2, <1>4 DEF ReceiveOffer, Bind, TypeOK, PairingState
  <1>6. RoleStates'
    BY <1>3 DEF RoleStates
  <1>7. SessionDerived'
    BY <1>3, <1>4 DEF SessionDerived
  <1>8. OffersSent' /\ ConfirmsSent'
    BY <1>3 DEF OffersSent, ConfirmsSent, Answer
  <1>9. AnswersSent'
    BY <1>3, <1>4 DEF AnswersSent, Answer
  <1>10. RoomsBegun'
    BY <1>1, <1>2, <1>3 DEF RoomsBegun, Answer, Offer
  <1>11. ResponderTook'
    BY <1>2, <1>3 DEF ResponderTook, Took
  <1>12. InitiatorTook'
    BY <1>3, <1>4 DEF InitiatorTook, Took
  <1>13. ResponderAgreed'
    BY <1>3 DEF ResponderAgreed
  <1>14. FailureExplained'
    BY <1>2, <1>3 DEF FailureExplained, SessionDerived, RoleStates
  <1> QED BY <1>5, <1>6, <1>7, <1>8, <1>9, <1>10, <1>11, <1>12, <1>13, <1>14

\* An initiator takes an answer: it took the nonce of the responder that sent
\* it, and the confirm it sends carries the session it holds from now on.
LEMMA ReceiveAnswerInv ==
  ASSUME IInv, NEW i \in Initiator, NEW m \in air, ReceiveAnswer(i, m)
  PROVE  IInv'
PROOF
  <1> USE RolesAssumption, EndpointAssumption, NoneAssumption DEF IInv
  <1>1. PICK r \in Responder : m = Answer(r) /\ session[r] # None
    BY DEF ReceiveAnswer, Accepts, AnswersSent
  <1>2. /\ RoomOf[i] = RoomOf[r] /\ VersionOf[i] = VersionOf[r]
        /\ m.nonce = NonceOf[r]
        /\ state[i] = "offered" /\ session[i] = None
    BY <1>1 DEF ReceiveAnswer, Accepts, SameVersion, SameRoom, Answer, SessionDerived
  <1>3. /\ \A e \in Endpoint : e # i => /\ state'[e] = state[e]
                                       /\ session'[e] = session[e]
                                       /\ theirNonce'[e] = theirNonce[e]
        /\ state'[i] = "paired"
        /\ theirNonce'[i] = NonceOf[r]
        /\ session'[i] = Derive(RoomOf[i], NonceOf[i], NonceOf[r])
        /\ air' = air \cup {Confirm(i, session'[i])}
    BY <1>2 DEF ReceiveAnswer, Bind, TypeOK
  <1>4. /\ Derive(RoomOf[i], NonceOf[i], NonceOf[r]) \in Session
        /\ Confirm(i, session'[i]) \in Message
    BY <1>3 DEF Derive, Session, Confirm, Message
  <1>5. TypeOK'
    BY <1>2, <1>3, <1>4 DEF ReceiveAnswer, Bind, TypeOK, PairingState
  <1>6. RoleStates'
    BY <1>3 DEF RoleStates
  <1>7. SessionDerived'
    BY <1>3, <1>4 DEF SessionDerived
  <1>8. OffersSent' /\ AnswersSent'
    BY <1>3 DEF OffersSent, AnswersSent, Confirm
  <1>9. ConfirmsSent'
    BY <1>2, <1>3, <1>4 DEF ConfirmsSent, Confirm
  <1>10. RoomsBegun'
    BY <1>1, <1>2, <1>3 DEF RoomsBegun, Answer, Confirm
  <1>11. ResponderTook'
    BY <1>3 DEF ResponderTook, Took
  <1>12. InitiatorTook'
    BY <1>1, <1>2, <1>3 DEF InitiatorTook, Took
  <1>13. ResponderAgreed'
    BY <1>2, <1>3 DEF ResponderAgreed, SessionDerived
  <1>14. FailureExplained'
    BY <1>2, <1>3 DEF FailureExplained
  <1> QED BY <1>5, <1>6, <1>7, <1>8, <1>9, <1>10, <1>11, <1>12, <1>13, <1>14

\* An answered responder takes the confirm of its session: an initiator holds it.
LEMMA ReceiveConfirmInv ==
  ASSUME IInv, NEW r \in Responder, NEW m \in air, ReceiveConfirm(r, m)
  PROVE  IInv'
PROOF
  <1> USE RolesAssumption, EndpointAssumption, NoneAssumption DEF IInv
  <1>1. PICK i \in Initiator : m = Confirm(i, session[i]) /\ session[i] # None
    BY DEF ReceiveConfirm, Accepts, ConfirmsSent
  <1>2. /\ \A e \in Endpoint : e # r => state'[e] = state[e]
        /\ state[r] = "answered"
        /\ state'[r] = "paired"
        /\ session[i] = session[r]
        /\ UNCHANGED <<theirNonce, session, air>>
    BY <1>1 DEF ReceiveConfirm, Accepts, SessionMatches, Confirm, TypeOK
  <1>3. TypeOK'
    BY <1>2 DEF ReceiveConfirm, TypeOK, PairingState
  <1>4. RoleStates'
    BY <1>2 DEF RoleStates
  <1>5. SessionDerived'
    BY <1>1, <1>2 DEF SessionDerived
  <1>6. OffersSent' /\ AnswersSent' /\ ConfirmsSent' /\ RoomsBegun'
    BY <1>2 DEF OffersSent, AnswersSent, ConfirmsSent, RoomsBegun
  <1>7. ResponderTook' /\ InitiatorTook'
    BY <1>2 DEF ResponderTook, InitiatorTook, Took
  <1>8. ResponderAgreed'
    BY <1>2 DEF ResponderAgreed
  <1>9. FailureExplained'
    BY <1>2 DEF FailureExplained
  <1> QED BY <1>3, <1>4, <1>5, <1>6, <1>7, <1>8, <1>9

\* The confirm of another session was sent by an initiator of the room that
\* completed with somebody else: that explains the failure.
LEMMA ReceiveOtherConfirmInv ==
  ASSUME IInv, NEW r \in Responder, NEW m \in air, ReceiveOtherConfirm(r, m)
  PROVE  IInv'
PROOF
  <1>1. PICK i \in Initiator : m = Confirm(i, session[i]) /\ session[i] # None
    BY DEF ReceiveOtherConfirm, Accepts, ConfirmsSent, IInv
  <1>2. /\ RoomOf[i] = RoomOf[r] /\ VersionOf[i] = VersionOf[r]
        /\ session[i] # session[r] /\ session[r] # None
    BY <1>1 DEF ReceiveOtherConfirm, Accepts, SameVersion, SameRoom, SessionMatches,
                Confirm, IInv, SessionDerived
  <1>3. \A e \in Endpoint : e # r => state'[e] = state[e]
    BY DEF ReceiveOtherConfirm, Fail, IInv, TypeOK
  <1>4. FailureExplained'
    BY <1>1, <1>2, <1>3 DEF ReceiveOtherConfirm, Fail, FailureExplained, IInv
  <1> QED BY <1>4, FailInv DEF ReceiveOtherConfirm

\* A message of another room exists because an initiator began there.
LEMMA ReceiveOtherRoomInv ==
  ASSUME IInv, NEW e \in Endpoint, NEW m \in air, ReceiveOtherRoom(e, m)
  PROVE  IInv'
PROOF
  <1>1. PICK i \in Initiator : /\ Offer(i) \in air
                              /\ RoomOf[i] = m.room /\ VersionOf[i] = m.v
    BY DEF RoomsBegun, IInv
  <1>2. \A d \in Endpoint : d # e => state'[d] = state[d]
    BY DEF ReceiveOtherRoom, Fail, IInv, TypeOK
  <1>3. FailureExplained'
    BY <1>1, <1>2 DEF ReceiveOtherRoom, SameVersion, SameRoom, Fail, FailureExplained, IInv
  <1> QED BY <1>3, FailInv DEF ReceiveOtherRoom

\* No step of any endpoint breaks the invariant.
LEMMA NextInv == IInv /\ [Next]_vars => IInv'
PROOF
  <1> SUFFICES ASSUME IInv, [Next]_vars PROVE IInv'
    OBVIOUS
  <1>1. ASSUME NEW i \in Initiator, Start(i) PROVE IInv'
    BY <1>1, StartInv
  <1>2. ASSUME NEW m \in air, NEW r \in Responder, ReceiveOffer(r, m) PROVE IInv'
    BY <1>2, ReceiveOfferInv
  <1>3. ASSUME NEW m \in air, NEW r \in Responder, ReceiveConfirm(r, m) PROVE IInv'
    BY <1>3, ReceiveConfirmInv
  <1>4. ASSUME NEW m \in air, NEW r \in Responder, ReceiveOtherConfirm(r, m) PROVE IInv'
    BY <1>4, ReceiveOtherConfirmInv
  <1>5. ASSUME NEW m \in air, NEW i \in Initiator, ReceiveAnswer(i, m) PROVE IInv'
    BY <1>5, ReceiveAnswerInv
  <1>6. ASSUME NEW m \in air, NEW e \in Endpoint, ReceiveOtherRoom(e, m) PROVE IInv'
    BY <1>6, ReceiveOtherRoomInv
  <1>7. ASSUME UNCHANGED vars PROVE IInv'
    BY <1>7 DEF vars, IInv, TypeOK, RoleStates, SessionDerived, OffersSent, AnswersSent,
                ConfirmsSent, RoomsBegun, ResponderTook, InitiatorTook, Took,
                ResponderAgreed, FailureExplained
  <1> QED BY <1>1, <1>2, <1>3, <1>4, <1>5, <1>6, <1>7 DEF Next

\* The inductive invariant holds in every reachable state.
LEMMA Invariance == Spec => []IInv
  BY InitInv, NextInv, PTL DEF Spec

(***************************************************************************)
(* The theorems.                                                             *)
(***************************************************************************)

\* Every state and message of pairing.js has its type.
THEOREM TypeCorrect == Spec => []TypeOK
PROOF
  <1>1. IInv => TypeOK
    BY DEF IInv
  <1> QED BY <1>1, Invariance, PTL

\* deriveSession is injective: equal ids have equal seeds.
LEMMA DeriveInjective ==
  ASSUME NEW a, NEW b, NEW A, NEW B,
         [room |-> a, nonces |-> A] = [room |-> b, nonces |-> B]
  PROVE  a = b /\ A = B
PROOF
  <1> DEFINE s == [room |-> a, nonces |-> A]
             t == [room |-> b, nonces |-> B]
  <1>1. s.room = a /\ s.nonces = A
    OBVIOUS
  <1>2. t.room = b /\ t.nonces = B
    OBVIOUS
  <1>3. s = t
    OBVIOUS
  <1> HIDE DEF s, t
  <1> QED BY <1>1, <1>2, <1>3

\* Equal sessions name the two nonces, so their holders took each other's.
LEMMA EqualSessions ==
  ASSUME IInv, NEW d \in Endpoint, NEW e \in Endpoint, d # e,
         session[d] # None, session[d] = session[e]
  PROVE  /\ RoomOf[d] = RoomOf[e]
         /\ theirNonce[d] = NonceOf[e]
         /\ theirNonce[e] = NonceOf[d]
PROOF
  <1>1. Derive(RoomOf[d], NonceOf[d], theirNonce[d]) =
        Derive(RoomOf[e], NonceOf[e], theirNonce[e])
    BY DEF IInv, SessionDerived
  <1>2. /\ RoomOf[d] = RoomOf[e]
        /\ {NonceOf[d], theirNonce[d]} = {NonceOf[e], theirNonce[e]}
    BY <1>1, DeriveInjective DEF Derive
  <1>3. NonceOf[d] # NonceOf[e]
    BY NonceAssumption
  <1> HIDE DEF Endpoint
  <1> QED BY <1>2, <1>3

\* When a responder of pairing.js is paired, an initiator holds its session,
\* took its nonce and has finished: the two sides computed the same id.
THEOREM AgreementHolds == Spec => []Agreement
PROOF
  <1>1. IInv => Agreement
    <2> SUFFICES ASSUME IInv, NEW r \in Responder, state[r] = "paired"
                 PROVE  \E i \in Initiator : /\ Partners(i, r)
                                             /\ session[i] = session[r]
                                             /\ state[i] \in {"paired", "failed"}
      BY DEF Agreement
    <2>1. session[r] # None
      BY DEF IInv, SessionDerived
    <2>2. PICK i \in Initiator : session[i] = session[r]
      BY DEF IInv, ResponderAgreed
    <2>3. Partners(i, r)
      BY <2>1, <2>2, EqualSessions, RolesAssumption DEF Partners
    <2>4. state[i] \in {"paired", "failed"}
      BY <2>1, <2>2 DEF IInv, InitiatorTook
    <2> QED BY <2>2, <2>3, <2>4
  <1> QED BY <1>1, Invariance, PTL

\* A session id of pairing.js is held by one initiator and one responder that
\* took each other's nonce, and by nobody else.
THEOREM SessionExclusiveHolds == Spec => []SessionExclusive
PROOF
  <1>1. IInv => SessionExclusive
    <2> SUFFICES ASSUME IInv, NEW d \in Endpoint, NEW e \in Endpoint, d # e,
                        session[d] # None, session[d] = session[e]
                 PROVE  \/ d \in Initiator /\ e \in Responder /\ Partners(d, e)
                        \/ e \in Initiator /\ d \in Responder /\ Partners(e, d)
      BY DEF SessionExclusive
    <2>1. Partners(d, e) /\ Partners(e, d)
      BY EqualSessions DEF Partners
    <2>2. CASE d \in Initiator
      <3>1. PICK r \in Responder : theirNonce[d] = NonceOf[r]
        BY <2>2 DEF IInv, InitiatorTook, Took
      <3>2. e = r
        BY <2>1, <3>1, NonceAssumption DEF Partners
      <3> QED BY <2>1, <2>2, <3>2
    <2>3. CASE d \in Responder
      <3>1. PICK i \in Initiator : theirNonce[d] = NonceOf[i]
        BY <2>3 DEF IInv, ResponderTook, Took
      <3>2. e = i
        BY <2>1, <3>1, NonceAssumption DEF Partners
      <3> QED BY <2>1, <2>3, <3>2
    <2> QED BY <2>2, <2>3
  <1> QED BY <1>1, Invariance, PTL

\* fail() is reached only because of another room or of another completed
\* session, never because of the endpoint's own exchange.
THEOREM FailureExplainedHolds == Spec => []FailureExplained
PROOF
  <1>1. IInv => FailureExplained
    BY DEF IInv
  <1> QED BY <1>1, Invariance, PTL

\* An initiator that is alone in its room and build has its peer when it is
\* paired: the run pairing_two_initiators shows that the condition is needed.
THEOREM LoneInitiatorHasPeerHolds == Spec => []LoneInitiatorHasPeer
PROOF
  <1>1. IInv => LoneInitiatorHasPeer
    <2> SUFFICES ASSUME IInv, NEW i \in Initiator, Alone(i), state[i] = "paired"
                 PROVE  \E r \in Responder : Partners(i, r) /\ session[r] = session[i]
      BY DEF LoneInitiatorHasPeer, HasPeer
    <2>1. session[i] # None
      BY DEF IInv, SessionDerived
    <2>2. PICK r \in Responder : Took(i, r) /\ session[r] # None
      BY <2>1 DEF IInv, InitiatorTook
    <2>3. PICK j \in Initiator : Took(r, j)
      BY <2>2 DEF IInv, ResponderTook
    <2>4. j = i
      BY <2>2, <2>3 DEF Took, Alone
    <2>5. Partners(i, r)
      BY <2>2, <2>3, <2>4 DEF Took, Partners
    <2>6. session[r] = session[i]
      <3>1. /\ session[i] = Derive(RoomOf[i], NonceOf[i], theirNonce[i])
            /\ session[r] = Derive(RoomOf[r], NonceOf[r], theirNonce[r])
        BY <2>1, <2>2 DEF IInv, SessionDerived
      <3>2. {NonceOf[i], NonceOf[r]} = {NonceOf[r], NonceOf[i]}
        OBVIOUS
      <3> QED BY <2>5, <3>1, <3>2 DEF Derive, Partners
    <2> QED BY <2>5, <2>6
  <1> QED BY <1>1, Invariance, PTL

\* A step of receive() changes the endpoint that takes it and no other.
LEMMA OneEndpointMoves ==
  ASSUME TypeOK, NEW e \in Endpoint, NEW m,
         \/ ReceiveOffer(e, m) \/ ReceiveAnswer(e, m) \/ ReceiveConfirm(e, m)
         \/ ReceiveOtherConfirm(e, m) \/ ReceiveOtherRoom(e, m)
  PROVE  \A d \in Endpoint : d # e => /\ state'[d] = state[d]
                                     /\ session'[d] = session[d]
                                     /\ theirNonce'[d] = theirNonce[d]
  BY DEF TypeOK, ReceiveOffer, ReceiveAnswer, ReceiveConfirm, ReceiveOtherConfirm,
         ReceiveOtherRoom, Bind, Fail

\* No step takes from an endpoint what it has bound.
LEMMA KeepsBound ==
  ASSUME IInv, Next, NEW e \in Endpoint
  PROVE  KeepsWhatItBound(e)
PROOF
  <1> USE DEF KeepsWhatItBound, IInv
  <1>1. ASSUME NEW i \in Initiator, Start(i) PROVE KeepsWhatItBound(e)
    BY <1>1 DEF Start, TypeOK
  <1>2. ASSUME NEW m \in air, NEW r \in Responder, ReceiveOffer(r, m)
        PROVE KeepsWhatItBound(e)
    BY <1>2, OneEndpointMoves DEF ReceiveOffer, Accepts, SessionDerived
  <1>3. ASSUME NEW m \in air, NEW i \in Initiator, ReceiveAnswer(i, m)
        PROVE KeepsWhatItBound(e)
    BY <1>3, OneEndpointMoves DEF ReceiveAnswer, Accepts, SessionDerived
  <1>4. ASSUME NEW m \in air, NEW r \in Responder, ReceiveConfirm(r, m)
        PROVE KeepsWhatItBound(e)
    BY <1>4, OneEndpointMoves DEF ReceiveConfirm, Accepts
  <1>5. ASSUME NEW d \in Endpoint, Fail(d) PROVE KeepsWhatItBound(e)
    BY <1>5 DEF Fail, TypeOK
  <1> QED
    BY <1>1, <1>2, <1>3, <1>4, <1>5 DEF Next, ReceiveOtherConfirm, ReceiveOtherRoom

\* Nothing an endpoint has bound is ever replaced, and paired and failed are
\* left only for failed: no duplicate, late or foreign message of any kind
\* makes receive() run a stage twice.
THEOREM BoundOnceHolds == Spec => BoundOnce
PROOF
  <1>1. IInv /\ [Next]_vars => [\A e \in Endpoint : KeepsWhatItBound(e)]_vars
    <2> SUFFICES ASSUME IInv, Next, NEW e \in Endpoint PROVE KeepsWhatItBound(e)
      BY DEF vars
    <2> QED BY KeepsBound
  <1> QED BY <1>1, Invariance, PTL DEF Spec, BoundOnce

(***************************************************************************)
(* Refinement: the handshake implements PairingContract.                     *)
(***************************************************************************)

\* Every step of the handshake is a step of its contract or changes nothing
\* the contract speaks of.
THEOREM ImplementsContract == Spec => ContractSpec
PROOF
  <1>1. Init => Contract!Init
    BY DEF Init, Contract!Init, Contract!Endpoint, Outcome
  <1>2. IInv /\ IInv' /\ [Next]_vars => [Contract!Next]_(Contract!vars)
    <2> SUFFICES ASSUME IInv, IInv', [Next]_vars
                 PROVE  Contract!Next \/ UNCHANGED <<Outcome, session>>
      BY DEF Contract!vars
    <2> USE DEF IInv
    <2>1. ASSUME NEW i \in Initiator, Start(i)
          PROVE  UNCHANGED <<Outcome, session>>
      BY <2>1 DEF Start, Outcome, TypeOK
    <2>2. ASSUME NEW m \in air, NEW r \in Responder, ReceiveOffer(r, m)
          PROVE  Contract!Next
      <3>1. PICK i \in Initiator : m = Offer(i)
        BY <2>2 DEF ReceiveOffer, Accepts, OffersSent
      <3>2. RoomOf[i] = RoomOf[r] /\ m.nonce = NonceOf[i]
        BY <2>2, <3>1 DEF ReceiveOffer, Accepts, SameRoom, Offer
      <3>3. Outcome[r] = "pending" /\ session[r] = None
        BY <2>2 DEF ReceiveOffer, Accepts, SessionDerived, Outcome
      <3>4. session' = [session EXCEPT ![r] = Contract!SessionOf(r, i)]
        BY <2>2, <3>2 DEF ReceiveOffer, Bind, Derive, Contract!SessionOf
      <3>5. UNCHANGED Outcome
        BY <2>2 DEF ReceiveOffer, Accepts, Bind, Outcome, TypeOK
      <3>6. Contract!Commit(r, i)
        BY <3>2, <3>3, <3>4, <3>5 DEF Contract!Commit
      <3>7. QED BY <3>6 DEF Contract!Next
    <2>3. ASSUME NEW m \in air, NEW i \in Initiator, ReceiveAnswer(i, m)
          PROVE  Contract!Next
      <3>1. PICK r \in Responder : m = Answer(r) /\ session[r] # None
        BY <2>3 DEF ReceiveAnswer, Accepts, AnswersSent
      <3>2. RoomOf[i] = RoomOf[r] /\ m.nonce = NonceOf[r]
        BY <2>3, <3>1 DEF ReceiveAnswer, Accepts, SameRoom, Answer
      <3>3. Outcome[i] = "pending" /\ session[i] = None
        BY <2>3 DEF ReceiveAnswer, Accepts, SessionDerived, Outcome
      <3>4. session' = [session EXCEPT ![i] = Contract!SessionOf(i, r)]
        BY <2>3, <3>2 DEF ReceiveAnswer, Bind, Derive, Contract!SessionOf
      <3>5. Outcome' = [Outcome EXCEPT ![i] = "paired"]
        BY <2>3 DEF ReceiveAnswer, Bind, Outcome, TypeOK
      <3>6. Contract!PairInitiator(i, r)
        BY <3>1, <3>2, <3>3, <3>4, <3>5 DEF Contract!PairInitiator
      <3>7. QED BY <3>6 DEF Contract!Next
    <2>4. ASSUME NEW m \in air, NEW r \in Responder, ReceiveConfirm(r, m)
          PROVE  Contract!Next
      <3>1. PICK i \in Initiator : m = Confirm(i, session[i])
        BY <2>4 DEF ReceiveConfirm, Accepts, ConfirmsSent
      <3>2. session[i] = session[r] /\ session[r] # None
        BY <2>4, <3>1 DEF ReceiveConfirm, Accepts, SessionMatches, Confirm, SessionDerived
      <3>3. Outcome[r] = "pending"
        BY <2>4 DEF ReceiveConfirm, Accepts, Outcome
      <3>4. Outcome' = [Outcome EXCEPT ![r] = "paired"]
        BY <2>4 DEF ReceiveConfirm, Outcome, TypeOK
      <3>5. Contract!PairResponder(r, i)
        BY <2>4, <3>2, <3>3, <3>4 DEF Contract!PairResponder, ReceiveConfirm
      <3>6. QED BY <3>5 DEF Contract!Next
    <2>5. ASSUME NEW e \in Endpoint, Fail(e) PROVE Contract!Next
      <3>1. Outcome' = [Outcome EXCEPT ![e] = "failed"]
        BY <2>5 DEF Fail, Outcome, TypeOK
      <3>2. Contract!Fail(e)
        BY <2>5, <3>1 DEF Fail, Contract!Fail
      <3>3. QED BY <3>2 DEF Contract!Next, Contract!Endpoint
    <2>6. ASSUME UNCHANGED vars PROVE UNCHANGED <<Outcome, session>>
      BY <2>6 DEF vars, Outcome
    <2> QED
      BY <2>1, <2>2, <2>3, <2>4, <2>5, <2>6 DEF Next, ReceiveOtherConfirm, ReceiveOtherRoom
  <1> QED BY <1>1, <1>2, Invariance, PTL DEF Spec, ContractSpec, Contract!Spec

------------------------------------------------------------------------------
(***************************************************************************)
(* The loopback bus.  Every step of the bus is a step of the free air, so what  *)
(* is shown above of the air holds on the bus; what the bus adds is the stack:   *)
(* an offer, in it an answer, in it a confirm.                                *)
(***************************************************************************)

(***************************************************************************)
(* The stack of calls.                                                       *)
(***************************************************************************)
Frame == [msg : Message, from : {ChanOf[e] : e \in Endpoint},
          next : Nat, at : Endpoint \cup {None}]

\* The message at each depth.
Kind == <<"offer", "answer", "confirm">>

Depth == Len(calls)

StackOK ==
  /\ log \in Seq(Endpoint) /\ live \subseteq ToSet(log)
  /\ calls \in Seq(Frame)
  /\ \A k \in 1 .. Depth : calls[k].msg \in air /\ calls[k].next \in 1 .. Len(log) + 1
  /\ Depth <= 3
  /\ \A k \in 1 .. Depth : calls[k].msg.type = Kind[k]

------------------------------------------------------------------------------
\* The first n of a sequence.
LEMMA Prefix ==
  ASSUME NEW S, NEW s \in Seq(S), NEW n \in Nat, n <= Len(s)
  PROVE  /\ SubSeq(s, 1, n) \in Seq(S) /\ Len(SubSeq(s, 1, n)) = n
         /\ \A k \in 1 .. n : SubSeq(s, 1, n)[k] = s[k]
  BY SMT

\* What is joined to a sequence leaves its places as they were.
LEMMA FirstPart ==
  ASSUME NEW t, NEW f, NEW g, NEW n \in Nat, NEW d \in Nat,
         \A i \in 1 .. n + d : t[i] = IF i <= n THEN f[i] ELSE g[i - n]
  PROVE  /\ \A k \in 1 .. n : t[k] = f[k]
         /\ \A k \in 1 .. d : t[n + k] = g[k]
PROOF
  <1>1. ASSUME NEW k \in 1 .. n PROVE t[k] = f[k]
    OBVIOUS
  <1>2. ASSUME NEW k \in 1 .. d PROVE t[n + k] = g[k]
    <2>1. n + k \in 1 .. n + d /\ ~(n + k <= n) /\ (n + k) - n = k
      OBVIOUS
    <2> QED BY <2>1
  <1> QED BY <1>1, <1>2

\* A stack that is not empty.
LEMMA NotEmpty ==
  ASSUME NEW S, NEW s \in Seq(S), s # <<>>
  PROVE  \E n \in Nat : Len(s) = n + 1
PROOF
  <1>1. Len(s) \in Nat /\ Len(s) >= 1
    BY EmptySeq, LenProperties
  <1>2. Len(s) - 1 \in Nat /\ Len(s) = (Len(s) - 1) + 1
    BY <1>1
  <1> QED BY <1>2

\* The top of a stack and what is below it.
LEMMA Top ==
  ASSUME NEW S, NEW s \in Seq(S), NEW n \in Nat, Len(s) = n + 1
  PROVE  /\ Last(s) = s[n + 1] /\ Last(s) \in S
         /\ Front(s) \in Seq(S) /\ Len(Front(s)) = n
         /\ \A k \in 1 .. n : Front(s)[k] = s[k]
PROOF
  <1>1. \A k \in 1 .. n + 1 : s[k] \in S
    BY LenProperties
  <1>2. Front(s) = SubSeq(s, 1, n)
    <2>1. Len(s) - 1 = n
      OBVIOUS
    <2> QED BY <2>1, Zenon DEF Front
  <1>3. Last(s) = s[n + 1] /\ Last(s) \in S
    BY <1>1 DEF Last
  <1> QED BY <1>2, <1>3, Prefix, n <= Len(s)

\* t is s, a stack of n + 1, with x for its top.
ReplacedOn(t, s, S, n, x) ==
  /\ t \in Seq(S) /\ Len(t) = n + 1 /\ t[n + 1] = x
  /\ \A k \in 1 .. n : t[k] = s[k]

LEMMA Replaced ==
  ASSUME NEW S, NEW s \in Seq(S), NEW n \in Nat, Len(s) = n + 1, NEW x \in S
  PROVE  ReplacedOn(Front(s) \o <<x>>, s, S, n, x)
PROOF
  <1>1. <<x>> \in Seq(S) /\ Len(<<x>>) = 1 /\ <<x>>[1] = x
    OBVIOUS
  <1>2. Front(s) \in Seq(S) /\ Len(Front(s)) = n /\ \A k \in 1 .. n : Front(s)[k] = s[k]
    BY Top
  <1> DEFINE t == Front(s) \o <<x>>
  <1>3. /\ t \in Seq(S) /\ Len(t) = n + 1
        /\ \A i \in 1 .. n + 1 : t[i] = IF i <= n THEN Front(s)[i] ELSE <<x>>[i - n]
    BY <1>1, <1>2, ConcatProperties
  <1> HIDE DEF t
  <1>4. /\ \A k \in 1 .. n : t[k] = Front(s)[k]
        /\ t[n + 1] = <<x>>[1]
    BY <1>3, FirstPart, 1 \in Nat, 1 \in 1 .. 1
  <1> QED BY <1>1, <1>2, <1>3, <1>4 DEF t, ReplacedOn

\* t is s, a stack of n + 1, with x for its top and y pushed on it.
PushedOn(t, s, S, n, x, y) ==
  /\ t \in Seq(S) /\ Len(t) = n + 2 /\ t[n + 1] = x /\ t[n + 2] = y
  /\ \A k \in 1 .. n : t[k] = s[k]

LEMMA Pushed ==
  ASSUME NEW S, NEW s \in Seq(S), NEW n \in Nat, Len(s) = n + 1, NEW x \in S, NEW y \in S
  PROVE  PushedOn(Front(s) \o <<x, y>>, s, S, n, x, y)
PROOF
  <1>1. /\ <<x, y>> \in Seq(S) /\ Len(<<x, y>>) = 2
        /\ <<x, y>>[1] = x /\ <<x, y>>[2] = y
    OBVIOUS
  <1>2. Front(s) \in Seq(S) /\ Len(Front(s)) = n /\ \A k \in 1 .. n : Front(s)[k] = s[k]
    BY Top
  <1> DEFINE t == Front(s) \o <<x, y>>
  <1>3. /\ t \in Seq(S) /\ Len(t) = n + 2
        /\ \A i \in 1 .. n + 2 : t[i] = IF i <= n THEN Front(s)[i] ELSE <<x, y>>[i - n]
    BY <1>1, <1>2, ConcatProperties
  <1> HIDE DEF t
  <1>4. /\ \A k \in 1 .. n : t[k] = Front(s)[k]
        /\ \A k \in 1 .. 2 : t[n + k] = <<x, y>>[k]
    BY <1>3, FirstPart, 2 \in Nat
  <1>5. t[n + 1] = x /\ t[n + 2] = y
    BY <1>1, <1>4, 1 \in 1 .. 2, 2 \in 1 .. 2
  <1> QED BY <1>2, <1>3, <1>4, <1>5 DEF t, PushedOn

------------------------------------------------------------------------------
(***************************************************************************)
(* The stack is kept in order.                                               *)
(***************************************************************************)
LEMMA Kinds == Kind[1] = "offer" /\ Kind[2] = "answer" /\ Kind[3] = "confirm"
  BY DEF Kind

\* The innermost call.
LEMMA RunningCall ==
  ASSUME StackOK, ~Quiet
  PROVE  \E n \in {0, 1, 2} :
           /\ Depth = n + 1
           /\ Running = calls[n + 1] /\ Running \in Frame
           /\ Running.msg \in air /\ Running.msg.type = Kind[n + 1]
           /\ Running.next \in Nat /\ Running.next >= 1
PROOF
  <1>1. PICK n \in Nat : Len(calls) = n + 1
    BY NotEmpty DEF StackOK, Quiet
  <1>2. n \in {0, 1, 2} /\ n + 1 \in 1 .. Depth
    BY <1>1 DEF StackOK, Depth
  <1>3. Running = calls[n + 1] /\ Running \in Frame
    BY <1>1, Top DEF StackOK, Running
  <1> QED BY <1>1, <1>2, <1>3 DEF StackOK, Depth

\* A subscriber that is visited is an endpoint.
LEMMA Visited ==
  ASSUME StackOK, NEW e \in Endpoint, Visits(e)
  PROVE  /\ ~Quiet
         /\ Running.next + 1 \in 1 .. Len(log) + 1
PROOF
  <1>1. ~Quiet /\ Running.next <= Len(log)
    BY DEF Visits
  <1>2. Running.next \in Nat /\ Running.next >= 1 /\ Len(log) \in Nat
    BY <1>1, RunningCall, LenProperties DEF StackOK
  <1> QED BY <1>1, <1>2

\* The innermost call moves on.
LEMMA MovedOK ==
  ASSUME NEW x \in Endpoint \cup {None}, Running \in Frame
  PROVE  /\ Moved(x) \in Frame
         /\ Moved(x).next = Running.next + 1 /\ Moved(x).at = x
         /\ Moved(x).msg = Running.msg /\ Moved(x).from = Running.from
PROOF
  <1> DEFINE A == Endpoint \cup {None}
             F == {ChanOf[e] : e \in Endpoint}
             u == [Running EXCEPT !.next = Running.next + 1]
             t == [u EXCEPT !.at = x]
  <1> HIDE DEF A, F
  <1>1. x \in A /\ Running \in [msg : Message, from : F, next : Nat, at : A]
    BY DEF Frame, A, F
  <1>2. /\ u \in [msg : Message, from : F, next : Nat, at : A]
        /\ u.next = Running.next + 1 /\ u.msg = Running.msg /\ u.from = Running.from
    BY <1>1
  <1> HIDE DEF u
  <1>3. /\ t \in [msg : Message, from : F, next : Nat, at : A]
        /\ t.next = u.next /\ t.at = x /\ t.msg = u.msg /\ t.from = u.from
    BY <1>1, <1>2
  <1>4. Moved(x) = t
    BY DEF Moved, u
  <1> HIDE DEF t
  <1> QED BY <1>2, <1>3, <1>4 DEF Frame, A, F

\* What a step does to the call at the top, one of n + 1: it moves on, or it moves
\* on and m is published inside it.
TurnedAt(n, x) ==
  /\ Depth = n + 1 /\ Depth' = n + 1 /\ calls' \in Seq(Frame)
  /\ Running = calls[n + 1] /\ Running \in Frame
  /\ Running.msg \in air /\ Running.msg.type = Kind[n + 1]
  /\ calls'[n + 1].msg = Running.msg /\ calls'[n + 1].from = Running.from
  /\ calls'[n + 1].next = Running.next + 1 /\ calls'[n + 1].at = x
  /\ \A k \in 1 .. n : calls'[k] = calls[k]

PushedAt(n, e, m) ==
  /\ Depth = n + 1 /\ Depth' = n + 2 /\ calls' \in Seq(Frame)
  /\ Running = calls[n + 1] /\ Running \in Frame
  /\ Running.msg \in air /\ Running.msg.type = Kind[n + 1]
  /\ m.type = Kind[n + 2]
  /\ calls'[n + 1].msg = Running.msg /\ calls'[n + 1].from = Running.from
  /\ calls'[n + 1].next = Running.next + 1 /\ calls'[n + 1].at = e
  /\ calls'[n + 2].msg = m /\ calls'[n + 2].from = ChanOf[e]
  /\ calls'[n + 2].next = 1 /\ calls'[n + 2].at = None
  /\ \A k \in 1 .. n : calls'[k] = calls[k]

\* What an endpoint sends.
LEMMA SentOK ==
  ASSUME NEW e \in Endpoint
  PROVE  /\ Offer(e) \in Message /\ Offer(e).type = "offer"
         /\ Answer(e) \in Message /\ Answer(e).type = "answer"
         /\ \A s \in Session : Confirm(e, s) \in Message /\ Confirm(e, s).type = "confirm"
PROOF
  <1>1. RoomOf[e] \in Room /\ NonceOf[e] \in Nonce /\ VersionOf[e] \in Version
    BY EndpointAssumption
  <1>2. Offer(e) \in Message /\ Offer(e).type = "offer"
    BY <1>1 DEF Offer, Message
  <1>3. Answer(e) \in Message /\ Answer(e).type = "answer"
    BY <1>1 DEF Answer, Message
  <1>4. ASSUME NEW s \in Session PROVE Confirm(e, s) \in Message /\ Confirm(e, s).type = "confirm"
    BY <1>1 DEF Confirm, Message
  <1> QED BY <1>2, <1>3, <1>4

LEMMA NewCall ==
  ASSUME NEW e \in Endpoint, NEW m \in Message
  PROVE  /\ Call(m, e) \in Frame
         /\ Call(m, e).msg = m /\ Call(m, e).from = ChanOf[e]
         /\ Call(m, e).next = 1 /\ Call(m, e).at = None
PROOF
  <1> DEFINE A == Endpoint \cup {None}
             F == {ChanOf[d] : d \in Endpoint}
  <1>1. ChanOf[e] \in F /\ None \in A
    OBVIOUS
  <1> HIDE DEF A, F
  <1>2. [msg |-> m, from |-> ChanOf[e], next |-> 1, at |-> None]
          \in [msg : Message, from : F, next : Nat, at : A]
    BY <1>1
  <1> QED BY <1>2 DEF Call, Frame, A, F

LEMMA TurnCalls ==
  ASSUME StackOK, ~Quiet, NEW x \in Endpoint \cup {None},
         calls' = Front(calls) \o <<Moved(x)>>
  PROVE  \E n \in {0, 1, 2} : TurnedAt(n, x)
PROOF
  <1>1. PICK n \in {0, 1, 2} : /\ Depth = n + 1
                               /\ Running = calls[n + 1] /\ Running \in Frame
                               /\ Running.msg \in air /\ Running.msg.type = Kind[n + 1]
    BY RunningCall
  <1>2. /\ Moved(x) \in Frame
        /\ Moved(x).next = Running.next + 1 /\ Moved(x).at = x
        /\ Moved(x).msg = Running.msg /\ Moved(x).from = Running.from
    BY <1>1, MovedOK
  <1>3. /\ calls' \in Seq(Frame) /\ Depth' = n + 1
        /\ calls'[n + 1] = Moved(x)
        /\ \A k \in 1 .. n : calls'[k] = calls[k]
    <2>1. calls \in Seq(Frame) /\ Len(calls) = n + 1 /\ n \in Nat
      BY <1>1 DEF StackOK, Depth
    <2>2. Moved(x) \in Frame
      BY <1>2
    <2>3. ReplacedOn(calls', calls, Frame, n, Moved(x))
      BY ONLY <2>1, <2>2, calls' = Front(calls) \o <<Moved(x)>>, Replaced, Zenon
    <2> QED BY <2>3 DEF ReplacedOn, Depth
  <1> QED BY <1>1, <1>2, <1>3 DEF TurnedAt

LEMMA TurnStack ==
  ASSUME StackOK, NEW e \in Endpoint, Visits(e), NEW x \in Endpoint \cup {None},
         calls' = Front(calls) \o <<Moved(x)>>, UNCHANGED <<log, live>>, air \subseteq air'
  PROVE  StackOK'
PROOF
  <1>1. ~Quiet /\ Running.next + 1 \in 1 .. Len(log) + 1
    BY Visited
  <1>2. PICK n \in {0, 1, 2} : TurnedAt(n, x)
    BY <1>1, TurnCalls, Zenon
  <1> USE DEF TurnedAt
  <1>3. ASSUME NEW k \in 1 .. Depth'
        PROVE  /\ calls'[k].msg \in air' /\ calls'[k].next \in 1 .. Len(log') + 1
               /\ calls'[k].msg.type = Kind[k]
    <2>1. CASE k = n + 1
      BY <1>1, <1>2, <2>1
    <2>2. CASE k \in 1 .. n
      <3>1. k \in 1 .. Depth /\ calls'[k] = calls[k]
        BY <1>2, <2>2
      <3> QED BY <3>1 DEF StackOK
    <2>3. k = n + 1 \/ k \in 1 .. n
      BY <1>2
    <2> QED BY <2>1, <2>2, <2>3
  <1>4. Depth' <= 3
    BY <1>2
  <1> QED BY <1>2, <1>3, <1>4 DEF StackOK

\* A callback that sends pushes the message of the next depth.
LEMMA PushCalls ==
  ASSUME StackOK, ~Quiet, NEW e \in Endpoint, NEW m \in Message,
         calls' = Front(calls) \o <<Moved(e), Call(m, e)>>,
         \/ Running.msg.type = "offer" /\ m.type = "answer"
         \/ Running.msg.type = "answer" /\ m.type = "confirm"
  PROVE  \E n \in {0, 1} : PushedAt(n, e, m)
PROOF
  <1>1. PICK n \in {0, 1, 2} : /\ Depth = n + 1
                               /\ Running = calls[n + 1] /\ Running \in Frame
                               /\ Running.msg \in air /\ Running.msg.type = Kind[n + 1]
    BY RunningCall
  <1>2. /\ Moved(e) \in Frame
        /\ Moved(e).next = Running.next + 1 /\ Moved(e).at = e
        /\ Moved(e).msg = Running.msg /\ Moved(e).from = Running.from
    BY <1>1, MovedOK
  <1>3. /\ Call(m, e) \in Frame
        /\ Call(m, e).msg = m /\ Call(m, e).from = ChanOf[e]
        /\ Call(m, e).next = 1 /\ Call(m, e).at = None
    BY NewCall
  <1>4. n \in {0, 1} /\ m.type = Kind[n + 2]
    BY <1>1, Kinds
  <1>5. /\ calls' \in Seq(Frame) /\ Depth' = n + 2
        /\ calls'[n + 1] = Moved(e) /\ calls'[n + 2] = Call(m, e)
        /\ \A k \in 1 .. n : calls'[k] = calls[k]
    <2>1. calls \in Seq(Frame) /\ Len(calls) = n + 1 /\ n \in Nat
      BY <1>1 DEF StackOK, Depth
    <2>2. Moved(e) \in Frame /\ Call(m, e) \in Frame
      BY <1>2, <1>3
    <2>3. PushedOn(calls', calls, Frame, n, Moved(e), Call(m, e))
      BY ONLY <2>1, <2>2, calls' = Front(calls) \o <<Moved(e), Call(m, e)>>, Pushed, Zenon
    <2> QED BY <2>3 DEF PushedOn, Depth
  <1> QED BY <1>1, <1>2, <1>3, <1>4, <1>5 DEF PushedAt

LEMMA PushStack ==
  ASSUME StackOK, NEW e \in Endpoint, Visits(e), NEW m \in Message,
         calls' = Front(calls) \o <<Moved(e), Call(m, e)>>, UNCHANGED <<log, live>>,
         air' = air \cup {m},
         \/ Running.msg.type = "offer" /\ m.type = "answer"
         \/ Running.msg.type = "answer" /\ m.type = "confirm"
  PROVE  StackOK'
PROOF
  <1>1. ~Quiet /\ Running.next + 1 \in 1 .. Len(log) + 1
    BY Visited
  <1>2. PICK n \in {0, 1} : PushedAt(n, e, m)
    BY <1>1, PushCalls, Zenon
  <1> USE DEF PushedAt
  <1>3. ASSUME NEW k \in 1 .. Depth'
        PROVE  /\ calls'[k].msg \in air' /\ calls'[k].next \in 1 .. Len(log') + 1
               /\ calls'[k].msg.type = Kind[k]
    <2>1. CASE k = n + 1
      BY <1>1, <1>2, <2>1
    <2>2. CASE k \in 1 .. n
      <3>1. k \in 1 .. Depth /\ calls'[k] = calls[k]
        BY <1>2, <2>2
      <3> QED BY <3>1 DEF StackOK
    <2>3. CASE k = n + 2
      <3>1. Len(log) \in Nat
        BY LenProperties DEF StackOK
      <3>2. 1 \in 1 .. Len(log) + 1
        BY <3>1
      <3> QED BY <1>2, <2>3, <3>2
    <2>4. k = n + 1 \/ k \in 1 .. n \/ k = n + 2
      BY <1>2
    <2> QED BY <2>1, <2>2, <2>3, <2>4
  <1>4. Depth' <= 3
    BY <1>2
  <1> QED BY <1>2, <1>3, <1>4 DEF StackOK

LEMMA ReturnStack ==
  ASSUME StackOK, Return
  PROVE  StackOK'
PROOF
  <1>1. ~Quiet /\ calls' = Front(calls) /\ UNCHANGED <<log, live, air>>
    BY DEF Return, vars
  <1>2. PICK n \in {0, 1, 2} : Depth = n + 1
    BY <1>1, RunningCall
  <1>3. calls' \in Seq(Frame) /\ Depth' = n /\ \A k \in 1 .. n : calls'[k] = calls[k]
    <2>1. calls \in Seq(Frame) /\ Len(calls) = n + 1 /\ n \in Nat
      BY <1>2 DEF StackOK, Depth
    <2> QED BY ONLY <2>1, <1>1, Top DEF Depth
  <1>4. \A k \in 1 .. n : k \in 1 .. Depth
    BY <1>2
  <1>5. Depth' <= 3
    BY <1>3
  <1> QED BY <1>1, <1>3, <1>4, <1>5 DEF StackOK

\* start() is called at top level: its offer is alone on the stack.
LEMMA StartStack ==
  ASSUME IInv, StackOK, NEW i \in Initiator, StartOnBus(i)
  PROVE  StackOK'
PROOF
  <1>0. i \in Endpoint
    BY DEF Endpoint
  <1>1. Offer(i) \in Message /\ Offer(i).type = "offer"
    BY ONLY <1>0, SentOK, Zenon
  <1>2. /\ Call(Offer(i), i) \in Frame
        /\ Call(Offer(i), i).msg = Offer(i) /\ Call(Offer(i), i).next = 1
    BY ONLY <1>0, <1>1, NewCall, Zenon
  <1>3. Offer(i) \in air' /\ calls' = <<Call(Offer(i), i)>> /\ UNCHANGED <<log, live>>
    BY DEF StartOnBus, Start
  <1>4. /\ calls' \in Seq(Frame) /\ Depth' = 1
        /\ calls'[1] = Call(Offer(i), i)
    <2> DEFINE c == Call(Offer(i), i)
    <2>1. c \in Frame
      BY <1>2
    <2> HIDE DEF c
    <2>2. calls' = <<c>>
      BY <1>3 DEF c
    <2>3. calls' \in Seq(Frame) /\ Len(calls') = 1 /\ calls'[1] = c
      BY ONLY <2>1, <2>2
    <2> QED BY <2>3 DEF Depth, c
  <1>5. Len(log) \in Nat
    BY LenProperties DEF StackOK
  <1>6. \A k \in 1 .. Depth' : /\ calls'[k].msg \in air' /\ calls'[k].next \in 1 .. Len(log') + 1
                               /\ calls'[k].msg.type = Kind[k]
    BY <1>1, <1>2, <1>3, <1>4, <1>5, Kinds
  <1> QED BY <1>3, <1>4, <1>6 DEF StackOK

\* Subscribing appends an entry, unsubscribing deletes one.
LEMMA SubscribersOK ==
  ASSUME StackOK, NEW e \in Endpoint, Attach(e) \/ Detach(e)
  PROVE  StackOK'
PROOF
  <1>1. calls' = calls /\ air' = air /\ Len(log) \in Nat
    BY LenProperties DEF Attach, Detach, vars, StackOK
  <1>2. CASE Attach(e)
    <2>1. /\ log' \in Seq(Endpoint) /\ Len(log') = Len(log) + 1
          /\ log'[Len(log) + 1] = e /\ \A k \in 1 .. Len(log) : log'[k] = log[k]
      BY <1>1, <1>2, AppendProperties DEF Attach, StackOK
    <2>2. live' \subseteq ToSet(log')
      <3>1. DOMAIN log = 1 .. Len(log) /\ DOMAIN log' = 1 .. Len(log) + 1
        BY <1>1, <2>1, LenProperties DEF StackOK
      <3>2. \A d \in ToSet(log) : d \in ToSet(log')
        BY <1>1, <2>1, <3>1 DEF ToSet
      <3>3. e \in ToSet(log')
        BY <1>1, <2>1, <3>1 DEF ToSet
      <3> QED BY <1>2, <3>2, <3>3 DEF Attach, StackOK
    <2>3. \A k : k \in 1 .. Len(log) + 1 => k \in 1 .. Len(log') + 1
      BY <1>1, <2>1
    <2> QED BY <1>1, <2>1, <2>2, <2>3 DEF StackOK, Depth
  <1>3. CASE Detach(e)
    BY <1>1, <1>3 DEF Detach, StackOK, Depth
  <1> QED BY <1>2, <1>3

------------------------------------------------------------------------------
(***************************************************************************)
(* The bus implements the air.                                               *)
(***************************************************************************)
LEMMA Roles ==
  /\ \A e \in Initiator : e \in Endpoint
  /\ \A e \in Responder : e \in Endpoint
  BY DEF Endpoint

\* What is published is on the air, so hearing it is receiving it.
LEMMA HearingReceives ==
  ASSUME StackOK, NEW e \in Endpoint, HearAndReply(e) \/ HearOnly(e)
  PROVE  [Next]_vars
PROOF
  <1>1. Running.msg \in air
    BY RunningCall DEF HearAndReply, HearOnly, Visits
  <1>2. CASE HearAndReply(e)
    BY <1>1, <1>2 DEF HearAndReply, Next
  <1>3. CASE HearOnly(e)
    BY <1>1, <1>3 DEF HearOnly, Next
  <1> QED BY <1>2, <1>3

\* Every step of the bus is a step of the air or leaves it alone.
LEMMA BusStep ==
  ASSUME StackOK, [LoopNext]_allVars
  PROVE  [Next]_vars
PROOF
  <1>1. ASSUME NEW e \in Endpoint, HearAndReply(e) \/ HearOnly(e) PROVE [Next]_vars
    BY <1>1, HearingReceives
  <1>2. ASSUME NEW e \in Endpoint, Skip(e) \/ Attach(e) \/ Detach(e) PROVE UNCHANGED vars
    BY <1>2 DEF Skip, Attach, Detach
  <1>3. ASSUME NEW i \in Initiator, StartOnBus(i) PROVE Next
    BY <1>3 DEF StartOnBus, Next
  <1>4. CASE Return
    BY <1>4 DEF Return
  <1>5. CASE UNCHANGED allVars
    BY <1>5 DEF allVars, vars
  <1> QED BY <1>1, <1>2, <1>3, <1>4, <1>5 DEF LoopNext, Run

\* A callback that sends answers an offer or confirms an answer.
LEMMA ReplyKinds ==
  ASSUME IInv, IInv', StackOK, NEW e \in Endpoint, HearAndReply(e)
  PROVE  \E m \in Message :
           /\ calls' = Front(calls) \o <<Moved(e), Call(m, e)>>
           /\ air' = air \cup {m}
           /\ \/ /\ Running.msg.type = "offer" /\ m = Answer(e) /\ m.type = "answer"
                 /\ e \in Responder /\ ReceiveOffer(e, Running.msg)
              \/ /\ Running.msg.type = "answer" /\ m = Confirm(e, session'[e])
                 /\ m.type = "confirm"
                 /\ e \in Initiator /\ ReceiveAnswer(e, Running.msg)
PROOF
  <1>1. CASE /\ e \in Responder /\ ReceiveOffer(e, Running.msg)
             /\ calls' = Front(calls) \o <<Moved(e), Call(Answer(e), e)>>
    <2>1. Answer(e) \in Message /\ Answer(e).type = "answer"
      BY SentOK
    <2>2. Running.msg.type = "offer" /\ air' = air \cup {Answer(e)}
      BY <1>1 DEF ReceiveOffer, Accepts
    <2> QED BY <1>1, <2>1, <2>2
  <1>2. CASE /\ e \in Initiator /\ ReceiveAnswer(e, Running.msg)
             /\ calls' = Front(calls) \o <<Moved(e), Call(Confirm(e, session'[e]), e)>>
    <2>1. /\ Running.msg.type = "answer" /\ air' = air \cup {Confirm(e, session'[e])}
          /\ state' = [state EXCEPT ![e] = "paired"]
      BY <1>2 DEF ReceiveAnswer, Accepts, Bind
    <2>2. state'[e] = "paired"
      BY <2>1 DEF IInv, TypeOK
    <2>3. session'[e] \in Session
      BY <2>2 DEF IInv, SessionDerived, TypeOK
    <2>4. Confirm(e, session'[e]) \in Message /\ Confirm(e, session'[e]).type = "confirm"
      BY <2>3, SentOK
    <2> QED BY <1>2, <2>1, <2>4
  <1> QED BY <1>1, <1>2 DEF HearAndReply

LEMMA StackNext ==
  ASSUME IInv, IInv', StackOK, [LoopNext]_allVars
  PROVE  StackOK'
PROOF
  <1>1. ASSUME NEW e \in Endpoint, HearAndReply(e) PROVE StackOK'
    <2>1. PICK m \in Message :
             /\ calls' = Front(calls) \o <<Moved(e), Call(m, e)>>
             /\ air' = air \cup {m}
             /\ \/ Running.msg.type = "offer" /\ m.type = "answer"
                \/ Running.msg.type = "answer" /\ m.type = "confirm"
      BY <1>1, ReplyKinds
    <2>2. Visits(e) /\ UNCHANGED <<log, live>>
      BY <1>1 DEF HearAndReply
    <2> QED BY <2>1, <2>2, PushStack
  <1>2. ASSUME NEW e \in Endpoint, HearOnly(e) PROVE StackOK'
    <2>1. /\ Visits(e) /\ UNCHANGED <<log, live>> /\ air' = air
          /\ calls' = Front(calls) \o <<Moved(e)>>
      BY <1>2 DEF HearOnly, ReceiveConfirm, ReceiveOtherConfirm, ReceiveOtherRoom, Fail, vars
    <2> QED BY <2>1, TurnStack
  <1>3. ASSUME NEW e \in Endpoint, Skip(e) PROVE StackOK'
    <2>1. /\ Visits(e) /\ UNCHANGED <<log, live>> /\ air' = air
          /\ calls' = Front(calls) \o <<Moved(None)>>
      BY <1>3 DEF Skip, vars
    <2> QED BY <2>1, TurnStack
  <1>4. ASSUME NEW e \in Endpoint, Attach(e) \/ Detach(e) PROVE StackOK'
    BY <1>4, SubscribersOK
  <1>5. ASSUME NEW i \in Initiator, StartOnBus(i) PROVE StackOK'
    BY <1>5, StartStack
  <1>6. CASE Return
    BY <1>6, ReturnStack
  <1>7. CASE UNCHANGED allVars
    BY <1>7 DEF allVars, StackOK, Depth
  <1> QED BY <1>1, <1>2, <1>3, <1>4, <1>5, <1>6, <1>7 DEF LoopNext, Run

LEMMA StackInit == LoopInit => StackOK
PROOF
  <1> SUFFICES ASSUME LoopInit PROVE StackOK
    OBVIOUS
  <1>1. log = <<>> /\ live = {} /\ calls = <<>>
    BY DEF LoopInit
  <1>2. log \in Seq(Endpoint) /\ calls \in Seq(Frame) /\ Len(calls) = 0
    BY <1>1
  <1> QED BY <1>1, <1>2 DEF StackOK, Depth

LEMMA BusInvariance == LoopSpec => [](IInv /\ StackOK)
PROOF
  <1>1. LoopInit => IInv /\ StackOK
    BY InitInv, StackInit DEF LoopInit
  <1>2. IInv /\ StackOK /\ [LoopNext]_allVars => (IInv /\ StackOK)'
    BY BusStep, NextInv, StackNext
  <1> QED BY <1>1, <1>2, PTL DEF LoopSpec

\* A run of the bus, with its callbacks inside publish(), is a run of the free
\* air: everything shown of the air holds of it.
THEOREM BusImplementsAir == LoopSpec => Spec
PROOF
  <1>1. LoopInit => Init
    BY DEF LoopInit
  <1>2. StackOK /\ [LoopNext]_allVars => [Next]_vars
    BY BusStep
  <1> QED BY <1>1, <1>2, BusInvariance, PTL DEF LoopSpec, Spec

\* The stack holds running calls, over subscribers that exist, of messages that
\* were sent, for any devices on any channels.
THEOREM LoopTypeCorrect == LoopSpec => []LoopTypeOK
PROOF
  <1>1. IInv /\ StackOK => LoopTypeOK
    <2> SUFFICES ASSUME IInv, StackOK PROVE LoopTypeOK
      OBVIOUS
    <2>1. ToSet(log) \subseteq Endpoint
      BY LenProperties DEF StackOK, ToSet
    <2>2. ASSUME NEW k \in 1 .. Len(calls) PROVE calls[k].at \in Endpoint \cup {None}
      <3>1. calls[k] \in Frame
        BY ElementOfSeq DEF StackOK
      <3> QED BY <3>1 DEF Frame
    <2> QED BY <2>1, <2>2 DEF StackOK, LoopTypeOK, IInv, Depth
  <1> QED BY <1>1, BusInvariance, PTL

\* However many devices answer each other, an offer, an answer and a confirm are
\* the deepest nesting of publish().
THEOREM ReentrancyBoundedHolds == LoopSpec => []ReentrancyBounded
PROOF
  <1>1. StackOK => ReentrancyBounded
    BY DEF StackOK, ReentrancyBounded, Depth
  <1> QED BY <1>1, BusInvariance, PTL

------------------------------------------------------------------------------
(***************************************************************************)
(* Why both sides are settled.  While an answer is published its sender is in  *)
(* the callback of the offer, so it is still subscribed when the confirm that  *)
(* answers it goes round, and the confirm goes round to the end.               *)
(***************************************************************************)

\* r answers, in its callback, the offer of i.
Answers(r, i) ==
  /\ calls[1].at = r
  /\ calls[1].msg = Offer(i)
  /\ calls[2].msg = Answer(r)
  /\ calls[2].from = ChanOf[r]
  /\ calls[2].at # r
  /\ RoomOf[r] = RoomOf[i] /\ VersionOf[r] = VersionOf[i]
  /\ session[r] # None /\ theirNonce[r] = NonceOf[i]
  /\ Alone(i) /\ session[i] = None => r \in live

AnswerCall == Depth >= 2 => \E r \in Responder, i \in Initiator : Answers(r, i)

\* A confirm is published by an initiator of the room of the offer.
ConfirmCall ==
  Depth >= 3 =>
    \E c \in Initiator : /\ session[c] # None
                         /\ RoomOf[c] = calls[1].msg.room
                         /\ VersionOf[c] = calls[1].msg.v

\* The confirm of i is on its way to r.
Waits(r, i) ==
  /\ Depth = 3
  /\ calls[3].msg = Confirm(i, session[i])
  /\ calls[3].from = ChanOf[i]
  /\ ChanOf[r] # ChanOf[i]
  /\ r \in live
  /\ calls[3].at # r
  /\ \E k \in calls[3].next .. Len(log) : log[k] = r

Matched(r, i) ==
  /\ Partners(i, r)
  /\ session[r] = session[i]
  /\ VersionOf[r] = VersionOf[i]

Settles(r, i) ==
  \/ state[r] \in {"paired", "failed"}
  \/ state[r] = "answered" /\ Waits(r, i)

SettledInv ==
  \A i \in Initiator :
    Alone(i) /\ session[i] # None =>
      \E r \in Responder : Matched(r, i) /\ Settles(r, i)

CallsInv == AnswerCall /\ ConfirmCall /\ SettledInv

\* Nonces tell offers, and answers, apart.
LEMMA SendersKnown ==
  ASSUME NEW d \in Endpoint, NEW e \in Endpoint,
         Offer(d) = Offer(e) \/ Answer(d) = Answer(e)
  PROVE  d = e
PROOF
  <1>1. Offer(d).nonce = NonceOf[d] /\ Offer(e).nonce = NonceOf[e]
    BY DEF Offer
  <1>2. Answer(d).nonce = NonceOf[d] /\ Answer(e).nonce = NonceOf[e]
    BY DEF Answer
  <1> QED BY <1>1, <1>2, NonceAssumption

\* What no step of the handshake takes away.
LEMMA BoundOrKept ==
  ASSUME IInv, [Next]_vars, NEW e \in Endpoint
  PROVE  KeepsWhatItBound(e)
PROOF
  <1>1. CASE Next
    BY <1>1, KeepsBound
  <1>2. CASE UNCHANGED vars
    BY <1>2 DEF vars, KeepsWhatItBound
  <1> QED BY <1>1, <1>2

\* It is enough that no new initiator has a session and that whoever waited is
\* settled or waits still.
LEMMA SettledKept ==
  ASSUME IInv, IInv', SettledInv, [Next]_vars, NEW i \in Initiator, Alone(i), session[i] # None,
         \A r \in Responder : Matched(r, i) /\ state[r] = "answered" /\ Waits(r, i) =>
           \/ state'[r] \in {"paired", "failed"}
           \/ state'[r] = "answered" /\ Waits(r, i)'
  PROVE  \E r \in Responder : (Matched(r, i) /\ Settles(r, i))'
PROOF
  <1>1. PICK r \in Responder : Matched(r, i) /\ Settles(r, i)
    BY DEF SettledInv
  <1>2. session[r] # None
    BY <1>1 DEF Matched
  <1>3. /\ session'[i] = session[i] /\ theirNonce'[i] = theirNonce[i]
        /\ session'[r] = session[r] /\ theirNonce'[r] = theirNonce[r]
    BY <1>2, Roles, BoundOrKept DEF KeepsWhatItBound
  <1>4. Matched(r, i)'
    BY <1>1, <1>3 DEF Matched, Partners
  <1>5. state[r] \in {"paired", "failed"} => state'[r] \in {"paired", "failed"}
    BY Roles, BoundOrKept DEF KeepsWhatItBound
  <1>6. Settles(r, i)'
    BY <1>1, <1>5 DEF Settles
  <1> QED BY <1>4, <1>6

\* The invariant is one of a stack, and of what endpoints hold.
LEMMA CallsKept ==
  ASSUME CallsInv, UNCHANGED <<state, theirNonce, session, calls, log, live>>
  PROVE  CallsInv'
  BY DEF CallsInv, AnswerCall, ConfirmCall, SettledInv, Answers, Matched, Settles, Waits,
         Partners, Depth, Alone

\* Publishing inside nothing: only what was settled is left.
LEMMA CallsStart ==
  ASSUME IInv, IInv', CallsInv, StackOK, NEW i \in Initiator, StartOnBus(i)
  PROVE  CallsInv'
PROOF
  <1>1. Depth = 0 /\ Depth' = 1
    BY DEF StartOnBus, Quiet, Depth
  <1>2. session' = session /\ theirNonce' = theirNonce /\ Next
    BY DEF StartOnBus, Start, Next
  <1>3. AnswerCall' /\ ConfirmCall'
    BY <1>1 DEF AnswerCall, ConfirmCall
  <1>4. ASSUME NEW j \in Initiator, Alone(j), session'[j] # None
        PROVE  \E r \in Responder : (Matched(r, j) /\ Settles(r, j))'
    <2>1. \A r \in Responder : ~Waits(r, j)
      BY <1>1 DEF Waits
    <2> QED BY <1>2, <1>4, <2>1, SettledKept DEF CallsInv
  <1> QED BY <1>3, <1>4 DEF CallsInv, SettledInv, Alone

\* A subscriber that comes or goes is not one that is waited for.
LEMMA CallsSubscribers ==
  ASSUME IInv, IInv', CallsInv, StackOK, NEW e \in Endpoint, Attach(e) \/ Detach(e)
  PROVE  CallsInv'
PROOF
  <1>1. calls' = calls /\ Depth' = Depth /\ UNCHANGED vars /\ Len(log) \in Nat
    BY LenProperties DEF Attach, Detach, Depth, StackOK
  <1>2. /\ Attach(e) => live \subseteq live'
        /\ Detach(e) => live' = live \ {e} /\ log' = log /\ (Depth = 0 \/ Running.at = e)
    BY DEF Attach, Detach, InCallbackOf, Quiet, Depth
  <1>3. Depth \in Nat /\ Depth <= 3 /\ Running = calls[Depth]
    BY LenProperties DEF StackOK, Depth, Running, Last
  <1>4. AnswerCall'
    <2> SUFFICES ASSUME Depth >= 2 PROVE AnswerCall'
      BY <1>1 DEF AnswerCall
    <2>1. PICK r \in Responder, i \in Initiator : Answers(r, i)
      BY DEF CallsInv, AnswerCall
    <2>2. Alone(i) /\ session[i] = None => Depth = 2
      <3>1. SUFFICES ASSUME Alone(i), Depth = 3 PROVE session[i] # None
        BY <1>3
      <3>2. PICK c \in Initiator : /\ session[c] # None
                                   /\ RoomOf[c] = calls[1].msg.room
                                   /\ VersionOf[c] = calls[1].msg.v
        BY <3>1 DEF CallsInv, ConfirmCall
      <3>3. RoomOf[c] = RoomOf[i] /\ VersionOf[c] = VersionOf[i]
        BY <2>1, <3>2 DEF Answers, Offer
      <3> QED BY <3>1, <3>2, <3>3 DEF Alone
    <2>3. Alone(i) /\ session[i] = None => r \in live'
      <3> SUFFICES ASSUME Alone(i), session[i] = None PROVE r \in live'
        OBVIOUS
      <3>1. r \in live /\ Depth = 2 /\ calls[2].at # r
        BY <2>1, <2>2 DEF Answers
      <3> QED BY <1>2, <1>3, <3>1
    <2>4. Answers(r, i)'
      BY <1>1, <2>1, <2>3 DEF Answers, vars, Alone
    <2> QED BY <2>4 DEF AnswerCall
  <1>5. ConfirmCall'
    BY <1>1 DEF CallsInv, ConfirmCall, vars
  <1>6. ASSUME NEW i \in Initiator, Alone(i), session'[i] # None
        PROVE  \E r \in Responder : (Matched(r, i) /\ Settles(r, i))'
    <2>1. ASSUME NEW r \in Responder, Waits(r, i) PROVE Waits(r, i)'
      <3>1. r \in live'
        BY <1>2, <1>3, <2>1 DEF Waits
      <3>2. PICK k \in calls[3].next .. Len(log) : log[k] = r
        BY <2>1 DEF Waits
      <3>3. calls[3].next \in Nat /\ calls[3].next >= 1
        BY <2>1 DEF Waits, StackOK
      <3>4. k \in calls[3].next .. Len(log') /\ log'[k] = r
        <4>1. CASE Attach(e)
          <5>1. Len(log') = Len(log) + 1 /\ \A j \in 1 .. Len(log) : log'[j] = log[j]
            BY <4>1, AppendProperties DEF Attach, StackOK
          <5>2. k \in 1 .. Len(log) /\ k \in calls[3].next .. Len(log) + 1
            BY <1>1, <3>2, <3>3
          <5> QED BY <3>2, <5>1, <5>2
        <4>2. CASE Detach(e)
          BY <1>2, <3>2, <4>2
        <4> QED BY <4>1, <4>2
      <3> QED BY <1>1, <2>1, <3>1, <3>4 DEF Waits, vars
    <2> QED BY <1>1, <1>6, <2>1, SettledKept DEF CallsInv, vars
  <1> QED BY <1>4, <1>5, <1>6 DEF CallsInv, SettledInv, Alone

\* A call that returns has gone round.
LEMMA CallsReturn ==
  ASSUME IInv, IInv', CallsInv, StackOK, Return
  PROVE  CallsInv'
PROOF
  <1>1. ~Quiet /\ calls' = Front(calls) /\ UNCHANGED <<log, live>> /\ UNCHANGED vars
        /\ Running.next > Len(log)
    BY DEF Return
  <1>2. PICK n \in {0, 1, 2} : /\ Depth = n + 1 /\ Running = calls[n + 1]
                               /\ Running.next \in Nat
    BY <1>1, RunningCall
  <1>3. Depth' = n /\ \A k \in 1 .. n : calls'[k] = calls[k]
    <2>1. calls \in Seq(Frame) /\ Len(calls) = n + 1 /\ n \in Nat
      BY <1>2 DEF StackOK, Depth
    <2> QED BY ONLY <2>1, <1>1, Top DEF Depth
  <1>4. AnswerCall'
    <2> SUFFICES ASSUME n = 2 PROVE AnswerCall'
      BY <1>3 DEF AnswerCall
    <2>1. PICK r \in Responder, i \in Initiator : Answers(r, i)
      BY <1>2 DEF CallsInv, AnswerCall
    <2>2. calls'[1] = calls[1] /\ calls'[2] = calls[2]
      BY <1>3
    <2>3. Answers(r, i)'
      BY <1>1, <2>1, <2>2 DEF Answers, vars, Alone
    <2> QED BY <2>3 DEF AnswerCall
  <1>5. ConfirmCall'
    BY <1>3 DEF ConfirmCall
  <1>6. ASSUME NEW i \in Initiator, Alone(i), session'[i] # None
        PROVE  \E r \in Responder : (Matched(r, i) /\ Settles(r, i))'
    <2>1. \A r \in Responder : ~Waits(r, i)
      <3> SUFFICES ASSUME Depth = 3, NEW k \in calls[3].next .. Len(log) PROVE FALSE
        BY DEF Waits
      <3>1. Running = calls[3] /\ Running.next \in Nat /\ Len(log) \in Nat
        BY <1>2, LenProperties DEF StackOK
      <3> QED BY <1>1, <3>1
    <2> QED BY <1>1, <1>6, <2>1, SettledKept DEF CallsInv, vars
  <1> QED BY <1>4, <1>5, <1>6 DEF CallsInv, SettledInv, Alone

\* A callback that sends nothing changes a state at most, and its own.
LEMMA HearOnlyMoves ==
  ASSUME IInv, NEW e \in Endpoint, HearOnly(e)
  PROVE  /\ session' = session /\ theirNonce' = theirNonce
         /\ \A d \in Endpoint : d # e => state'[d] = state[d]
PROOF
  <1>1. CASE ReceiveConfirm(e, Running.msg) \/ ReceiveOtherConfirm(e, Running.msg)
               \/ ReceiveOtherRoom(e, Running.msg)
    BY <1>1 DEF ReceiveConfirm, ReceiveOtherConfirm, ReceiveOtherRoom, Fail, IInv, TypeOK
  <1>2. CASE UNCHANGED vars
    BY <1>2 DEF vars
  <1> QED BY <1>1, <1>2 DEF HearOnly

\* The confirm it waits for settles an answered responder.
LEMMA ConfirmSettles ==
  ASSUME IInv, NEW r \in Responder, NEW i \in Initiator, Matched(r, i), state[r] = "answered",
         HearOnly(r), Running.msg = Confirm(i, session[i])
  PROVE  state'[r] \in {"paired", "failed"}
PROOF
  <1>1. r \in Endpoint /\ state \in [Endpoint -> PairingState]
    BY Roles DEF IInv, TypeOK
  <1>2. /\ Running.msg.type = "confirm" /\ Running.msg.v = VersionOf[r]
        /\ Running.msg.room = RoomOf[r]
    BY DEF Confirm, Matched, Partners
  <1>3. Accepts(r, Running.msg, "confirm", "answered")
    BY <1>2 DEF Accepts, SameVersion, SameRoom
  <1>4. ~Ignored(r, Running.msg)
    BY <1>3 DEF Ignored, Accepts
  <1>5. CASE ReceiveConfirm(r, Running.msg)
    BY <1>1, <1>5 DEF ReceiveConfirm
  <1>6. CASE ReceiveOtherConfirm(r, Running.msg) \/ ReceiveOtherRoom(r, Running.msg)
    BY <1>1, <1>6 DEF ReceiveOtherConfirm, ReceiveOtherRoom, Fail
  <1> QED BY <1>4, <1>5, <1>6 DEF HearOnly

\* The innermost call moves on: past a deleted entry or its sender, or through a
\* callback that sends nothing.
LEMMA CallsTurn ==
  ASSUME IInv, IInv', CallsInv, StackOK, NEW e \in Endpoint, NEW x \in {e, None},
         x = e => HearOnly(e), x = None => Skip(e)
  PROVE  CallsInv'
PROOF
  <1>1. /\ Visits(e) /\ ~Quiet /\ UNCHANGED <<log, live>>
        /\ calls' = Front(calls) \o <<Moved(x)>>
        /\ x = e => Hears(e)
        /\ x = None => ~Hears(e)
    BY DEF HearOnly, Skip, Visits
  <1>2. /\ session' = session /\ theirNonce' = theirNonce
        /\ \A d \in Endpoint : d # x => state'[d] = state[d]
    <2>1. CASE x = e
      BY <2>1, HearOnlyMoves
    <2>2. CASE x = None
      BY <2>2, TopLevelAssumption DEF Skip, vars
    <2> QED BY <2>1, <2>2
  <1>3. PICK n \in {0, 1, 2} : TurnedAt(n, x)
    BY <1>1, TurnCalls
  <1>4. [Next]_vars
    <2>1. [LoopNext]_allVars
      BY DEF LoopNext, Run
    <2> QED BY <2>1, BusStep
  <1>5. AnswerCall'
    <2> SUFFICES ASSUME n >= 1 PROVE AnswerCall'
      BY <1>3 DEF AnswerCall, TurnedAt
    <2>1. PICK r \in Responder, i \in Initiator : Answers(r, i)
      BY <1>3 DEF CallsInv, AnswerCall, TurnedAt
    <2>2. calls'[1] = calls[1]
      BY <1>3 DEF TurnedAt
    <2>3. /\ calls'[2].msg = calls[2].msg /\ calls'[2].from = calls[2].from
          /\ calls'[2].at # r
      <3>1. CASE n = 1
        <4>1. Running = calls[2] /\ calls'[2].at = x
              /\ calls'[2].msg = calls[2].msg /\ calls'[2].from = calls[2].from
          BY <1>3, <3>1 DEF TurnedAt
        <4>2. x # r
          BY <1>1, <2>1, <4>1, Roles, TopLevelAssumption DEF Hears, Answers
        <4> QED BY <4>1, <4>2
      <3>2. CASE n = 2
        <4>1. calls'[2] = calls[2]
          BY <1>3, <3>2 DEF TurnedAt
        <4> QED BY <2>1, <4>1 DEF Answers
      <3> QED BY <3>1, <3>2
    <2>4. Answers(r, i)'
      BY <1>1, <1>2, <2>1, <2>2, <2>3 DEF Answers, Alone
    <2> QED BY <2>4 DEF AnswerCall
  <1>6. ConfirmCall'
    <2> SUFFICES ASSUME n = 2 PROVE ConfirmCall'
      BY <1>3 DEF ConfirmCall, TurnedAt
    <2>1. calls'[1] = calls[1] /\ Depth = 3
      BY <1>3 DEF TurnedAt
    <2> QED BY <1>2, <2>1 DEF CallsInv, ConfirmCall
  <1>7. ASSUME NEW i \in Initiator, Alone(i), session'[i] # None
        PROVE  \E r \in Responder : (Matched(r, i) /\ Settles(r, i))'
    <2>1. ASSUME NEW r \in Responder, Matched(r, i), state[r] = "answered", Waits(r, i)
          PROVE  \/ state'[r] \in {"paired", "failed"}
                 \/ state'[r] = "answered" /\ Waits(r, i)'
      <3>1. n = 2 /\ Running = calls[3] /\ r # None
        BY <1>3, <2>1, Roles, TopLevelAssumption DEF TurnedAt, Waits
      <3>2. CASE x = r
        <4>1. HearOnly(r) /\ Running.msg = Confirm(i, session[i])
          BY <2>1, <3>1, <3>2 DEF Waits
        <4> QED BY <2>1, <4>1, ConfirmSettles
      <3>3. CASE x # r
        <4>1. state'[r] = "answered"
          BY <1>2, <2>1, <3>3, Roles
        <4>2. e # r
          <5>1. Hears(r)
            BY <2>1, <3>1 DEF Waits, Hears
          <5> QED BY <1>1, <3>3, <5>1
        <4>3. PICK k \in Running.next .. Len(log) : log[k] = r
          BY <2>1, <3>1 DEF Waits
        <4>4. k # Running.next /\ Running.next \in Nat /\ Len(log) \in Nat
          BY <1>1, <4>2, <4>3, RunningCall, LenProperties DEF Visits, StackOK
        <4>5. k \in Running.next + 1 .. Len(log)
          BY <4>4
        <4>6. /\ Depth' = 3 /\ calls'[3].msg = calls[3].msg /\ calls'[3].from = calls[3].from
              /\ calls'[3].next = Running.next + 1 /\ calls'[3].at = x
          BY <1>3, <3>1 DEF TurnedAt
        <4>7. Waits(r, i)'
          BY <1>1, <1>2, <2>1, <3>3, <4>3, <4>5, <4>6 DEF Waits
        <4> QED BY <4>1, <4>7
      <3> QED BY <3>2, <3>3
    <2> QED BY <1>2, <1>4, <1>7, <2>1, SettledKept DEF CallsInv
  <1> QED BY <1>5, <1>6, <1>7 DEF CallsInv, SettledInv, Alone

\* An offer is answered inside its call.
LEMMA CallsAnswer ==
  ASSUME IInv, IInv', CallsInv, StackOK, NEW r \in Responder, HearAndReply(r),
         calls' = Front(calls) \o <<Moved(r), Call(Answer(r), r)>>,
         Running.msg.type = "offer", ReceiveOffer(r, Running.msg)
  PROVE  CallsInv'
PROOF
  <1>1. /\ Visits(r) /\ Hears(r) /\ ~Quiet /\ UNCHANGED <<log, live>> /\ r \in Endpoint
    BY Roles DEF HearAndReply, Visits
  <1>2. Answer(r) \in Message /\ Answer(r).type = "answer"
    BY <1>1, SentOK
  <1>3. PICK n \in {0, 1} : PushedAt(n, r, Answer(r))
    BY <1>1, <1>2, PushCalls
  <1>4. n = 0 /\ Depth = 1 /\ Depth' = 2
    BY <1>2, <1>3, Kinds DEF PushedAt
  <1>5. PICK i \in Initiator : Running.msg = Offer(i)
    BY <1>3 DEF PushedAt, IInv, OffersSent
  <1>6. /\ RoomOf[r] = RoomOf[i] /\ VersionOf[r] = VersionOf[i]
        /\ theirNonce'[r] = NonceOf[i] /\ state'[r] = "answered"
    BY <1>1, <1>5 DEF ReceiveOffer, Accepts, SameVersion, SameRoom, Offer, Bind, IInv, TypeOK
  <1>7. session'[r] # None
    BY <1>1, <1>6 DEF IInv, SessionDerived
  <1>8. Answers(r, i)'
    <2>1. /\ calls'[1].msg = Offer(i) /\ calls'[1].at = r
          /\ calls'[2].msg = Answer(r) /\ calls'[2].from = ChanOf[r]
          /\ calls'[2].at = None
      BY <1>3, <1>4, <1>5 DEF PushedAt
    <2> QED BY <1>1, <1>6, <1>7, <2>1, TopLevelAssumption DEF Answers, Hears
  <1>9. AnswerCall' /\ ConfirmCall'
    BY <1>4, <1>8 DEF AnswerCall, ConfirmCall
  <1>10. ASSUME NEW j \in Initiator, Alone(j), session'[j] # None
         PROVE  \E q \in Responder : (Matched(q, j) /\ Settles(q, j))'
    <2>1. \A q \in Responder : ~Waits(q, j)
      BY <1>4 DEF Waits
    <2>2. session[j] # None
      <3>1. j # r /\ j \in Endpoint
        BY Roles, RolesAssumption
      <3> QED BY <1>1, <1>10, <3>1, OneEndpointMoves DEF IInv
    <2>3. [Next]_vars
      BY <1>1, HearingReceives
    <2> QED BY <1>10, <2>1, <2>2, <2>3, SettledKept DEF CallsInv
  <1> QED BY <1>9, <1>10 DEF CallsInv, SettledInv, Alone

\* An answer is confirmed inside its call, to a responder that still listens.
LEMMA CallsConfirm ==
  ASSUME IInv, IInv', CallsInv, StackOK, NEW c \in Initiator, HearAndReply(c),
         NEW m \in Message, m = Confirm(c, session'[c]), m.type = "confirm",
         calls' = Front(calls) \o <<Moved(c), Call(m, c)>>,
         Running.msg.type = "answer", ReceiveAnswer(c, Running.msg)
  PROVE  CallsInv'
PROOF
  <1>1. /\ Visits(c) /\ Hears(c) /\ ~Quiet /\ UNCHANGED <<log, live>> /\ c \in Endpoint
    BY Roles DEF HearAndReply, Visits
  <1>2. PICK n \in {0, 1} : PushedAt(n, c, m)
    BY <1>1, PushCalls
  <1>3. n = 1 /\ Depth = 2 /\ Depth' = 3 /\ Running = calls[2] /\ calls'[1] = calls[1]
    BY <1>2, Kinds DEF PushedAt
  <1>4. /\ calls'[2].msg = calls[2].msg /\ calls'[2].from = calls[2].from
        /\ calls'[2].at = c
        /\ calls'[3].msg = m /\ calls'[3].from = ChanOf[c]
        /\ calls'[3].next = 1 /\ calls'[3].at = None
    BY <1>2, <1>3 DEF PushedAt
  <1>5. PICK r \in Responder, i \in Initiator : Answers(r, i)
    BY <1>3 DEF CallsInv, AnswerCall
  <1>6. r \in Endpoint /\ i \in Endpoint /\ r # c
    BY Roles, RolesAssumption
  <1>7. /\ session'[r] = session[r] /\ theirNonce'[r] = theirNonce[r] /\ state'[r] = state[r]
    BY <1>1, <1>6, OneEndpointMoves DEF IInv
  <1>8. /\ RoomOf[c] = RoomOf[r] /\ VersionOf[c] = VersionOf[r]
        /\ theirNonce'[c] = NonceOf[r]
        /\ session'[c] = Derive(RoomOf[c], NonceOf[c], NonceOf[r])
        /\ state'[c] = "paired" /\ session[c] = None
    <2>1. Running.msg = Answer(r)
      BY <1>3, <1>5 DEF Answers
    <2> QED BY <1>1, <2>1 DEF ReceiveAnswer, Accepts, SameVersion, SameRoom, Answer, Bind, IInv,
                 TypeOK, SessionDerived
  <1>9. session'[c] # None
    BY <1>1, <1>8 DEF IInv, SessionDerived
  <1>10. [Next]_vars
    BY <1>1, HearingReceives
  <1>11. AnswerCall'
    <2>1. Alone(i) /\ session'[i] = None => r \in live'
      <3>1. session'[i] = None => session[i] = None
        BY <1>6, <1>10, BoundOrKept DEF KeepsWhatItBound
      <3> QED BY <1>1, <1>5, <3>1 DEF Answers
    <2>2. Answers(r, i)'
      BY <1>3, <1>4, <1>5, <1>6, <1>7, <2>1 DEF Answers, Alone
    <2> QED BY <2>2 DEF AnswerCall
  <1>12. ConfirmCall'
    <2>1. RoomOf[c] = calls[1].msg.room /\ VersionOf[c] = calls[1].msg.v
      BY <1>5, <1>8 DEF Answers, Offer
    <2> QED BY <1>3, <1>9, <2>1 DEF ConfirmCall
  <1>13. ASSUME NEW j \in Initiator, Alone(j), session'[j] # None, j # c
         PROVE  \E q \in Responder : (Matched(q, j) /\ Settles(q, j))'
    <2>1. \A q \in Responder : ~Waits(q, j)
      BY <1>3 DEF Waits
    <2>2. session[j] # None
      BY <1>1, <1>13, Roles, OneEndpointMoves DEF IInv
    <2> QED BY <1>10, <1>13, <2>1, <2>2, SettledKept DEF CallsInv
  <1>14. ASSUME Alone(c) PROVE (Matched(r, c) /\ Settles(r, c))'
    <2>1. i = c
      BY <1>5, <1>8, <1>14 DEF Answers, Alone
    <2>2. Matched(r, c)'
      <3>1. session[r] = Derive(RoomOf[r], NonceOf[r], NonceOf[c])
        BY <1>5, <1>6, <2>1 DEF Answers, IInv, SessionDerived
      <3>2. session'[r] = session'[c]
        BY <1>7, <1>8, <3>1 DEF Derive
      <3> QED BY <1>5, <1>7, <1>8, <2>1, <3>2 DEF Matched, Partners, Answers
    <2>3. state[r] \in {"answered", "paired", "failed"}
      BY <1>5, <1>6 DEF Answers, IInv, RoleStates, SessionDerived
    <2>4. Waits(r, c)'
      <3>1. r \in live' /\ r \in live
        BY <1>1, <1>5, <1>8, <1>14, <2>1 DEF Answers
      <3>2. \E k \in 1 .. Len(log') : log'[k] = r
        <4>1. log \in Seq(Endpoint) /\ r \in ToSet(log)
          BY <3>1 DEF StackOK
        <4> QED BY <1>1, <4>1, LenProperties DEF ToSet
      <3>3. ChanOf[r] # ChanOf[c]
        BY <1>1, <1>3, <1>5 DEF Hears, Answers
      <3> QED BY <1>3, <1>4, <1>6, <3>1, <3>2, <3>3, TopLevelAssumption DEF Waits
    <2> QED BY <1>7, <2>2, <2>3, <2>4 DEF Settles
  <1> QED BY <1>11, <1>12, <1>13, <1>14 DEF CallsInv, SettledInv, Alone

LEMMA CallsNext ==
  ASSUME IInv, IInv', StackOK, CallsInv, [LoopNext]_allVars
  PROVE  CallsInv'
PROOF
  <1>1. ASSUME NEW e \in Endpoint, HearAndReply(e) PROVE CallsInv'
    BY <1>1, ReplyKinds, CallsAnswer, CallsConfirm
  <1>2. ASSUME NEW e \in Endpoint, HearOnly(e) PROVE CallsInv'
    BY <1>2, CallsTurn, TopLevelAssumption
  <1>3. ASSUME NEW e \in Endpoint, Skip(e) PROVE CallsInv'
    BY <1>3, CallsTurn, TopLevelAssumption
  <1>4. ASSUME NEW e \in Endpoint, Attach(e) \/ Detach(e) PROVE CallsInv'
    BY <1>4, CallsSubscribers
  <1>5. ASSUME NEW i \in Initiator, StartOnBus(i) PROVE CallsInv'
    BY <1>5, CallsStart
  <1>6. CASE Return
    BY <1>6, CallsReturn
  <1>7. CASE UNCHANGED allVars
    BY <1>7, CallsKept DEF allVars
  <1> QED BY <1>1, <1>2, <1>3, <1>4, <1>5, <1>6, <1>7 DEF LoopNext, Run

\* When publish() has returned to the top level, an initiator that has its room to
\* itself and holds a session has a responder that holds it too and does not wait
\* for the confirm, whoever subscribed and unsubscribed in the callbacks.
THEOREM SettledBothSidesHolds == LoopSpec => []SettledBothSides
PROOF
  <1>1. LoopInit => CallsInv
    BY DEF LoopInit, Init, CallsInv, AnswerCall, ConfirmCall, SettledInv, Depth, Endpoint
  <1>2. (IInv /\ StackOK /\ CallsInv) /\ (IInv /\ StackOK)' /\ [LoopNext]_allVars => CallsInv'
    BY CallsNext
  <1>3. CallsInv => SettledBothSides
    <2> SUFFICES ASSUME CallsInv, Quiet, NEW i \in Initiator, Alone(i), session[i] # None
                 PROVE  \E r \in Responder : /\ Partners(i, r)
                                             /\ session[r] = session[i]
                                             /\ state[r] \in {"paired", "failed"}
      BY DEF SettledBothSides
    <2>1. \A r \in Responder : ~Waits(r, i)
      BY DEF Waits, Quiet, Depth
    <2> QED BY <2>1 DEF CallsInv, SettledInv, Settles, Matched
  <1> QED BY <1>1, <1>2, <1>3, BusInvariance, PTL DEF LoopSpec

\* So what pairs on the air pairs on the bus, from inside whatever callback: who
\* is paired has a partner, nobody else has its session, and a failure has a
\* cause.
THEOREM PairingOnTheBus == LoopSpec => [](Agreement /\ SessionExclusive /\ FailureExplained)
  BY BusImplementsAir, AgreementHolds, SessionExclusiveHolds, FailureExplainedHolds, PTL

==============================================================================
