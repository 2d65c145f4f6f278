------------------------------- MODULE Pairing -------------------------------
(***************************************************************************)
(* The three-message pairing handshake of src/src/pairing.js: createPairing *)
(* with its start() and receive().  Any number of endpoints share one air   *)
(* in which a message may be lost, delayed, duplicated, reordered and heard *)
(* by everybody, its sender included: `air' is the set of all messages sent, *)
(* nothing obliges an endpoint to receive one and nothing stops it from      *)
(* receiving one twice.                                                      *)
(*                                                                           *)
(* A device that is restarted makes a new endpoint with a fresh nonce: it is *)
(* another element of Initiator or Responder whose first step comes later.   *)
(***************************************************************************)
EXTENDS Integers, FiniteSets

CONSTANTS
  Initiator,   \* endpoints created with role 'initiator'
  Responder,   \* endpoints created with role 'responder'
  Room,        \* normalised room codes
  Nonce,       \* values nonce() can return
  Version,     \* protocol versions of the builds in the field
  RoomOf,      \* RoomOf[e]: the room code e was created with
  NonceOf,     \* NonceOf[e]: the nonce e drew when it was created
  VersionOf,   \* VersionOf[e]: PAIRING_VERSION of the build e runs
  None         \* null

Endpoint == Initiator \cup Responder

Session == [room : Room, nonces : SUBSET Nonce]

ASSUME RolesAssumption == Initiator \cap Responder = {}

ASSUME EndpointAssumption ==
  /\ RoomOf \in [Endpoint -> Room]
  /\ NonceOf \in [Endpoint -> Nonce]
  /\ VersionOf \in [Endpoint -> Version]

\* randomNonce() draws 64 random bits: no two endpoints draw the same.
ASSUME NonceAssumption ==
  \A d, e \in Endpoint : NonceOf[d] = NonceOf[e] => d = e

ASSUME NoneAssumption == None \notin Nonce /\ None \notin Session

VARIABLES
  state,        \* PAIRING_STATE of every endpoint
  theirNonce,   \* the peer's nonce, or None
  session,      \* the session id in the closure, or None
  air           \* every message sent so far

vars == <<state, theirNonce, session, air>>

PairingState == {"idle", "offered", "answered", "paired", "failed"}

(***************************************************************************)
(* Messages.  An offer and an answer carry their sender's nonce, a confirm   *)
(* the session its sender derived; none of them names its addressee.         *)
(***************************************************************************)
Offer(e) ==
  [type |-> "offer", v |-> VersionOf[e], room |-> RoomOf[e], nonce |-> NonceOf[e]]

Answer(e) ==
  [type |-> "answer", v |-> VersionOf[e], room |-> RoomOf[e], nonce |-> NonceOf[e]]

\* Mutant: the confirm carries the sender's nonce where the session belongs.
ConfirmWithNonce(e, s) ==
  [type |-> "confirm", v |-> VersionOf[e], room |-> RoomOf[e], session |-> NonceOf[e]]

Confirm(e, s) ==
  [type |-> "confirm", v |-> VersionOf[e], room |-> RoomOf[e], session |-> s]

Message ==
  [type : {"offer", "answer"}, v : Version, room : Room, nonce : Nonce]
    \cup [type : {"confirm"}, v : Version, room : Room, session : Session]

\* Mutant: the session depends on the room alone.
DeriveRoomOnly(room, a, b) == [room |-> room, nonces |-> {}]

\* deriveSession sorts the two nonces, so the id is that of the set of them.
\* The CRC is idealised: different seeds give different ids.
Derive(room, a, b) == [room |-> room, nonces |-> {a, b}]

(***************************************************************************)
(* The guards of receive(), in the order the code evaluates them, each with   *)
(* the mutant in which it was forgotten.                                     *)
(***************************************************************************)
AnyVersion(e, m) == TRUE

SameVersion(e, m) == m.v = VersionOf[e]

AnyRoom(e, m) == TRUE

SameRoom(e, m) == m.room = RoomOf[e]

AcceptsInAnyState(e, m, type, from) ==
  /\ SameVersion(e, m)
  /\ SameRoom(e, m)
  /\ m.type = type

Accepts(e, m, type, from) ==
  /\ SameVersion(e, m)
  /\ SameRoom(e, m)
  /\ m.type = type
  /\ state[e] = from

AnySession(r, m) == TRUE

SessionMatches(r, m) == m.session = session[r]

Init ==
  /\ state = [e \in Endpoint |-> "idle"]
  /\ theirNonce = [e \in Endpoint |-> None]
  /\ session = [e \in Endpoint |-> None]
  /\ air = {}

\* start(): the opening message, once, by an initiator.
Start(i) ==
  /\ state[i] = "idle"
  /\ state' = [state EXCEPT ![i] = "offered"]
  /\ air' = air \cup {Offer(i)}
  /\ UNCHANGED <<theirNonce, session>>

\* The peer's nonce is taken from the message and the session derived from it.
Bind(e, m, to) ==
  /\ theirNonce' = [theirNonce EXCEPT ![e] = m.nonce]
  /\ session' = [session EXCEPT ![e] = Derive(RoomOf[e], NonceOf[e], m.nonce)]
  /\ state' = [state EXCEPT ![e] = to]

ReceiveOffer(r, m) ==
  /\ Accepts(r, m, "offer", "idle")
  /\ Bind(r, m, "answered")
  /\ air' = air \cup {Answer(r)}

ReceiveAnswer(i, m) ==
  /\ Accepts(i, m, "answer", "offered")
  /\ Bind(i, m, "paired")
  /\ air' = air \cup {Confirm(i, session'[i])}

\* fail(): only the state changes, the closure keeps session and theirNonce.
Fail(e) ==
  /\ state' = [state EXCEPT ![e] = "failed"]
  /\ UNCHANGED <<theirNonce, session, air>>

ReceiveConfirm(r, m) ==
  /\ Accepts(r, m, "confirm", "answered")
  /\ SessionMatches(r, m)
  /\ state' = [state EXCEPT ![r] = "paired"]
  /\ UNCHANGED <<theirNonce, session, air>>

ReceiveOtherConfirm(r, m) ==
  /\ Accepts(r, m, "confirm", "answered")
  /\ ~SessionMatches(r, m)
  /\ Fail(r)

\* The room is compared before the state is looked at: a message of another
\* room fails the endpoint whatever it was doing.
ReceiveOtherRoom(e, m) ==
  /\ SameVersion(e, m)
  /\ ~SameRoom(e, m)
  /\ Fail(e)

\* Every other message leaves the endpoint as it is: a stuttering step.
Ignored(e, m) ==
  \/ ~SameVersion(e, m)
  \/ /\ SameRoom(e, m)
     /\ ~ \/ e \in Responder /\ Accepts(e, m, "offer", "idle")
          \/ e \in Responder /\ Accepts(e, m, "confirm", "answered")
          \/ e \in Initiator /\ Accepts(e, m, "answer", "offered")

Next ==
  \/ \E i \in Initiator : Start(i)
  \/ \E m \in air :
       \/ \E r \in Responder :
            \/ ReceiveOffer(r, m)
            \/ ReceiveConfirm(r, m)
            \/ ReceiveOtherConfirm(r, m)
       \/ \E i \in Initiator : ReceiveAnswer(i, m)
       \/ \E e \in Endpoint : ReceiveOtherRoom(e, m)

Spec == Init /\ [][Next]_vars

------------------------------------------------------------------------------
(***************************************************************************)
(* Properties.                                                               *)
(***************************************************************************)

\* Every endpoint is in one of the five states, its session is one its own
\* room and nonce can produce, and only well-formed messages are on the air.
TypeOK ==
  /\ state \in [Endpoint -> PairingState]
  /\ theirNonce \in [Endpoint -> Nonce \cup {None}]
  /\ session \in [Endpoint -> Session \cup {None}]
  /\ air \subseteq Message

\* Two endpoints of one room that took each other's nonce.
Partners(i, r) ==
  /\ RoomOf[i] = RoomOf[r]
  /\ theirNonce[i] = NonceOf[r]
  /\ theirNonce[r] = NonceOf[i]

\* A paired responder has a partner: an initiator of its room that holds the
\* same session, took this responder's nonce and finished its own side, so
\* that "the two sides computed the same id" is true when a responder says
\* paired.  Loss, duplication, reordering and other pairs cannot break it.
Agreement ==
  \A r \in Responder :
    state[r] = "paired" =>
      \E i \in Initiator :
        /\ Partners(i, r)
        /\ session[i] = session[r]
        /\ state[i] \in {"paired", "failed"}

\* A session names one pair: two endpoints hold the same id only if they are
\* an initiator and a responder that took each other's nonce, so no third
\* device on the air ends up in somebody else's session.
SessionExclusive ==
  \A d, e \in Endpoint :
    (d # e /\ session[d] # None /\ session[d] = session[e]) =>
      \/ d \in Initiator /\ e \in Responder /\ Partners(d, e)
      \/ e \in Initiator /\ d \in Responder /\ Partners(e, d)

\* An endpoint fails for one of two reasons only: an initiator of its version
\* began in another room, or (responders) an initiator of its own room
\* completed with another session.  Duplicates and late messages of its own
\* exchange never fail it.
FailureExplained ==
  \A e \in Endpoint :
    state[e] = "failed" =>
      \/ \E i \in Initiator : /\ VersionOf[i] = VersionOf[e]
                              /\ RoomOf[i] # RoomOf[e]
                              /\ Offer(i) \in air
      \/ /\ e \in Responder
         /\ session[e] # None
         /\ \E i \in Initiator : /\ VersionOf[i] = VersionOf[e]
                                 /\ RoomOf[i] = RoomOf[e]
                                 /\ session[i] \notin {None, session[e]}

\* What every handshake is worth is decided once: a nonce and a session once
\* taken are never replaced (by a duplicate offer, a second answer, a restarted
\* peer), a paired endpoint can only fail, and a failed one stays failed.
KeepsWhatItBound(e) ==
  /\ session[e] # None => session'[e] = session[e] /\ theirNonce'[e] = theirNonce[e]
  /\ state[e] = "paired" => state'[e] \in {"paired", "failed"}
  /\ state[e] = "failed" => state'[e] = "failed"

BoundOnce == [][\A e \in Endpoint : KeepsWhatItBound(e)]_vars

\* A paired initiator has a partner too: a responder that derived the same
\* session ("the two sides independently compute the same id", pairing.js).
HasPeer(i) ==
  state[i] = "paired" =>
    \E r \in Responder : Partners(i, r) /\ session[r] = session[i]

PairedInitiatorHasPeer == \A i \in Initiator : HasPeer(i)

\* The only initiator of its room and build.
Alone(i) ==
  \A j \in Initiator : RoomOf[j] = RoomOf[i] /\ VersionOf[j] = VersionOf[i] => j = i

\* An initiator that has its room to itself never believes in a pairing its
\* responder does not share: the answer it hears can only be meant for it.
LoneInitiatorHasPeer == \A i \in Initiator : Alone(i) => HasPeer(i)

\* The handshake implements its contract: the outcome is the state with the
\* stages before the decision forgotten.
Outcome == [e \in Endpoint |->
              IF state[e] \in {"paired", "failed"} THEN state[e] ELSE "pending"]

Contract == INSTANCE PairingContract WITH outcome <- Outcome

\* Every run of the handshake is a run of PairingContract: nobody commits,
\* pairs or changes a session in a way the contract does not allow.
ContractSpec == Contract!Spec

==============================================================================
