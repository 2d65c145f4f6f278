--------------------------- MODULE PairingContract ---------------------------
(***************************************************************************)
(* What the pairing handshake promises its callers, without messages: a      *)
(* responder commits itself to one initiator of its room, an initiator pairs *)
(* with one responder that has committed itself to somebody, and a responder *)
(* pairs only when some initiator holds its very session.  Anyone may fail,  *)
(* which takes nothing back from what was agreed.                            *)
(***************************************************************************)
CONSTANTS Initiator, Responder, RoomOf, NonceOf, None

VARIABLES
  outcome,   \* "pending", "paired" or "failed", for every endpoint
  session    \* the session agreed on, or None

vars == <<outcome, session>>

Endpoint == Initiator \cup Responder

SessionOf(d, e) == [room |-> RoomOf[d], nonces |-> {NonceOf[d], NonceOf[e]}]

Init ==
  /\ outcome = [e \in Endpoint |-> "pending"]
  /\ session = [e \in Endpoint |-> None]

Commit(r, i) ==
  /\ outcome[r] = "pending" /\ session[r] = None
  /\ RoomOf[i] = RoomOf[r]
  /\ session' = [session EXCEPT ![r] = SessionOf(r, i)]
  /\ UNCHANGED outcome

PairInitiator(i, r) ==
  /\ outcome[i] = "pending" /\ session[i] = None
  /\ RoomOf[i] = RoomOf[r] /\ session[r] # None
  /\ session' = [session EXCEPT ![i] = SessionOf(i, r)]
  /\ outcome' = [outcome EXCEPT ![i] = "paired"]

PairResponder(r, i) ==
  /\ outcome[r] = "pending" /\ session[r] # None
  /\ session[i] = session[r]
  /\ outcome' = [outcome EXCEPT ![r] = "paired"]
  /\ UNCHANGED session

Fail(e) ==
  /\ outcome' = [outcome EXCEPT ![e] = "failed"]
  /\ UNCHANGED session

Next ==
  \/ \E i \in Initiator, r \in Responder :
       Commit(r, i) \/ PairInitiator(i, r) \/ PairResponder(r, i)
  \/ \E e \in Endpoint : Fail(e)

Spec == Init /\ [][Next]_vars

==============================================================================
