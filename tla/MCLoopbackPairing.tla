-------------------------- MODULE MCLoopbackPairing --------------------------
(***************************************************************************)
(* An initiator and two responders of one room on a bus, and an initiator of  *)
(* another room.                                                             *)
(***************************************************************************)
EXTENDS LoopbackPairing

CONSTANTS i1, i2, r1, r2, roomA, roomB

Initiators == {i1, i2}
Responders == {r1, r2}
Rooms == {roomA, roomB}
Nonces == Endpoint
NonceIsSelf == [e \in Endpoint |-> e]
OneVersion == [e \in Endpoint |-> 1]
RoomsOf == [e \in Endpoint |-> IF e = i2 THEN roomB ELSE roomA]

\* r2 and i2 share a channel id (the default is the same for every channel),
\* so these two never hear each other.
Channels == [e \in Endpoint |-> IF e = i2 THEN r2 ELSE e]

==============================================================================
