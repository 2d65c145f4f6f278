------------------------------ MODULE MCPairing ------------------------------
(***************************************************************************)
(* Instances of Pairing for TLC.  The endpoints are their own nonces.  In     *)
(* room A two initiators and two responders contend, one more initiator runs  *)
(* another build, and room B has one pair.                                   *)
(***************************************************************************)
EXTENDS Pairing

CONSTANTS i1, i2, i3, i4, r1, r2, r3, roomA, roomB

AllInitiators == {i1, i2, i3, i4}
AllResponders == {r1, r2, r3}
TwoInitiators == {i1, i2}
TwoResponders == {r1, r2}
Rooms == {roomA, roomB}

Nonces == Endpoint
NonceIsSelf == [e \in Endpoint |-> e]
RoomsOf == [e \in Endpoint |-> IF e \in {i3, r3} THEN roomB ELSE roomA]
VersionsOf == [e \in Endpoint |-> IF e = i4 THEN 2 ELSE 1]

==============================================================================
