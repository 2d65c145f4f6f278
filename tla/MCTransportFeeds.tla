--------------------------- MODULE MCTransportFeeds ---------------------------
(***************************************************************************)
(* Two goroutines; a peer that UWB sees close by, or further away without       *)
(* confidence, and BLE barely; and two sightings the handlers refuse.          *)
(***************************************************************************)
EXTENDS TransportFeeds, TLC

CONSTANTS p, a, b

Saw(v, peer, r, sure) == [vector |-> v, peer |-> peer, reading |-> r, sure |-> sure]

Sightings == { Saw("uwb", p, 7, TRUE), Saw("uwb", p, 28, FALSE), Saw("ble", p, -90, TRUE),
               Saw("uwb", NoPeer, 7, TRUE), Saw("zombie", p, 0, TRUE) }

Symmetry == Permutations(Caller)

==============================================================================
