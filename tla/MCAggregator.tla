---------------------------- MODULE MCAggregator ----------------------------
(***************************************************************************)
(* Instances of Aggregator: sightings of two peers on vectors of different    *)
(* weight, and two that Record drops.                                        *)
(***************************************************************************)
EXTENDS Aggregator

CONSTANTS p, q

Saw(v, peer, r) == [vector |-> v, peer |-> peer, reading |-> r]

Sightings ==
  { Saw("ble", p, -60), Saw("ble", p, -90), Saw("sonic", p, 0), Saw("uwb", q, 7),
    Saw("zombie", p, 0), Saw("nfc", NoPeer, 0) }

==============================================================================
