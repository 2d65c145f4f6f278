--------------------------- MODULE MCSonicChannels ---------------------------
(***************************************************************************)
(* The device and a peer, a device of two tiers, reports at the edges of poor  *)
(* and one on a channel nobody has.                                           *)
(***************************************************************************)
EXTENDS SonicChannels

CONSTANT peer

Peers == {"", peer}

Devices ==
  { [platform |-> "ios", form |-> "identifier", gen |-> 15],
    [platform |-> "android", form |-> "modern", gen |-> 0] }

Rate(i, snr, loss) == [channelId |-> i, snr |-> snr, loss |-> loss]

Reports ==
  { Rate("public", 9, 0), Rate("groupA", 9, 0), Rate("groupA", 10, 40),
    Rate("groupB", 20, 41), Rate("radio", 20, 0) }

Groups == {{}, Peers}
Extras == {{}, {"tablet"}}
Purposes == {"", "groupChat", "pairing"}

==============================================================================
