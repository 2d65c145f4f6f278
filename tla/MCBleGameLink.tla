---------------------------- MODULE MCBleGameLink ----------------------------
(***************************************************************************)
(* Payloads in frames of two bytes, bytes of five values, at most two        *)
(* transfers in range.  The wanted transfer has four frames, the last one     *)
(* half full, so that three may be missing, one more than an ack can name;   *)
(* twin's ids are the same in a byte and it has as many frames, long has      *)
(* another id, short has the wanted ids and one frame, and huge does not fit. *)
(***************************************************************************)
EXTENDS BleGameLink

CONSTANTS mine, twin, long, short, huge

Transfers == {mine, twin, long, short, huge}

Lengths == [t \in Transfer |->
              CASE t = mine -> 7 [] t \in {twin, long} -> 8 [] t = short -> 0 [] OTHER -> 9]

Games == [t \in Transfer |-> 1]
Ids == [t \in Transfer |->
          CASE t = mine -> 1 [] t \in {twin, short} -> 6 [] t = long -> 2 [] OTHER -> 3]

\* The indices other receivers ask for.
Asks == {{1, 3}}

==============================================================================
