----------------------------- MODULE MCVlcChunks -----------------------------
(***************************************************************************)
(* Chunks of two bytes and a counter with four values.  Payloads of one chunk,  *)
(* two and three, with zeros at their ends or not, two that say the same total,  *)
(* one of four chunks and ones that Encode refuses.                          *)
(***************************************************************************)
EXTENDS VlcChunks

CONSTANTS NoPayload

Payloads == { <<>>, <<1>>, <<1, 2, 3>>, <<4, 5, 6, 0>>, <<0, 7, 8, 9, 3, 1>>,
              <<1, 2, 3, 4, 5, 6, 7>>, <<1, 2, 3, 4, 5, 6, 7, 8, 9>> }

==============================================================================
