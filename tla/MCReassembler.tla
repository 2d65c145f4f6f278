---------------------------- MODULE MCReassembler ----------------------------
(***************************************************************************)
(* Instances of Reassembler: payloads whose length is zero, a multiple of    *)
(* the frame size, and one more than a multiple.                             *)
(***************************************************************************)
EXTENDS Reassembler

CONSTANTS empty, even, odd

AllTransfers == {empty, even, odd}

Lengths == [t \in Transfer |-> CASE t = empty -> 0 [] t = even -> 12 [] OTHER -> 13]
\* A size below one is raised to one.
Sizes == [t \in Transfer |-> CASE t = empty -> 0 [] t = even -> 2 [] OTHER -> 2]
OwnIds == [t \in Transfer |-> t]

==============================================================================
