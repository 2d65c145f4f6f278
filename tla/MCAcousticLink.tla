---------------------------- MODULE MCAcousticLink ----------------------------
(***************************************************************************)
(* A phone of the listener's lobby and a stranger.                           *)
(***************************************************************************)
EXTENDS AcousticLink

CONSTANTS phone, stranger, ours, theirs

Secrets == [t \in Transmitter |-> IF t = phone THEN ours ELSE theirs]

Skews == [t \in Transmitter |-> 0]

Ahead == [t \in Transmitter |-> IF t = phone THEN SampleRate ELSE 0]

==============================================================================
