----------------------------- MODULE AcousticLink -----------------------------
(***************************************************************************)
(* Phones that chirp and one that listens: cmd/acoustic-tx stamps a frame with *)
(* the cohort nonce of the second it is emitted in and plays it; cmd/acoustic-rx *)
(* records, decodes with module AudioModem and checks the nonce against its own  *)
(* clock when the last bit is in.  The recording runs in real time: the         *)
(* listener's clock is its position in the stream.                            *)
(*                                                                         *)
(* CohortNonce is an HMAC of the lobby secret and the second; it is idealised    *)
(* to the pair.                                                              *)
(***************************************************************************)
EXTENDS AudioModem

CONSTANTS
  Transmitter,
  SecretOf,        \* the lobby secret of each transmitter
  SkewOf,          \* how far its clock is ahead, in samples
  LobbySecret,     \* -secret of the listener
  Tolerance,       \* -tol, in seconds
  SampleRate,      \* samples of a second
  Whistles,        \* lengths of stray tones at the marker's pitch
  Latency,         \* samples from the emission of a frame to its sound
  Backlog,         \* samples that fit between Write and the speaker
  MaxSounds        \* bound: sounds in the air

ASSUME LinkAssumption ==
  /\ SampleRate \in Nat \ {0}
  /\ {Tolerance, Backlog} \subseteq Nat
  /\ Whistles \cup Latency \subseteq Nat
  /\ SkewOf \in [Transmitter -> Nat]

CohortNonce(secret, epochSec) == <<secret, epochSec>>

Second(position) == position \div SampleRate

\* EncodeFrame; of the five fields the two that tell frames apart.
EncodeFrame(t, epochSec) == [nonce |-> CohortNonce(SecretOf[t], epochSec), peerTag |-> t]

\* Where what t has played so far ends.
Played(t) == {SoundEnd(s) : s \in {r \in Sounds : r.data # None /\ r.data.peerTag = t}}

\* emit(): EncodeFrame of this second's nonce, Encode and Write, which returns
\* once no more than Backlog is left to play.  Sounds start between reads: what
\* starts while the receiver works lies behind all that it has read.
Emit(t, delay) ==
  /\ Len(air) < MaxSounds
  /\ state # "eof" /\ Starved
  /\ \A end \in Played(t) : end <= heard + Backlog
  /\ \E start \in Played(t) \cup {heard + delay} :
       /\ \A from \in Played(t) \cup {heard + delay} : from <= start
       /\ Play(Transmission(start, EncodeFrame(t, Second(heard + SkewOf[t]))))

\* Somebody whistles.
Disturb(length) ==
  /\ Len(air) < MaxSounds
  /\ state # "eof" /\ Starved
  /\ Play(Whistle(heard, length))

\* Mutant: the window is open on one side only.
VerifyOneSided(secret, expected, tolerance, observed) ==
  \E delta \in 0 .. tolerance : CohortNonce(secret, expected + delta) = observed

VerifyCohortNonce(secret, expected, tolerance, observed) ==
  \E delta \in -tolerance .. tolerance : CohortNonce(secret, expected + delta) = observed

\* DecodeFrame: the checksum and the version of what was never a frame are wrong.
DecodeFrame(bits) == bits # Garbled

\* OnFrame: a frame that decodes is verified against the clock of this moment.
Verdict(f) ==
  IF ~DecodeFrame(f.data) THEN "fail"
  ELSE IF VerifyCohortNonce(LobbySecret, Second(f.at), Tolerance, f.data.nonce) THEN "ok"
  ELSE "drop"

LinkNext ==
  \/ \E t \in Transmitter, delay \in Latency : Emit(t, delay)
  \/ \E length \in Whistles : Disturb(length)
  \/ Run

LinkSpec == ModemInit /\ [][LinkNext]_modemVars /\ WF_modemVars(Run)

------------------------------------------------------------------------------
(***************************************************************************)
(* Properties.                                                               *)
(***************************************************************************)

\* A decoded frame is accepted if, and only if, it is of the listener's lobby.
LobbyVerdict ==
  \A i \in DOMAIN frames :
    DecodeFrame(frames[i].data) =>
      (Verdict(frames[i]) = "ok" <=> frames[i].data.nonce[1] = LobbySecret)

\* The -secret flag must match for the verification to succeed; when it matches,
\* it succeeds.
SameSecretVerifies ==
  \A i \in DOMAIN frames :
    DecodeFrame(frames[i].data) /\ frames[i].data.nonce[1] = LobbySecret => Verdict(frames[i]) = "ok"

\* Whatever was played alone before the stream ended, back to back with others too,
\* is delivered, unless another sound had locked the receiver, which was busy with
\* bits that no transmission sent when the preamble began.
TransmissionHeard ==
  \A i \in 1 .. MaxSounds :
    (i \in DOMAIN air /\ air[i].data # None) ~>
      (i \in DOMAIN air /\ ( \/ Taken(air[i]) \/ Deaf(air[i])
                            \/ ~Undisturbed(air[i]) \/ SoundEnd(air[i]) > EndOfStream ))

==============================================================================
