--------------------------- MODULE LoopbackPairing ---------------------------
(***************************************************************************)
(* The pairing handshake over the in-memory bus of src/src/channel.js, wired  *)
(* as src/test/pairing.test.mjs wires it: every device subscribes a callback  *)
(* that feeds its endpoint and at once sends what the endpoint answers.       *)
(*                                                                           *)
(* publish() calls the subscribers one after another on the caller's stack,   *)
(* and a callback that sends calls publish() again before it returns.  So the *)
(* bus is a stack of iterations over the subscriber set: an answer is heard   *)
(* by everybody while the offer is still on its way to the later subscribers. *)
(***************************************************************************)
EXTENDS Pairing, Sequences, SequencesExt

CONSTANT ChanOf   \* ChanOf[e]: the id of the channel e sends and listens on

\* At top level no device's callback runs.
ASSUME TopLevelAssumption == None \notin Endpoint

VARIABLES
  log,    \* subscribers in the order of their subscription (a Set keeps it)
  live,   \* those whose entry has not been deleted
  calls   \* the stack of running publish() calls, the innermost last

busVars == <<log, live, calls>>
allVars == <<state, theirNonce, session, air, log, live, calls>>

\* A running publish(): next is the next entry to look at, at the subscriber
\* whose callback is running.
\* The mutant iterates from entry zero.
CallFromZero(m, e) == [msg |-> m, from |-> ChanOf[e], next |-> 0, at |-> None]

Call(m, e) == [msg |-> m, from |-> ChanOf[e], next |-> 1, at |-> None]

Running == Last(calls)

Quiet == calls = <<>>

\* Code of the application runs: at top level, or in the callback of e.
InCallbackOf(e) == ~Quiet /\ Running.at = e

AppRuns == Quiet \/ \E e \in Endpoint : InCallbackOf(e)

LoopInit ==
  /\ Init
  /\ log = <<>>
  /\ live = {}
  /\ calls = <<>>

\* wire(): subscribe; an entry added during an iteration is still visited.
Attach(e) ==
  /\ AppRuns
  /\ e \notin ToSet(log)
  /\ log' = Append(log, e)
  /\ live' = live \cup {e}
  /\ UNCHANGED <<calls, vars>>

\* The function subscribe() returned: by the device itself, at top level or at
\* the end of its own callback.  A deleted entry is not visited any more.
Detach(e) ==
  /\ Quiet \/ InCallbackOf(e)
  /\ e \in live
  /\ live' = live \ {e}
  /\ UNCHANGED <<log, calls, vars>>

\* chan.send(a.start()) at top level, after the device was wired.
StartOnBus(i) ==
  /\ Quiet
  /\ i \in live
  /\ Start(i)
  /\ calls' = <<Call(Offer(i), i)>>
  /\ UNCHANGED <<log, live>>

\* The iteration moves on with e's callback running, or none.
Moved(e) == [Running EXCEPT !.next = @ + 1, !.at = e]

Visits(e) ==
  /\ ~Quiet
  /\ Running.next <= Len(log)
  /\ e = log[Running.next]

\* Mutant: a device whose callback is running is not called again.
HearsUnlessBusy(e) ==
  /\ e \in live
  /\ ChanOf[e] # Running.from
  /\ \A k \in 1 .. Len(calls) : calls[k].at # e

\* if (!s.echoSelf && s.id === fromId) continue
Hears(e) == e \in live /\ ChanOf[e] # Running.from

Skip(e) ==
  /\ Visits(e) /\ ~Hears(e)
  /\ calls' = Front(calls) \o <<Moved(None)>>
  /\ UNCHANGED <<log, live, vars>>

\* Mutant: a confirm is acknowledged with the answer once more.
HearAndAcknowledge(e) ==
  /\ Visits(e) /\ Hears(e)
  /\ \/ e \in Responder /\ ReceiveOffer(e, Running.msg)
        /\ calls' = Front(calls) \o <<Moved(e), Call(Answer(e), e)>>
     \/ e \in Responder /\ ReceiveConfirm(e, Running.msg)
        /\ calls' = Front(calls) \o <<Moved(e), Call(Answer(e), e)>>
     \/ e \in Initiator /\ ReceiveAnswer(e, Running.msg)
        /\ calls' = Front(calls) \o <<Moved(e), Call(Confirm(e, session'[e]), e)>>
  /\ UNCHANGED <<log, live>>

\* The callback: receive() and, before it returns, send() of the answer.
HearAndReply(e) ==
  /\ Visits(e) /\ Hears(e)
  /\ \/ e \in Responder /\ ReceiveOffer(e, Running.msg)
        /\ calls' = Front(calls) \o <<Moved(e), Call(Answer(e), e)>>
     \/ e \in Initiator /\ ReceiveAnswer(e, Running.msg)
        /\ calls' = Front(calls) \o <<Moved(e), Call(Confirm(e, session'[e]), e)>>
  /\ UNCHANGED <<log, live>>

\* The callback when receive() has nothing to send.
HearOnly(e) ==
  /\ Visits(e) /\ Hears(e)
  /\ \/ /\ e \in Responder
        /\ ReceiveConfirm(e, Running.msg) \/ ReceiveOtherConfirm(e, Running.msg)
     \/ ReceiveOtherRoom(e, Running.msg)
     \/ Ignored(e, Running.msg) /\ UNCHANGED vars
  /\ calls' = Front(calls) \o <<Moved(e)>>
  /\ UNCHANGED <<log, live>>

\* publish() returns to the callback, or the top level, that called it.
Return ==
  /\ ~Quiet
  /\ Running.next > Len(log)
  /\ calls' = Front(calls)
  /\ UNCHANGED <<log, live, vars>>

Run == Return \/ \E e \in Endpoint : Skip(e) \/ HearAndReply(e) \/ HearOnly(e)

LoopNext ==
  \/ Run
  \/ \E e \in Endpoint : Attach(e) \/ Detach(e)
  \/ \E i \in Initiator : StartOnBus(i)

\* JavaScript runs a call stack to its end.
LoopSpec == LoopInit /\ [][LoopNext]_allVars /\ WF_allVars(Run)

------------------------------------------------------------------------------
(***************************************************************************)
(* Properties.                                                               *)
(***************************************************************************)

\* The stack holds running calls over subscribers that exist.
LoopTypeOK ==
  /\ TypeOK
  /\ ToSet(log) \subseteq Endpoint /\ live \subseteq ToSet(log)
  /\ \A k \in 1 .. Len(calls) :
       /\ calls[k].msg \in air
       /\ calls[k].next \in 1 .. Len(log) + 1
       /\ calls[k].at \in Endpoint \cup {None}

\* Re-entrancy ends: an offer, an answer and a confirm are the deepest nesting,
\* however many devices answer each other on the bus.
ReentrancyBounded == Len(calls) <= 3

\* On this bus nothing is lost between two wired devices, so when the stack has
\* unwound pairing is two-sided: an initiator that has its room to itself and
\* holds a session has a partner that holds it too and did not stay waiting for
\* the confirm.  (Of two initiators of a room one may be left with an answer that
\* was meant for the other, on the bus as on the air.)
SettledBothSides ==
  Quiet =>
    \A i \in Initiator :
      Alone(i) /\ session[i] # None =>
        \E r \in Responder : /\ Partners(i, r)
                             /\ session[r] = session[i]
                             /\ state[r] \in {"paired", "failed"}

\* An answered offer is not left half-way: once a responder has answered, an
\* initiator and a responder of its room complete with each other (not always
\* that responder: the next one to hear the offer answers it too, after the
\* pair is made, and stays answered).
AnswerCompletes ==
  \A r \in Responder :
    state[r] = "answered" ~>
      \E i \in Initiator, q \in Responder :
        /\ RoomOf[i] = RoomOf[r]
        /\ Partners(i, q)
        /\ session[i] = session[q]
        /\ {state[i], state[q]} \subseteq {"paired", "failed"}

==============================================================================
