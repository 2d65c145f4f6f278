# waves_worx: models, checks and proofs

TLA+ models of the protocol and concurrency core of `waves_worx`, the TLC configurations that check them on
small instances, and theorems about them that TLAPS proves for every instance. Paths are relative to `src/`,
the repository's root (its JavaScript is in `src/src/`).

Run everything from this directory: `tlc -workers 2 -config Pairing.cfg MCPairing`, `tlapm PairingProofs.tla`.
`PROJECT.json` lists components, runs, mutants (the plausible bug that breaks each property), the lines each
definition models, hazards and theorems.

## 1. The system

Two stacks for moving bytes and evidence between devices in one room, without a server.

**JavaScript library** (`src/`), single-threaded, no persistence:

| part | state | operations | interacts with |
|---|---|---|---|
| `pairing.js` handshake | per endpoint: `state`, `theirNonce`, `session` | `start`, `receive` | messages over any channel, room codes |
| `roomcode.js` | none | generate, normalise, validate | pairing, proximity |
| `chunk.js` | per `Reassembler`: `_id`, `_total`, `_parts` | `chunk`, `add`, `complete`, `missing`, `bytes` | frames over any channel |
| `channel.js` | per bus: the set of subscribers | `publish`, `subscribe`, unsubscribe, `pickChannel` | calls subscribers back on the publisher's stack |
| `blegame.js` | none; the receiver of `ble-game-link.test.mjs` keeps `seen` and `total` | encode, detect, decode | BLE advertisements, acks |
| `modem.js` | none | encode and decode FSK symbols | sound |
| `proximity.js` | none | create and verify a flash pattern (async hash) | screen and camera, room codes |
| `frame.js`, `index.js` | none | byte conversions, re-exports | everything |

**Go core** (`go/transport/`), called through JSON `Apply*` handlers from any goroutine:

| part | state (its lock) | operations | interacts with |
|---|---|---|---|
| `aggregator.go` | observation buffer (`mu`) | `Record`, `Clear`, `TrustOf`, `View`, `AllPeers` | wall clock, handlers |
| `apply.go`, `state.go` | the global aggregator, the platform (own lock) | record, peer trust, all peers, set platform, fallback | aggregator, fallback registry |
| `uwb/uwb.go` | last sample per peer (`latestMu`) | `ApplyRecord`, `Latest`, `ClearLatest`, `Classify` | aggregator |
| `sonic/capability.go` | tier of the device and of each peer (`capMu`) | `SetCapability`, `CapabilityOf`, clear, classify | native plugins |
| `sonic/channel_health.go`, `channels*.go` | last report per channel (`healthMu`) | `ApplyChannelHealth`, `AllocateChannel` | tiers, plugins |
| `fallback.go` | registered chains | register at init, look up | vector packages |
| `vlc`, `ble`, `nfc`, `wifi`, `sonic.go`, `aead.go` | none | encode, decode, nonce, encrypt | wire |
| `sonic/internal/audiomodem` | the decoder of one stream: sample buffer, window, counter, idle / in mark / in gap | `Encode`, `Decoder.Run` | PCM streams, `sonic/cmd` |
| `sonic/cmd/acoustic-tx`, `acoustic-rx` | none; the clocks of two machines | stamp and play a frame; decode and verify it | `sonic.go`, `audiomodem`, a pipe, the air |

`AD2/`, `go/ad2ml` and `go/mlvswave` are floating-point signal processing, learning and bench code.

**What is hard here**

- *Nobody is addressed.* Offers, answers and confirms are broadcast, and so is every frame: what an endpoint
  takes may have been meant for somebody else. Ids have defaults (`'t'`, `'device'`) or lose their high bits.
- *Nothing is reliable.* Frames are lost, repeated, reordered and corrupted. There is no timer anywhere in the
  library: recovery is what an application does with `missing()`.
- *Callbacks re-enter.* The bus delivers on the publisher's stack, and a callback that answers publishes again.
- *Several locks, none held across two.* Go handlers store, record and ask for a score in separate critical
  sections; the channel scan locks once per channel; a logout clears two places one after the other.
- *Sound has no edges.* The receiver knows the end of a marker to a window and a hop only, counts windows across a
  buffer that is cut, and what it locks on may be a whistle.
- *Clocks.* A cohort nonce is taken when a frame is emitted and checked seconds later on another machine. Observations arrive late, with the time they were made at; the wall clock may be set back; the
  prune loop assumes order; reads do not prune.

**What makes each part correct**

- Pairing: a paired endpoint really has a partner with the same session; sessions name one pair; nothing is
  rebound; failure has a cause.
- Transfers: a complete transfer is a payload that was sent; `missing()` is empty exactly then; progress is kept.
- Bus: re-entrancy is bounded and leaves both sides settled.
- Aggregator: pruning and eviction do not change what counts; score, `LastSeenMs` and evidence agree.
- Handlers: an answer of "recorded, trust 0" has a cause; compass cache and score agree.
- Acoustic link: what is taken at the end of a preamble is what was sent; what sounds alone is heard; the buffer stays
  bounded; the verdict tells lobbies apart, in spite of latency, skew and the length of a frame.
- VLC: what decodes was shown; all chunks of a payload decode to it.
- Sonic: the band granted suits every peer asked for; a fallback is explained by health seen during the call.

## 2. The modules

| module | models | extends |
|---|---|---|
| `Pairing` | the handshake, any number of endpoints on one air | |
| `PairingContract` | what it promises, without messages | (refined by `Pairing`) |
| `PairingProofs` | theorems about `Pairing` and about `LoopbackPairing` | `LoopbackPairing` |
| `Reassembler`, `ReassemblerProofs` | `chunk()` and `Reassembler`, and theorems | |
| `LoopbackPairing` | the handshake on the loopback bus | `Pairing` |
| `BleGameLink`, `BleGameLinkProofs` | game frames and the ack-and-resend link, and theorems (with instances of those about `chunk()`) | |
| `Aggregator`, `AggregatorProofs` | the trust aggregator, and theorems | |
| `TransportFeeds`, `TransportFeedsProofs` | the handlers and the UWB cache around it, and theorems | `Aggregator` |
| `SonicChannels`, `SonicChannelsProofs` | tiers, health and channel allocation, and theorems | |
| `AudioModem` | the acoustic receiver and the layout of a transmission | |
| `AcousticLink`, `AcousticLinkProofs` | transmitters, disturbers and the listener's verdict around it, and theorems | `AudioModem` |
| `VlcChunks`, `VlcChunksProofs` | the visible-light chunk codec between a screen and a camera, and theorems | |
| `MC*` | the instances for TLC | the module they name |

### Pairing

`state`, `theirNonce` and `session` are functions on endpoints and stand for the closures of `createPairing`.
`air` is the set of messages ever sent; an endpoint may take any of them at any time and any number of times,
which is loss, delay, duplication, reordering and broadcast at once. `Start` is `start()`. `receive()` is split
by branch: `ReceiveOffer`, `ReceiveAnswer`, `ReceiveConfirm`, `ReceiveOtherConfirm` and `ReceiveOtherRoom`, with
the guards `SameVersion`, `SameRoom` and the state check in the order of the code; what is ignored is a
stuttering step (`Ignored`). A session is the room and the *set* of the two nonces, since `deriveSession` sorts
them and hashes with a CRC taken as free of collisions. Nonces (64 random bits) are distinct. Nothing is
kept across a restart, so there is no action for one: a restarted device is another endpoint whose first step comes later.

`PairingContract` says the same without messages: a responder commits itself, an initiator pairs with a responder
that has committed itself, a responder pairs only when an initiator holds its session. `Pairing` implements it
with the map `Outcome`, which forgets the stages before a decision.

### Reassembler

The constants give each payload a length, a frame size and an id; a byte is its payload and position. `Wire` is
every frame, intact or with a garbled body, and each step hands one of them to `Add`, which is `add()`: latch id
and total from the first frame whatever its CRC, refuse other transfers and bad CRCs, put by index. `Complete`,
`Missing` and `Bytes` are the getters.

### LoopbackPairing

`log` and `live` are the subscriber `Set` and what was deleted from it; `calls` is the stack of running
`publish()` calls. Each entry visited is a step: `Skip` (deleted, or the sender's own channel id), `HearOnly`, or
`HearAndReply`, which pushes a further `publish()`. Application code (`Attach`, `Detach`) runs at top level or
inside a callback, and `StartOnBus` at top level. Top level is no device, so `None` is no endpoint (`TopLevelAssumption`).

`SettledBothSides` is about an initiator that is alone in its room: with two of them, the one answer pairs both, and one of the
two then has no responder of its own (the disagreement of `pairing_two_initiators`, met again on the bus).

### BleGameLink

`Data` and `Ack` build frames with `U8` (`% Byte`) on every number; an ack has the default index 0 and total 1. `Ingest`,
`Missing`, `Nack` and `Resend` are the receiver, `missing()`, the ack and the resend loop of the repository's link test; `Decodes`
and `Decoded` are `decodeBleGameTransfer`. `ingest()` keeps every valid frame whatever its kind, so an ack that is overheard takes
the place of the first frame and of the total. `air` is what the receiver may hear: frames of any transfer, and acks of other
receivers (`OthersNack`). Its own acks are in `acks`, where only its sender hears them: a radio does not hear itself.
A frame may be taken late or never, which is loss; `Lose` is for the frames that fairness counts on. A corrupted frame fails its checksum and changes nothing. `sent` and `asked` are history: the
transfers that were begun and the acks of others.

Who else is in range decides what the receiver can promise, so the properties say it: `Like(f)` are the transfers with the
header of `f`, and what decodes is exactly the payload when there is one of them (`DecodeExact`); a receiver that misses nothing
decodes, or holds a mixture that `decodeBleGameTransfer` refuses (`NothingMissing`); and it recovers as long as it hears nobody
but its sender (`Alone`, `Recovers`).

### Aggregator

`obs` is the buffer. `Record` (with `prune()` inside), `Clear`, the clock's `Tick` and `StepBack` are the actions,
one lock each; `TrustOf`, `LastSeen` and `Peers` are the reads. Scores are integers: 1.0 is 1200000, of which all
the fractions of the code are whole multiples: the sum, over the six vectors, of the best quality seen within the window (`Best`, 0 of
a vector not seen), divided by how many were seen, and the boost for several. `high` and `recent` are history: the highest time read, and what
a buffer that only ever evicts by size would hold.

### TransportFeeds

Extends `Aggregator`. A handler on a goroutine is `ApplyRecordObservation` or `ApplyRecord`, then `StoreLatest` (UWB
only), `RecordStep` and `TrustStep`, one step per critical section; `ClearAggregator` and `ClearLatest` come in any
order and at any moment. `ApplyLatest` is the answer the compass gets, with its verdict (`Classify`, one tier lower for a
low confidence). `orphans` is history: whose cached sample a `Clear` of the aggregator outlived. A sample counts as evicted
(`Evicted`) when it is not among the last `MaxObs` observations any more, by time and by value.

### SonicChannels

`cap` and `health` are the two maps behind their locks. A caller collects tiers one by one (`Ask`), then walks
the three loops of `AllocateChannel`, one channel per step (`Scan`, with `Suits`, `Takes` and `Past` for the
conditions of each loop), because each look at a channel's health takes the lock anew. Callers write neither map, so one caller is
all that any caller can meet. The first two loops skip degraded channels, the third takes the public channel in any health.

### AudioModem and AcousticLink

A sample is known by its position in the stream. `air` is the list of sounds with the positions they start at: a
`Transmission` (marker, gap, a slot per bit, silence: `Encode`) or a `Whistle`. The receiver's variables are those of
`Decoder.Run`; `base .. heard` is its `samples`. One action per path through the loops: `IdleMarker`, `IdleOther`,
`MarkContinues`, `MarkEnds`, `CollectFrame` (bits read, frame handed over, buffer cut behind it), `Read` (the end of a turn
of the outer loop, which may drop an idle buffer, and the next read) and `Eof`. `Starved` is the condition on which the
inner loop breaks. A Goertzel filter is what it is for: a window filled by marker tone alone is marker, one without any
is not, and one that holds some of it, or two sounds at once, is judged *either way*. Bits read in step with an
undisturbed transmission are its bits; over anything else they are those of some sound in step, or `Garbled`.

`AcousticLink` adds who plays and what the listener says. `Emit` is `emit()`: the nonce of this second by the phone's clock,
`EncodeFrame`, `Write`, which blocks while more than `Backlog` is left to play (`Played`); the sound starts `Latency` later, or
when the last one ends. `Verdict` is `OnFrame`: `DecodeFrame`, then `VerifyCohortNonce` against the clock of the moment the last
bit was in. Recording runs in real time, so the listener's clock is its position in the stream.

### VlcChunks

`Chunks` is `Encode` with every number in 16 bits (`Uint16`), `Decode` the checks of the code, the indexed pieces and
`TrimPad`. A screen shows the chunks of up to two payloads; `Capture` takes one, in any order and again, or misread, which the CRC
finds.

## 3. The runs

| run | distinct states | shows |
|---|---|---|
| `pairing` | 42,074 | all pairing properties and the refinement, four initiators and three responders, two rooms, two builds |
| `pairing_two_initiators` | stops | a counterexample to "both sides computed the same id" for initiators |
| `reassembler` | 195 | exact completion from any order, repetition, corruption and foreign frames |
| `loopback_pairing` | 28,768 | bounded re-entrancy, settled pairs, progress |
| `aggregator` | 16,619 | pruning is invisible, views agree, evidence counts |
| `ble_game_link` | 149,591 | exact decoding, sound `missing()` and recovery, with strangers, look-alikes and overheard acks |
| `sonic_channels` | 319,800 | allocation interleaved with reports |
| `transport_feeds` | 1,587,584 | handlers interleaved with each other, the clock and a logout; compass and score agree |
| `acoustic_link` | 277,126 | two phones and whistles at any offset to the receiver's windows: exact frames, none lost without a reason, verdicts |
| `acoustic_latency` | stops | with the constants of the code, a frame of the own lobby is dropped |
| `vlc_chunks` | 144,477 | what decodes was shown, all chunks of a payload decode to it |
| `vlc_full` | stops | an accepted payload that no `Decode` takes |

A run that stops shows a sentence of the repository and the code disagreeing; `PROJECT.json` quotes it:

- **Two initiators.** An answer names no offer, so the responder's answer to one initiator also pairs the other
  one in the room, with a session nobody else holds. `LoneInitiatorHasPeer` is what remains true.
- **Latency.** A 16-byte frame sounds for more than five seconds between its stamp and its verification, so with the default
  tolerance of three the documented use over the air drops every frame of the own lobby. `LobbyVerdict` is what remains true,
  for a tolerance that covers the length of a frame, the latency and the skew.
- **Full counter.** `maxChunks` is 65536, one more than a 16-bit total can say. `DecodeExact` holds below it.

Observed on the way, without a run of their own:

- A BLE receiver keeps an overheard ack, or a stranger's frame, like a frame of its own. It may replace the total as well, after
  which nothing is missing, nothing asks again, and decoding says `mixed-transfer` until the frame that was replaced happens to be heard again.
  An ack heard alone decodes, with `kind` 2, which a caller has to look at.
- `chunk()` without an id uses `'t'`, and two such transfers are joined by a `Reassembler`; the theorems about it assume ids of
  their own.
- `prune()` stops at the first fresh observation, so a stale one that arrived after it stays in the buffer;
  `PruningInvisible` shows that no score can tell.
- One more *vector* can lower a score, since the average is taken before the boost; on the same vector more evidence
  never does (`EvidenceNeverHurts`).
- The last capability report of a peer wins, not the lowest.
- While the receiver is in mark nothing bounds its buffer, as a tone that does not end needs; `IdleBounded` is about the idle one.

### Bounds, and why they are enough

- `Pairing`: contention needs two initiators and two responders in a room, a foreign room needs one pair, a
  foreign build one endpoint. Nonces are the endpoints themselves. There is no bound on steps.
- `Reassembler`: lengths zero, a multiple of the frame size, and one more; a size below one. No bound on steps.
- `LoopbackPairing`: a pair, a second responder (who hears the offer after the pair is made) and an initiator of
  another room that shares a channel id with it.
- `BleGameLink`: a byte has five values, so that an id wraps: one stranger has the wanted ids in a byte and as many frames, one has
  them and a single frame (the header of an ack), one another id, and one payload does not fit. Two transfers are in range
  (`MaxSent`), which is enough for a mixture of two and an ack. The wanted one has four frames and an ack names two, so that three may be
  missing and the receiver can ask for nothing. `Overheard` are the indices other receivers ask for.
- `Aggregator`: `MaxObs`, `MaxTime`, `TTL`, `Window` and `Skew` are small enough for the buffer to fill, the window to
  pass, the limit to pass and the clock to be set back within one behaviour.
- `TransportFeeds`: two goroutines and three calls (`MaxCalls`), two of which fill the aggregator.
- `AcousticLink`: the unit is 120 samples, so that window, hop and slot have their true sizes (480, 240, 1920) and every
  offset between a sound and the windows that the unit can express occurs; preamble, gap, frame and second are shorter, three windows
  lock instead of five. Two sounds are enough for a whistle before, in, and after a transmission, for two phones at once and for one
  phone twice. One read returns 9 units, no multiple of a hop, a window or a slot. The phone of the lobby is a second
  ahead. `EndOfStream` leaves room for two transmissions one after the other. `AcousticLatency.cfg` has the constants of the code.
- `VlcChunks`: chunks of two bytes and a counter of four values; payloads of one to three chunks with and without zeros at the end, two that
  say the same total, one that fills the counter and one beyond it; four chunks per collection, so that three are seen with a repetition or a foreign one.
- `SonicChannels`: two capability reports (`MaxSets`) allow one before and one during a call; three health reports
  (`MaxReports`) allow a channel to be degraded, found so, and recover while the next one is degraded.

Symmetry is used only in `TransportFeeds`, on goroutines, in a run of invariants.

### Fairness and deadlock

- `LoopbackPairing`: weak fairness of `Run`. JavaScript runs a call stack to its end; nothing obliges an
  application to start or attach anything.
- `BleGameLink`: weak fairness of `Nack` (the receiver asks as long as something is missing), strong fairness of
  hearing each wanted frame and each ack. That is an assumption about the radio and the application, not about
  the codec: loss is not for ever. Nothing makes a sender begin.
- `AcousticLink`: weak fairness of `Run`, which is one loop that reads and works until the stream ends; nobody has to play.
- `SonicChannels`: weak fairness of the running call: a goroutine is not abandoned.
- `Pairing` has no fairness and no liveness: the handshake never retransmits, and a lost message ends it.

`Pairing`, `LoopbackPairing`, `BleGameLink`, `AcousticLink` and `VlcChunks` may stop (everybody is paired or failed, nobody
sends, the stream has ended), so deadlock is not checked there. It is in the others.

## 4. What is proved

All for arbitrary constants, under the named assumptions of the modules.

**`PairingProofs`**, from `RolesAssumption`, `EndpointAssumption`, `NonceAssumption` and `NoneAssumption`. `Agreement`
is not inductive: it speaks of a partner's state, which only messages connect to one's own. `IInv` adds where
messages come from (`OffersSent`, `AnswersSent`, `ConfirmsSent`, `RoomsBegun`), that a session is derived from the nonce
that was taken (`SessionDerived`), who took whose nonce (`ResponderTook`, `InitiatorTook`) and that a paired responder
has seen its session in a confirm (`ResponderAgreed`). The argument is provenance: what an endpoint took from a
message, its sender still holds, since nothing held is ever replaced. One lemma per action preserves `IInv`.
From it follow `TypeCorrect`, `AgreementHolds`, `SessionExclusiveHolds`, `FailureExplainedHolds`,
`LoneInitiatorHasPeerHolds`, `BoundOnceHolds` and `ImplementsContract` (initial states map to initial states, each
step to a step of the contract or a stutter).

**On the bus**, in the same module, from `TopLevelAssumption` in addition. Every step of `LoopbackPairing` is a step of `Pairing` or
leaves it alone: `BusImplementsAir` (`LoopSpec => Spec`), so that whatever is proved of the lossy air holds on the bus
(`PairingOnTheBus`). `StackOK` says that depth *k* of the stack delivers the *k*-th of offer, answer and confirm, sent before;
`ReentrancyBoundedHolds` and `LoopTypeCorrect` follow. `SettledBothSidesHolds` needs `CallsInv`: a running answer is one
of a subscribed responder, to the offer below it (`AnswerCall`); a running confirm is published by an initiator of the
offer's room (`ConfirmCall`); and an initiator alone in its room that has a session has a responder with the same one that is settled, or
that the running confirm has still to visit (`SettledInv`).

**`ReassemblerProofs`**, from `TransferAssumption` and, where stated, `IdsDistinct`. `IInv` says that every collected part is
the slice its index names, of the one payload whose id was latched. `PartsExactHolds`,
`MissingDecidesCompletionHolds` (by counting a subset of `0 .. total - 1`), `NeverLosesGroundHolds` and `CompleteIsExactHolds`
follow; `TypeCorrect` holds without `IdsDistinct` as well. The joined bytes are a recursive function, whose
theorem of the library is out of the provers' reach. Here the prefixes of the payload (`UpTo`) are shown to satisfy the
equation of the recursion, and any two functions that do are equal (`JoinsUnique`, by a least index where they differ).

**`AggregatorProofs`**, from `TunablesAssumption`, `SightingAssumption` and `WindowAssumption`. `PruningInvisible` relates two buffers
that evolve apart. `IInv` says how: `obs` is always an end of `recent`, and what it lacks was older than the limit at the
highest time ever read (`LostIsStale`), so that no step back of the clock brings it into the window again, as
`Window + Skew <= TTL` (the defaults are one and ten minutes: the clock may be set back by nine). `TypeCorrect`,
`LostIsStaleHolds` and `PruningInvisibleHolds` follow. About scores: a score is positive exactly when there is evidence in the
window, which gives `ViewAgreesHolds`; what `Record` appended is still in the pruned buffer when it is fresh
(`FreshRecordCountsHolds`, an action property); and the best quality of a vector only grows with evidence, while the number of
vectors stays, so that one more sighting on a vector already seen lowers nothing (`EvidenceNeverHurtsHolds`, an action
property).

**`TransportFeedsProofs`** extends `AggregatorProofs`, for any goroutines, clock and clears. `FeedsImplementAggregator`
(`FeedSpec => Spec`) makes the handlers a refinement of the aggregator: each critical section is one of its operations or a
stutter, so its invariants hold below them and are used here. `LatestIsNewestHolds`: the cached sample is the newest stored, and
an empty entry has seen nothing since the last clear; it assumes only that the value for "no sample" is not a sample.
`ZeroTrustExplainedHolds` needs to know where a call's own observation is at any moment (`PlacedInv`): as many places from the end of
`recent` as were recorded `since`, or pushed out. `CompassBackedHolds` needs for each cached sample that its observation is on its way in a
running call, or in `recent`, or was pushed out, or outlived a clear (`BackedInv`). `FeedTypeCorrect` is about the types.

**`SonicChannelsProofs`**, for any peers, reports and whatever a caller passes as tiers. `BandWithinCapsHolds`: `MinTierWeakest` is about
the `CHOOSE` of the weakest tier, `Table` about the four channels; the invariant says that a running call holds no grant
and a granted band suits the tiers. `GrantExplainedHolds` and `FallbackExplainedHolds` rest on `SeenInv`: the history of the call holds what is
degraded and what is healthy at this moment (`Current`), and every channel the scan has passed, in the loops before as
well, was unsuitable or degraded when it was looked at. `ChannelsTypeCorrect` is about the types.

**`AcousticLinkProofs`**, from `ModemAssumption`, `LinkAssumption` and `LayoutAssumption`: a hop is at most a window, a window at
most a quarter of a slot and at most the preamble (in samples: 240, 480, a slot of 1920 and a preamble of 14400). Everything holds for any
frame length, preamble, gap, number of phones and size of reads. `IInv` ties the receiver's numbers, which restart with every cut of
the buffer, to the stream: frames lie behind `base` (`FramesPast`), the counted windows are the last ones before the window in
the *stream* and behind every frame (`CountExact`), no more than one read is ahead of the windows (`AlmostDrained`). `FramesExact` is
geometry on top of it: a marker's end known to a window and a hop puts the middle half of each slot inside the slot
(`BitsInStep`), where nobody else sounds (`NobodyElse`, back to back with others included) and no second sound is in step (`OnlyOneInStep`). `ModemTypeCorrect`,
`LockExplainedHolds`, `IdleBoundedHolds` and `FramesExactHolds` follow.
`LobbyVerdictHolds` adds time: a sound was stamped no longer before its start than the speaker may be behind (`Stamped`), and a frame
that decodes is handed over within a transmission and one read of it (`Arrived`). It assumes `Timely`: the tolerance covers that
sum, and no clock is further ahead than it. The checked instance satisfies `Timely` (71 of 72 units). The defaults of the code
with `-tol 3` do not, since a transmission alone takes about 263,520 samples, five and a half seconds: that is the finding of
`acoustic_latency`, and what the theorem asks of a user is `-tol 6` or more.

**`BleGameLinkProofs`**, from `LinkAssumption`, for any payloads, ids, size of a frame and width of a header's numbers. `IInv` says that who sends has
a payload whose frames the width can count (`SentFit`), that what is on the air is a frame of a transfer that was begun or an ack (`AirOK`), and that
the total is the one of a kept frame (`TotalKept`). `LinkTypeCorrect`, `NothingMissingHolds` (by counting: frames that agree on a total
and have every index below it are all there, `KeptInRange`) and `DecodeExactHolds` follow; the last by the two cases of what may be
kept, an ack (`AckDecodes`) or frames (`FramesDecode`). A sender cuts with `chunk()`, so the lemmas about slices are used as `Chunk!...`, an instance of
`ReassemblerProofs` that takes what the receiver kept for the parts.

**`VlcChunksProofs`**, from `VlcAssumption`, for any payloads, body length, counter width and number of chunks. `DecodeExactHolds`: what `Decode`
accepts are distinct pieces with one total, each of a payload that was shown; the joined bodies are bytes of shown payloads in
their places, and `TrimPad` of padded bodies is the payload without the zeros at its end.

**Every inductive invariant** named above also holds, by TLC, in all the states of its component's run: a strengthening that is false is
found there before it is proved.

**Only model-checked**: the liveness properties `AnswerCompletes`, `Recovers`, `CallEnds` and `TransmissionHeard`, which need `ENABLED` and
are out of the provers' reach. Every invariant and every action property of a passing run is stated by a theorem.

## 5. What is abstracted or left out

- CRCs and checksums are taken as free of collisions, hashes and random nonces as injective.
- Payload bytes are positions; model strings are the few forms `ClassifyTier` tells apart; distances, RSSI, SNR and
  packet loss are integers in the units of their thresholds.
- `LoopbackPairing` leaves out `echoSelf` and the counters of `diagnostics()`. `TransportFeeds` leaves out the platform
  and the UWB verdict, which only shape answers.
- `SonicChannels` keeps of the tier parameters only the frequency cap, which the channels depend on.
- `AudioModem` reads whole samples: a pipe that returns an odd number of bytes would shift every sample after it. Filters are
  ideal as said above; noise is silence, and what loud noise does to a window is covered only by the windows judged either way.
- `AcousticLink` idealises HMAC and checksum, and prints nothing: the `TimeBucket` of a frame is only shown, never verified.
- Not modelled: channel encryption (`aead.go`) and the handshake demo are thin calls of libraries and of the modelled parts; the
  fixed frames of BLE, NFC and Wi-Fi are stateless packing; the fallback registry is written by `init` functions only and constant
  afterwards, and the platform next to it is one string; `modem.js` and `proximity.js` are pure and planned; `AD2/`, `go/ad2ml` and
  `go/mlvswave` are floating-point signal processing without protocol state.

## 6. Plan

In this order.

1. An abstract specification of a reliable transfer, implemented by `Reassembler` and by `BleGameLink` restricted to
   distinguishable transfers and no overheard acks, with the refinement proved from the invariants there are.
2. `FskModem` (`modem.js`): framing and preamble search over symbols with stray and lost tones; `Proximity`: alignment of a pattern.
3. Compositions: `chunk` frames over the loopback bus with resends; two callers and a refresh of tiers during an allocation.
