# Verification of zigpy-spinel

This directory holds TLA+ models of the two stacks of the repository, the
Python package `zigpy_spinel` and the Rust crate `ziggurat`, together with the
TLC configurations that check them on small instances and the TLAPS proofs that
hold for all instances. `PROJECT.json` is the index: components, runs, mutants,
the source lines of every definition, hazards and theorems. File names below
are relative to `src/`; `application.py` is
`zigpy_spinel/zigbee/application.py`, `spinel.rs` and the other Rust files are
in `ziggurat/src/`.

1. [The system](#1-the-system)
2. [Modules and code](#2-modules-and-code)
3. [Runs](#3-runs)
4. [Fairness](#4-fairness)
5. [Proofs](#5-proofs)
6. [Deviations the models show](#6-deviations-the-models-show)
7. [What is not modelled](#7-what-is-not-modelled)
8. [Plan](#8-plan)

## 1. The system

A radio co-processor (RCP) with OpenThread firmware sends and receives
802.15.4 frames. The host talks to it over a serial line in Spinel, a protocol
of requests and notifications on properties, framed in HDLC-Lite. On top of it
the host speaks Zigbee: it builds, encrypts and acknowledges network frames
itself. The repository has two such hosts. The Python one is a radio library
for zigpy; the Rust one is a set of codecs and a Spinel client with tools.

```
   zigpy                           packet_capture, packet_sender
     |  send_packet, permit_ncp,        |  prop_value_get/set,
     |  connect, load_network_info ...  |  transmit_frame
 ControllerApplication              SpinelClient ---- SpinelProtocol (mutex)
     |  set_property, listeners         |  write        ^ handle_inbound_bytes
 SpinelProtocol (asyncio)               |               | reader task
     |  HDLC-Lite, Spinel headers, packed integers      |
     +------------------- serial line, RCP -------------+
```

| component | state it keeps | operations | hard behaviour | correct if |
|---|---|---|---|---|
| Rust transactions (`spinel.rs`, `spinel_client.rs`) | `next_tid`, `pending_frames`: TID to oneshot sender | `send_command`, `prepare_request`, `handle_inbound_frame`, `cancel_request`, reader task | callers and reader interleave around one mutex; a timer expires while the answer comes; TIDs wrap after 7 calls; the write fails; the reader stops | an answer goes to its call unless the TID has wrapped; calls end; no entry is lost or left over |
| Python transactions (`spinel.py`) | `_transaction_id`, `_pending_frames`: TID to future | `send_frame`, `frame_received`, `data_received` | retries answered twice, cancellation, `InvalidStateError` out of `data_received`, sleeps between attempts, a closed port | the same |
| HDLC framing (both) | receive buffer | escape, unescape, CRC, the loop over the buffer | reads cut a frame anywhere; octets change or vanish; a frame whose handling raises | frames do not depend on the cuts; one error costs one frame; nothing is invented |
| Packed integers (both) | none | write, read | lengths change at 2^7, 2^14; the two languages check limits differently | what one writes both read |
| Frame counter (`application.py`) | `tx_counter`, `frame_counter.json` | `send_packet`, `_send_spinel_frame`, `connect`, `disconnect`, `load_network_info`, `write_network_info` | crash and restart, saving in `disconnect` only, restored backups, retries, zigpy's order of calls | no number is used for two frames |
| Joining window (`application.py`) | `_permitting_joins`, `_permit_reset_task`, timers of the loop | `permit_ncp`, `_reset_permit_ncp` | a timer nobody holds any more | an open window closes when its time is up |
| Incoming packets (`application.py`) | registrations, one task per frame | `start_network`, `_spinel_packet_callback` | tasks overtake one another; registration twice; acknowledgement before hand-over | each packet for us reaches zigpy, once, in order |
| Reset and listeners (`spinel.py`) | `_property_listeners`, a queue per generator | `reset`, `wait_for_property`, `iter_property_changes` | reports of other starts, lost reports, a generator that is finalised late | a reset ends with its own report |
| Property receivers (`spinel.rs`, `packet_capture.rs`) | property to bounded channel | `set_property_update_receiver`, `try_send`, a consumer | a full channel, a receiver that is replaced | losses only where a channel was full, order kept |
| Radio tools (`packet_capture.rs`, `packet_sender.rs`) | a client each, the loop's place | start-up requests one by one, the loop of either | the radio outlives the process; a reader that stops; writes that fail or are cut short | answers are those to one's own requests; a tool without a line ends |
| `STREAM_RAW` (`spinel_client.rs`, `application.py`) | none | `SpinelTxFrame`, `SpinelRxFrame`, their Python counterparts | values that are cut short; one length check for many fields | a frame comes out as it went in |
| 802.15.4 frames (both) | none | read, write, FCS | addressing fields that depend on four bits of the control field | what one writes both read; damage is caught |
| Captures (`dump_pcap.rs`, `zigbee_types.py`) | `fcs_present`, the list of keys | the loop over packets, the loop over keys | what the first packet decides; keys that move while frames of several networks follow one another | every packet is dumped as captured, every frame with its key |
| NWK frames and security (both) | none | headers, encrypt, decrypt, nonce, MIC | five optional fields; the level is overwritten for the computation and put back; the MIC covers headers written anew | what was sent opens, nothing else does |
| APS frames (both) | none | read, write | octet order | what one writes both read |
| `StateMachine`, `Version` (`common.py`) | lists of futures; none | `state`, `wait_for_state`; comparison | no user yet | |
| Network settings, enumerations, scripts, helpers | copies, constants | | | |

The components meet at calls and callbacks. `frame_received` resolves futures
and calls listeners; `handle_inbound_frame` completes oneshot channels and
feeds bounded ones; `application.py` awaits `set_property` for everything it
sends and is called back for every frame received. A module therefore models a
component against the behaviour its neighbours can show: `FrameCounter` against
the answers `set_property` may give, `PacketReceiver` likewise, `RadioReset`
against a line that loses things, `PySpinel` against octets that arrive as whole
frames, which is what `HdlcStream` is about.

## 2. Modules and code

`M.tla` is a component, `MCM.tla` instantiates it for TLC, `M_proofs.tla` has
its theorems; `Application_proofs`, `RadioProperties_proofs`, `Security_proofs` and
`Tools_proofs` have those of several components, and `Sequences_proofs` what the others
need to know about sequences, folds, and numbers in octets. Where two components share a
module of proofs, the second one's state and behaviour are called `SecurityInit`,
`DumpSpec` and the like. Definitions that begin with the name of another and whose comment
says *mutant* (or describes a slip: "one attempt too many") are wrong versions
of it; section 3 says what they are for.

**SpinelCalls** is the promise of a transaction layer, whatever the language: a
call ends at most once, with its own answer or that of a call issued at least a
cycle of TIDs before it. Both layers are shown to implement it, under
`Promise == INSTANCE SpinelCalls WITH outcome <- ..., answer <- ...`.

**SpinelClient** has one action per stretch of code between two awaits or lock
acquisitions: `Prepare` (the locked block of `send_command`), `Write` and
`WriteError`, `Received`, `Closed` and `Elapsed` (the three results of
`timeout`), `CancelRequest` (the second lock), `Deliver`
(`handle_inbound_frame`) and `ReaderStop`. `pending` is `pending_frames`, `chan`
the oneshot channels, `inFlight` what the RCP may still answer. `order` and
`issued` are history variables which the properties speak of. Answers come in
any order, late or never, and at most once for each request.

**PySpinel** likewise: `Send` runs to the first await, `Timer`, `Wake` and
`Resume` are the event loop resuming a task, `Cancel` is the cancellation of a
caller at either await, `DataReceived` and `HandleFrame` handle the frames of
one read one by one, and stop at the one that raises. A timer that fires and a
future that is resolved before the task resumes are states of their own.

**HdlcStream** has the octets of the line, their reader in either language
(`parser`), and `Drain`, the loop over the buffer. The loops are folds: `Loop` over
the buffer, with `Cut` for its body, `Take` over the octets of a frame that is
unstuffed, whose mode is `escaped` behind an escape and `bad` behind one that
escapes nothing. The CRC is represented by a checksum with the one property that
matters, that it detects a changed or missing octet. `Reference` is a reading of
the whole stream in one pass, to which the loop over pieces is compared, `Expected`
what a line without errors has to yield: the frames written that are Spinel frames
to the reader. To Python these have a known command, which is a packed integer like
any other, of one octet or of two (`KnowsCommand`).

**PackedUint21** has both writers and both readers as operators on octet
sequences, written without recursion so that they can be proved about, and a
small machine that writes, or puts noise on the wire, and reads.

**FrameCounter** has `Boot`, `Connect`, `LoadNetworkInfo`, `WriteNetworkInfo` (of a
backup), `Disconnect`, `Exit` and `Crash`, in any order zigpy could call them, and for
each frame `Send`,
`Answered`, `NotAcknowledged`, `Raises`, `Retry` and `GiveUp`. `air` is the set
of frames with the numbers they went out under. `lost` records which of four
events made the counter fall: a crash with unsaved numbers or in the middle of
saving, a `load_network_info` over unsaved numbers, a `disconnect` that saved
the default counter of a run which had loaded none, a `write_network_info` with a
backup older than the file or than numbers not saved yet.

**PermitJoin** has the flag, the handle and the timers of the loop, which
`call_later` creates and only `cancel` removes. `window` is what zigpy was
promised.

**PacketReceiver** has `start_network` as a task that sets six properties in
order, `Listen` (the registration a second later), `Arrive` (one task per
registration and frame), `Run` (a task to its first await), and the ends of the
await. `Header` says of each frame what the callback looks at. `tuned` records
whether the radio was configured when a frame arrived.

**RadioReset** has `Reset` (write, then the registration, with no await between
them), `Deliver`, `Wake`, `Cancel` and `Close`, the removal of the listener,
which the collection of the generator does some time after the return.

**PropertyUpdates** has `Register`, `Update` with `Push` for `try_send`, and a
consumer that receives until its channel is closed and empty. `held` is a history
variable: who held the channel when an update came, and how many it had taken by
then.

**SpinelTools** composes it with a client: processes of `packet_capture` and
`packet_sender` one after the other, each a consumer of `PropertyUpdates` with a
`next_tid` and a map of its own, on one radio and one line. `Prepare`, `Write`,
`WriteFails`, `Return` and `Timeout` are `send_command` as `main` calls it;
`Deliver` and `ReaderStop` the reader task; `Listen` and `Take` the loop of the
capture; `Interrupt` and `Restart` end a process and begin the next. `pending`
is one TID, because a tool makes one request at a time. A request carries who
asked it (`from`), which the code does not know: `answers` collects these marks.

**StreamRaw** has the values of the property `STREAM_RAW` as octets: both
writers, both readers, and the Spinel frame around a request. It extends
`PackedUint21`, whose tails are these values, so that its run reads property and
value together.

**MacFrame** has the two codecs of 802.15.4 frames on octets, the FCS computed,
with a machine that writes, damages and reads. **DumpPcap** extends it by the
loop of `dump_pcap.rs` over a file with or without FCS: `Found` is the match on
`fcs_present`, `Dump` the body of the loop up to the frame, `NextPacket` the next
one. `misleading` remembers whether the packet that decided looked like one of the
other kind of file.

**ZigbeeTypes**, **ApsFrame** and **NwkHeader** are the octets of numbers,
addresses, APS frames, NWK headers and auxiliary headers, as operators: a reader
is `...Outcome` (an error, a panic, or read), `...Length` and the record it
reads.

**NwkSecurity** extends them. Headers are octets, and AES is an ideal cipher: a
piece of payload is a set of atoms under symmetric difference, the MIC is the
atom of everything it is computed from, the key stream the atom of key, nonce
and block. It differs from the code wherever two computations that should use
the same inputs do not. `SendFrame` writes and encrypts in either language, `Change`
is the air, `Dump(l)` is the loop body of the script that decrypts captures,
`dump_pcap.rs` or the main part of `zigbee_types.py`, with `TryKeys` over its list
of keys. Where a changed length makes a header reach into encrypted octets, what
the reader makes of them is left open (`UnknownOctets`).

## 3. Runs

Every run but `mac_frame_assertion` ends without an error; that one is there to show
that an assertion of the code does not hold. Each property of the others has a
mutant: the definition of the code that `PROJECT.json` names is replaced by its mutated form, a plausible
slip, and the run must then find the property violated.

| run | module | bounds | distinct states | shows |
|---|---|---|---|---|
| `client` | SpinelClient | 3 calls, 2 TIDs, starting at the last | 20 684 | `AnswerIsOwnOrWrapped`, `EntriesAreRight`, `AnswerIsKept`, `CallsEnd`, `ImplementsCalls` |
| `python` | PySpinel | 3 calls, 2 TIDs, 1 retry, 1 notification before the third call | 719 936 | `AnswerIsOwnOrWrapped`, `EntriesAreRight`, `CollisionNeedsRetryOrOverrun`, `ImplementsCalls`, `CallsEnd`, `AnswerBeforeLastAttemptCounts` |
| `hdlc` | HdlcStream | 2 frames of six payloads, 1 error, either parser | 377 330 | `ReadsAsOneStream`, `HeldBackOnlyBehindPoison`, `OneFramePerError`, `OnlyWhatWasSent` |
| `packed_uint21` | StreamRaw over PackedUint21 | 19 numbers around the limits; as tails, short ones, 12 values to send, 4 received values cut at every octet; every string of up to 4 edge octets | 19 821 | `NumbersSurvive`, `ReadersAgree`, `StreamRawSurvives` |
| `counter` | FrameCounter | a packet with 2 attempts, an acknowledgement with 1, 2 runs of the process, margin 2, a backup with the number 3 | 1 113 678 | `NumbersAreUsedOnce`, `SendsEnd` |
| `permit` | PermitJoin | 4 calls, windows of 1 and 3 seconds | 4 453 | `OpenHasItsTimer`, `CutShortOnlyByLeftover` |
| `receiver` | PacketReceiver | 2 starts, 2 arrivals, 7 kinds of frames | 807 254 | `TwiceOnlyIfStartedTwice`, `UnacknowledgedKeepOrder`, `HandedUpWasTuned`, `WantedReachesZigpy` |
| `reset` | RadioReset | 2 resets, 1 start and 1 status of the radio's own, 1 loss | 32 739 | `OwnReportIsKept`, `EarlyOnlyOnOtherStart`, `ResetEnds` |
| `updates` | SpinelTools over PropertyUpdates | 3 processes of either tool, 3 TIDs, 6 requests each, 4 updates, capacity 2 | 1 156 394 | `GapsOnlyWhenFull`, `StaleAnswersRunOut`, `LostPortEndsTool` |
| `mac_frame` | DumpPcap over MacFrame | 14 frames of every kind, 10 cut or foreign ones, 2 neighbouring octets damaged, any number of packets in files with and without FCS | 121 044 | `FcsIsCrc16`, `DamageIsCaught`, `FieldsSurvive`, `DumpedAsCaptured` |
| `mac_frame_assertion` | the same | the same | ends at the violation | `SerializesAsCaptured` does not hold: section 6 |
| `nwk_security` | NwkSecurity over NwkHeader and ApsFrame | 6 frames with every optional field, 2 frames in a row, 3 keys, 2 changes on the air | 866 213 | `OpensWhatWasSealed`, `NothingElseOpens`, `HeadersSurvive`, `ApsSurvives` |

What the less obvious of these say:

* **client, python.** TIDs are reused without asking whether they are free
  (7 values in Rust, 14 in Python). The properties say precisely what this
  costs. A call returns its own answer or one that is a whole cycle older,
  never that of a younger call. `EntriesAreRight` is about the map: a waiting call
  has its entry, and loses it, or has its channel closed, only through a call that
  has the same TID a cycle away; a call that is over leaves none behind, except
  after a failed write (Rust) or without `wait_response` (Python). Two TIDs and three
  calls are enough for a TID to be reused while its first owner is waiting, is
  being cancelled, or is over with its answer still to come; the proofs cover
  every other number. `AnswerIsKept`: the race between timer and answer is
  decided for the answer if it has reached the channel before `timeout` is
  polled. `CollisionNeedsRetryOrOverrun`: a request that was written once, with
  its TID to itself, never makes `data_received` raise.
  In Python each awaited call ends though `data_received` may raise in the middle of
  a read, at an answer too many or at a notification, and leave frames in the buffer;
  an answer that came before the last attempt is returned even if the timer has beaten
  the task, because the next attempt finds the shielded future done. Calls start in one
  order in this run, since they differ only by name; no fairness makes any of them
  start.
* **hdlc.** The frames that come out are those of the stream read in one pass,
  wherever the reads cut it. A complete frame stays in the buffer only behind
  one whose handling raised (Python). The payloads have flags and escapes, look
  like escaped ones, are too short, of unknown commands, or of one in two octets; an
  error may make or unmake a flag or an escape. Two frames and one error are enough for an error
  to lie in one frame, between two, or to join them. Without an error, the last two
  leave nothing out and add nothing: all frames come out, in order. `CleanLineDelivers`
  says so at any moment, of those handed up and those on their way; it is proved only.
* **counter.** `NumbersAreUsedOnce`: two frames never share a number on the air,
  over restarts, unless `lost` has one of its four causes. The margin of 1000
  in `load_network_info` does not make a crash safe, it only bounds the damage:
  the counter counts on from the last clean disconnect. One packet, one
  acknowledgement and two runs are enough for a clash, which needs two numbers;
  the proof covers the rest.
* **permit.** `OpenHasItsTimer`: an open window has a timer of its own that
  closes it when the window ends. `CutShortOnlyByLeftover`: it is closed earlier
  only by the timer that `permit_ncp(0)` forgot without cancelling.
* **receiver.** `HandedUpWasTuned`: packets that reach zigpy came in after the
  whole configuration, because the listener is registered last, unless the radio
  refused a setting, which `start_network` does not look at. `WantedReachesZigpy`:
  a packet for us reaches zigpy, except one that asks for an acknowledgement:
  sending it comes first, and may raise.
* **reset.** `ResetEnds` names every way in which `reset` waits for ever: its
  request or its report was lost, or the report gave another reason.
  `EarlyOnlyOnOtherStart`: a return before the request was carried out means that
  another start was reported.
* **packed_uint21.** `StreamRawSurvives`: a received frame comes out of its value
  in both languages; cut anywhere, the value is refused by Rust (and panics if
  not even its length is there), while Python goes on with what is left; a
  request with it is the same frame again to the one who parses it.
* **updates.** `StaleAnswersRunOut`: the protocol has nothing to tell the answers
  to one process from those to another. It heals nevertheless: a process leaves at
  most one request open, each stale answer uses up one request of a later
  process, and so the n-th process is deceived about its first n-1 requests at
  most. This is claimed, and proved, for as many processes as there are TIDs (7;
  3 in the run); after them see section 6. Three processes with fewer TIDs than a start-up has requests are needed
  for one to meet what two left behind. `LostPortEndsTool`: with its reader gone,
  a tool that waits for an answer ends by its timer. `GapsOnlyWhenFull`: a consumer
  sees every update that comes while it holds the channel of its property, but for
  those that came when it had been given as many as the channel takes and had not
  taken them. `held` remembers how many it had taken when the update came, so that a
  drop with room in the channel is a violation at any time, however many updates
  went before. Updates before its registration are nobody's.
* **mac_frame.** `FcsIsCrc16` compares the FCS with the division of polynomials.
  `FieldsSurvive` has the cases in which the source PAN is read and written under
  different conditions spelled out, and nothing else; what Rust has read, it writes
  again to the same octets. The same of Python is `SerializesAsCaptured`, which fails. `DumpedAsCaptured`: a packet is dumped with its
  fields, a damaged one never, and `dump_pcap` ends early only at a packet Rust
  does not read, unless `fcs_present` is wrong; that needs a first packet that
  was damaged or is no frame to Rust, in a file with FCS, or one whose payload ends
  in an FCS of its own, in a file without.
* **nwk_security.** `NothingElseOpens`: a change of any octet of the headers or
  piece of the payload on the air, or another key, is refused, with the one
  exception of the security level, which is overwritten before the MIC is
  computed. Two changes are needed, so that one could hide another.
  `OpensWhatWasSealed` includes the lists of keys: two frames in a row under the
  first and the last of three keys are enough for a key to be moved and looked
  for again. `HeadersSurvive` is what the MIC rests on, because both languages
  compute it from headers they write anew. Both put the same octets in, so that the
  model has one operator each for the nonce, the MIC and the cipher: a slip in one of
  them is caught where it lets a change pass, a slip in one language alone is for the
  vectors of its tests.

Types are proved, not checked: each `TypeOK` is a part of an inductive
invariant. Deadlock is not checked where a
behaviour ends: a bounded number of calls, frames or windows comes to an end
with nobody waiting; that nobody waits at the end is what the liveness properties
say. Bounds are constants or are named in the guards (`MaxBoots`, `MaxNumber`,
`MaxNotices`, `NoticeEarly`, `MaxArrivals`, ...).

## 4. Fairness

Only what the runtime itself promises is assumed, and never that the radio or
the line does anything:

* `SpinelClient`: weak fairness of `Received`, `Closed` and `Elapsed` (tokio
  polls a ready task, and its 30-second timer fires) and of `CancelRequest`
  (tokio's mutex is fair). None for `Write`: a write to a serial port with flow
  control may block, and `CallsEnd` starts at a written request.
* `PySpinel`: the event loop runs ready tasks (`Resume`), fires timers (`Timer`),
  ends sleeps (`Wake`) and finishes a `data_received` it has begun
  (`HandleFrame`). None for `DataReceived` or for the RCP.
* `FrameCounter`: `set_property` answers or times out, which is `CallsEnd` of
  `PySpinel`, and sleeps end.
* `PacketReceiver`: tasks run, and what they await ends, again `CallsEnd`.
* `SpinelTools`: `Return` and `Timeout`, tokio's ready task and its timer. None for
  the reader, the radio or the line, nor for the start of the next process.
* `RadioReset`: the loop runs tasks, what is on the line is delivered
  unless it is lost, and the radio carries out a request it has got.
  The last two are the radio's part; `ResetEnds` has its failures as exceptions.

## 5. Proofs

TLAPS checks 55 listed theorems and the lemmas they rest on, for every value of
the constants that satisfies the assumptions named in the modules.

* **SpinelClient_proofs**, **PySpinel_proofs.** Assumptions: `NoCall` is no call,
  the number of TIDs is a positive natural number, the first TID is one of them.
  The safety properties are not inductive: that a channel is closed only by a
  namesake a cycle away says nothing of how far two namesakes are from each
  other. `IInv` adds it. `RecentTids` says that the TIDs of the last cycle of
  calls follow from the next TID by counting back; hence two calls with one TID
  are at least a cycle apart (`SameTidApart`). `PendingInv` says that the owner
  of an entry is the youngest call with its TID, `GotInv` that an answer was
  written under the TID of the call it reached, by a call no younger. The rest is
  the state of channels (or futures) and of the line. `Bookkeeping` proves
  `Spec => []IInv`, one lemma per action; `AnswersMatch`, `EntriesMatch` and the
  others follow from it, and so does `Refinement`: each step is one of `SpinelCalls` or a
  stutter, with `SameTidApart` for the guard of `Answer`. For
  `CollisionsExplained` the Python invariant grows by `OnceInv`: the answer to a
  request that was written once is in one place, in flight, in the buffer or taken.
* **Application_proofs.** Two components of the application.
  `PermitIInv` of PermitJoin: until an open window is closed by `permit_ncp(0)`, the
  handle names the only timer, and the flag is as long-lived as the window. `OnTime`
  and `NotTooEarly` follow.
  `IInv` of PacketReceiver, for any frames and any number of starts, listeners and
  arrivals; of `Header` it is assumed only that it has the fields. `StartInv`: a start
  that has ended set the whole configuration (`RegisteredIsTuned`), and there is a
  registration for each. `TaskInv`: a task belongs to an arrival on a radio that was
  configured or has refused something, and only one with an acknowledgement to send
  waits. `QueueInv`: tasks are in the order of their arrivals, those that have run
  before those that have not, and two are for one arrival only if there are two
  registrations; so a packet that waits for no acknowledgement is handed up in its
  turn, which makes `UnacknowledgedKeepOrder` inductive. `HandedInv`
  says of each packet handed up which task did it. `NoDuplicates`, `KeepsOrder` and
  `TunedBefore` follow.
* **HdlcStream_proofs.** Assumption: payloads and noise are octets; any number of
  frames, errors and reads. What a fold computes, one element after the other, is
  proved in **Sequences_proofs** by induction over sets (`SetInduction`, `SeqInduction`, from the minimum of a
  well-founded order), which needs no operator as a parameter.
  `ReadOn`: reading goes on from what is left, wherever that came from. `DrainReads`:
  the loop over the buffer reads as `Reference` does, up to the first frame that
  raises. `RoundTrip`: unstuffing undoes stuffing, and so a frame on the line ends
  what was begun before it and comes out (`FrameReading`). With these, `IInv` is
  inductive: the buffer is as far into a frame as the stream read (`BufferHoldsRest`),
  and without errors the whole stream, read and on its way, ends where a frame ends
  (`StreamIsWhole`). `OneStream`, `OnlyPoisonHolds` and `CleanLine` follow.
  `Resynchronises` needs more, because one error may join frames or make flags.
  `Worn` is the least set of triples (stream, frames written, k) which begins with
  empty ones and grows by a whole frame, or by any octets and a flag in the place
  of one, for 1 in k. `WornReading`: such a stream yields all but k of the frames.
  `WornDisturb`: changing or removing one octet takes a worn stream to one worn by
  one more, whichever octet it is, a flag between two frames included.
* **Tools_proofs**: SpinelTools, PropertyUpdates, MacFrame and DumpPcap.
  SpinelTools. Assumptions: the number of TIDs is a positive natural
  number, each tool's first TID is one of them. `ToolsIInv` counts. `CountInv`: what
  is on its way is at most one request for each earlier process, and what this one
  has open. `InOrder`: the line and the radio keep order, so that an answer of this
  process arrives when nothing stale is left. `FramesInv`: the TID of a request of
  this process follows from `next_tid` by counting back, for the last cycle.
  `DeceivedInv` puts them together: the first c answers were stale, those that are
  left and c together are at most n-1, and all answers behind are this process's own,
  each to its request. `ToolsBookkeeping` proves it, one lemma for each step that
  prepares, writes or takes something, and `NothingNew` for all others.
  PropertyUpdates. The proofs assume that every consumer
  watches one property and that capacities are positive. An update that is dropped
  lies between two others only later, when the next one is put into the channel. Therefore
  `GapsOnlyWhenFull` speaks of what came behind the last update seen as well, as long
  as the consumer has not ended, and `Registrations` says that the holder of a channel
  has not. With `SeenCame` (what was seen has come) this is inductive: the step that
  matters is `Update`, where a new update is either put behind all others or finds
  `Capacity` in the channel. `NoOtherGap` covers what
  the run leaves out: any number of consumers and properties, and receivers that are
  replaced while they run. `ToolsNoOtherGap` is the same of the processes of the
  tools, where a restart empties channels and registers anew.
  MacFrame and DumpPcap. Assumptions: the frames to be written have fields as wide as
  their control field says, of octets, and the air changes at most two neighbouring
  octets; any frames, any foreign octets, any number of packets. Addresses and payloads
  may be any. `FcsIsDivision`: a step of `compute_fcs`, which has no table and takes four bits at a
  time, is division by the polynomial, eight bits one by one (`OctetDivides`); it holds
  for every octet string. `BurstsAreCaught`: two strings of one length that both end in
  their FCS and differ in at most two neighbouring octets are the same. A run over the
  octets can be turned back (`OctetBack`: bits from j on of the result tell the bits from
  j + 8 on of what was there, and the octet if the rest is known), and so two runs over the same
  octets that end alike were never apart (`RunsMeet`); the cases are where the two octets
  lie, in the data, across its end, or in the FCS. `AirInv` says that the air holds a packet changed in
  at most two neighbours, and that readers have read it; `DamageIsAlwaysCaught` and
  `FcsIsAlwaysCrc16` follow.
  `FieldsAlwaysSurvive` has two directions. What was read and is written again
  has the same octets (`FieldsAgain`), in Python but for two cases: the control field is read bit by bit, and the ends of the
  fields follow from it. What was written is read as the same fields if the conditions
  of the property hold (`ReadAsWritten`), because the reader's ends are then the writer's
  (`LaidRead`), and only if they do (`WrittenAsRead`): the lengths differ by the source PAN. The prover
  corrected the property twice. A reader takes the destination PAN for the source PAN if the
  frame is compressed, whatever the writer was given; and `dump_pcap` is misled by a packet
  without FCS whose payload ends in one, so that `AlwaysDumpedAsCaptured` has it as an exception.
* **RadioProperties_proofs**: RadioReset, PackedUint21 and StreamRaw.
  RadioReset. Assumption: calls are told apart from the radio. `IInv`:
  who waits listens; nothing is heard of a call before it is made; every start that
  is reported has taken place. The step that matters is the removal of a listener,
  which leaves those of all other calls in place (`OneRemoved`). `ReportIsKept` and
  `EarlyReturns` follow for any number of calls.
  StreamRaw. `RoundTrip`: for every number below 2^21 and every
  tail, both readers take back what either writer has written, and stop where the
  tail begins. The proof is by cases on the number of septets. `Survival` states
  it of the machine. `Agreement` is about any octets, written or not: the readers
  differ only about those that run out.
  `StreamSurvival` is about the values behind the number: any frame of less than 2^16
  octets, at least as many octets of metadata as the RCP sends, and, for what is sent,
  the settings `packet_sender` chooses. A value cut anywhere agrees with the whole one
  as far as it goes (`PrefixRead`), so its length is read right or not at all, and
  every field that is indexed lies before the end that was checked (`RustReceived`).
  What either language sends is a length, the frame and the same seven settings
  (`SentValue`).
* **Security_proofs**: FrameCounter and NwkSecurity.
  FrameCounter. Assumptions: positive numbers of attempts, a natural
  margin, natural numbers in backups. `IInv`: as long as nothing was lost, a run that has loaded the counter
  has a counter no number on the air exceeds, and so does the file unless this
  run has sent frames since it was written (`dirty`). `FreshNumbers` follows for
  any number of frames, attempts, backups and restarts.
  NwkSecurity. Assumption, `SecurityAssumption`: frames have headers whose fields are those
  their control announces, octets and numbers fit their width, and the keys used are in the
  list of the scripts. Any frames, any keys, also a list that has one twice, any number of
  frames and changes, any bursts.
  *Headers.* `NwkBack`, `AuxBack`, `ApsBack`: what is written is read back to where it
  ends, whatever follows. `NwkForth`, `AuxForth`: of any octets whatsoever, what a reader
  takes is written to the octets it was read from. The second is what `HeadersSurvive`
  says of every damaged frame, and the two together give more: two readings that are
  written alike are alike, which carries equality of MACs over to equality of headers.
  *Cipher.* Deciphering undoes enciphering, piece by piece, because a symmetric difference
  with the same key stream undoes itself. For the converse, `SecurityInv` says what the air
  cannot do: of the pieces on the wire, changed, swapped or cut as often as you like, only one
  atom is a MAC, and it is that of the frame that was sent, under its key (`MacsAre`). A key
  that fits has found its own MAC in the last piece (`DecryptMac`). The key stream adds
  no MAC, so it is the MAC of the sent frame, hence its key, its text, its nonce and, by
  the previous paragraph, its headers but for the level (`KeyIs`). This strengthening is needed since
  `NothingElseOpens` looks only at frames that were opened, and says nothing of a wire
  that may be damaged next.
  *Scripts.* The lists of keys are only permuted, in either language, so the key of every
  frame is still in them. The result of a script is one that `Handle` makes of the frame
  on the wire, with some list of keys, until the next frame is sent (`ResultInv`).
  `AlwaysOpens`, `NothingElseEverOpens`, `HeadersAlwaysSurvive` and `ApsAlwaysSurvives`
  follow. `SecurityInv` has a part that ranges over all sets, which TLC cannot evaluate;
  the run checks what it is for. The proof asked for one change of the model:
  `AuxOutcome` states the length its second case relies on (octets before `AuxLength`
  reads one), as `NwkAuxHeader::deserialize` does.

Model-checked only: liveness (`CallsEnd`, `AnswerBeforeLastAttemptCounts`, `SendsEnd`,
`WantedReachesZigpy`, `ResetEnds`, `LostPortEndsTool`), which is outside the prover's
reach, as is ENABLED; and `OnlyWhatWasSent`, which is not true of every payload, because a
checksum can be right by chance. Every other property of the passing runs is stated by
a theorem. Of `SerializesAsCaptured`, which does not hold, `SerializesOthersAsCaptured`
proves that it fails on no other undamaged frames than those of section 6.

## 6. Deviations the models show

Cases that the properties above name as exceptions, or exclude, because the code
does them:

* `packed_uint21_to_bytes` accepts 2^21 (`spinel.rs:244` compares with `>`): four
  octets come out that neither reader takes. `NumbersSurvive` and `RoundTrip` are
  about numbers below.
* `PackedUInt21.deserialize` takes an integer whose octets run out for a complete
  one, and the Python writer has no octet for 0 (`spinel_types.py:11-46`).
* The comment of `send_frame` says that TIDs are 1 to 15, the modulus makes them 1
  to 14 (`spinel.py:123-125`).
* `ignoring_until_next_flag` (`spinel.rs:529`) has no effect: the first flag clears
  it without draining what is before it.
* `permit_ncp(0)` leaves the timer of the window behind (`application.py:533`),
  which then closes the next one early.
* A second `start_network` registers the listener again (`application.py:105`).
* A packet whose APS acknowledgement cannot be built (radius 0,
  `application.py:458`) or sent is lost for zigpy.
* `ZigbeeNwkAuxHeader.serialize` fails on a header without extended source
  (`zigbee_types.py:373`), for which `_get_nonce` has a fallback; Rust decrypts
  such frames. A frame without security ends Python's script with a `ValueError`
  (`zigbee_types.py:434`); `dump_pcap` takes it as it is.
* The Python reader of 802.15.4 frames takes a source PAN from a beacon request
  that has none (`zigbee_types.py:118`): its payload 07 and an octet of its FCS. The
  writer leaves the PAN out of every command with the payload 07 (166). The script of
  the same file asserts of every packet, before it looks at the type, `assert
  ieee_frame.serialize() == packet` (659), and therefore ends at an intact beacon
  request. The run `mac_frame_assertion` shows it. The other undamaged frames it ends at
  are commands with a PAN of their own and the payload 07.
* `ApsFrame::to_bytes` writes cluster and profile high octet first
  (`zigbee_aps.rs:125-126`), both readers take the low one first: a frame Rust has
  written is read back with both swapped.
* Rust indexes octets it has not asked for: `ieee_802154.rs:179`,
  `zigbee_nwk.rs:220` and 400, `spinel_client.rs:70`. The first panics on a frame
  with a right FCS and nothing behind its control field.
* `dump_pcap` decides by its first packet whether the file has FCS
  (`dump_pcap.rs:75`); a damaged first packet makes it read FCS as payload.
* `packet_capture` reads `psdu` with `from_bytes_without_fcs`
  (`packet_capture.rs:65`), while `application.py` takes the last two octets of the
  same value for the FCS (`zigbee_types.py:92-143`).
* For `STREAM_RAW`, Rust sends delays of four octets and a power, Python delays of
  one octet and no power (`application.py:231-250`).
* `transmit_frame` returns `Ok(1)` whatever the radio says, or panics
  (`spinel_client.rs:295-301`): the `Err` branch of the sender is never taken. The
  tools do not look at property and status of an answer either.
* With more runs of the tools than TIDs, a process can meet as many stale answers as
  there are TIDs. It then takes the answer to its first request for that to its
  eighth, which has the same TID, and stays a whole cycle behind for as long as
  nothing is lost (`spinel.rs:572-613`, `spinel_client.rs:203`). The invariant
  without its premise fails in TLC with 3 processes and 2 TIDs.
* When the reader task has stopped, `packet_capture` waits in `recv` for ever: the
  protocol object still holds the sender.

## 7. What is not modelled

* `StateMachine` and `Version` of `common.py`: nothing in the repository uses
  them, and what could go wrong with their waiters depends on the callers.
* Network settings and backups other than the frame counter: copies.
* Names of commands, properties and statuses, formatting, and the helpers of
  `common.py`: no behaviour of their own.
* `sniffer.py` and `beacon_test.py`: straight-line scripts over `SpinelProtocol`,
  whose calls are in `PySpinel`.
* Opening the serial connection: the work of `zigpy.serial` and `serial2-tokio`.
  `PySpinel` has the port closed by `disconnect`; `SpinelClient` and `SpinelTools`
  a write that fails or takes only a part, and a reader that stops.
* Restarts of the Python process with answers still in the line, and a
  `send_command` future that its caller drops.
* Security headers of the 802.15.4 layer, which no reader of the repository
  parses, and 802.15.4 information elements.
* The payload's bits: AES, CBC-MAC and the constant-time comparison are ideal.
* `set_unsolicited_frame_receiver`: it stores a sender that no code reads.

## 8. Plan

The order follows the importance of the behaviour: first the layer everything
else goes through, then the state that outlives the process, then the callbacks
of the application, then the codecs and tools.

1. Transactions: `SpinelCalls`, `SpinelClient`, `PySpinel`, with proofs. Done.
2. The line below: `HdlcStream`, `PackedUint21`, and `StreamRaw` on top of
   the latter, with proofs. Done.
3. Application: `FrameCounter`, `PermitJoin`, `PacketReceiver`, `RadioReset`, with
   proofs. Done.
4. Tools and receivers: `PropertyUpdates`, `SpinelTools` over it, with proofs. Done.
5. Codecs and captures: `MacFrame` and `DumpPcap`; `ZigbeeTypes`, `NwkHeader`,
   `ApsFrame` and `NwkSecurity`, with proofs. Done.
6. Open, compositions: `PySpinel` over `HdlcStream`, with `data_received` raising
   in the middle of a read; `PacketReceiver` and `FrameCounter` over the promise of
   `SpinelCalls`, with acknowledgements that take their numbers from the counter.
