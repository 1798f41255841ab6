# TLA+ models of mod_realtime_ws

`mod_realtime_ws` is a FreeSWITCH module that connects a call to an AI agent
over a WebSocket, in the dialect of Twilio Media Streams. Audio of the call goes
to the peer as numbered JSON messages; audio, marks and clears of the peer come
back and are played into the call. This directory models the part of it that is
hard to test (bounded buffers, the numbering and acknowledgement of messages,
the threads that share one connection, commands against the hangup) and what
surrounds it: the WebSocket client, the codecs, the way of the samples, the
parsing of commands, metadata and messages, and the two test programs.

## The system

| Component | State | Operations | Modules |
|---|---|---|---|
| Outbound queue, `core/rtw_queue.c` | ring of messages, drop-oldest, counters | init, push, pop, peek, drop_head, destroy | `RtwQueue`, abstract: `DropOldestQueue` |
| Playout buffer, `core/rtw_playout.c` | byte ring, array of marks with countdowns | init, write, read, add_mark, pop_completed_marks, clear, destroy | `RtwPlayout`, `MarkOrder`, abstract: `Playout` |
| Session, `core/rtw_session.c` | state, sequence, chunk and timestamp counters, queue, playout, clear measurement | start, push_pcm16, handle_peer_json, peek/pop/drop of the queue, read_playout, note_write_after_clear, stop, rehandshake, destroy | `RtwSession` |
| Bridge, `mod/rtw_bridge.c` | mutex, connection, `ws_ready`, stop flags, reconnect counters, worker thread, `pcm_hold` | start, stop, pause, clear, send_mark, status, read and write callbacks, worker loop, reconnect | `RtwBridge` (threads), `BridgeStart` (what it owns), `RtwAudio` (samples), `StartMetadata` |
| Module, `mod/mod_realtime_ws.c` | media bugs, channel private data | API commands, `capture_callback`, `start_capture`, `do_stop` | `ModLifecycle`, `ApiCommand`; the callbacks are steps of `RtwBridge` |
| Protocol, `core/rtw_protocol.c` | none | builders, `rtw_parse_inbound` | `RtwInbound`, `StartMetadata`; records in `RtwSession` |
| WebSocket client, `core/rtw_ws_client.c` | socket, TLS object, receive buffer | connect, send, poll, close | `WsConnect`, `WsUrl`, `WsClient` (receiving), `WsSend`; in `RtwBridge` by the results of the calls |
| mu-law, `core/rtw_mulaw.c` | none | encode, decode | `RtwMulaw` |
| base64, `core/rtw_base64.c` | none | encode, decode | `RtwBase64` |
| Simulator, `sim/rtw_sim.c` | one thread and a callback | main loop, `on_text` | `RtwSim` |
| Harness, `mod/rtw_mod_harness.c` | a thread against the worker | checks of a bridge without FreeSWITCH | `ModHarness` |
| FreeSWITCH stub, `mod/fs_stub/switch.h` | session, private data | types and empty functions | where `ModHarness` and `ApiCommand` use it |

How they interact. The media thread (READ and WRITE_REPLACE callbacks of the
media bug) and the worker never call each other: they share the session under
`tech->mutex`, which the media thread only tries to lock. The worker polls the
connection, hands text frames to `rtw_session_handle_peer_json`, sends what is
queued (`flush_outbound`: peek, send, drop) and reconnects. API threads run
`clear` and `send_mark` as if the peer had sent them, and flush as well. The
stop raises flags, joins the worker, flushes a stop message, closes and frees.
Commands find a bridge through the channel's private data; FreeSWITCH finds it
through the media bug, and removes the bugs when the call ends. Whichever thread
removes a bug runs CLOSE, and CLOSE frees the bridge.

What is hard: three threads flush one queue over a connection that the worker
replaces without the mutex; flags are read before a lock and used after it; the
stop can come at any point of a reconnect; queues overflow and allocations fail
half way through an operation; marks are counted in bytes still to be read while
reads, clears and writes go on. `PROJECT.json` lists these hazards at their
lines, with the properties that would show each going wrong. The ones of the module
are about time: a start connects for seconds between its check and its
publication of the bridge, and a hangup may come in between; those of the
WebSocket client about how a stream of bytes is cut; those of the codecs and
buffers about the values at the ends of their ranges.

## Modules

`RtwQueue` is the ring as the C code keeps it (`items`, `head`, `tail`, `size`).
`Push` contains the eviction of the oldest message; `PushFails` is a push whose
`malloc` fails after the eviction. `DropOldestQueue` is the FIFO it promises.

`RtwPlayout` is the byte ring and the marks. A byte is its position in the stream
of accepted bytes, so that any loss, repetition or reordering would show; a mark
is its arrival number, and the dense array of marks a function from those to
`bytes_after`. `Playout` is the stream it promises: bytes written and consumed,
and marks at positions of the stream. `MarkOrder` has what both say about marks.

`RtwSession` has one action per function of `rtw_session.h`, on the two abstract
components, which the refinements above justify: `outbound` is a sequence and
the playout buffer two counters and a set of pending marks. A function that
pushes several messages is one step (it runs under the mutex); `Newest` says what
the pushes leave of them, and `MCRtwSession` checks that against repeated pushes.
`EnqueueOutcomes` has the ways in which an allocation can fail on the way.

`RtwBridge` extends `RtwSession` with the threads. `pc[t]` is where thread `t` is,
at the granularity at which others can interfere: every lock, every blocking call
and every unprotected read of a flag is a step of its own. A send is the step
that begins it, on what `tech->ws` is then, and the step that ends it. A callback
of the media thread holds the mutex for one step. `conn` is the fate of each
connection, `delivered` what the peer received on each.

`ModLifecycle` is the life of all the bridges of a call. A bug has one bridge as
its user data, so one name stands for both: `bug[x]` is FreeSWITCH's side,
`tech[x]` the memory. Command threads run `start_capture`, `do_stop` or a command
that uses a bridge; the session's thread prunes a bug whose callback returned
false, and hangs up. Each access to the private data, to the bug list or to the
bridge is a step. That FreeSWITCH keeps bugs in a locked list, that removing one
runs CLOSE in the removing thread, and that a located session waits with its
destruction for its locks, is external and taken from how the module uses it.

`BridgeStart` is about ownership alone: `owned` is what a bridge has allocated,
`surplus` what was given back without being owned, and each failing step has the
list of releases that the code has there. It extends `WsConnect`, which says the
same of a connection (`held`, `twice`), with the three places that call it or
close it: the start, the worker's reconnect and the stop. A connect and a close are
called there as the C code calls them (`Call`, `CloseCall`), without asking what
state the client is in: a second connect would overwrite the first, and a close
without a connection give back what is not held. That it comes to neither is
`ConnectSpec`.

`WsClient` is the receiving half of the client. A byte is its position in the
peer's stream, so `rx` is an interval, and `memmove` an addition to `base`.
`Arrives` cuts the stream as it likes; with TLS (`use_tls`) it comes in records,
and what a read leaves of a record waits inside the TLS object. `start` is where
the handshake stopped reading: when that is not the end of the response, the
client is out of step with the frames, and `FrameGarbage` is what it may make of
them. `WsSend` is the sending half, down to the bytes, and has a reader of RFC
6455 to compare with. `WsUrl` takes a URL apart that is given by what its writer
meant, and makes the Host header of it.

`RtwAudio` is the media path: a sample of the call is the time it was taken at, a
sample for the peer the set of samples it averages. A callback has any number of
samples: at 16 kHz the last of an odd number goes to the wire alone (`lone`), and in
stereo a left sample without its right is not looked at. `last` is the frame that
the call got from the WRITE callback; when that is skipped because the mutex is
held, it is the caller's own. `RtwMulaw` and `RtwBase64`
are the codecs as operators. `RtwInbound` follows one message through its
buffers, with strings as kinds and lengths; `StartMetadata` the members of the
metadata, as a sequence of keys and kinds, to headers and custom parameters, with
cJSON's delete, which ignores case, as it is; `ApiCommand` the words of a command
line. `RtwSim` and `ModHarness` are the two programs with as much of the session
and the bridge as shows in them; the playout of `RtwSim` is a number of pieces of
audio (`audio`) and, for each mark, the pieces still before it (`marks`), with the
room that the playout has for either and the eight acknowledgements of one harvest;
`crowded` notes that one of these was not enough for a mark.

Left out of the data: message texts (records instead), names, statistics
counters that nothing depends on (`uplink_frames`, `downlink_frames`, the latency
histogram), log output. In `RtwBridge` one READ callback brings one whole frame;
how frames are made of callbacks is `RtwAudio`.

The `MC` modules instantiate these for TLC. Four of them (`MCLifecycle`,
`MCStart`, `MCWire`, `MCMedia`) hold several parts of the same stage that share no
state: a start is a command line, metadata, a URL and memory. They are checked
side by side. A behaviour is one part's, and the others rest in their initial
states, which is all there is to see of components that do not interact. The
values of the parts' constants are in the configurations, not in the modules, so
that the same modules are proved about for all of them.

## Runs

| Run | Part | Checks |
|---|---|---|
| `queue` | `RtwQueue` | `SlotsOwned`: a slot holds a message iff it is in the window, so nothing leaks or is freed twice; `Refines`: the ring is the drop-oldest FIFO |
| `playout` | `RtwPlayout` | `RingHoldsStream`; `MarksExact`: a countdown is exactly the audio still before the mark; `CompletionInOrder`; `Refines` |
| `session` | `RtwSession` | `StreamOrdered`: numbers, chunks and timestamps only grow; `GapsExplained`: a missing number was dropped and counted, or found no memory; `AcksInOrder`, `AckAfterAudio`; `OnlyAcksAfterStop`; `OneSamplePerClear` |
| `bridge` | `RtwBridge` | `DeliveredInOrder`: over all connections the peer gets a number at most once and in order; `NoConnectionLeaked`; `StopReachesPeer`, unless there was no memory for a message |
| `bridge_live` | `RtwBridge` | `StopCompletes`, `QueueDrains`; `BreakIsHandled`: a connection that is broken, or that works and is marked not ready because a send on the one before it failed late, is replaced or given up |
| `bridge_play` | `RtwBridge` | `MarkIsAnswered`: for each mark, its acknowledgement reaches the peer once the call has played its audio; the exceptions are named (a message found no memory or was dropped since the mark came, more marks complete together than one harvest takes, the connection, the worker or the bridge ends) |
| `lifecycle` | `ModLifecycle` | `TornDownOnce`: no two threads meet at the unlocked test of `cleanup_started`; `NothingOutlivesCall`; `HangupCompletes`: no command keeps a lock on the session |
| | `ModHarness` | `HarnessEnds`: it ends, and leaves nothing of the bridge behind |
| `start` | `BridgeStart` | `BridgeLeaksNothing`, `FreedOnce`, `WorkerHasBridge`, wherever a start fails and whatever the worker did to the connection; `ConnectionIsOwned`: `tech->ws` is the connection that is open, and none is open without it; `ConnectSpec`: the bridge calls connect only where there is no connection to lose, and close only where there is one |
| | `ApiCommand` | `NothingKept`: each way out unlocks once and frees the copy |
| | `ApiCommand`, `StartMetadata` | `MetadataArrives`: the command passes it on whole, and no member is lost: whatever they are (repeated, empty, no strings, keys that differ in case), one that the deletes take out became headers, and the others become custom parameters; of members as they are documented, each goes exactly one way |
| | `WsUrl` | `UrlUnderstood`: host, port, TLS and the Host header are as meant, or the URL is refused; the path is as meant, but for what does not fit its buffer, which is cut |
| `wire` | `WsClient` | `TextsInOrder`: however reads cut the stream, `rx` is not overrun and texts are handed over once and in order; `NothingStranded`: poll does not wait while a text that has arrived is left lying (without TLS) |
| | `WsSend` | `PeerReadsWhatWasSent`: a peer reads exactly the texts whose send returned 0, whatever was refused or broken off before |
| | `RtwInbound` | `NamesHold`: a message of another stream has no effect, and a name accepted by `send_mark` is echoed uncut |
| `media` | `RtwAudio` | `SamplesReachTheWire`: however samples are cut into callbacks, each accepted one is in one sample of the wire, in order and in whole frames; `PeerIsHeard`: in order, whole but for clears, no faster than it speaks; a frame has gaps, or the caller, only when the playout was dry, the callback skipped or the frame too long |
| | `RtwMulaw` | `SampleSurvives`: within the half step of G.711, monotone, and coding twice is coding once |
| | `RtwBase64` | `PayloadSurvives`: what is encoded is decoded, in a buffer that just fits, whatever blanks are in between |
| | `RtwSim` | `WholeCall`: the simulator's peer sees a whole call or the beginning of one, with every mark accounted for unless it sends more of them than fit the playout or a harvest |

Each property of a passing run has a mutant, a small change of one definition
that TLC must find it violated by (operators named `...Bug`).

Two runs are expected to find a violation, each of a statement of the
documentation:

| Run | Statement | What the code does |
|---|---|---|
| `send_on_closed` | no use after free (ARCHITECTURE.md) | the worker frees the connection while an API thread sends on it |
| `lifecycle_serial` | thread-safe shutdown (ARCHITECTURE.md) | CLOSE clears the private data without looking whose it is: the next start's bridge becomes unreachable |

Type invariants are proved, as part of the inductive invariants below, rather
than checked by runs of their own.

### Other deviations from the documentation

Modelling met more places where the code does something else than a document, a
comment or a message says. Those of the first table have a configuration that
shows a trace, to be run by hand.

| Configuration, module | Statement | What the code does |
|---|---|---|
| `MCSessionMarks`, `MCRtwSession` | a mark is echoed when its audio has finished playing or was cleared (PROTOCOL.md) | all completed marks leave the buffer, but at most 8 are acknowledged at a time |
| `MCBridgeFirst`, `MCRtwBridge` | connected is the first message on a connection (PROTOCOL.md) | after a reconnect the old queue, or an acknowledgement of an API command, goes first |
| `MCBridgeFreed`, `MCRtwBridge` | no use after free (ARCHITECTURE.md) | a command that waits for the mutex survives the bridge |
| `MCBridgeGiveUp`, `MCRtwBridge` | a lost connection is retried with a backoff (PARITY.md, ROADMAP.md) | the first refused connect ends the worker, `reconnect_max` is never reached |
| `MCBridgeHang`, `MCRtwBridge` | the worker never blocks without looking at `close_requested` (ARCHITECTURE.md) | connect and handshake have no timeout, so a stop may wait for ever |
| `MCBridgeShared`, `MCRtwBridge` | thread-safe injection (ARCHITECTURE.md) | the worker reads the TLS object without the mutex (`rtw_ws_client.c:535`) while another thread writes |
| `MCLifecycleOrphan`, `MCLifecycle` | a second start is refused (`mod_realtime_ws.c:95`) | two starts at once both pass the check, and one bridge hides the other |
| `MCLifecycleStop`, `MCLifecycle` | `do_stop` and CLOSE are safe against each other (ARCHITECTURE.md) | `do_stop` writes to a bridge that a hangup has freed (`mod_realtime_ws.c:142`) |
| `MCLifecyclePrivate`, `MCLifecycle` | a hangup detaches cleanly (ARCHITECTURE.md) | the private data is set after the bug was added, possibly to a bridge already freed (`mod_realtime_ws.c:116`) |

The others show in the model where a property above has a precondition or an
exception:

| Where | Statement | What the code does |
|---|---|---|
| `NothingStranded`, `rtw_ws_client.c:525` | a clear works immediately (ARCHITECTURE.md) | poll never asks `SSL_pending`: under TLS a text may wait for the next record |
| `TextsInOrder`, `rtw_ws_client.c:220` | an RFC 6455 client (`rtw_ws_client.h`) | frames that come with the handshake's response are lost |
| `FrameText`, `rtw_ws_client.c:491` | the same | a first fragment is taken for a whole message, the others are skipped |
| `WsUrl!Parses`, `rtw_ws_client.c:85` | a token may be in the URL (ARCHITECTURE.md) | a path of more than 511 characters is cut, where a host or a URI that is too long is refused |
| `StartMetadata!AsDocumented`, `rtw_bridge.c:270` | authentication keys are stripped (ARCHITECTURE.md) | not if they are empty, no string, repeated, or preceded by a key that differs in case |
| `StartMetadata!Fitted`, `rtw_bridge.c:265` | metadata that is no JSON is wrapped (`rtw_bridge.c:264`) | it becomes an empty object |
| `ApiCommand!Cut`, `mod_realtime_ws.c:191` | metadata starts at the first brace (ARCHITECTURE.md) | only if a space precedes that brace |
| `SentMarkComesBack`, `rtw_protocol.c:258` | a mark is echoed (PROTOCOL.md) | a peer's mark is echoed under a name cut to 127 characters |
| `SamplesReachTheWire`, `rtw_bridge.c:548` | resampled at the module's edge (ARCHITECTURE.md) | only 16 kHz is, and within one callback: an odd one adds a sample to the wire; at 24 kHz a second of the call becomes three |
| `NoGapsNoLeaks`, `rtw_bridge.c:600` | "replace frame when playout has data" (`mod_realtime_ws.h:34`) | a callback that does not get the mutex lets the caller's frame through while the peer's audio waits |
| `DownlinkAtCallRate`, `rtw_bridge.c:604` | the same | nothing is resampled towards the call: at 16 kHz the peer is heard at twice the speed |
| `MCMedia!MulawInit`, `rtw_mulaw.c:29` | G.711 (`rtw_mulaw.h`) | -32768 is coded as silence |
| `PayloadSurvives`, `rtw_base64.c:85` | the payload is written within its capacity (`rtw_protocol.h`) | a group with three pads, which the encoder never makes, writes a byte that the test for room does not count |
| `RtwSim!Reports`, `rtw_sim.c:142` | "clear-test FAILED: no mark ack" (`rtw_sim.c:159`) | an acknowledgement sent by the main loop is not noted |
| `ModHarness!Delivers`, `rtw_mod_harness.c:138` | "expected passthrough after clear", "clear latency not sampled" | both also fail when the worker delivers, or holds the mutex, at that moment |

### Bounds

`queue`: three slots, three different messages, seven pushes: the ring wraps
twice and overflows at every position. `playout`: three bytes, six accepted,
two marks at a time of three in all, one clear: writes and reads wrap, the array
of marks is full and reused after a clear. `session`: a queue of two (start and
rehandshake, two messages each, overflow it), four numbers, two marks, one clear
and one failed allocation. `bridge`: a queue of three, one frame, one mark, two
connections, so that an old one and a new one exist with messages for both;
`bridge_live` the same without marks; `bridge_play` a queue of four and one
connection, with audio, two marks and a harvest of one, so that a mark can be one too
many, and one failed allocation; no clears and no reconnect. `MaxSeq` is chosen to leave a number for
every message the other bounds allow, so that it never blocks a stop. Bounds stand
in guards (`MaxSeq`, `MaxBytes`, `MaxMarks`, `MaxClears`, `MaxFailures`,
`MaxFrames`, `MaxConns`, `MaxEnqueued`). `HarvestMax` is the 8 of
`harvest_marks`; in `MCSessionMarks` it is 1, with 2 marks for the 64.

`lifecycle`: two command threads, each of which runs one command after another,
and three bridges, so that two starts, a stop and the hangup overlap; without
symmetry, since liveness is checked. The harness has three frames and four
messages. `start`: two bridges one after the other, two addresses of a host, three
attempts to connect; lines of up to eight words, more than `argv` has, with a brace
at every place; up to three of eight members of metadata; a `UriCap` of 30,
`HostCap` 10 and `PathCap` 5, with lengths on both sides of each. `wire`: two
frames of two to six bytes after a response, one that fits the handshake's buffer
and one that does not; `RxCap` 5 and `Chunk` 2 make `rx` grow, and a record (4) is
longer than the room made for it; for sending, bytes of two bits and texts of 0 to
16 bytes: 2 is where the length gets two bytes more, 15 the last that is sent and
16 the first that is refused; three sends; for messages the sizes of the code,
lengths at and around them. `media`: frames of three samples, callbacks of 1, 3 and 4, mono and stereo, rates of
8, 16 and 24 kHz; frames of the call of 2 and 4 samples against a buffer of 3; one
direction of the audio at a time, since the two have only flags in common; every 16-bit sample but the lowest; all
sequences of up to seven of three bytes (the lowest, the highest, and one that mixes
bits); for the simulator a script of five marks, three pieces of audio and a clear
over four rounds, with room for three marks, two pieces and a harvest of two: marks
are refused, audio is refused, and more marks complete at once than are acknowledged.

Deadlock is checked for the queue and the playout. It is not for the others,
because they end: a bridge that is freed, a call that has ended, a connection that
is closed, a text that is decoded.

### Fairness

`ThreadFairness`: weak fairness of each thread; a blocking send returns in the
end, with an error if need be. `ConnectFairness`: a connect has a result; the
code has no timeout, so this is an assumption on the peer, and `UnansweredSpec`
is without it. `RetryFairness`: strong fairness of the worker's lock, because
commands do not come in an endless burst and callbacks are short, and of poll
reporting a connection that is down (a peer that vanishes silently is not
noticed by the code at all; see the hazards). `PlaybackFairness`: the call asks
for audio again and again, and not only when the mutex is held; and a poll ends
(strong fairness of `PollIdle`), because it reads once into a buffer and hands out
only what is in it, however many texts the peer sends. Nothing is
assumed of the network, of the commands or of a stop ever being asked for.

`ModLifecycle`: weak fairness of each command thread and of the session's thread
once it removes bugs. A start and a stop of a bridge thereby return; for the stop
that is what `StopCompletes` shows, for the start an assumption on the peer, as
above. `ModHarness`: weak fairness of the worker's delivery, strong fairness of
the harness, because the worker sleeps in poll between two uses of the mutex.

## Proofs

For every capacity, every set of messages and every bound, from the assumptions
that the capacity is a positive number, the bounds are numbers and the markers
for an empty slot and an unwritten byte are no message and no byte:

- `RtwQueueProof`: `TypeCorrect`, `SlotsAreOwned`, `RingRefinesQueue`. The
  inductive invariant adds to the types that `tail` follows the last message (the
  code keeps it as a field of its own) and, per slot and without a modulus, that
  a slot holds a message iff its offset from the head is below `size`. The
  refinement shows that removing the head is `Tail` of the abstract sequence and a
  push `Append`, across the wrap.
- `RtwPlayoutProof`: `TypeCorrect`, `StreamIsKept`, `MarksAreExact`,
  `MarksCompleteInOrder`, `PlayoutRefinesStream`. The invariant adds where `tail`
  is, the content of the ring without a modulus, and that positions of pending
  marks grow with their arrival.
- `ModLifecycleProof`, for any number of commands and bridges: `TypeCorrect`,
  `BridgesAreTornDownOnce`, `CallbacksHaveBridges`, `BridgesEndWithCall`.
  `TornDownOnce` is not inductive: the invariant is ownership. A live bridge is
  attached, or in the hands of exactly one thread (a start that has not attached
  it, or a teardown), and `cleanup_started` is set only by the last owner. The
  removal of a bug hands the bridge to the remover. So the unlocked test of
  `cleanup_started` is never contended, although the pointers by which commands
  reach the bridge do go stale (the deviations above).
- `BridgeStartProof`, for any number of bridges, addresses and attempts.
  `ConnectLeaksNothing` and `ConnectGivesBackOnce` are about `WsConnect`; their
  invariant says what is held at every step of a connect. `BridgeConnects`: the
  bridge calls connect and close where `WsConnect` has them as steps, so what is
  proved there of a connection holds of a bridge's. The calls have no guard in the
  model, so this needs the invariant below, which says where there is a connection
  and where there is none. `NothingIsLeaked`, `NothingIsFreedTwice`,
  `WorkersHaveBridges`, `ConnectionsAreOwned` follow from an invariant with bounds
  below and above what is owned at every step, since headers, parameters and the
  connection are optional, and that ties `ws` to the state of the connection.
  The other parts of a start: `CommandKeepsNothing`, for every line and every size
  of `argv`; `MetadataReachesThePeer`, for every object of members, repeated and
  case-differing keys and values that are no strings included: what the two deletes
  take out became headers (`RemovedBecameHeaders`), and what they leave is, in its
  order, the custom parameters (`Ordered` is characterised by the rank of a position).
  That each member goes one way only, and that authentication does not reach the
  parameters, it says of the members the documentation has. Metadata that does not fit
  its buffer is cut by the code and becomes an empty object; the theorem says so.
  `UrlIsUnderstood`, for hosts, ports and paths of any length, assuming that no
  character of a name is a bracket and that a port has no colon: what `Authority`
  writes is read back up to the last colon or the first closing bracket, and to no
  other. Host and port are never cut; the path is the beginning of the one that was
  meant, and all of it if it fits. `PartsOfAStart` says that `StartSpec` is a
  behaviour of each part, so that these theorems hold of it.
- `RtwSessionProof`, for every size of the queue, the playout buffer and the array
  of marks, and every number of failed allocations: `SessionTypes`, `SessionOrder`,
  `SessionGaps`, `SessionAcks`, `SessionAckAfterAudio`, `SessionStopLast`,
  `SessionSamples`. The properties are about what the peer has got and what is
  still queued, taken as one stream. A drop, a failed allocation and the loss of
  the oldest only take elements out of that stream, so the central notion is a
  sequence that lacks some elements of another (`Thins`): whatever compares two
  elements survives it. That leaves, for each function, the messages it numbers
  itself. The invariant orders any two messages of the stream (`Precedes`) and
  says what is known of one (`Sound`): the counters are past it, an acknowledged
  mark lies within the audio consumed and is older than every mark still pending,
  and a stop message is there only when the session is stopped. It adds that the
  positions of marks grow with their arrival, and how chunks and timestamps are
  tied.
- `RtwBridgeProof`, for any number of connections, frames and reconnects:
  `BridgeTypes`, `BridgeDelivery`, `BridgeConnections`, `BridgeStopArrives`,
  `BridgeReady`, `BridgeOneFlusher`, `BridgeHeadStays`. Each step of the bridge is
  one of the session or leaves it alone, so the session's invariant holds here
  too. The invariant adds where each thread can be while another is at a given
  place (`Places`, `Phases`): only so is it seen that the first flush, which takes
  no mutex, is alone; with `Exclusive`, that flushes exclude each other. `Links`
  says that the last connection is the only one that may be open; `Delivered` that
  what the peer got was taken from the queue, in the order of the session's stream. `StopUnderway` follows the stop
  message from the queue to the peer: between the two it can only be lost if it is
  evicted, and after a stop only acknowledgements are queued, at most `HarvestMax`
  of them. Hence the assumption `HarvestMax < QueueCap` (8 in `harvest_marks`, 256
  in `rtw_bridge_start`), without which the theorem is false. `Drained` says that
  after the stop's flush there is nothing left to send or nothing to send on: a
  command that gets the mutex late does not begin a send on a connection that is
  being closed. `BridgeHeadStays` is what makes peek, send, drop correct although
  the send blocks: the message that is being sent stays the head.
- `WsClientProof`, for buffers, chunks, TLS records and frames of any length:
  `WsTextsInOrder`, `WsNothingStranded`. The invariant follows the stream: frames
  lie side by side; what is read, decoded, arrived and written are growing parts
  of it; `rx` begins with a frame, or at the end, if it did so after the handshake;
  and while `rtw_ws_poll` waits, the frame it begins with is not whole.
  `TextsInOrder` needs the former because a frame is found by where `rx` begins,
  `NothingStranded` the latter because several frames may come in one read.
  `NamesAreKept` is about messages and their buffers. It needs `BuffersFit`: an id
  one longer than ours fits the buffer for ids (34 + 1 < 64), and the longest name
  the text of `send_mark` (50 + 34 + 128 <= 256). `PeerReadsTheTexts` is about
  sending, for every size of a byte and of the length code, every set of texts and
  keys, and any `Xor` that undoes itself. Its invariant takes the wire apart into
  the frames of the texts sent, side by side, and the first `off` bytes of the
  current one; after a break, what follows the last whole frame is the beginning of
  one and is never continued. That the recursive reader of RFC 6455 then returns
  those texts is shown with an explicit witness for the function it defines, and by
  taking the least position at which the two would differ. `PartsOfTheWire` is for
  `WireSpec` what `PartsOfAStart` is for `StartSpec`.
- `MediaProof`. `AudioPeerIsHeard` and `AudioUplink` are about `RtwAudio`, for
  callbacks, messages and buffers of any length and at every rate. For the peer's
  audio the invariant takes what was played and what waits as one sequence of
  growing numbers, to which a message adds at the end and in which a callback moves
  the border; a skipped callback moves nothing. For the call's audio (`UpInv`) the
  frames pushed and the rest in `pcm_hold` are a cut through the sequence of averages
  of everything accepted; one sample moves the cut by one, and the loop over a
  callback's samples is shown to move it sample by sample. Which samples an average is
  of depends on the lone ones before it (`Slot`): accepted and lone samples together
  are always twice those of the wire, so a new callback begins a pair of its own
  (`SourcesGrow`). The
  assumption is that a frame fits `pcm_hold` (160 of 320).
  `PayloadIsKept` is about base64, for every payload: the values of a group's
  characters make the number that its bytes make; after each group the decoder has
  put out the bytes up to there (by the least group after which it had not); the
  recursive function over the text exists, and a blank in it is a step that changes
  nothing. `SimulatorSendsWholeCalls` is about the simulator, for every script of
  its peer, every amount of audio read in a round, every number of rounds and any room
  for audio, marks and acknowledgements. Its
  invariant says how far the call is on the wire at every step of the program (a
  stop only at the end, and then with nothing but acknowledgements behind it), and
  that the marks still to be sent, arriving, waiting and acknowledged add up, unless
  more came than there is room for.
  `PartsOfTheMedia` is for `MediaSpec` what `PartsOfAStart` is for `StartSpec`.

The inductive invariants were checked by TLC on the bounds of their runs before
they were proved, but for those of the sending (`SendInv`) and of the call's audio
(`UpInv`), which quantify over sequences without a bound: there TLC has checked
the properties they imply.

Only model-checked are `SampleSurvives`, all liveness and the harness. The mu-law
codec has no constants and no length, and the run goes through every sample but
the lowest, so a proof would say no more. The prover has no fairness and no
ENABLED, which leaves `StopCompletes`, `QueueDrains`, `BreakIsHandled`,
`MarkIsAnswered`, `HangupCompletes` and `HarnessEnds` to TLC; of the harness that
is the only property. Recursive definitions are proved about only where a least
counterexample could be written out, as above; the comparison of `Newest` with
repeated pushes (`MCRtwSession`) is for TLC.

## Not modelled

- Loading and unloading of the module: they register names. An unload while
  workers run is FreeSWITCH's to prevent.
- Usage texts, logging, the JSON of `status`, the latency histogram and counters
  that only statistics show.
- The wrap of `seq`, `chunk` and `timestamp_ms` at 2^32 (49 days of a call).
- A peer that vanishes silently: the client has no ping and no timeout, and does
  not answer pings, so there is no behaviour to model; `BreakIsHandled` is about
  breaks that poll reports.
- Certificates and `tls_insecure`, the randomness of masks and keys, the content
  of the handshake's headers but Host. A TLS object is its records.
- cJSON, but for what its lookups and its delete do to the members.
- The formatting of stream ids; the options of the two test programs; the mock
  servers, scripts and build files.
- The types and empty functions of the FreeSWITCH stub.
- FreeSWITCH itself: the bug list, the locks on a session and
  `switch_separate_string` are as the stub has them or as the module uses them.
  Whether a call really has the rate that the command names is not seen.

## Plan

Every safety invariant of a passing run but `SampleSurvives` is also a theorem.
What is left is refinement of `RtwSession`'s steps by the functions of `RtwQueue`
and `RtwPlayout` within one module (they are composed here by their abstract
specifications), and the timeouts and pings that the client does not have.
