# aiopppp: a verification project

TLA+ models of the PPPP camera client in `src/aiopppp` and of the camera simulator
`src/binary_camera.py`, model-checked with TLC; every safety property is proved with
TLAPS as well. Line numbers are those of the sources beside this directory; `PROJECT.json` maps
every definition to its lines.

## 1. The system

A `Session` (`session.py`) is one connection to one camera over UDP. It runs
three tasks on one asyncio event loop: the main task (`_run`: handshake, setup,
a once-a-second `loop_step`), the packet task (`process_packet_queue`) and the
video task (`process_video_queue`). A `Device` (`device.py`) owns one session at
a time and makes a new one after a loss; the command line program (`__main__.py`)
owns one session per discovered camera. HTTP handlers, or an embedding program
such as a home automation, call the session's methods from tasks of their own.

| component | state it keeps | operations | interacts through |
|---|---|---|---|
| frame assembly (`VideoQueueMixin`) | `video_received`, `video_boundaries`, `last_video_frame`, `_frame_window`, `_frame_missing` | a chunk is stored, a frame completes, reset by `stop_video` | chunk queue in, `frame_buffer` out |
| index unwrapping (`handle_drw`) | `video_epoch`, `last_drw_pkt_idx` | a chunk gets its epoch, reset by `stop_video` | chunk queue |
| watchdog (`loop_step`) | four timestamps, `is_video_requested` | re-request, give up, keep alive | timestamps written by the packet task and by users |
| session life | three tasks, `state`, `transport`, `device_is_ready`, packet queue, debounce counter | start, handshake, setup, loop, `stop`, `_on_device_lost` | callbacks `on_disconnect`, `on_video_state_change`; events; task results |
| requests | `drw_waiters`, `cmd_waiters`, index counters | send, acknowledge, respond, time out, evict | futures shared between callers and packet task |
| `Device` | `_session`, `_closing`, `_want_video`, `_reconnect_task` | connect, close, lost, reconnect, start and stop video | the session's tasks and callback |
| program, discovery | `SESSIONS`, `tasks`, `new_device_fut` | device found, device lost, wait, leave | callbacks, task results |
| HTTP streams | `_AUDIO_LISTENERS`, the session each request captured, the readers at a buffer | stream audio, stream video, commands | the program's sessions; `SharedFrameBuffer` |
| commands and camera | login, last code of each command, requested video; the camera's login, sleeping tasks, stream | login, request, answer, refuse, start, stop, ask again | datagrams both ways |
| codecs | none | parse, build, cipher, G.711, battery, clock | - |

What is hard here, and what correctness means:

* *Frame assembly.* UDP loses, repeats and reorders chunks; the set of missing
  chunks is kept up incrementally. Correct: every frame shown is one whole frame
  of the stream, frames come in order, no complete window waits.
* *Unwrapping.* The 16-bit index wraps while late chunks are under way. Correct:
  every chunk gets the lap it was sent in, over any number of wraps and stops.
* *Watchdog.* Correct: silence and stalls are noticed in time; a camera that is heard
  is asked again, and given time to answer, before it is given up.
* *Session life.* Tasks fail, are cancelled and call `stop()` on each other.
  Correct: what is torn down stays down and ends completely, a loss is reported when
  the session is down, and nobody waits on it for ever.
* *Requests.* Acknowledgement and response race each other, timeouts and other
  requests. Correct: an answer that came is not reported missing, every request ends,
  the table of waiters is bounded and its waiters can be reached.
* *Device.* `connect` and `close` await while losses arrive. Correct: one live
  session, nothing left after `close`, a loss never forgotten (which the code does not
  keep, section 3), video resumed.
* *Program.* Cameras answer every search, sessions come and go while `amain` waits for
  a snapshot of their tasks. Correct: one session per device, none left behind, no
  wake-up lost, no exit for the loss of a device.
* *HTTP streams.* Listeners are counted by device, and each starts and stops the session
  it captured. Correct: nobody's stream is stopped by another who leaves.
* *Commands.* Datagrams are lost, repeated and overtaken; answers carry nothing but
  their command. Correct: both ends agree on the login, who is refused can tell, the
  camera streams what is requested.
* *Codecs.* Correct: what is sent is read as it was, and what is measured is
  reported within the precision of its code.

`PROJECT.json` lists the hazards one by one, each at its line.

## 2. The modules

| module | models | steps |
|---|---|---|
| `FrameStream` | the abstract promise to a viewer of `latest_frame` | a frame later than all before is shown; reset |
| `FrameAssembly` | `handle_incoming_video_packet`, `process_video_frame`, the reset in `stop_video` | one chunk is one step: the coroutine has no suspension point |
| `EpochTracker` | `_get_drw_epoch`, the tracking in `handle_drw`, the reset in `stop_video` | one chunk is one step |
| `VideoStream` | the two above composed with packet task, chunk queue, video task, `start_video`, `stop_video` | a chunk queued, a chunk assembled |
| `Watchdog` | `loop_step` and what it reads | one second is one `Tick`; a timestamp is its age |
| `SessionLife` | one session, its callers and its owner | from one suspension point to the next |
| `DeviceLife` | `Device` over several sessions | from one suspension point to the next |
| `Requests` | both waiter tables and the coroutines that use them | from one suspension point to the next |
| `Program` | `__main__.py`: both callbacks, `amain` | from one wait to the next |
| `HttpStreams` | `stream_audio`, `stream_video`, stream commands, `SharedFrameBuffer`, `start_audio` and `stop_audio` | from one suspension point to the next |
| `Camera` | login, requests, video commands of `BinarySession`; `process_drw` of `BinaryCamera`; the network | a datagram handled, a sleep over, a caller resumed |
| `Wire` | `encrypt.py`, the packets of `packets.py`, the datagrams of `discover.py` | operators on byte strings |
| `G711` | `audio.py` | operators on samples |
| `Readings` | battery percentage and clock of `packets.py`, `set_datetime` | operators |
| `Bytewise` | bytes and `^` | operators on bytes |
| `FrameAssemblyProofs`, `VideoStreamProofs` (with `EpochTracker`), `LinkProofs` (of `Watchdog` and `Requests`), `SessionLifeProofs`, `DeviceLifeProofs`, `CameraProofs`, `HttpStreamsProofs` (with `Program`), `CodecsProofs` (of `Wire`, `G711`, `Readings`) | proofs | |
| `MCFrameAssembly`, `MCVideoStream`, `MCHttpStreams`, `MCCodecs` | instances for TLC | |

`VideoStream` EXTENDS `FrameAssembly` and `EpochTracker`, so the composition runs
the very definitions proved about. `SessionLife` abstracts from what is
exchanged: a packet is what its handler does (tick the handshake, reply, answer
the setup, fail, close). `DeviceLife` abstracts a session to the moments a device
can see, among them the silent ends of `SessionLife` (`create_udp` raises; the future
setup waits on is cancelled). `Program`
does the same for many sessions, and `HttpStreams` EXTENDS `Program`: its next-state
relation runs every step of the program with what it does to the streams.
`Camera` composes the two ends of a connection; acknowledgements and their waiters are
in `Requests`, and in `Camera` each request is acknowledged before anything else
happens. `MCCodecs` steps through the inputs
of the codecs, one input a state. Operators
that a comment calls a mutant are variants of the definition that follows them,
wrong on purpose, used to show that the properties notice; no action uses them.

Correspondence of state: variables carry the code's names where TLA+ allows
(`epoch` is `video_epoch`, `lastIdx` is `last_drw_pkt_idx`, `received` is
`video_received`, `order` is `drw_waiters` in dict order, `waiters` is
`cmd_waiters`, `sess` is `_session`, `count` is `_AUDIO_LISTENERS`, `fut` is
`new_device_fut`, `loggedIn` is the camera's `logged_in`). Variables whose comment says *history*
are of the model only; no guard of a code step reads them, except where section 4
says so.

Facts about asyncio the steps rest on: a coroutine runs until it awaits something
not ready; `Queue.get` on a queue that is not empty does not suspend, so the packet
task works off its queue in one go (`busy`), even after one of those packets made it
ask for its own cancellation, while a cancellation that finds it waiting makes it drop
what is still queued; `Condition.notify_all` and an uncontended lock do not suspend; `send`
suspends only when a task of its session has ended, and then re-raises what ended it;
`wait_for` that times out cancels the future (Python 3.12 and later).

## 3. The runs

| run | instance | what it shows |
|---|---|---|
| `frame_assembly` | 5 chunks, all 4 kinds | assembly invariants and refinement of `FrameStream` |
| `video_stream` | 7 chunks of 2 kinds, index modulo 4, queue of 2 | the same end to end, over a wrap and any number of stops |
| `watchdog` | the code's thresholds in seconds, 2 datagrams waiting | silence and stalls are noticed, death is earned |
| `session` | 2 packets waiting, one P2pRdy in the debounce delay | the life cycle: torn for good, losses reported, nobody waits for ever |
| `session_crash` | same | violated: the process ends when `create_udp` raises |
| `device` | 3 sessions | one live session, closed for good, `close` returns, video resumed |
| `device_gives_up` | same | violated: a reconnect that times out ends reconnecting |
| `requests` | 2 clients, 1 command with a response, 4 DRWs, cap 2, index modulo 3 | waiters bounded and reachable, no answer missed but among rivals, requests end |
| `streams` | 1 device, 2 sessions, 2 clients, symmetric | no session astray, no wake-up lost, streams kept, no exit without a reason |
| `streams_last_out` | same, without symmetry | violated: the last listener out does not stop the camera |
| `camera` | 2 requests, 1 fault of the network, 3 datagrams each way | login agreed on, refusals explained, the stream follows the request |
| `codecs` | inputs below | codecs against their inverses and reference bounds |

Most modules of actions state a type invariant, `...TypeOK`. The runs spend their time
on the other properties; the type invariants are proved (section 5).

Why the bounds are enough. Five chunks hold two whole frames, one of them with a
gap, a repeated boundary, a bare header and muxed audio; the theorems of section 5
remove the bound. Seven chunks with an index modulo 4 cross a wrap in the middle of a
frame, with late chunks from before it and a stop on either side; `VideoStreamProofs`
removes these bounds. `MaxEpoch` (2) is never reached there.
The watchdog's ages stop counting at `RecvSec + DeadSec`, above every threshold,
so the model is exact. Two waiting packets give a packet after the one that
ends the session. Three sessions are a first one, its successor, and one too many:
a reconnect that fails and is tried again. Four DRWs overflow a cap of 2 and wrap
an index modulo 3. One command with a response is enough: requests for different ones
share `drw_waiters` only, where a DRW without a response does as much, and the theorems
are about any number.

`streams` has one device with a session and its successor, so that a listener of the
first meets a listener of the second; any number of devices, sessions and clients is
what `HttpStreamsProofs` is about. Clients and sessions are interchangeable: no
definition prefers one, and the run checks no liveness. In `camera` two requests of a
client are one before and one after the login, or one during each half of the setup;
one fault is a loss, a repetition, an overtaking or an answer slower than the
timeout; three datagrams each way hold a stop between two starts. With no bound on
stops and starts the stream's state goes round for ever. In `codecs` every 16-bit
sample passes both audio codecs; the battery rises from 2990 to 4610 mV, ten beyond
the range it accepts; zones go in steps of five minutes over 15 hours either way,
which contains every zone there is and values that are none; payloads have 0 to 9
bytes, around the 4 they are rotated by and beyond twice that; the indices are 0, 1,
65535 and one whose two bytes look like a line feed; and every packet goes out plain
and under `xor1`.

Deadlock is checked in `frame_assembly` and `video_stream`. In the other runs a
behaviour may stop: a torn session, a closed device and an ended program have nothing
more to do, the inputs of `codecs` run out, and the bounds on sessions, clients and
requests end the rest.

### The violations

Each states what a comment or docstring says and what the code does not do; the
quotes are in `PROJECT.json` under `findings`.

* `ProcessSurvives`: `_run` awaits `create_udp` before its `try`.
* `GivesUpOnlyWhenAsked`: `connect`, called by `_reconnect_loop`, closes the device
  when it times out, which ends that loop.
* `LastListenerStops`: `stream_audio` counts its listener and awaits `start_audio`
  before the `try` whose `finally` counts it out again (`http_server.py:568-572`). When
  `start_audio` raises, because the session has no transport or one of its tasks has
  failed, the count stays up. The count goes by device and the stop by session, too:
  when the last to leave is a listener of a lost session, it is that session that is
  stopped and the present one streams on.

More disagreements, without a run. Four of them are stated in the modules, by the
definition named, and TLC finds each violated on the instance of its module:

* `GivenUpOnlyStreaming`: `playback_stop` (`session.py:1194`), unlike `stop_video`, does
  not clear `video_stale_at`, and `loop_step` gives up on that alone. A playback that
  stalled and was stopped takes its session with it once the stall is ten seconds old.
* `NoZombie`: another request for the command whose answer setup waits for cancels that
  future (`session.py:430`), and `_run` takes the `CancelledError` for its own (`:498`).
  It ends without `stop()` and without a report; with a peer that is silent the
  transport stays open, since the main task was the one to notice.
* `LossIsPursued`: `connect` sets `_session` at once. When, in a reconnect, the new
  session's task raises before its endpoint is open, `_session` stays set, and the
  condition of the reconnect loop (`device.py:136`), which is meant for success, ends
  it. The session that is left never reports anything.
* `NoAnswerLost`: `cmd_waiters` has one place for each command. A second request
  replaces the future of the first, and whichever ends first pops what is there by then
  (`session.py:671`, `:881`).
* Command and audio indices are counted apart but share `drw_waiters`: a chunk of
  talk-back audio takes the place of a fresh command's waiter with the same index.
* The docstring of `_request` (`session.py:1085`) promises `b''` on a timeout, and
  the code raises `TimeoutError`.
* `on_receive` (`discover.py:80`) says a stray datagram must not abort it, but an empty
  one raises in `maybe_decode`, before the `try`.
* `parse_drw_pkt` (`packets.py:454`) tells the class of a DRW by the first bytes of its
  payload, whatever the channel: a chunk of a frame that begins with `06 0a` or `11 0a`
  may be taken for a command or refused. `WhatIsSentIsRead` excepts such
  chunks by name (`Mistakable`).

## 4. What is assumed

* *Network.* Frame assembly assumes nothing: any chunk produced so far may
  arrive at any time, any number of times, or never. Unwrapping needs the
  assumption `Deliverable`: a chunk near a wrap is less than `WrapMargin` (0x100)
  positions from the newest one handled, in the middle of a lap any distance goes,
  and after a stop nothing from before the last wrap arrives. The last part is
  a real limit of the code: `stop_video` forgets the epoch but keeps the
  high-water mark. `LapsAssumption` says that `MaxEpoch` takes in every lap the stream
  can reach, so that it bounds nothing.
* *Frames.* `NoFrame`, the value of `latest_frame` before the first frame, is not a
  frame: its index is no natural number (`NoFrameAssumption`).
* *Camera.* It numbers video chunks on over a stop and start, as
  `binary_camera.py` does.
* *Time.* In `Watchdog` the event loop keeps up with the clock: no second passes
  while a step is due or a datagram waits. Without it `SilenceIsNoticed` could
  not hold for any program.
* *Users.* In `DeviceLife` the user awaits one call before the next. `OneLiveSession`
  and `ClosedIsClosed` are stated for users who do not call `connect` while a
  reconnect is at work (history `hasty`): the code does not refuse that call and
  then makes two sessions. One such call the model leaves out: `UserConnects` waits
  while the reconnect task is in a `close` of its own, after which a loss could start a
  second reconnect task, and `DeviceLife` has one. `hasty` excepts that call from both
  properties anyway.
* *Requests.* Requests for one command may overlap. The history `rival` marks those
  that did, and `AnswerNotMissed` and the second half of `WaiterReachable` except them:
  the code gives them one place among the waiters, which is what `NoAnswerLost` shows.
  An answer is dropped as well, and the caller told so by an exception, when the
  acknowledgement of its request does not come or its waiter is replaced or evicted; no
  property claims otherwise.
* *Commands.* In `Camera` the event loop of the host resumes a caller that was answered
  before it takes the next datagram or timer, and before the camera can answer again
  (`Settled`): a loop turn is far shorter than a round trip. Each request is acknowledged
  before anything else happens, so that its caller waits for the response at once. A
  request that cancels the future of another therefore finds its own gone: the cancelled
  caller's `finally` pops it on the way out (`session.py:880-881`), and the request comes
  back with `b''` (`:884`); `Request` and `Finish` model that. A timeout while the answer
  is still under way is a fault, and counts as one. The datagrams of one direction keep
  their order unless a fault changes it. Two histories appear in properties: `crossed`,
  an answer was taken for that to another request, which the wire format cannot exclude,
  and `faults`. `NoneAssumption` says no more than that `None` is no truth value,
  number, caller or request. The credentials of a camera do not change and it is not
  restarted, and the oldest sleeping task of the camera wakes first.
* *Web server.* It ends with its task or with `amain`, and its handlers with it. A handler learns
  that its client has left when it writes. `byHand` names the sessions
  a stream of which a command started or stopped: a command is meant to
  overrule the listeners.
* *Codecs.* `json.dumps` and `json.loads` are inverse. A serial number fits 31 bits
  (the integers of TLC). How a camera's firmware keeps its clock is external, taken from
  the docstring beside `parse_datetime_block` and from `src/README.md:46-49` and `73-75`:
  local-only firmware has no zone to write and adds an offset of its own, which is a
  parameter of `Stores`. So `ClockIsReadBack` promises the host's local time with the one
  kind of firmware only. `ReadingsAssumption` says that `None` is no
  number, `CodecsAssumption` that the payloads of the run fit a packet.
* *Fairness.* `SessionLife`: the event loop runs what is ready (weak fairness of
  the packet task, of delivered cancellations and of opening the socket), timers fire
  and every wait before the loop has a timeout (strong fairness, since a burst of
  packets may disable a step for a moment), and the loop sends a keep-alive at least
  every eleven seconds, which is how it meets the exception of another task.
  `DeviceLife`: delivered cancellations and the end of an awaited task; and, since
  `find_device` may swallow a cancellation (`device.py:33-37`) and the reconnect task then
  goes on, that a search ends, an endpoint is opened or is not, and `connect` returns or
  times out, each of which has a timeout in the code.
  `Requests`: both waits have a timeout of five seconds. Nothing is assumed of
  the network or of users in any liveness property.

## 5. What is proved

TLAPS proves, for every value of the constants the named assumptions allow:

* `FrameAssemblyProofs`. From `KindsAssumption`, `BoundAssumption`,
  `EmptyAssumption` and `NoWindowAssumption`: `AssemblyInvariant`, and from it
  `AssemblyTypeCorrect`, `MissingIsExact`, `WindowIsNewest`,
  `NoCompleteWindowWaits`, `ShownIsAFrame`; and `AssemblyImplementsFrames`, the
  refinement of `FrameStream`.
  The properties are not inductive by themselves. That a complete window holds
  one whole frame needs `StoredIsSent`: each chunk lies at its position and the
  boundaries known are *all* the stream's boundaries among the chunks stored, so
  that a boundary inside a gapless window would be a newer one. That frames
  come in order needs `LastFrameBehind`: the last frame is never ahead of the window,
  and windows only advance (`WindowStep`). `ClosedWindowIsFrame` puts the first two
  together and serves both the invariant and the refinement.
* `VideoStreamProofs`. First the tracker on its own, from `IndexSpaceAssumption`,
  `MarginAssumption` (three margins fit in the index space, which is what keeps "just
  wrapped", "just behind" and "in the middle" apart) and `EpochAssumption`:
  `TrackerInvariant`, `TrackingIsExact`, `EveryChunkGetsItsEpoch`. The invariant is the
  equality of the session's state with the true position of the newest chunk;
  `EpochOfDeliverable` is the case analysis on where a chunk can be.

  Then the whole path, from these, `LapsAssumption`, `NoFrameAssumption` and the
  assumptions of `FrameAssembly`: `VideoInvariant`, and from it `VideoTypeCorrect`,
  `WaitingChunksAreInStep`, `ChunksAreStoredInPlace`, `EpochIsExactOnThePath`. What the
  session stores is counted from the last stop; shifted by `Lead`, the length of the
  laps before it, it is the state of `FrameAssembly` over the true stream.
  `PathImplementsAssembly` proves that refinement, and `ViewersSeeFrames` and
  `NoCompleteWindowWaitsOnThePath` carry the theorems of `FrameAssemblyProofs` over by
  instantiation, proving none of them again. Most of the work is that storing a
  chunk, moving the window and publishing commute with the shift (`FilingShifted`,
  `WindowShifted`, `PublishShifted`). They do only because every chunk, filed or waiting
  in the queue, was given the epoch of the present count: `stop_video` empties the
  queue with the epoch, which is `QueueInStep`.

* `LinkProofs`, the watchdog. From `ThresholdAssumption`: `WatchdogInvariant`, and from it
  `WatchdogTypeCorrect`, `SilenceEndsSessions`, `StallsEndSessions`, `AliveIsKept`
  and `GivenUpAfterAsking`. The properties allow a second beyond each limit, and
  that second is what makes them not inductive: a `Tick` from a state already one
  second over would leave them. `Judged` says when the second may be used up, only
  while the next loop step is due (`Slack`). That a camera is asked again first, and
  left time, needs `AgesOrdered`, a stall is recorded with the age of the last DRW, never
  more than the age of the last video chunk, and `AskedOverStall`: a recorded stall is
  older than the request made over it by `VIDEO_REREQUEST_SEC` and the second a step may
  be late, so one beyond `VIDEO_DEAD_SEC` was asked about that much earlier.
* `SessionLifeProofs`. From the definitions alone, for any bounds on waiting packets and
  on handshakes: `SessionInvariant`, and from it `TornForGood`, `ObserverIsTold` and
  `EndsAreReported`; with `SessionBounds` also `SessionTypeCorrect`. `TornStaysDown`
  needs `MainIsDone`: a task still running after the tear-down could open the
  session again. `EndIsReported` has two sides. A loss is reported: `EndsAreKnown`
  follows the report back to whoever asked the main task to end, a cancellation under way
  has always been reported or asked for by the owner. And a report comes when the session
  is down: that is `OpenOrTorn`, a session that was reported was torn down, with
  `MainIsDone` for all three tasks. `StopKeeps` is shared by every caller of `stop()`.
* `DeviceLifeProofs`. From the definitions alone, for any set of sessions:
  `DeviceInvariant`, and from it `DeviceTypeCorrect`, `NoSessionIsLeftBehind`,
  `CloseIsFinal` and `VideoComesBack`. The invariant has two
  parts. `AnyhowInv` holds whatever the user calls; that video follows the user's
  wish (`VideoFollows`) needs `OwnSession`, what the reconnect task may be at while the
  device has the session that task made. `Orderly` holds until the user calls `connect`
  while a reconnect is at work: whoever looks for a new session does so alone and
  without one, so that no session made is overwritten, and `close` stays ahead of
  the reconnect task.
* `LinkProofs`, the requests. From `RequestsAssumption`, for any number of clients, commands
  and DRWs, any index space and any cap: `RequestsInvariant`, and from it
  `RequestsTypeCorrect`, `DrwWaitersAreBounded`, `AcksFindTheirWaiter`,
  `WaitersAreReachable` and `AnswersAreNotMissed`, however requests overlap. That an
  acknowledgement finds its waiter is `PendingIsHeld` with `KeysAreTrue`: a DRW leaves the
  table only with its future done or cancelled, over a wrap of the indices and an
  eviction, too. That a response does needs `OwnWaiters`: a request without a rival has its
  own future in `cmd_waiters` as long as it waits.
* `CameraProofs`. From `CameraAssumption` and `NoneAssumption`, for any number of requests,
  of faults of the network and of datagrams under way: `CameraInvariant`, and from it
  `CameraTypeCorrect`, `LoginIsAgreedOn`, `LoginOpensTheCamera`, `RefusalsAreExplained` and
  `StreamIsAsRequested`. The invariant has two parts again. `AnyhowInv` holds whatever the
  network loses, repeats or reorders: an answer to the login, wherever it is, says what the
  camera decided (`LoginAgreed`), and every answer numbered as a request made after a
  successful login is data (`AuthedIsServed`); both need to know who waits for what
  (`CallsMatch`), who still waits having its future in the table (`WaitersMatch`, which
  the pops of cancelled callers must not break), which requests were made at all (`IdsAreGiven`) and that a sleeping task
  of the camera will not refuse (`SleepersServe`).
  `CalmInv` holds until the first fault, and is about order. That nobody's
  refusal is overwritten (`Explained`) follows from `RefusalsInOrder`, a refusal under way
  is one the camera would repeat or the answer to the login is behind it, and that needs
  `OneEach`: before the login returns each command is under way once. The stream follows
  the last start or stop under way (`SwitchesInOrder`).
* `HttpStreamsProofs`. First the program on its own, from `ProgramAssumption`, for any
  number of devices and of sessions: `ProgramInvariant`, and from it `ProgramTypeCorrect`,
  `NoneAstray`, `NoWakeUpIsLost` and `LeavesOnlyForAReason`. `on_device_lost` looks the
  session up by device and stops nothing itself, so that it forgets the right one needs
  both directions, `LiveIsEntry` and `EntryIsLive`: a session in order is its device's
  entry, and an entry is a session of that device in order. They hold only while `amain`
  runs; `NoneLeft` takes over from its `finally`.

  Then the streams, with `ClientsAssumption` (clients are
  finitely many): `StreamsInvariant`, and from it `StreamsTypeCorrect`,
  `StreamsAreKept`; and `StreamsImplementProgram`, the refinement of
  `ProgramSpec`, by which the theorems about the program hold with streams. The invariant
  needs `Counted`: the count of a device is at least the number of its listeners whose
  stream runs. It may be more, which is how `LastListenerStops` fails; were it
  ever less, a listener would be silenced. It needs `CapturedIsMade` to know that
  a captured session keeps its device, and `ViewersSee` speaks of sessions that are
  not stopped, not just of those that can send, since a session being opened may yet.
* `CodecsProofs`. The operators first, for byte strings and packets of any content.
  `Xor1IsInverse`: the encryption of `encrypt.py` is undone for every byte string. A byte
  is masked by the ciphertext byte before it, so what `xor1_encode` returns is defined by
  recursion; that it is a sequence of bytes at all is shown by the least length at which
  it were not (`CiphertextExists`, with `WFMin` of the library). `XqIsInverse` does the
  same for flip and rotation. `AnyPacketIsRead`: whatever packet is sent that fits its
  length field -- a binary command with any token and payload, a JSON command, an
  acknowledgement, an answer to the search, bytes on a channel that do not start like a
  command -- is read as it was sent under either encryption. What makes the guess of
  `maybe_decode` right is `FirstIsChanged`: the first byte of a packet does not survive
  the encryption. `IdentityIsRead`: every identity `make_punch_pkt` can write, with a
  prefix of four bytes and a suffix of up to eight, is the one `as_object` reads.

  Then the properties, from `CodecsAssumption` and `ReadingsAssumption`, for any bound on
  payloads: `SentIsRead`, `SoundIsFaithful`, `PercentageGrows` and `ClockIsAsSet`. Sound
  is not a table of 65536 cases: each segment of A-law and mu-law is one argument about its
  step (`IsASegment`, `IsUSegment`), a code is the middle of its step (`AMagnitudes`,
  `UMagnitudes`), and the masks of the sign are undone (`G711Masks`). The battery's
  percentage grows because each piece of the curve rounds a fraction whose numerator
  grows by less than its denominator (`Rounding`), and neighbouring pieces agree where
  they meet.

The invariants are run by TLC on the small instances as well, so a proof about a wrong
model and a model checked too small would both be noticed; the type invariants,
`TracksTop`, `KeepsAlive`, `AckReachable`, and that the path implements `FrameAssembly`
and the streams `Program`, are proved only.

Only model-checked: liveness under fairness, which is outside what TLAPS proves here
(`AllTasksEnd`, `StartVideoReturns`, `FailureIsNoticed`, `CloseReturns`,
`RequestsEnd`), and the violations of section 3. The one definition by recursion, `Xor1Encode`, is a recursive function.
Not proved of the codecs: that `json.dumps` and `json.loads` are inverse, which is
assumed of the documents of `JsonText`.

## 6. Not modelled, and the plan

Planned: the handshake of the simulator (punch, P2pRdy) composed with `SessionLife`, and
its restart.

Left out for good: the pages, JSON replies, snapshots and parameter queries of the HTTP
server, which ask a session and format what it answers; the status and
parameter blocks apart from battery and clock, whose fields are unpacked and named;
the several dozen commands that only pack a payload for `send_command`; what
`asyncio.run` cancels after `amain`; logging, data definitions, and the debugging
proxy (`proxy_camera.py`), which forwards datagrams and keeps no protocol state.
