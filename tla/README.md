# i.MX Android HALs: a TLA+ development

This directory specifies and verifies the concurrent core of the hardware
abstraction layers in this repository: the camera HAL for i.MX6
(`mx6/libcamera2`), the assistance and SUPL parts of the GPS driver
(`ublox_gps`), and the audio HAL (`alsa`). TLC checks the modules on small
instances; TLAPS proves the theorems of the `...Proofs` modules for every value
of the constants.
`PROJECT.json` maps each definition to the lines it stands for.

## 1. Inventory

The repository holds the HALs of one board support package. They are separate
libraries that the Android framework loads; they share no state.

| Component | State it keeps | Operations and threads | What makes it correct |
|---|---|---|---|
| `mx6/libcamera2` (camera2 HAL) | request thread, streams, frames with reference counts, V4L2 driver queue | see below | requests are answered once and in order, buffers have one owner, stop always returns |
| `mx6/libcamera`, `mx5x/libcamera` (camera1 HAL) | the same, with preview, encode, capture and post-process threads joined by semaphores | start and stop of preview, recording, capture | command and answer semaphores pair up; buffers as above |
| `mx6/libgralloc_wrapper`, `mx5x/libgralloc` | buffers and their lock state, framebuffer pages | alloc, free, lock, unlock, post | a page is not drawn while displayed |
| `mx6/hwcomposer`, `hwcomposer`, `mx5x/hwcomposer` | displays, vsync thread | prepare, set, vsync enable, hotplug | no vsync after disable, no lost enable |
| `alsa` | mixer routes, input and output streams with standby flags, two levels of locks | open, write, standby, select device | lock order; a stream in standby holds no PCM |
| `libsensors` | drivers, wake pipe, pending events | activate, setDelay, poll | poll returns each event once and wakes up |
| `lights`, `mx6/consumerir`, `mx6/power`, `mx5x/power` | a sysfs file each | set, transmit, hint | pure I/O, except the power control thread |
| `libgps` | state flags, control socket, NMEA reader | start, stop, set mode, cleanup | the state thread takes each command once and ends |
| `ublox_gps/hal` | receiver state machine, clients, timers, sockets, local database | init, start, stop, serial and network input, timers | the receiver is on exactly while somebody needs it |
| `ublox_gps/agnss` | communication thread, list of actions, list of flow-control messages | schedule, clear, acknowledge, timeout, retransmit | each message is acknowledged or given up, success is only reported for what the receiver took |
| `ublox_gps/supl` | SUPL sessions and their timers | message received, timer expired, send | no location without consent, every session ends |
| `ublox_gps/parser`, `ublox_gps/asn1` | parser buffers | feed bytes | pure; ASN.1 code is generated |
| `libbt-ath3k` | HCI power-up sequence | power, userial open and close | order of commands |
| `wirelessptt` | network interface and chip power | start, stop | I/O |
| `wlan` | vendored Linux drivers | | third-party, left out |

### The camera2 HAL

| Part | State | Called by | Calls |
|---|---|---|---|
| `RequestManager` | `mThreadExitSem`, `mPendingRequests`, `mRequestThread`, `mWorkInProcess`, `mStreamAdapter[]` | framework threads: `dispatchRequest`, `allocateStream`, `releaseStream`, `getInProcessCount`; its own `RequestHandleThread`: `handleRequest` | streams, `MetadaManager`, the framework's queues |
| `StreamAdapter` and its kinds `PreviewStream`, `CaptureStream` | `mPrepared`, `mStarted`, `mStreamState`, `mRespondSem`, `mThreadQueue`, `mReceiveFrame` | the request thread; the device thread: `handleCameraFrame`; its own `StreamThread`: `handleStream` | `DeviceAdapter`, the window |
| `CMessageQueue` | `mMessages`, `mSyncMessages`, one semaphore per synchronous message | any thread posts, one `StreamThread` waits | |
| `DeviceAdapter` | `mPreviewing`, `mImageCapture`, `isStreamOn`, `mQueued`, `mDeviceThread`, `mDeviceBufs` | the request thread starts and stops it; every thread that releases a frame: `handleFrameRelease`; its own `DeviceThread` | V4L2, listeners |
| `CameraFrame`, `CameraFrameProvider` | `mRefCount`, `mBufState`; `mFrameListeners` | all of these threads | the observer |
| `MetadaManager` | `mCurrentRequest` | the request thread replaces it, the JPEG thread reads it | |

Six kinds of threads run: framework threads, one request thread per burst, the
device thread, and a thread each for the preview, recorder, callback and JPEG
streams. Only the message queue uses a lock; the rest is semaphores, atomics,
joins, and plain fields. Hard parts are therefore the interleavings (a request
queued while the handler ends, a frame released while preview stops), counters
that two threads keep (`mRefCount`, `mQueued`, `mPendingRequests`,
`mRespondSem`), blocking calls (`sem_wait`, `VIDIOC_DQBUF`, `dequeue_buffer`)
and early exits. `PROJECT.json` lists them as hazards, each at its line.

### The u-blox GPS driver

| Part | State | Called by | Calls |
|---|---|---|---|
| main loop, `hal/gps_thread.cpp` | `clientCount`, command pipe, receiver state | its own thread; other threads write commands to the pipe | serial line, SUPL, receiver state machine |
| `supl/suplSMmanager.cpp` | list of sessions from `s_pQueueTail` on, each with a state, a timer and a connection | the GPS thread: `suplReadUplSock`, `suplCheckPendingActions`, `suplStartSetInitiatedAction`; RIL threads: `suplHandleNetworkInitiatedAction` | server sockets, `CNiIf`, engine control |
| `hal/ubx_niIf.cpp`, `hal/ubx_rilIf.cpp` | `m_cmd` and `sem`; availability and type of the network | framework threads: `respond`, `updateNetworkState` | framework callbacks |
| `CAgnss`, `CAssistNowMga` | list of requests, list of functions to call, message objects | `scheduleAction`, `clearActions` from other threads; the communication thread: `impl_process`, `impl_timeout` | the receiver, the data base, libMga |
| `agnss/mga/libMga.cpp` | the session: list of messages, pointer to the last one sent, count of answers | `CAssistNowMga` | the receiver |
| `agnss/com`, `list`, `storage`, `AssistNowLeg` | a thread with a pipe, a list, a locked map, the legacy AID protocol | | |

Here the hard parts are answers that come late, twice or never, one place for
the answer to several questions (`m_cmd`), a blocking wait of the only thread
(`startNiSession`), lists that are walked while others insert, and counts whose
increments and decrements come from different threads through one pipe.

### The audio HAL

| Part | State | Called by | Calls |
|---|---|---|---|
| device, `imx_audio_device` | `mode`, `in_call`, `out_device`, `active_input`, `active_output[]`, `echo_reference`, its mutex | framework threads: `adev_set_mode`, `adev_open_...`, `adev_close_...` | streams, mixer |
| output, `imx_stream_out` (primary, HDMI, ESAI) | `standby`, `pcm[]`, `device`, `echo_reference`, its mutex | a playback thread each: `out_write_...`, `out_standby`, `out_set_parameters` | PCMs, echo reference, the input |
| input, `imx_stream_in` | `standby`, `pcm`, `source`, `need_echo_reference`, `echo_reference`, its mutex | a capture thread: `in_read`, `in_standby`, `in_set_parameters`; a thread that adds and removes effects | PCM, echo reference |

Everything is under the mutexes, but a write or a read drops the device's and
keeps the stream's, which may block for a period. A stream is started by the
first write or read and stopped by its own thread, by another stream that wants
its hardware, by a change of route, source, effects or mode. The hard parts are
the order of up to three mutexes, what a thread must know again after it has
waited for one, and the echo reference that two streams and the device share.

## 2. Modules

| Module | Models | Composes |
|---|---|---|
| `SyncMailbox` | what users of a `CMessageQueue` may rely on; abstract | |
| `MessageQueue` | `messageQueue.cpp` step by step | implements `SyncMailbox` |
| `HalStreams` | life cycle of the four streams, the device's modes, the JPEG thread | extended by `RequestManager` |
| `RequestManager` | `RequestManager.cpp` and the framework around it | `HalStreams` |
| `PreviewPipeline` | buffers between window, driver, device thread and stream threads | uses the queue as `SyncMailbox` says |
| `MgaSession` | the transfer session of libMga and its client, the serial line, the receiver | |
| `AgnssActions` | the list of actions of `CAgnss`, the functions and messages that carry them out | |
| `SuplSessions` | SUPL sessions, the clients of the receiver, RIL threads, the user | |
| `AudioStreams` | the streams of `tinyalsa_hal.c`, their mutexes, the mode and the echo reference | |
| `MessageQueueProofs`, `RequestManagerProofs`, `PreviewPipelineProofs`, `PreviewReferenceProofs`, `MgaSessionProofs`, `AgnssActionsProofs`, `SuplSessionsProofs`, `AudioStreamsProofs` | theorems | |
| `MC...` | instances for TLC | |

Operators named `...Not`, `...Early` and so on, marked "Mutant", are variants of
the definition that follows them with a plausible bug. They are not part of any
specification; they show that the properties can fail.

**MessageQueue.** `waitMessage` is split where its thread can be overtaken: it
enters, scans under the lock (`takeSync`, `takeMessage` or `nothingFound`, which
sleeps and drops the lock in one step, as a condition variable does), and after
the lock is gone calls `notify`. `postSyncMessage` is two steps, the insertion
and the return of `sem_wait`. `expired` says that `waitRelative` timed out.
`Clear` is a step of its own and takes place, as in `StreamAdapter`, while no
thread waits at the queue and no caller is blocked in it.

**HalStreams and RequestManager.** A stream is prepared, started or neither.
`bringUp` is the body of the loop of `tryRestartStreams` (configure unless
prepared, enable, start unless started), `stopStreams` is `stopStream` for a set
of them. Waiting for a stream's thread to take a synchronous message is a guard:
the thread must be at its queue. Only the JPEG thread is modelled, since only
`CaptureStream::applyRequest` waits without a time limit. `handleRequest` is
split at every call that another thread can interfere with. Kinds of request
are the combinations of request type and streams Android's camera service uses
(`Menu`). The framework is external: a request queue that owes one notification
after an empty-handed dequeue, and threads that change the set of streams only
when `getInProcessCount` is 0 and nothing is queued (`Drained`). `idled` records
that the JPEG thread has posted `mRespondSem` unasked, after five seconds without
a message, since its stream object was made (`newStream`).

**PreviewPipeline.** A frame is in the driver, in the window, in messages, or in
the hands of threads, and `mRefCount` counts the latter three. `release`,
`handleFrameRelease`, `fillCameraFrame` and `countQueued` are the separate steps
of giving a frame back, run by whichever thread releases it. `control` is where
the request thread is in `PreviewStream::configure`, `start`, `stop` and
`release`. Consumers are the recorder, callback and JPEG streams: they copy a frame
and release it. The first two start before or while preview runs and stop after
it, because `stopStream` is called for `STREAM_ID_PREVIEW` first. The JPEG stream
starts for a video snapshot while preview runs, takes one frame per request
(`enableReceiveFrame`) and is stopped by the next request of another kind, in
the steps `unlistenConsumer`, `stopConsumer` and `releaseConsumer`, beside the
device thread. `dispatchCameraFrame` goes by `next` up to the size it has read
(`nSize`) over a vector that shrinks and grows meanwhile; `pastEnd` is what the
slot behind its last item still holds. Two ghosts: `owed` are the listeners
the frame at hand must still reach, `dropped` counts the references that go with
the messages `Clear()` throws away.

**MgaSession.** `msgs` is the list of messages by state, `last` the pointer to the
last one sent (an index), `acks` the session's count of answers. Calls into
libMga are atomic, since both its lock and the request lock of `CAgnss` are held,
but for the loop of `mgaCheckForTimeOuts`, whose rounds are steps (`scan`).
`continueReturns` is the end of the call, where the client reports the result.
`clean` records that the line was empty when the transfer began.
`Tick` makes messages late, in the order in which they were sent. The line loses
messages either way; the receiver accepts, refuses or keeps silent, and each
answer names only the message, not the transfer. `MGA_FLOW_SIMPLE` is
`MGA_FLOW_SMART` with a window of one message. The window is counted in messages
where the code counts bytes: its first burst goes on until 1000 bytes are
reached, so it may exceed them by part of its last message.

**AgnssActions.** `requests` and `execList` are `_req_action` and `_exec_list`,
`msg` the `CUbxMsg` objects with what `clearData`, `setData`, `writeData` and
`onNewMsg` read and write. `stateCheck` is one step, as it runs under the request
lock: it starts the action at the front (`impl_initAction`), calls the first
function and goes to the next, ends the action or waits. The call of
`func_transfer_finished`, after the lock is released, is a step of its own, and
nothing else of the thread runs before it. `late` records that something was on
the line when an action failed or was cleared.

**SuplSessions.** `queue` is the list of sessions, `session` what the handlers
hold: state, kind, whether a timer runs, which response is pending. The GPS
thread is at `phase` of its loop: reading sockets, taking a command, starting
a session of its own, walking the sessions (at session `at`), or waiting for the
user (`asking`, in `startNiSession`). Each visit of a session is a step, and RIL
threads and the framework act in between; a RIL thread counts, inserts and
sends its start command in three steps. A message read from the connection of
one session is handled by the session it names, `messageFor(h, g)`; it may end
that one while `at` points to it. `crossed` records that, and `visitFreed` is
what the loop does with the freed pointer: it may go on anywhere in the list or
end in the phase `wild`, of which nothing is said. A bad request is one that asks for a
method or mode the driver does not support or has the wrong ids; where the code
finds out decides when the session ends. `lost` and `stray` count the two kinds
of stop commands without a start.

**AudioStreams.** `pc` is where a thread is in its call: it has no lock (`out`,
`enter`, `again`), the device's (`own`, `forced`, `select`, `all`, `finish`), both
(`body`, `instandby`, `getecho`, `open`) or its stream's alone (`io`). Which call
it makes is decided in `body`, since nothing before depends on it. What a thread
does between taking and dropping locks is one step unless another stream's lock
is needed on the way; that lock is then a guard (`free`), or taken, if it is held
for more than a step. `pcm` is the hardware a stream has open, `wanted` what the
primary output opens: its device decides, and which other outputs are active.
`put_echo_reference` is part of the step that puts the input in standby.
`failures` is chosen at the start: a PCM, a card or a reference that may fail.

## 3. Runs

| Run | Instance | Shows |
|---|---|---|
| `message_queue` | 2 controllers, 2 frames, 2 pending | no lost wakeup, each blocked post released exactly once, refinement of `SyncMailbox`, termination of posts |
| `requests` | 2 framework threads, 2 thread identities, all 5 kinds, 3 requests, idle timeouts, no failures | a request is served by one handler; its picture is of a frame of its own and its metadata is not replaced meanwhile, unless an idle timeout has left a token |
| `request_errors` | the same with one of three sets of failures: of the device and the JPEG stream, of the device and `STREAMON`, of configuration and metadata | one handler, exact count, no stale thread object; a burst ends unless the JPEG stream failed fatally, and leaves nothing running unless the handler left early |
| `request_burst` | two still captures in a row | finding: the second gets no frame |
| `preview` | 2 buffers, 1 for the driver, a recorder and a JPEG stream that comes and goes, preview started twice | reference counts exact, exclusive ownership, every frame handed to everybody who stays, queued buffers counted |
| `preview_failures` | 2 buffers, a recorder, every failure, two starts | stop always returns, no buffer is lost |
| `preview_outlive` | a recorder that still holds a frame when preview restarts | finding: assertion fails |
| `preview_restart` | two starts | finding: `mQueued` too high |
| `mga` | a transfer of up to 3 messages, window 2, 1 retry, then cancelled or not | flow control, exact count of answers, true reports, no message written again once settled, the transfer ends |
| `agnss` | 2 actions of 4 kinds, 2 data base messages, 2 tries | the functions carried out belong to the request at the front, success is true, every action ends |
| `audio` | a primary and an HDMI output, an input, 3 routes, 2 references, two sets of failures | hardware, reference and active input are shared as they should be, nothing plays or records in a call, the device's lock is always given back |
| `supl` | 2 sessions, 2 RIL threads, any number of messages that name either session, 1 call of the framework | consent, clients counted, list consistent, every session ends |

**Bounds.** Three requests are enough for a request queued during the stop of
the previous burst followed by another; every pair of kinds in the usual order
occurs in any position. Two framework threads contend for the semaphore; more
would only queue behind it. A handler identity can be reused, so two suffice for
an old thread that still ends beside a new one. `MaxTokens = 2` tokens of idle
timeouts exceed what one request consumes. With two buffers one is on display
and the other on its way through driver and streams, with two consumers each of
which may be the last to release it; the runs that show a finding have a third
buffer to work with. Two starts let anything left over from one preview meet the
next, and the JPEG stream comes and goes as often as it likes. `MaxPending` bounds the messages of a queue.
Three messages and a window of two are the smallest transfer with messages
inside, at the end of and outside the first burst; one retry is enough for an
answer to the first transmission to meet the second. With two transfers (window
1, 2 messages, 1 retry) the invariants hold too, on 2.3 million states:
`ReportsTrue` speaks of transfers that find the line empty, and section 4 says
what happens to the others. Two actions let what one leaves behind
meet the next, two data base messages can be incomplete or in the wrong order;
with three of each the invariants hold too, on 1.6 million states.
Two SUPL sessions can be one before and one after the session a visit ends, or
both of the network (`MAX_SM_INSTANCES = 0` makes the list full with two, as 5
does with seven). Messages are not bounded: a session's state repeats. In `audio` one HDMI output meets the primary one on equal
hardware; the routes are the ones that differ for the code: a change within the
same card, to HDMI along with the rest, and back. Two references tell one
that was released from the one there is. The first set of failures is what the
code undoes completely; with the second (`primary`, `card`, `create`) four of
the properties except the failure, and section 4 says what it leaves behind.

Types are an invariant of the proofs rather than of these runs: `TypeOK` is a
theorem for every module but the abstract `SyncMailbox`.

**Assumptions.** `UsualOrder` says which kinds of request follow one another (a
still capture is taken from preview and followed by preview). `Prompt` says
that consumers are done with their frames when preview restarts; the run
`preview_outlive` drops it. A stream that becomes a
listener behind the JPEG stream (a recorder first started together with a
snapshot) is the only one that does until that one has left. A dequeue from an
empty driver times out only after preview was told to stop: while it runs, the
stream thread returns a buffer well before the driver's timeout of seconds.

**Fairness.** Each thread that can take a step does (weak fairness of the
thread's actions): Android schedules them preemptively, with no lock held over a
blocking call except the condition variable's. The sensor delivers frames while
it runs (`deviceFrame`, `acquireCameraFrame`), the window's composer consumes
frames. `TimedSpec` adds that five seconds of silence end. The framework is
never obliged to submit a request or to start or stop a stream. The threads of
the GPS driver call their handlers at least once a second (`CComThread` with
`impl_timeout`, the main loop with its `select`), so their steps are fair; the
receiver and the line owe nothing in `mga`, and in `agnss` what is on the line
arrives or is lost. In `supl` a timer that stays set expires: strong fairness of `checkTimeout`,
because the GPS thread is at the session only now and then. Neither the user nor
the servers owe anything; what `SessionEnds` needs of them is in its premises,
since the driver does not ensure it: `UserAnswers`, because the wait in
`startNiSession` has no limit and the timeout thread is empty, and
`ServersSilent`, because every SUPLPOS sets the timer anew. In `audio` a thread in a call goes on
(weak fairness of its steps, since PCMs take and give data at their rate), but a
mutex is owed to nobody: another thread may take it again and again. That is
enough for `DeviceLockReleased`, because whoever has the device's lock waits only
for a stream's, whose owner can come back to it only through the device's.

`CHECK_DEADLOCK FALSE`: the HAL may rest, with everything stopped or the bound
on requests, starts, transfers or actions reached. `audio` checks for deadlock.

## 4. Findings

1. *Burst of still captures* (`request_burst`). In image capture mode the device
   thread ends after one frame, and a stream that is started is not started
   again, so the second still request in a row is answered by the idle timeout,
   without a picture. A token of such a timeout stays in `mRespondSem` until the
   stream is allocated anew (`sem_init` is in the constructor): from then on each
   snapshot is answered by the token of an earlier one, before its own frame, and
   its metadata may be replaced while the picture is made.
2. *Zeroed reference counts* (`preview_outlive`). A recorder or callback stream
   that outlives preview may hold a frame when `allocateBuffers` zeroes its
   count; releasing it then aborts in `CameraFrame::release`.
3. *Refill across a stop* (`preview_restart`). A stream thread past the check of
   `isStreamOn` increments `mQueued` after `stopDeviceLocked` reset it. The next
   preview's device thread may call `VIDIOC_DQBUF` with nothing queued.

Further consequences seen while modelling are in the notes of the hazards:
error exits of `handleRequest` do not free the request; a frame cancelled after
its release may belong to driver and window, and if the window gives it out
again the next `release` meets a count of zero and aborts; a snapshot after a
fatal error of the JPEG stream waits for ever. A JPEG stream that is stopped with
a frame in its queue, as an early answer allows, takes that frame's reference
along: the buffer is lost until preview starts again.

The GPS driver, likewise without a run of their own:

- libMga: an answer names a message, not a transfer. With two transfers a late
  acknowledgement of a cancelled one settles a message of the next, which the
  receiver may never have got. A transfer whose messages were all refused is
  reported as a success, since a NACK counts as an answer.
- Agnss: `impl_initAction` (`AssistNowMga.cpp:333`) does not clear the position
  message, so after a failed write the next position action sends the old
  position; if the action was cleared while it waited, the next one waits without
  sending. Any acknowledgement of class MGA settles the position. `CUbxMgaDbd`
  takes a NACK for an answer. `func_transfer_finished` may be called after
  `clearActions` returned (`Agnss.cpp:807` against the comment at 206).
- SUPL: with the receiver's last client gone a stop command that overtook its
  start is lost and the receiver stays on (`gps_thread.cpp:166`); it may also
  take the framework's count. `cleanup` stops a client whether or not there is
  one. `setNetworkType` takes a `bool`, so `RIL_NO_NETWORK` becomes type 1. A
  second `respond` for one notification would authorize the next session. If the
  framework never answers, the GPS thread waits for ever (`ubx_niIf.cpp:96`). A
  message over one connection that names another session may end the session that
  `suplReadUplSock` visits next, which is then read after it was freed
  (`suplSMmanager.cpp:476` and 699). Two
  RIL threads may insert two sessions. If the insertion fails, `pMsg` is freed
  twice (`suplSMmanager.cpp:681`, which frees the handler's `pNiMsg` too). The
  bound on sessions lets seven in, not five. `suplSM` logs a handler that may have
  been freed (1579). Messages in `RRLP_RESP`, `SUPLEND` included, are dropped.

The audio HAL, also without a run of its own:

- The exits of `start_input_stream` before the PCM is opened (1654, 1671, 1678)
  leave `active_input` set to a stream in standby. When that stream is closed
  the pointer is to freed memory, which the next change of mode or route locks.
- If one of two PCMs of the primary output does not open the other stays open in
  standby (632): it plays on into a call, keeps HDMI from the multichannel
  output, and the next start loses it.
- A reference that cannot be created leaves a voice input without one until
  something restarts it.
- `adev_close_output_stream` (2962) changes `active_output` and frees the stream
  without the device's lock, while `select_mode` or another start may use it;
  `in_get_input_frames_lost` reads the input's PCM without any lock.

## 5. Proofs

Every safety invariant and every action property of the passing runs is a
theorem, for every value of the constants: every set of threads and
frames, every order of requests and every set of failures. These assume more:

- those of `PreviewReferenceProofs`, that nothing fails and that consumers are
  done before preview restarts; the runs `preview_failures` and
  `preview_outlive` show why;
- `ModesAlwaysExclusive` and `DeviceAlwaysHasThread`, that the framework goes from
  a still capture back to preview or to another still capture, not to a recording
  or a snapshot (`StillThenPreview`, which `UsualOrder` and `BurstOrder` satisfy).

**MessageQueueProofs.** `TypeCorrect`, then `NoWakeupIsLost`: the lists are empty
whenever the reader sleeps, because a post wakes it in the same critical section
and it falls asleep only after a scan that found nothing. `RendezvousHolds` is
inductive with the type invariant: a caller is inside `postSyncMessage` exactly
while its message is in the list once, in the reader's hand, or released; the
three exclude each other. `QueueIsMailbox` shows that each step of the queue is
a step of `SyncMailbox` or leaves its variables alone.

**RequestManagerProofs.** The inductive invariant relates the semaphore, the
thread object and the counter to where the callers and the handler are: the
semaphore's token belongs to at most one caller between `sem_wait` and the
creation of the thread, or one thread until its `sem_post`. Alone, `OneHandler`
is not inductive: `createThread` needs to know that the caller's token excludes
every thread, and `runThread` that its caller's thread exists. `CounterExact`
adds that `mPendingRequests` is 1 exactly while a thread is past its creation
and before its decrement, so the arithmetic modulo 256 never wraps.
Streams, device and failures do not matter to this part: their steps leave these
variables unchanged. The rest is about them, in parts that build on each other.

- *Streams and requests.* `StreamInv` says that streams are started exactly when
  prepared, and which of them preview, image capture and the device's thread
  need; `RequestInv` that the streams running belong to the request at hand;
  `QuietInv` that, unless a handler left early, streams are prepared only during
  a burst and one request is held exactly while a handler works on it.
  `IdleAlwaysQuiet` follows: `Drained` leaves no handler that works.
- *The notification.* The framework's request queue notifies once after an
  empty-handed dequeue. `TokenInv` says that this one notification is due or
  borne by a caller or by a handler, by one of them at most; if it is nowhere
  (`Lost`), a handler left early, and no other follows. So whoever brings a handler
  knows that the last one has answered its requests.
- *Modes.* `ChainInv` carries the framework's order of requests through the queue
  to the request at hand, and `CaptureInv` says that the device takes pictures
  only from a still capture until the next request that stops it. A recording
  does not stop the JPEG stream, so that after a still it would start preview in
  image capture mode:
  `ModesAlwaysExclusive` needs it, and `DeviceAlwaysHasThread` is a consequence.
- *Pictures.* `FrameInv` says that at most one frame, message or token of the JPEG
  stream is about, only while a handler waits for it, and that a token is there
  only after the frame came; `AnswerInv` that no handler skips a wait. Both hold
  as long as no idle timeout has answered (`idled`), and once more when the stream
  is allocated anew: then no thread, message or token of the old one is left
  (`JpegAtRest`). `OneFrameAlways` and `MetadataAlwaysStable` follow.

**PreviewPipelineProofs.** `TypeInv` adds to the types where a thread can be with
which frame (`ThreadShape`: a thread in `release()` has a frame to give back, and
keeps the one it works on unless that is the one) and which threads live in
which phase of preview (`Phases`). `NothingUncounted` needs the balance
of `QueuedInv`: `mQueued`, plus the threads past `VIDIOC_QBUF` that have not
counted yet, covers the buffers in the driver. A thread that counts late makes
`mQueued` too high, as in finding 3, never too low. `DispatchServesAll` is about
the vector of listeners. At most one listener is behind the JPEG stream
(`JpegNearEnd`), so only one moves up when that stream leaves, and the slot it
comes from still names it. `StillReached` says where each listener the frame is
owed to stands: at an index the loop has yet to read, in such a slot, or in the
call that is under way.

**PreviewReferenceProofs.** `RefExact` says that while preview runs `mRefCount` is
the number of messages and threads that have the frame, plus one for the window.
It is not inductive: a stream that hands a frame to the window, or takes one
back, must know that no other thread is about to do so with the same frame, and
the device thread that fills a frame must know that none is about to queue it
again. The invariant `Inv` has one part for each. `Attached` says who listens and
who may have messages (all are still while preview starts); `Placed` where the
buffers are meanwhile; `Exact` the counts; `Claims` that a frame without
references is in the driver or with one thread on its way there; `Shown` that a
frame on its way to the window is on one way only. A JPEG stream that leaves
during a dispatch may give a consumer behind it the same frame twice; the
preview stream is never behind it, and `PreviewOnce` says that it gets each frame
once. The references of a queue that is cleared are counted in `dropped`
(`QueueCleared`). The lemmas `MessageAdded`,
`MessageTaken` and `UsersChange` say how a step changes the cardinalities the
counts are compared with. `AssertionHolds` (the `assert` in `release`) and
`DriverAlone` are consequences.

**MgaSessionProofs.** The list invariant says that the messages sent are a prefix
of the list and how the list, `last` and `acks` hang together; the number of
messages that wait plus those written off never exceeds the first burst, because
every message after the burst is sent in exchange for one that is settled
(`WindowKept`). `AnswersCounted` needs that an answer is only counted for a
message that waits. `NeverResent` follows from the same invariant: what is late
is waiting, and what is written is late or next. `ReportsAlwaysTrue` adds the line:
if it was empty when the transfer began, every answer on it is one the receiver
gave to a message of this transfer, so what the list records was said; and a
success, which the client reports when the answers counted are as many as the
messages, means that each message was answered, because each is counted once.

**AgnssActionsProofs.** `FrontIsCurrent`: the functions in `execList` were loaded
for the request at the front, which only `stateCheck` removes, when the list of
functions is empty, and `clearActions`, which empties both. `SuccessAlwaysAccepted`
is about the line again. Answers name neither the action nor the try, so
the invariant (`LineInv`) says what may be under way: apart from the
configuration, which is sent several times, only the one message of the function
that is being carried out, or its one answer, and nothing once that function is
done; for a poll, the rest of the data base in its order. An answer that is taken
is then an answer to this action's message (`TimeDone` keeps it for the time while
the position is sent). All of it holds as long as nothing was left on the line
when an action failed or was cleared (`late`); after that the first
consequences of section 4 apply.

**SuplSessionsProofs.** Three invariants. For consent: at most one notification is
unanswered or answered and not fetched, it is the session the GPS thread asks
about, that session stays in `AUTH`, and once the semaphore is posted `m_cmd` is
the answer to it. For the list: it has no duplicates, its members are the live
sessions, and the session being asked about is one of them and not `at`; `at` is
live too unless `crossed`, which only a message that ended another session than
its connection's sets, and which the loop over the sessions starts without. For the clients:
`clientCount` plus the starts in the pipe minus the stops equals what the
framework and the live sessions account for. `SuplTyped` combines the types these
three carry.

**AudioStreamsProofs.** `LocksHeld` says where a thread has which mutex; mutual
exclusion is then that no two threads are in such places of the same mutex.
`PortsAlwaysExclusive` needs no locks beyond the steps' atomicity: a stream in
standby has nothing open, and an output opens no more than its own hardware.
`EchoAlwaysShared` is inductive once it is known that the input asks for a
reference only when it has none. `ActiveInputAlwaysExact` adds where the capture
thread has set `active_input` and not yet opened its PCM; that nobody stops the
input there is what `LocksHeld` is for. `EchoAlwaysFollows` needs both, and that
neither an output starts nor the canceller changes while the input asks for its
reference and opens. `StoppedDuringCalls` follows the
streams as `force_all_standby` visits them: those it has passed are in standby
and stay so because `mode` is already set, and an input that was starting would
still have the lock that the change of mode needed.

**Only model-checked:** all liveness (`SyncPostReturns`, `RequestsServed`,
`NotifyReturns`, `HandlerEnds`, `FramesFlow`, `StopReturns`, `TransferEnds`,
`ActionEnds`, `SessionEnds`, `DeviceLockReleased`), since TLAPS proves nothing
from fairness. The counterexamples of section 4 are TLC's.

## 6. Plan

1. *Camera.* `CaptureBuffers` (buffers of the still stream, its failures),
   `UvcDevice` (device thread that copies or decodes), `CameraHal` (open, close
   and release around `RequestManager`), `EventDispatch` (shutter and focus).
2. *An abstract `BufferPool`*: each buffer has one owner among window, driver and
   streams. `PreviewPipeline` refines it while preview runs.
3. *GPS driver.* The receiver state machine (`ubxgpsstate.cpp`) and its shutdown,
   `ComThread` and `LockedStorage`, the legacy AID protocol.
4. *Other HALs*, in the order of their concurrency: `libgps` (state thread),
   `mx6/libcamera`, `mx6/libgralloc_wrapper` and
   `hwcomposer`, `libsensors`, `libbt-ath3k`, `mx6/power`.

## 7. Not modelled

Of the repository's million lines 85% are `wlan`, the vendored compat-wireless
tree of Linux drivers and their tools, and 58 000 lines of `ublox_gps/asn1` are
the output of an ASN.1 compiler: not this project's program. The HALs themselves come in generations (`mx5x`, `mx6/libcamera`) that repeat the
same architecture; the latest is modelled.

In the camera HAL pixel formats, JPEG encoding, EXIF, metadata tables and sensor
ioctl sequences are data. Failures of `allocateBuffers` and of `VIDIOC_QBUF`, the
window's refusal of a buffer or its absence, and the storage of a vector that
grows while it is read are left out.

In the audio HAL mixer controls, formats, rates and channels, resampling, delays
and positions, and effects other than the echo canceller are data. Outputs stay
open; the route of a multichannel output, which only ESAI's changes the device
with, the parameters of the device and the reopening of an S/PDIF input at
another rate are left out. There is one input.

In the GPS driver parsers and ASN.1 code are sequential. `MGA_FLOW_NONE`, the
transfer to flash, acknowledgements of CFG-NAVX5 and INI-TIME inside an MGA
session, downloads, the legacy protocol, the RRLP contents of SUPL messages,
a SUPLINIT that comes over a connection (an assertion on its thread ends the
program), position reports, and the receiver's state machine are left out.
