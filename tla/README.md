# A verification model of the Fairphone 2 device tree

The repository holds the device-specific code of Android on the Fairphone 2: the
camera HAL (C and C++), the GPS HAL, the light HAL, a RIL wrapper, a calibration
app for the proximity sensor, and configuration. This directory models the parts
with state, concurrency and failure in TLA+, checks them with TLC, and proves
what matters most of them with TLAPS.

Paths below are relative to the repository. `HWI` is
`camera/QCamera2/HAL/QCamera2HWI.cpp`, `SM` is
`camera/QCamera2/HAL/QCameraStateMachine.cpp`, `MMC` is
`camera/QCamera2/stack/mm-camera-interface/src`, `LE` is `gps/loc_api/libloc_api_50001`.

## Inventory

| component | state | operations | talks to | what is hard | what makes it correct |
|---|---|---|---|---|---|
| Camera state machine (SM) | `m_state`, two queues and a semaphore | 26 API events, 7 internal events, in 8 states | hardware interface (calls), API callers (results), notifier (results) | every event can come in every state; half of a handler can fail | state, streams and postprocessor agree; every call is answered |
| Hardware interface (HWI) | `m_channels`, modes, `mLongshotEnabled`, live snapshot thread | start/stop preview, recording, picture, live snapshot, long shot | channels, parameters, postprocessor, deferred work | failure half way, modes that change between start and stop | no stream, thread or postprocessor outlives the state that owns it |
| API calls (HWI, SM) | `m_lock`, `m_cond`, `m_apiResultList`, `m_evtResult` | `processAPI`, `waitAPIResult`, `signalAPIResult`, `processSyncEvt` | application and recorder threads, SM thread, notifier, live snapshot thread | lost wakeups, results told apart by type only, API events before backend events | each call gets one answer, its own, in the end |
| Deferred work (HWI, `QCameraCmdThread`) | job slots, work queue, job ids, worker | `queueDefferedWork`, `waitDefferedWork`, `defferedWorkRoutine` | SM thread, capture callback thread, channels, postprocessor | slots run out, channels die under queued work, two waiters and one signal | no start before buffers; no work on a dead channel; every wait ends |
| Parameters (`QCameraParameters`) | committed and staged modes | `updateParameters`, `commitParameters` | HWI, backend | staged changes that are not committed | modes in force match the channels that stream |
| Callback notifier (`QCamera2HWICallbacks.cpp`) | its queue, snapshot counters | notify, flush, start/stop snapshot counting | application callbacks, SM | priority commands are handled in reverse order, flushes race with new callbacks | a capture is reported done once, after its last picture |
| Postprocessor | queues of frames, reprocess and JPEG jobs | `processData`, `processPPData`, `processJpegEvt`, `start`, `stop` | channels, JPEG interface, notifier | cancellation while jobs are under way | every buffer goes back once |
| Channels, streams, memory | streams, buffers, frame queue | init, config, start, stop, buffer return | mm-camera-interface | frames that arrive while a stream stops | no frame is used after its stream |
| mm-camera-interface | channel and stream state machines, superbuf queue, poll and command threads | open/close, channel, stream and superbuf operations | kernel driver, HAL callbacks | three locks for every call, stopping a thread that delivers, matching frames of several streams, undoing half a start | handles are of cameras that live; states follow the driver; a frame is delivered or returned, once |
| mm-jpeg-interface, OpenMAX loader | clients, sessions, job queues, component table | job start, abort, session and client close | postprocessor, vendor encoder | aborting a job that just finished | each job is reported once or aborted |
| GPS engine: network initiated requests | two sessions with thread, response, request | request, respond, timeout, engine restart | modem adapter, framework | response against timeout, session reused while its thread ends | a request is answered once at most, by its own response |
| GPS engine: AGPS | data-call state machines and subscribers | request, release, connection events | connectivity service, modem | late events, several subscribers, retries | a subscriber hears of what it asked for |
| GPS engine: sessions | `mNavigating`, fix criteria, engine state, muting, aiding data | start, stop, mode, delete aiding data, restart | client, adapter, modem | three records of one session, messages in a queue, modem restarts | the modem does what the client asked for last |
| GPS modem client: synchronous requests | 8 slots, their flags, `in_use` | `loc_sync_send_req`, `loc_sync_process_ind` | modem adapter (callers), QMI client thread (indications) | indication before the wait or after the timeout, slots run out | an answer is neither slept on nor written to a buffer that is gone; no slot leaks |
| GPS modem client: adapter | masks, client handle | one request per engine operation | synchronous requests, QMI | events registered only while a session runs | the translation between QMI and engine |
| GPS utilities | timers, their heap and two threads; message queue, tasks | start and stop of timers; send, receive | every GPS thread | stopping a timer that expires | every timer expires once, when it is due |
| Lights, RIL wrapper, shims, calibration app, configuration | little | setters, forwarding, a calibration wizard | sysfs, vendor libraries | one lock at most | |

The threads of the camera: callers of the camera API (the application, the
recorder) hold `m_lock` while they enqueue an event and wait on `m_cond` for its
result. One state machine thread takes events, API events first, and runs the
handlers, which call the hardware interface. A worker thread does deferred work
for it. In mm-camera-interface each channel has a thread that polls its streams and
one that puts frames together; they call the HAL back, whose threads (one per
stream, the postprocessor's data thread) return the buffers. The encoders answer on
threads of their own; the notifier calls the application back and reports the end of
a capture; a live snapshot runs in a thread of its own.

The threads of the GPS HAL: the framework's calls and the modem's events become
messages to one task, which does nearly everything; beside it are the thread that
polls the kernel's timers, a thread per request of the network, and the thread of
the modem client that brings indications.

## Modules

| module | models | source |
|---|---|---|
| `CameraHwi` | what the operations of the hardware interface do to channels, modes, postprocessor and live snapshot thread, as functions from a state to the set of its outcomes | HWI, `QCameraParameters.cpp`, `QCameraChannel.cpp` |
| `QCameraStateMachine` | one operator per `procEvt...State` handler; `Next` lets any event arrive in any state | SM |
| `QCameraStateMachine_proofs` | the theorems about it | |
| `CameraApi` | callers, locks, queues, results and the other threads, around `stateMachine(evt)` of the module above | HWI, SM |
| `CameraApi_proofs` | the theorems about it | |
| `ApiCall` | the abstract specification of a blocking call: requested, answered, returned | |
| `DeferredWork` | slots, queue, worker, waiters and the channels they work on | HWI, `QCameraCmdThread.cpp` |
| `DeferredWork_proofs` | the theorems about it | |
| `QCameraCbNotifier` | the thread that calls the application back, its two queues, and the streams and captures it serves | `QCamera2HWICallbacks.cpp`, HWI |
| `MmCamera` | the entries of the camera interface: the locks each call takes in turn, opening and closing a counted camera, messages to the server, the channel's callback thread | `MMC/mm_camera_interface.c`, `MMC/mm_camera.c` |
| `MmPoll` | the thread that polls a channel's streams: its pipe, its list, and the streams put on and taken off it by their owner, by the thread and by who returns buffers | `MMC/mm_camera_thread.c`, `MMC/mm_camera_stream.c` |
| `MmChannel` | the life of channels and their streams: linked, started event by event, undone, stopped, deleted | `MMC/mm_camera_channel.c`, `MMC/mm_camera_stream.c` |
| `Channels_proofs` | the theorems about `MmCamera`, `MmPoll` and `MmChannel` | |
| `MmSuperbuf` | the frames of one started channel: polling, reference counts, matching, requests, flushes, stop | `MMC/mm_camera_channel.c`, `MMC/mm_camera_stream.c` |
| `MmJpeg` | one client's session of the JPEG interface with its encoders and job thread | `mm_jpeg.c` |
| `QCameraPostProc` | the postprocessor around it (it extends `MmJpeg`) | `QCameraPostProc.cpp` |
| `QCameraPostProc_proofs` | the theorems about both | |
| `Pictures_proofs` | the theorems about `QCameraCbNotifier` and `MmSuperbuf`, and the lemmas about queues | |
| `Sublists` | lists with elements taken out of them, by their places: what flushes and removals from queues do; used by `QCameraCbNotifier`, `MmJpeg` and `LocEngAgps` | |
| `LocSyncReq` | the callers of `loc_sync_send_req` and the thread that hands indications to their slots | `gps/loc_api/loc_api_v02/loc_api_sync_req.c` |
| `LocEngNi` | the two sessions of requests the network initiates, with their threads | `LE/loc_eng_ni.cpp` |
| `LocEngAgps` | the data connections: three state machines, their subscribers, retries | `LE/loc_eng_agps.cpp`, `LE/loc_eng.cpp` |
| `LocEngSession` | a positioning session as client, engine, adapter and modem know it | `LE/loc_eng.cpp`, `LocApiV02.cpp` |
| `GpsModem_proofs` | the theorems about `LocSyncReq` and `LocEngSession` | |
| `LocTimer` | timers, the task that keeps their heap and the thread that polls the kernel | `gps/utils/LocTimer.cpp` |
| `LocHeap` | the tree of the heap, node by node | `gps/utils/LocHeap.cpp` |
| `RankedSet` | the abstract specification of a heap | |
| `GpsEngine_proofs` | the theorems about `LocTimer`, `LocEngAgps` and `LocEngNi` | |
| `MCStateMachine`, `MCCameraApi`, `MCDeferredWork` | constants (and a view) for TLC | |
| `MCCapture` | `QCameraStateMachine`, `QCameraCbNotifier` and `MmSuperbuf` | |
| `MCChannels` | `MmCamera`, `MmChannel` and `MmPoll` | |
| `MCPictures` | `QCameraPostProc` (with `MmJpeg`) and `DeferredWork` | |
| `MCLocSyncReq` | `LocSyncReq` and `LocEngSession` | |
| `MCGpsEngine` | `LocEngNi`, `LocEngAgps`, `LocTimer` and `LocHeap` | |

What is composed and what is not. `QCameraStateMachine` extends `CameraHwi`;
`CameraApi` extends `QCameraStateMachine`, so that the composition runs the very
handlers that are checked and proved alone; `CameraApi` implements `ApiCall` under
the refinement mapping `phase`. `QCameraPostProc` extends `MmJpeg` and takes part in
its steps: starting a job, aborting, and the encoders' answers are actions of both.
`LocHeap` implements `RankedSet`: the set of the objects in the tree's nodes.
`DeferredWork` stands beside the state machine: in `CameraHwi` the deferred
works of `takePicture` have already run, and the outcomes they can leave behind
(a postprocessor that did not start, a channel deleted by the worker) are
outcomes of `takeJpegPicture`.

`MCCapture`, `MCChannels`, `MCPictures`, `MCLocSyncReq` and `MCGpsEngine` put modules
that share no state into one run. Each has a variable `part` that says which of them a
behaviour is about, while the others keep their initial states: the run explores the sum
of their state spaces and not the product, and their fairness and properties are those
of the modules.

### How state and actions correspond

* **A handler is one action.** The state machine's thread runs a handler to its
  end before it takes the next event; what other threads share with it is the
  result list (so `signalAPIResult` is a step of its own in `CameraApi`), the
  queues (posting a node and posting its semaphore are two steps of a caller) and
  the live snapshot thread (`Live_Snapshot_thread`, which may run between any two
  handlers).
* **Failure is an outcome.** An operation that reaches the backend maps a state to
  records `[ok, hw]`. `Try(h, f)` leaves `h` when it succeeds and, with `MayFail`,
  `f` when it fails; `f` is what the code leaves behind at that return.
* **Replies.** `reply` is what the handler signals: `signalAPIResult`,
  `signalEvtResult` or nothing. `CameraApi` carries it to `m_apiResultList`.
* **Parameters** are the ZSL mode, the recording hint, whether the picture format
  is raw, whether something else asks for a restart, and whether a setter rejects
  the set. Staged and committed modes are separate, as in the code.
* **Ghosts** record history for the properties; no step depends on them. They are
  marked `history` where they are declared (`by`, `prepareBy`, `got`, `capture`,
  `misdone` in `CameraApi`, `excused` in `LocSyncReq`, `crossed` in `LocEngNi`,
  `excuses` in `LocEngSession` and so on). Where the code breaks a property in a way
  this README names, a ghost marks exactly that case and the property excuses it: it
  then says that there is no other way.
* **Critical sections.** A section under a lock is one step. What the code reads or
  writes without the lock that guards it elsewhere is a step of its own: in
  `LocEngNi` the accesses to `rawRequest` and `reqID` (the thread of a request looks
  whether there is one and then builds its answer from it, two steps under `tLock`
  between which a restart, which does not take it, may put NULL), in `LocSyncReq` the time between
  a timeout and getting the lock back, in `MmJpeg` the job thread between taking a job
  and starting it.
* **Tasks.** Where one thread handles a queue of messages (`LocEngAgps`,
  `LocEngSession`, `LocTimer`, `QCameraPostProc`, `QCameraCbNotifier`), the queue is a
  sequence and handling its head is an action; a handler that must let others run in
  between (a callback, a wait) has a program counter (`session_task`, `timer_task`,
  `pp_pc`, `notifier`).
* In `DeferredWork` `pc` follows the state machine's thread through
  `addPreviewChannel`, `takePicture`, `cancelPicture` and the destructor. The end of
  `cancelPicture` is two steps: it stops the postprocessor, with its callback thread
  anywhere, and it stops and deletes the channel, which joins that thread; until then
  frames come.
* In `MmChannel` `op` follows one call per channel through the events it sends to its
  streams; the streams' own state machines are functions of state and event, and
  `in_driver` is what the kernel was left with.
* In `MmCamera` who stands between two locks holds the first: a call is at `cam` with
  `g_intf_lock`, at `ch` with the camera's lock. A deleted channel takes its lock with
  it, and a call that waited for it is `stray`.
* In `MmPoll` `owner` follows the thread that starts and stops the streams, `poller` the
  one that polls; the commands between them go through `pipe`. The owner's wait is
  `if (!status) wait`, so it ends with the first signal, whichever command that answers
  (`woken`), or with none (`SpuriousWakeup`); only the release of the thread goes on to
  join it. `DelPollFd` fails when the entry is gone already: stopping a stream then falls
  back to a `COMMIT` (`OffTheList`), while a `STREAMON` that failed ignores it and waits
  for nothing (`StreamonFails`). Returning a buffer is three steps (`returning`): seeing
  the stream active, for which there is no lock, counting the buffer and listing the
  stream, and the kernel's answer, the last two under the stream's `buf_lock`. What a
  stream's buffers do is counted (`empty`, `filled`, `taken`); the code's own count is
  `queued_buffer_count`.
* In `MmSuperbuf` a frame is a buffer `<<stream, number>>`; `buf_refcnt` is the code's,
  and `BuffersAccounted` compares it with who holds the buffer in the model.
* In `QCameraPostProc` every queue of the code is a sequence of the same name; a JPEG
  job's two sides (`ongoingJpegQ` of the HAL, `ongoing_job_q` of the interface) are
  separate, as in the code, and joined by the job's id only.
* In `LocEngAgps` what the framework does with a connection is the variable `network`;
  in `LocEngSession` the modem is `qmi`, with an engine that turns itself on and off.

## What the runs check

| run | question | properties | result |
|---|---|---|---|
| `capture` | as long as no call fails and modes are left alone during captures and recordings: do state, streams, modes and postprocessor agree? Does every frame of a started channel have its readers, and go back once, in order? And does the notifier report the end of a capture, after its own pictures? | `HardwareMatchesState`; `BuffersAccounted`, `SuperbufsInOrder`; `NoCallbackOfDeadStream`, `DoneAfterItsPictures`, `DoneComes` | holds, 370 601 states |
| `sm_faults` | what still holds with failing calls, rejected parameters, mode changes at any time, long shot and early restart? | `VideoIffRecording`, `LiveSnapshotOwned` | holds, 171 296 states |
| `sm_early_restart` | is the preview stopped in `PREVIEW_STOPPED`? | `StoppedMeansStopped` | violated |
| `api_calls` | does every call get one answer, its own, in the end? | `NoLostWakeup`, `OwnReply`, `ImplementsApiCall` | holds, 161 397 states |
| `api_orphan` | does it still when the application cancels live snapshots? | `OwnReply` | violated |
| `api_stale_done` | does a `SNAPSHOT_DONE` end the capture it belongs to? | `DoneEndsItsCapture` | violated |
| `channels` | is starting a channel all or nothing, and who has its frames? Is a stream that is off left alone by the polling thread, and is a frame of one that runs picked up? Is a camera in use alive, and does every call return from its locks? | `AllOrNothing`, `FramesHaveReaders`; `QuietOnceOff`, `FramesPickedUp`; `HandlesAreLive`, `OpsReturn`; `ChannelsTypeOK` | holds, 346 504 states |
| `deferred_two_waiters` | does every wait for a job return? | `WaitReturns` | violated |
| `pictures` | do the slots, buffers, channels and waits of deferred work stay sound? Does every buffer that enters the postprocessor leave it, once, whatever is aborted, and does a close end? | `OneWorkPerSlot`, `WorkPrecedesUse`, `FrameMeetsPostprocessor`, `WaitsEnd`; `OwnedOnce`, `EncoderOwnsInput`, `BuffersReturned`, `CloseEnds` | holds, 130 049 states |
| `loc_sync` | do synchronous modem requests get their answers, free their slots and return? Does the modem do what the client asked for last? | `OneCallerPerSlot`, `NoSleepOnAnswer`, `SuccessHasAnswer`, `WritesOnlyDuringCall`, `CallReturns`; `EngineFollowsClient`, `NothingWaitsForEngineOff` | holds, 353 908 states |
| `gps_engine` | is every request of the network answered once at most, by its own answer? Do the data connections follow the network, and every asker hear something? Do timers end, and is the heap one? | `AnsweredOnce`, `AnswersOwnRequest`; `StateMatchesNetwork`; `KernelSetForSoonest`; `ImplementsRankedSet`; `WhatBeginsEnds`, `GpsTypeOK` | holds, 255 604 states |
| `timer_early` | is a timer's callback called when it is due? | `NeverEarly` | violated |

The five violations are disagreements between the code and its own comments:

* **Early restart** (`sm_early_restart`). With `persist.camera.feature.restart`,
  `STOP_CAPTURE_CHANNEL` restarts the preview while the state is `PIC_TAKING` (SM
  1764-1778). A `CANCEL_PICTURE` then goes to `PREVIEW_STOPPED` ("preview is
  stopped", `QCameraStateMachine.h` 179) and deletes only the capture channel (SM
  1645-1654): the preview streams on, and `STOP_PREVIEW` does nothing in that state.
* **Orphaned result** (`api_orphan`). A live snapshot that fails posts
  `CANCEL_PICTURE` from its own thread (HWI 3354) and waits for nothing. The result
  stays in the list; `waitAPIResult` takes any result of its event's type (HWI 4287),
  so a later `cancel_picture` returns with it.
* **Stale end of a snapshot** (`api_stale_done`). API events are taken first (SM
  66-71). A `SNAPSHOT_DONE` still queued when the application stops the preview,
  starts it and takes the next picture is handled in the next capture and ends it.
* **Two waiters, one signal** (`deferred_two_waiters`). `cancelPicture` (HWI 3075) and
  the capture callback (`QCamera2HWICallbacks.cpp` 307) may both wait for
  `mReprocJob`; the worker signals once (HWI 6947).
* **A timer before its time** (`timer_early`). The message to expire carries no timer:
  it takes what is at the top of the heap. When the one that is due has been stopped
  and started again meanwhile, the new one is called at once.

### Bounds, and why they are enough

* State machine (`capture`, `sm_*`): no bound on the number of events, as the hardware
  state is finite and TLC explores every order. `capture` uses every parameter set that
  no setter rejects; `sm_faults` every mode with and without rejection, and one change
  that needs a restart (the raw picture format changes only which channel a capture
  uses, and is covered by `capture`). `sm_faults` ignores the last reply when it compares
  states: no step of the machine depends on it.
* Notifier (`capture`): two pictures in each of two captures, so that a picture, a start
  or a stop of one can meet the other; one preview that lives once and gives a frame,
  since preview callbacks meet the rest only in the flush when it stops.
* `api_*`: two callers whose events differ. One application thread makes at most 4 (5)
  calls, which reaches a capture after a preview and a recording with a live snapshot
  in it; `MaxCalls = 4`/`5` per caller and `MaxEvents = 2` backend events queued by
  the flash's metadata are the bounds. Two callers making the same call would mix up
  results by the code's design (results carry only the event), so the assumption
  `ApiAssumption` excludes it; the camera service makes each of these calls from one
  thread at a time, under a lock of its own. Calls never fail in these runs, since
  `CameraApi` is about delivery.
* Deferred work (`pictures`): two slots where the code has 25, so that slots do run out,
  in the raw YUV configuration with three deferred streams; three channel objects: a
  preview, a capture and a deleted one that queued work still names. Every failing call
  is possible. `deferred_two_waiters` needs neither failures nor a third object.
* Starting channels (`channels`): the two layouts the hardware interface uses that
  differ in what they share, zero shutter lag (one channel with a callback) and recording
  (a preview, and a snapshot channel that links the preview's metadata). Nothing else is
  bounded: starts, stops, failures of any event of any stream, and deletions may go on.
* Cameras (`channels`): two threads of one client and one of another, two camera objects,
  the camera found closed, open, or streaming, and three calls or callbacks from there:
  three is what a ring of waiting threads takes, and the situations are where longer
  sequences of calls would lead. A camera that is closed and opened again is a new object.
* Polling (`channels`): one stream with two buffers in a channel that starts twice, and two
  streams with one buffer each in one that starts once. A second start is what an entry
  left behind can spoil; a second stream is what the thread can be at work for meanwhile.
  One buffer of a stream is in return at a time (the states of `returning`), since the
  `buf_lock` admits one at a time to what follows. The proofs hold for any number of
  streams, buffers and starts.
* Superbufs (`capture`): three setups (zero shutter lag, a capture, a live snapshot with
  linked metadata), two buffers and two frames of each stream, one command of the client
  in every form, metadata that say one thing at a time or two that conflict. Two frames
  of two streams are what it takes for frames to be matched late, out of order, skipped
  or flushed.
* Postprocessor (`pictures`): one job at a time where the code has 20 of them waiting,
  two encoders (the code's burst mode), two frames per capture, one buffer for
  reprocessed frames, four kinds of capture (a ZSL burst, one reprocessed, a long shot,
  raw), and failing components of either kind. One more round from `start` to `stop`
  repeats the states.
* `loc_sync`: two slots where the code has 8, so that three callers fill them; two of
  the callers make the same request, so that the late answer to one can be taken by the
  other, and the third makes another. One call each (`MaxCalls = 1`): a slot is reused
  by the caller that found none at first or comes later. `SuccessHasAnswer` excuses a call
  that found every slot in use (nothing is sent, and the initial status, success, is
  returned) and one whose thread woke for nothing (the wait is not in a loop); every
  other success has an answer of its kind in its buffer. It need not be the answer to
  this very request, as indications are told apart by client and kind only.
* Sessions (`loc_sync`): two starts, two events of each kind (positions, engine states,
  sessions of the network, mode changes, requests to delete), two of them on their way
  together, and an event is posted when at most one message waits. With two waiting
  (587 000 states) or three starts (519 000) the properties hold too; the run keeps the
  smaller bounds for its time.
* Requests of the network (`gps_engine`): two requests, which is what it takes to reuse
  a session, and a modem restart at any point.
* Data connections: two of them, over the same interface or over two (`MCRoutes`), each
  asked for twice at most; one retry, one modem restart, one loss of the network.
* Timers: two timers, two delegates, delays of 1 and 3 ticks with 2 ticks per second, so
  that two delegates can be due in one second; `timer_early` takes three delegates.
* Heap: five objects, of which pairs share a rank, in every order of insertions,
  removals from the middle and pops.
* Deadlock is checked for the state machine alone (`sm_*`), which never stops. It is
  switched off where the program ends (the camera is closed), where a bound ends it, and
  where the code itself hangs or crashes (`crashed`, dropped works, `StopCrashes`).

### Fairness

In every module weak fairness stands for the kernel's scheduler: a thread that can
run does, in the end. Strong fairness is used nowhere. What comes from outside is
fair only where the code has no timeout and says so here.

* `ApiSpec`: each caller, the state machine's thread and the notifier. It assumes that
  the backend reports the end of a flash preparation (`prepSnapshotDone`); the code has
  no timeout there, and without it `take_picture` never returns. Nothing makes the
  application call, a snapshot end, or the camera close.
* `DeferredWork!Spec`: the worker, the state machine's thread in the middle of an
  operation, and a callback thread that has a frame; no frame has to come.
* `NotifierFairness`: the notifier, threads in the middle of `notifyCallback`, and the
  state machine's thread in the middle of a stop. Pictures need not come.
* `PostProcFairness`: the data thread, the thread that handles JPEG events, the job
  thread and a call that aborts; encoders answer, since the code waits for them without
  a timeout; a reprocess channel gives a frame for a frame.
* `LocSyncReq!Spec`: callers run, the timeout of a wait expires, and an indication in
  hand is worked off; the modem need not answer, and nobody need make a request.
* `NiFairness`: the task, the threads of requests (whose wait has a timeout), and a user
  in the middle of an answer. The user need not answer.
* `AgpsFairness`: the task, timers of retries, and the framework, which answers a request
  for a connection (the code has no timeout of its own for that).
* `TimerFairness`: the task and the polling thread; and time passes.
* `PollSpec`: the polling thread, and the kernel's answer to a buffer that is returned,
  for which `buf_lock` is held and the thread may have to wait. No one has to start or
  stop the channel, and the driver need not fill a buffer: what is promised is about
  frames that are there.
* `CamSpec`: a thread that is in a call, and the callback thread. The server need not
  answer (the wait has a timeout), nobody has to call, and who sleeps on a lock whose
  memory was cleared need not wake.
* Superbufs, starting channels and sessions have safety properties only.

## What is proved

`QCameraStateMachine_proofs` proves, for every set of parameters and commands, with and
without failing calls and early restart:

* `TypeCorrect`: `Spec => []TypeOK`;
* `VideoCorrect`: `Spec => []VideoIffRecording`, the video channel streams exactly in
  the two recording states;
* `LiveSnapshotCorrect`: `Spec => []LiveSnapshotOwned`, a live snapshot's thread and
  stream exist only in `VIDEO_PIC_TAKING`;
* `Invariant`: `Spec => []IInv`, from which the three follow.

Under the hypothesis `Orderly` (no call fails, no early restart, no busy parameters, no
commands that reconfigure, no rejected parameters: the constants of `capture`) it also
proves `HardwareCorrect`: `Spec => []HardwareMatchesState`, for any set of parameters
that are accepted. Its invariant `OrderlyHw` is the table of which channels exist and
which stream in each state. The hypothesis cannot go: `sm_faults` and `sm_early_restart`
show with other constants that the property fails.

The assumptions are those the modules name (`HwiAssumption`, `StateMachineAssumption`):
the constants are Booleans and subsets of the parameter sets and commands.

The argument. `IInv` says of each state in which of three sets the hardware lies:
`Quiet` (no video, no live snapshot), `Rolling` (video only) in `RECORDING`, `Filming`
(video, perhaps a live snapshot) in `VIDEO_PIC_TAKING`. Neither of the two safety
properties is inductive without the other and the types: that stopping a recording
leads back to `Quiet` needs the snapshot to be gone already, and that the thread may
run only in `VIDEO_PIC_TAKING` needs the channels to be well typed. The lemmas go up
the code: first each operation of `CameraHwi` is shown to keep the recording streams
and the live thread (`Alike`), or to lead from one of the sets to another; then each
handler of the state machine preserves `IInv`; then `Next`. No recursion and no bound
is involved, so the theorems also cover the configurations the runs leave out
(mixtures of raw pictures with failures, every command set).

`GpsModem_proofs` proves every safety property of the synchronous requests, for any
number of slots, callers, kinds and calls, from `LocSyncReqAssumption` (at least one
slot; each caller requests known kinds; `Nothing` is neither a caller nor a kind):
`TypeCorrect`, `SlotsCorrect`, `InUseCorrect`, `NoSleepCorrect`, `SuccessCorrect` and
`WritesCorrect`, all from its own `Invariant`. Its inductive invariant adds to the
checked properties what ties a caller to its slot (`HolderHasSlot`, `SlotOfItsCaller`:
a slot that names an indication has the buffer of the caller that will free it), what
the loop of `loc_sync_process_ind` knows when it has seen no slot in use (`SeenSoFar`,
without which clearing `in_use` cannot be justified), and where a caller's answer is at
each point of its call (`AnswerKnown`). One lemma per action; the step of the loop is
split into the flag (`goOn_Flags`) and the slot (`take_Inv`).

It also proves `ClientFollowed` (`EngineFollowsClient`) and `EngineOffCorrect`
(`NothingWaitsForEngineOff`) of positioning sessions, for any number of starts, events and
messages, from `SessionInvariant`. Both properties are about a queue that is empty; the
invariant `SessionInv` says of every moment how the queue will lead there. If no request
was refused and no late report taken, the last start or stop that waits is the one the
client wants, or none waits and the task is about to have it (`WantedComes`); the same of
modes (`ModeComes`), which precede every start unless the modem crashed (`ModeFirst`);
the modem's session is the adapter's once the task is done (`SessionFits`), and the report
that ends one is told from older ones by the number of its start (`LastEnds`); a modem
that is down is opened anew, and right after that told to be up (`Recovers`); and while
the engine is thought to be on, either the news that it is off waits or the modem will
send it (`OffComes`), on which muted sessions (`MutedWhileOn`) and data to delete
(`DataSeenTo`) rely. What a queue has, has last or has side by side when messages are
taken and posted is proved once (`Taken`, `Posted`, `Answered`); then there is a lemma per
action.

`CameraApi_proofs` is about the callers of the camera's API and the threads that answer
them, for any number of callers, calls and events. `CallsInvariant` is its invariant
`CallInv`: a request is in one place (the queue, prepared, in the state machine's hands
or in the list of results) and it is for the call its caller is in (`OnePlace`); it
carries the event its caller sent all the way (`SameEvent`); what nobody waits for is the
exit or a cancel that the hardware interface sends itself (`NobodyCancels`); and a caller
sends its own events, holds the lock until it waits, and is awake once its answer is
listed (`CallersWait`). From it follow `AnswersWakeCallers` (`NoLostWakeup`: a caller
whose result is in the list has been signalled), `AnswersAreOwn` (`OwnReply`) and
`ImplementsApiCallSteps`: under the mapping `phase` the first state is one of `ApiCall`
and every step is a step of `ApiCall` or none, the safety part of `ImplementsApiCall`.
All four rest on the hypothesis `EventsApart`: no two callers send the same event (one
that takes a picture may send `PREPARE_SNAPSHOT` too), and none sends `CANCEL_PICTURE`,
which the hardware interface sends itself. The calls of run `api_calls` satisfy it;
`api_orphan`, where a caller cancels, shows that it is needed.

`DeferredWork_proofs` proves `TypeCorrect`, `SlotsCorrect` (`OneWorkPerSlot`),
`UseCorrect` (`WorkPrecedesUse`) and `FrameCorrect` (the action property
`FrameMeetsPostprocessor`) for any number of slots and channels, from its `Invariant`.
The invariant `Inv` adds to `OneWorkPerSlot` that one thread at most has a command in
hand (`OneInHand`), that every `DO_NEXT_JOB` in the queue stands for a work and the other
commands come before them (`CommandsMatchWorks`), that the postprocessor is stopped once
and acknowledges it once (`OneStop`), which channels can still be reached
(`ChannelsLive`), that as long as no call of the backend failed no channel with pending
work is deleted (`NoTrouble`), and what a capture still has to wait for
(`BuffersAwaited`, `StartAwaited`): the id of every unfinished work is kept in a job that
the state machine waits for before it uses what the work makes. While the postprocessor
is stopped in a capture the work that starts it is in the queue (`StartPending`), for
which the wait for the postview buffers must leave a slot (`SlotLeft`); a frame that has
done its wait therefore finds it started, unless `cancelPicture` has stopped it since.

`Channels_proofs` is about three parts of mm-camera-interface.

* `PollInvariant` and `PollerQuiet` (`QuietOnceOff`), for any setup of streams and
  buffers and any number of starts. Streams are brought up one after another
  (`OneByOne`), and a stream that is polled but off the list has an update in the pipe
  (`UpdateComes`). Since a wait may end early, commands whose answers nobody waits for any
  more can be in the pipe beside the one that is waited for, so the invariant speaks of
  all of them: a stream that is being removed is off the list, and an update precedes, or
  is, the last command that is answered; when all are answered the thread has read the
  list without the stream and is not in its callback (`RemovalHolds`). From that a stream
  that is off stays alone (`OffIsQuiet`), `left_behind` excepted: the theorem shows that
  the cases which that history variable marks are all there are.
* `CamInvariant` and `HandlesCorrect` (`HandlesAreLive`), for any number of cameras,
  clients and callers. An object that is being made or unmade belongs to one caller
  (`MineAlone`, `PeersAgree`), its count is the number of clients that have it open
  (`Counted`), and answers come in the order of the questions (`AnswersInOrder`). The locks
  play no part: the proof shows that it is the count, and the service's serializing of
  open and close, that keep handles alive.
* `ChanInvariant`, `ChannelsWhole` (`AllOrNothing`) and `ReadersCorrect`
  (`FramesHaveReaders`), for any layout of channels and streams in which a stream has one
  place and one channel at most links streams (`LayoutsAssumption`, as the live snapshot
  of a recording does). The invariant `Fits` says of each channel how the call it is in the
  middle of fits its array of streams (`SlotsFit`), the list the call works off
  (`ListFits`), how far each stream is (`StatesFit`), its threads (`ThreadsFit`), the
  streams linked to it (`LinksFit`, `BorrowFits`) and the frames handed out (`HeldFits`).
  That streams before `i` in the list are done, the one at `i` half done and the rest not
  begun is what makes undoing complete; that own streams precede linked ones is why
  undoing finds none to unlink; and that a channel is not touched while another borrows
  from it (`BorrowFits`) is why a step of one leaves the others alone (`OthersFit`, the
  lemma every action's proof ends with).

`GpsEngine_proofs`: `TimerInvariant` and `TimerCorrect` (`KernelSetForSoonest`), for any
timers, delegates and delays. The invariant `SoonestSeenTo` is that while the heap is not
empty the kernel's timer is set for its soonest, or someone will see to it: the task, the
thread that polls, or a message on its way. `AgpsInvariant` and `NetworkCorrect`
(`StateMatchesNetwork`), for any number of connections, routes and requests: unless two
connections share an interface, each interface has one request or one answer under way,
but for a loss behind a grant, and what the state machine believes fits it (`NifsFit`).

It also proves the safety of network initiated requests, for any number of requests and
modem restarts, from `LocEngNiAssumption` (both are natural numbers): `OnceCorrect`
(`AnsweredOnce`: one answer for a request at most, the same one again included, and an
answer to NULL only after a restart) and `OwnCorrect` (`AnswersOwnRequest`), from
`NiInvariant`. The inductive invariant `NiInv` follows a request: its number is one that
was given out (`Numbered`), and it is in one place, a session, a thread's hands or nowhere
(`InOnePlace`), which is what makes answering twice impossible. A thread that has seen a
request has `tLock` until it has built the answer, so two cannot take the same one
(`OneBuilder`); what the lock does not keep out is a restart, and only that takes the
request away between the look and the use (`OnlyRestarts`). The other parts
(`MessageKept`, `InformedOnce`, `AskedOnce`, `OwnAnswers`, `Restarted`) say what may have
been said about a request from there. `AnswersOwnRequest` excuses sessions that were
`crossed`, and the theorem shows that nothing else can go wrong.

`Pictures_proofs`: `NotifierInvariant`, `NoDeadCallbacks` (`NoCallbackOfDeadStream`) and
`DoneCorrect` (`DoneAfterItsPictures`), for any number of streams, captures and pictures,
from `NotifierAssumption`. The invariant says that commands with priority are ahead of
the others in the queue (`PriorityFirst`), so that a start or stop is seen before what
came earlier; that what is queued is of a live stream unless its flush is still to come
(`OfLiveStreams`, `StoppedIsQuiet`); and of which capture pictures that are queued or
counted are (`PicturesOfCaptures`, `OldOnesFlushed`, `OldOnesForgotten`,
`ToldOfCounted`). What a flush leaves of a queue is the subject of the lemmas about
`Sublists` (`SublistFacts`, `FlushFacts`): elements are found by their rank among the
places that stay, since a fold or a selection with a predicate cannot be reasoned about.

It also proves `SuperbufInvariant`, `BuffersAreAccounted` (`BuffersAccounted`) and
`SuperbufsAreInOrder` (`SuperbufsInOrder`), for any channel setups, numbers of frames and
buffers, metadata and requests, from `MmSuperbufAssumption` (a channel's streams are
different ones; the water mark and the look back are natural numbers). Neither property
is inductive. The invariant `SuperbufInv` says

* of the queue (`SoundQueue`) that matched superbufs precede the others, that both kinds
  are in the order of their frames, and that no frame is in two superbufs;
* of commands (`CommandsInOrder`, `FramesHandled`) that frames of one stream wait in
  their order, and that whatever is in the queue or with the client was handled before
  all of its stream that waits: a buffer cannot be in two places;
* of what was given to the client (`DeliveredInOrder`) that it is older than every
  matched superbuf, and was passed by all streams, so nothing older can still match;
* of references (`Fits`) that a stream's count is that of the places its buffer is in, and
  of the callback that shows it, until a borrowed stream is unlinked (`Exact`), and not
  less then;
* of the stop (`StoppingInOrder`) that streams which run are still to be stopped.

`CountMatched` is the size of a set; since the matched superbufs of a sound queue are its
first (`SoundHasHead`), it is the place of the last of them (`HeadFacts`), and that
`match_cnt` follows it is arithmetic. What `mm_channel_superbuf_comp_and_enqueue` does is
split into three steps (`InsertStep`, `JoinStep`, `ReplaceStep`), each shown to keep the
queue sound; all that take superbufs from the head (`DropFacts`) are one lemma, and
`FrameDoneStep` is the common end of a frame's way.

`QCameraPostProc_proofs` is about the postprocessor with the JPEG interface:
`PictureInvariant`, `OwnersAreOne` (`OwnedOnce`) and `InputsAreHeld`
(`EncoderOwnsInput`), for any kinds of capture (all 64, of which the run has four), any
numbers of encoders, jobs, frames and captures, and components that fail in either way,
from `PostProcAssumption` and `MmJpegAssumption`. `OwnedOnce` says where each buffer is,
and `EncoderOwnsInput` that what an encoder reads is there; neither says how it came
there, so neither is inductive. The invariant `PictureInv` says

* of frames (`FramesApart`) that each is in one queue at most, that a frame which comes is
  new, and that the postprocessor and the reprocess channel agree on the order of what is
  reprocessed, so that a result finds its own job;
* of buffers (`BuffersOwned`) that those which are out and neither left nor given away are
  the ones in the queues: with frames apart, in one of them;
* of jobs (`JobsKnown`) that a frame has one JPEG job at most, whose id its job has, or
  gets before the data thread does anything else (`remembers`): a job that is to be
  aborted has its id;
* of encoders (`EncodersFree`, `JobsApart`) that those without a job are free, once, and
  that a job waits, is read or has its answer under way;
* of an abort (`AbortFits`) that it waits for an encoder that was told to stop, and that
  this one reads no more when its state is `DONE`. While an encoder reads, its job is in
  `ongoing_job_q` or a call is aborting, so that an abort which finds the job nowhere and
  returns at once is right to do so;
* of the threads (`ControlFits`) which commands can wait in which state of the
  postprocessor, and that an abort or the end of a session is a part of a stop. Without
  it a session could be made while there is one, and its encoders' frames forgotten;
* of what encoders read (`InputsHeld`) that its frame is ongoing or being aborted, and
  no longer being aborted with the encoder at it once the abort returned.

`AbortFits` and `InputsHeld` say this outside burst mode only: with two encoders it is
not true (see `EncoderOwnsInput` in `QCameraPostProc.tla`). That an encoder stops, with or
without an answer, is one lemma (`ReadEndsStep`) for the three callbacks of a component
and the failure of a call to it. What the queues' operations do to frames and buffers is
proved once (`JobAppended`, `JobTaken`, `JobsKept`, `JobsJoined`); `BuffersLeave` is the
argument for each place that returns buffers.

Only model-checked: the type invariants of the compositions as a whole (the inductive
invariants of the parts carry the types their proofs need, not each `TypeOK` verbatim);
`LocHeap`, whose tree is built by RECURSIVE operators, which the prover does not take; and
every liveness property, since liveness under fairness is out of the prover's reach.

## What the properties excuse

While the modules were written the code turned out to do the following, which the
models reach and the properties leave out by name, or which lie just outside the models.
Each is a hazard of `PROJECT.json` with its line, or belongs to one.

* Notifier: START, STOP and EXIT all go to the head of the queue, so a START overtakes
  the STOP before it and the new capture's pictures are dropped (`inverted`); a picture
  queued after STOP counts for the next capture (`late`); a callback in hand is released
  after its stream has gone.
* Channels: a start that fails clears the bundle and with it the callback, so a second
  try launches no threads; the linked copy stays behind, is linked twice and crashes the
  next stop (`Forgotten`, `StopCrashes`); the undoing frees buffers before the threads
  that hold their frames end.
* Deferred work: `cancelPicture` stops the postprocessor while the capture channel still
  streams and its callback thread may be between its wait and `processData`: a frame,
  perhaps the picture's first, meets a stopped postprocessor (`Cancelling`).
* Polling (`left_behind`): a buffer whose return has seen the stream active puts the
  stream on the list again behind its removal; a registration that fails may leave it
  there, or on the thread's list; when `STREAMON` fails with the stream's entry gone
  already, the thread is not waited for; and a wait that ends early, without a signal or
  with the answer to an earlier command, leaves the thread polling a stream that goes off.
  A thread that is released before it has said that it runs is not told to end
  (`not_released`).
* Cameras: two opens that overlap make two objects for one device (`raced`); an answer to
  a message whose wait has timed out is taken for that of the next (`gave_up`); who waits
  for the lock of a channel while it is deleted sleeps on cleared memory (`stray`); a stop,
  a second call on the channel and the callback's return of a buffer can wait for one
  another in a ring (`ThreeWay`), although the return skips the channel's lock to avoid
  just that.
* Postprocessor: an encoder that answers before `start_job` returns finds no job, whose
  buffers stay until the stop (`missed`); frames the raw path does not return; an
  abort in burst mode that stops at the first encoder.
* NI: an answer that crosses a timeout or a restart answers the next request
  (`crossed`); a restart between a thread's look at the request and its use makes it
  answer NULL (`informed[0]`).
* AGPS: answers do not name their request (`overlap`); subscriptions that are swallowed
  when the interface is asked again by a handle that is inactive (`unheard`).
* Sessions: a crash restarts a session behind a stop (`revived`); a report of one single
  shot ends the record of the next (`stale`); the engine's state is heard of when no
  session will hear the opposite (`late`); a second request to delete replaces the first
  (`overwritten`).
* Timers: besides `timer_early`, ranks are whole seconds, so two timers due within one
  second expire in either order.
* Synchronous requests: with every slot in use the call reports success without sending.

## What is not modelled, and why

* Inside the modelled parts: the advanced captures (HDR, bracketing, focus sweeps),
  thermal levels, face registration, the tuning hook of `checkIntPicPending`, memory
  exhaustion, rotation and power hints. Each would add data, not control, except for
  the hazards listed in `PROJECT.json` with a note.
* Two further deadlocks the models reach but no property forbids, because they need a
  failed call first: a capture channel that cannot be added makes `takePicture` wait
  for works that were dropped without a signal (HWI 6899), and a postprocessor that does
  not start deletes the channel `takePicture` is starting (HWI 6941).
* `QCameraCbNotifier`: long shots, whose pictures are not counted, and messages the
  application has switched off.
* mm-camera-interface: the values of parameters and the events that are only passed on,
  the table of cameras filled at boot.
* `QCameraPostProc`: saving pictures to files, thumbnails and EXIF, dual reprocessing.
* `MmJpeg`: output buffers of a burst (the property covers the encoders), the decoder,
  which no caller in the HAL uses, several clients, the configuration of a component.
* `LocEngSession`: the modem client is opened again after a crash without failing.
  NMEA and XTRA are formatting and forwarding; the daemon connections are pipes.
* Generated code (`location_service_v02`), build files, configuration, policy and
  resources hold no behaviour; the RIL wrapper and the shims forward calls.

## Plan

Done: the camera's state machine with the hardware interface, its API calls, deferred
work, the notifier, the postprocessor with the JPEG interface, the camera interface with
its locks, channels, frames and polling; of the GPS, synchronous requests, requests of
the network, data connections, sessions and timers. The safety of all of these is proved;
that of the heap is model-checked.

Next, in this order:

1. `QCameraParameters` as staging, committing and restoring of sets.
2. Memory pools and the streams' own threads (`QCameraStream.cpp`, `QCameraMem.cpp`).
3. The component loader's reference counts; the message queue and the end of its tasks.
