---------------------------- MODULE DeferredWork ----------------------------
(***************************************************************************)
(* Deferred work of the camera hardware interface: buffer allocation and   *)
(* the start of the postprocessor run on mDefferedWorkThread, while the    *)
(* thread of the state machine prepares a preview, takes a picture or      *)
(* cancels it, and the callback thread of the capture channel delivers     *)
(* frames.  Both wait for jobs through waitDefferedWork().  A critical     *)
(* section of mDeffLock is one step.                                       *)
(***************************************************************************)
EXTENDS Integers, Sequences, FiniteSets, Functions

CONSTANTS
    MAX_ONGOING_JOBS,
    Objects,     \* the channel objects that can exist at a time
    RawYuv,      \* the property persist.camera.raw_yuv
    MayFail,     \* TRUE: calls into the backend may fail
    PastTheEnd   \* the padding byte after mDeffOngoingJobs, never written

ASSUME DeferredWorkAssumption ==
    /\ MAX_ONGOING_JOBS \in Nat
    /\ {RawYuv, MayFail, PastTheEnd} \subseteq BOOLEAN

NULL == "NULL"
ASSUME ObjectsAssumption == NULL \notin Objects

VARIABLES
    mDeffOngoingJobs, \* slot -> taken
    mCmdQueue,        \* the works of mCmdQueue, in order
    cmd_queue,        \* cmd_queue of the thread; cmd_sem counts its length
    sync_sem,         \* sync_sem of the thread
    worker,           \* the thread of defferedWorkRoutine: running or exited
    hand,             \* the work it has dequeued, if any
    job,              \* the ids in mSnapshotJob, mMetadataJob, ...
    m_channels,       \* PREVIEW and CAPTURE
    pChannel,         \* the channel being put together
    object,           \* each channel object: deleted, live or active
    pc,               \* where the thread of the state machine is
    wait,             \* the two callers of waitDefferedWork
    pp,               \* the postprocessor: stopped, started or refused
    fed,              \* a frame of this picture reached the postprocessor
    trouble           \* some call into the backend has failed

queues == <<mDeffOngoingJobs, mCmdQueue, cmd_queue, job>>
thread == <<sync_sem, worker, hand>>
channels == <<m_channels, pChannel, object>>
picture == <<pp, fed>>
vars == <<queues, thread, channels, pc, wait, picture, trouble>>

Slots == 0..(MAX_ONGOING_JOBS - 1)
Jobs == {"mSnapshotJob", "mPostviewJob", "mMetadataJob", "mReprocJob",
         "mRawdataJob"}
Threads == {"stateMachine", "captureCb"}
Work == [cmd: {"ALLOCATE_BUFF", "PPROC_START", "DEL_CHANNEL"}, id: Slots,
         ch: Objects \cup {NULL}]

\* The streams of the two channels, in order: the job that allocates their
\* buffers if it is deferred, and where the thread goes next.
DeferredStreams ==
    LET S(j, then, failed) == [job |-> j, then |-> then, failed |-> failed] IN
    [previewMetadata |-> S("mMetadataJob", "previewPreview", "idle"),
     previewPreview  |-> S("none", "previewAdded", "idle"),
     captureMetadata |-> S("mMetadataJob", "capturePostview", "stopPreview"),
     capturePostview |-> S("none", "captureSnapshot", "stopPreview"),
     captureSnapshot |-> S("mSnapshotJob",
                           IF RawYuv THEN "captureRaw" ELSE "captureAdded",
                           "stopPreview"),
     captureRaw      |-> S("mRawdataJob", "captureAdded", "stopPreview")]

\* The calls of waitDefferedWork: the job, and where the thread goes next.
Waits == [previewWait  |-> [job |-> "mMetadataJob", then |-> "idle"],
          waitSnapshot |-> [job |-> "mSnapshotJob", then |-> "waitMetadata"],
          waitMetadata |-> [job |-> "mMetadataJob", then |-> "waitRawdata"],
          waitRawdata  |-> [job |-> "mRawdataJob", then |-> "queuePostview"],
          waitPostview |-> [job |-> "mPostviewJob", then |-> "configCapture"],
          cancelWait   |-> [job |-> "mReprocJob", then |-> "cancelStop"]]

Init ==
    /\ mDeffOngoingJobs = [i \in Slots |-> FALSE]
    /\ mCmdQueue = <<>> /\ cmd_queue = <<"START_DATA_PROC">>
    /\ sync_sem = 0 /\ worker = "running" /\ hand = {}
    /\ job = [j \in Jobs |-> -1]
    /\ m_channels = [c \in {"PREVIEW", "CAPTURE"} |-> NULL]
    /\ pChannel = NULL /\ object = [o \in Objects |-> "deleted"]
    /\ pc = "idle" /\ wait = [t \in Threads |-> "idle"]
    /\ pp = "stopped" /\ fed = FALSE /\ trouble = FALSE

\* The works not finished yet, the one in hand among them.
Pending == Range(mCmdQueue) \cup hand

-----------------------------------------------------------------------------
(* Queueing and waiting *)

\* Mutant: slots are handed out without looking whether they are taken.
FreeOrNot == Slots

Free == {i \in Slots : ~mDeffOngoingJobs[i]}
First(S) == CHOOSE i \in S : \A k \in S : i <= k

\* j = queueDefferedWork(cmd, ch): -1 when every slot is taken.
queueDefferedWork(j, cmd, ch) ==
    IF Free = {}
      THEN /\ job' = [job EXCEPT ![j] = -1]
           /\ UNCHANGED <<mDeffOngoingJobs, mCmdQueue, cmd_queue>>
      ELSE LET i == First(Free) IN
           /\ mCmdQueue' = Append(mCmdQueue, [cmd |-> cmd, id |-> i, ch |-> ch])
           /\ mDeffOngoingJobs' = [mDeffOngoingJobs EXCEPT ![i] = TRUE]
           /\ cmd_queue' = Append(cmd_queue, "DO_NEXT_JOB")
           /\ job' = [job EXCEPT ![j] = i]

Enter(t) == wait[t] = "idle" /\ wait' = [wait EXCEPT ![t] = "entered"]

\* What the loop of waitDefferedWork reads.  job_id is a reference: when two
\* threads wait for one job the first one out sets it to MAX_ONGOING_JOBS.
ongoing(j) == IF job[j] \in Slots THEN mDeffOngoingJobs[job[j]] ELSE PastTheEnd

\* Mutant: the condition is not tested again after a wakeup.
tryWaitOnce(t, j) ==
    \/ /\ \/ wait[t] = "entered" /\ job[j] \notin Slots
          \/ wait[t] = "woken"
       /\ wait' = [wait EXCEPT ![t] = "returned"]
       /\ UNCHANGED job
    \/ /\ wait[t] = "entered" /\ job[j] \in Slots
       /\ wait' = [wait EXCEPT ![t] = IF ongoing(j) THEN "blocked"
                                                    ELSE "returned"]
       /\ UNCHANGED job

\* One pass by t.  The range of the id is checked on entry only.
tryWait(t, j) ==
    \/ /\ wait[t] = "entered" /\ job[j] \notin Slots
       /\ wait' = [wait EXCEPT ![t] = "returned"]
       /\ UNCHANGED job
    \/ /\ wait[t] \in {"entered", "woken"}
       /\ wait[t] = "entered" => job[j] \in Slots
       /\ IF ongoing(j)
            THEN /\ wait' = [wait EXCEPT ![t] = "blocked"]
                 /\ UNCHANGED job
            ELSE /\ wait' = [wait EXCEPT ![t] = "returned"]
                 /\ job' = [job EXCEPT ![j] = MAX_ONGOING_JOBS]

waitDefferedWork(t, j) ==
    /\ tryWait(t, j)
    /\ UNCHANGED <<mDeffOngoingJobs, mCmdQueue, cmd_queue, thread, channels,
                   pc, picture, trouble>>

\* mDeffCond.wait() may return without a signal.
spuriousWakeup(t) ==
    /\ wait[t] = "blocked"
    /\ wait' = [wait EXCEPT ![t] = "woken"]
    /\ UNCHANGED <<queues, thread, channels, pc, picture, trouble>>

\* mDeffCond.signal(): one of those who wait, whoever it is.
signal ==
    IF \A t \in Threads : wait[t] # "blocked"
      THEN UNCHANGED wait
      ELSE \E t \in Threads : /\ wait[t] = "blocked"
                              /\ wait' = [wait EXCEPT ![t] = "woken"]

-----------------------------------------------------------------------------
(* defferedWorkRoutine *)

\* Mutant: STOP_DATA_PROC is not acknowledged.
getCmdWithoutPost ==
    /\ worker = "running" /\ hand = {} /\ cmd_queue # <<>>
    /\ cmd_queue' = Tail(cmd_queue)
    /\ IF Head(cmd_queue) = "DO_NEXT_JOB"
         THEN hand' = {Head(mCmdQueue)} /\ mCmdQueue' = Tail(mCmdQueue)
         ELSE UNCHANGED <<hand, mCmdQueue>>
    /\ worker' = IF Head(cmd_queue) = "EXIT" THEN "exited" ELSE worker
    /\ UNCHANGED <<sync_sem, mDeffOngoingJobs, job, channels, pc, wait,
                   picture, trouble>>

getCmd ==
    /\ worker = "running" /\ hand = {} /\ cmd_queue # <<>>
    /\ cmd_queue' = Tail(cmd_queue)
    /\ CASE Head(cmd_queue) = "START_DATA_PROC" ->
              UNCHANGED <<worker, hand, mCmdQueue, sync_sem>>
         [] Head(cmd_queue) = "STOP_DATA_PROC" ->
              /\ sync_sem' = sync_sem + 1
              /\ UNCHANGED <<worker, hand, mCmdQueue>>
         [] Head(cmd_queue) = "EXIT" ->
              worker' = "exited" /\ UNCHANGED <<hand, mCmdQueue, sync_sem>>
         [] Head(cmd_queue) = "DO_NEXT_JOB" ->
              /\ hand' = {Head(mCmdQueue)} /\ mCmdQueue' = Tail(mCmdQueue)
              /\ UNCHANGED <<worker, sync_sem>>
    /\ UNCHANGED <<mDeffOngoingJobs, job, channels, pc, wait, picture, trouble>>

jobDone(w) ==
    /\ mDeffOngoingJobs' = [mDeffOngoingJobs EXCEPT ![w.id] = FALSE]
    /\ hand' = {}
    /\ signal

\* Without a channel the work is dropped, and its slot stays taken.
allocateBuffers(w) ==
    /\ w.cmd = "ALLOCATE_BUFF"
    /\ IF w.ch = NULL
         THEN hand' = {} /\ UNCHANGED <<mDeffOngoingJobs, wait>>
         ELSE jobDone(w)
    /\ UNCHANGED <<mCmdQueue, cmd_queue, job, sync_sem, worker, channels, pc,
                   picture, trouble>>

pprocStart(w) ==
    /\ w.cmd = "PPROC_START"
    /\ pp' = "started" /\ jobDone(w)
    /\ UNCHANGED <<mCmdQueue, cmd_queue, job, sync_sem, worker, channels, pc,
                   fed, trouble>>

\* m_postprocessor.start() fails; delChannel(CAPTURE) comes next.
pprocRefused(w) ==
    /\ MayFail /\ w.cmd = "PPROC_START"
    /\ pp' = "refused" /\ trouble' = TRUE
    /\ hand' = {[w EXCEPT !.cmd = "DEL_CHANNEL"]}
    /\ UNCHANGED <<queues, sync_sem, worker, channels, pc, wait, fed>>

\* Deleting a channel that streams joins its callback thread.
Joinable(c) == m_channels[c] = NULL \/ wait["captureCb"] = "idle"

\* An object that is gone already, or was none, is not deleted again.
Deleted(o) == [x \in Objects |-> IF x = o THEN "deleted" ELSE object[x]]

delCaptureChannel(w) ==
    /\ w.cmd = "DEL_CHANNEL" /\ Joinable("CAPTURE")
    /\ object' = Deleted(m_channels["CAPTURE"])
    /\ m_channels' = [m_channels EXCEPT !["CAPTURE"] = NULL]
    /\ jobDone(w)
    /\ UNCHANGED <<mCmdQueue, cmd_queue, job, sync_sem, worker, pChannel, pc,
                   picture, trouble>>

-----------------------------------------------------------------------------
(* The thread of the state machine *)

PcAt(here) == pc = here /\ wait["stateMachine"] = "idle"

\* A new channel object.  The bound on the objects is Objects.
NewChannel ==
    \E o \in Objects : /\ object[o] = "deleted"
                       /\ \A w \in Pending : w.ch # o
                       /\ pChannel' = o
                       /\ object' = [object EXCEPT ![o] = "live"]

\* addStreamToChannel failed: the channel goes, whatever is queued for it.
dropChannel(there) ==
    /\ object' = Deleted(pChannel) /\ pChannel' = NULL
    /\ trouble' = TRUE /\ pc' = there
    /\ UNCHANGED m_channels

\* addStreamToChannel: the buffers of some streams are allocated later.
addStreamToChannel ==
    /\ pc \in DOMAIN DeferredStreams /\ PcAt(pc)
    /\ LET s == DeferredStreams[pc] IN
       \/ /\ s.job \in Jobs
          /\ queueDefferedWork(s.job, "ALLOCATE_BUFF", pChannel)
          /\ IF job'[s.job] = -1
               THEN dropChannel(s.failed)
               ELSE pc' = s.then /\ UNCHANGED <<channels, trouble>>
       \/ /\ s.job \notin Jobs
          /\ pc' = s.then /\ UNCHANGED <<queues, channels, trouble>>
       \/ /\ MayFail /\ dropChannel(s.failed)
          /\ UNCHANGED queues
    /\ UNCHANGED <<thread, wait, picture>>

\* The channel is complete: it becomes m_channels[c].
channelAdded(here, c, there) ==
    /\ PcAt(here)
    /\ m_channels' = [m_channels EXCEPT ![c] = pChannel]
    /\ pChannel' = NULL /\ pc' = there
    /\ UNCHANGED <<queues, thread, object, wait, picture, trouble>>

addPreviewChannel ==
    /\ PcAt("idle") /\ m_channels["PREVIEW"] = NULL
    /\ NewChannel /\ pc' = "previewMetadata"
    /\ UNCHANGED <<queues, thread, m_channels, wait, picture, trouble>>

\* takePicture() without longshot; addCaptureChannel() first deletes the
\* channel of an earlier picture.
takePicture ==
    /\ PcAt("idle") /\ m_channels["PREVIEW"] # NULL
    /\ m_channels["CAPTURE"] = NULL
    /\ NewChannel /\ pc' = "captureMetadata"
    /\ fed' = FALSE
    /\ UNCHANGED <<queues, thread, m_channels, wait, pp, trouble>>

stopPreview ==
    /\ \/ PcAt("stopPreview") /\ pc' = "waitSnapshot"
       \/ PcAt("idle") /\ m_channels["PREVIEW"] # NULL /\ UNCHANGED pc
    /\ object' = Deleted(m_channels["PREVIEW"])
    /\ m_channels' = [m_channels EXCEPT !["PREVIEW"] = NULL]
    /\ UNCHANGED <<queues, thread, pChannel, wait, picture, trouble>>

\* takePicture() goes on to here when the capture channel could not be added.
queuePostview ==
    /\ PcAt("queuePostview")
    /\ queueDefferedWork("mPostviewJob", "ALLOCATE_BUFF", m_channels["CAPTURE"])
    /\ pc' = "waitPostview"
    /\ UNCHANGED <<thread, channels, wait, picture, trouble>>

delChannelAndFail ==
    /\ object' = Deleted(m_channels["CAPTURE"])
    /\ m_channels' = [m_channels EXCEPT !["CAPTURE"] = NULL]
    /\ pc' = "idle" /\ trouble' = TRUE

\* Mutant: the id of the postprocessor's start goes to the wrong member.
configCaptureWrongJob ==
    /\ PcAt("configCapture")
    /\ m_channels["CAPTURE"] # NULL
    /\ queueDefferedWork("mPostviewJob", "PPROC_START", m_channels["CAPTURE"])
    /\ pc' = "startCapture"
    /\ UNCHANGED <<thread, channels, wait, picture, trouble>>

configCapture ==
    /\ PcAt("configCapture")
    /\ \/ /\ m_channels["CAPTURE"] = NULL \/ job["mPostviewJob"] = -1
          /\ pc' = "idle"
          /\ UNCHANGED <<queues, channels, trouble>>
       \/ /\ m_channels["CAPTURE"] # NULL /\ job["mPostviewJob"] # -1
          /\ \/ /\ queueDefferedWork("mReprocJob", "PPROC_START",
                                     m_channels["CAPTURE"])
                /\ pc' = "startCapture"
                /\ UNCHANGED <<channels, trouble>>
             \/ /\ MayFail /\ delChannelAndFail
                /\ UNCHANGED <<queues, pChannel>>
    /\ UNCHANGED <<thread, wait, picture>>

\* The worker may have deleted the channel: start() then crashes.
startCapture ==
    /\ PcAt("startCapture")
    /\ \/ /\ m_channels["CAPTURE"] = NULL
          /\ pc' = "crashed" /\ UNCHANGED <<channels, trouble>>
       \/ /\ m_channels["CAPTURE"] # NULL
          /\ \/ /\ object' = [object EXCEPT ![m_channels["CAPTURE"]] = "active"]
                /\ pc' = "picture" /\ UNCHANGED <<m_channels, pChannel, trouble>>
             \/ MayFail /\ delChannelAndFail /\ UNCHANGED pChannel
    /\ UNCHANGED <<queues, thread, wait, picture>>

\* cancelPicture() is called for a picture that is done, or before.
cancelPicture ==
    /\ PcAt("picture")
    /\ pc' = "cancelWait"
    /\ UNCHANGED <<queues, thread, channels, wait, picture, trouble>>

\* m_postprocessor.stop() comes after the wait of cancelPicture(), while the channel
\* still streams and its callback thread may be at any point of its routine.
cancelStop ==
    /\ PcAt("cancelStop")
    /\ pp' = "stopped" /\ pc' = "cancelChannel"
    /\ UNCHANGED <<queues, thread, channels, wait, fed, trouble>>

\* stopChannel and delChannel.  Frames come until the callback thread is joined.
cancelChannel ==
    /\ PcAt("cancelChannel") /\ Joinable("CAPTURE")
    /\ object' = Deleted(m_channels["CAPTURE"])
    /\ m_channels' = [m_channels EXCEPT !["CAPTURE"] = NULL]
    /\ pc' = "idle"
    /\ UNCHANGED <<queues, thread, pChannel, wait, picture, trouble>>

enterWait ==
    /\ pc \in DOMAIN Waits /\ Enter("stateMachine")
    /\ UNCHANGED <<queues, thread, channels, pc, picture, trouble>>

waitReturns ==
    /\ pc \in DOMAIN Waits /\ wait["stateMachine"] = "returned"
    /\ pc' = Waits[pc].then
    /\ wait' = [wait EXCEPT !["stateMachine"] = "idle"]
    /\ UNCHANGED <<queues, thread, channels, picture, trouble>>

\* ~QCamera2HardwareInterface: both commands go to the head of the queue.
stopDataProc ==
    /\ PcAt("idle")
    /\ cmd_queue' = <<"STOP_DATA_PROC">> \o cmd_queue
    /\ pc' = "closing"
    /\ UNCHANGED <<mDeffOngoingJobs, mCmdQueue, job, thread, channels, wait,
                   picture, trouble>>

exitThread ==
    /\ pc = "closing" /\ sync_sem > 0
    /\ sync_sem' = sync_sem - 1
    /\ cmd_queue' = <<"EXIT">> \o cmd_queue
    /\ pc' = "joining"
    /\ UNCHANGED <<mDeffOngoingJobs, mCmdQueue, job, worker, hand, channels,
                   wait, picture, trouble>>

joined ==
    /\ pc = "joining" /\ worker = "exited"
    /\ pc' = "closed"
    /\ UNCHANGED <<queues, thread, channels, wait, picture, trouble>>

-----------------------------------------------------------------------------
(* capture_channel_cb_routine *)

frameArrives ==
    /\ m_channels["CAPTURE"] # NULL
    /\ object[m_channels["CAPTURE"]] = "active"
    /\ Enter("captureCb")
    /\ UNCHANGED <<queues, thread, channels, pc, picture, trouble>>

\* m_postprocessor.processData(frame)
processData ==
    /\ wait["captureCb"] = "returned"
    /\ wait' = [wait EXCEPT !["captureCb"] = "idle"]
    /\ fed' = TRUE
    /\ UNCHANGED <<queues, thread, channels, pc, pp, trouble>>

-----------------------------------------------------------------------------
defferedWorkRoutine ==
    \/ getCmd
    \/ \E w \in hand : \/ allocateBuffers(w) \/ pprocStart(w)
                      \/ pprocRefused(w) \/ delCaptureChannel(w)

\* What the thread of the state machine does once it has begun.
goOn ==
    \/ addStreamToChannel
    \/ channelAdded("previewAdded", "PREVIEW", "previewWait")
    \/ channelAdded("captureAdded", "CAPTURE", "stopPreview")
    \/ (PcAt("stopPreview") /\ stopPreview)
    \/ queuePostview \/ configCapture \/ startCapture
    \/ cancelStop \/ cancelChannel \/ enterWait \/ waitReturns
    \/ exitThread \/ joined
    \/ (pc \in DOMAIN Waits /\ waitDefferedWork("stateMachine", Waits[pc].job))

deliver == waitDefferedWork("captureCb", "mReprocJob") \/ processData

Next ==
    \/ defferedWorkRoutine \/ goOn \/ deliver
    \/ addPreviewChannel \/ takePicture \/ (PcAt("idle") /\ stopPreview)
    \/ cancelPicture \/ stopDataProc \/ frameArrives
    \/ \E t \in Threads : spuriousWakeup(t)

\* Every thread runs; nobody has to ask for anything, no frame has to come.
Spec ==
    /\ Init /\ [][Next]_vars
    /\ WF_vars(defferedWorkRoutine) /\ WF_vars(goOn) /\ WF_vars(deliver)

-----------------------------------------------------------------------------
TypeOK ==
    /\ mDeffOngoingJobs \in [Slots -> BOOLEAN]
    /\ mCmdQueue \in Seq(Work) /\ hand \subseteq Work /\ Cardinality(hand) <= 1
    /\ worker \in {"running", "exited"}
    /\ cmd_queue \in Seq({"START_DATA_PROC", "STOP_DATA_PROC", "DO_NEXT_JOB",
                          "EXIT"})
    /\ sync_sem \in 0..1
    /\ job \in [Jobs -> -1..MAX_ONGOING_JOBS]
    /\ m_channels \in [{"PREVIEW", "CAPTURE"} -> Objects \cup {NULL}]
    /\ pChannel \in Objects \cup {NULL}
    /\ object \in [Objects -> {"deleted", "live", "active"}]
    /\ wait \in [Threads -> {"idle", "entered", "blocked", "woken", "returned"}]
    /\ pp \in {"stopped", "started", "refused"}
    /\ {fed, trouble} \subseteq BOOLEAN
    /\ pc \in DOMAIN DeferredStreams \cup DOMAIN Waits \cup
              {"idle", "previewAdded", "captureAdded", "stopPreview",
               "queuePostview", "configCapture", "startCapture", "picture",
               "cancelStop", "cancelChannel", "closing", "joining", "closed",
               "crashed"}

\* A slot belongs to one unfinished work at most, and no slot of an
\* unfinished work is ever free: a waiter cannot take the end of somebody
\* else's work for the end of its own.
OneWorkPerSlot ==
    /\ \A i \in DOMAIN mCmdQueue, k \in DOMAIN mCmdQueue :
          mCmdQueue[i].id = mCmdQueue[k].id => i = k
    /\ \A w \in Pending : mDeffOngoingJobs[w.id]
    /\ \A w \in hand, i \in DOMAIN mCmdQueue : mCmdQueue[i].id # w.id

\* The capture channel is configured and started only when the buffers of
\* all its streams have been allocated, failures and full slots included.
BuffersBeforeStart ==
    pc \in {"configCapture", "startCapture", "picture"} =>
        \A w \in Pending : ~(/\ w.cmd = "ALLOCATE_BUFF"
                             /\ w.ch = m_channels["CAPTURE"])

\* A channel is neither used before the work it needs is done nor deleted before the work
\* on it is, as long as no call into the backend fails.  (After a failure it may be:
\* addStreamToChannel and the start of the capture channel delete what is still queued.)
WorkPrecedesUse ==
    /\ BuffersBeforeStart
    /\ ~trouble => \A w \in Pending : w.ch \in Objects /\ object[w.ch] # "deleted"

\* cancelPicture() has stopped the postprocessor; the channel is still to be stopped.
Cancelling == pc = "cancelChannel"

\* No first frame of a picture is passed to a postprocessor whose start is still pending.
\* It may meet one that is stopped again: cancelPicture() does not join the callback
\* thread before it stops the postprocessor, so a frame that has done its wait, or
\* comes now, is too late.  That is the only way to a stopped postprocessor.
FrameMeetsPostprocessor == [][~fed /\ fed' => pp # "stopped" \/ Cancelling]_vars

\* waitDefferedWork "waits for a deffered task to finish": the caller gets
\* out again.
WaitReturns ==
    \A t \in Threads : wait[t] = "entered" ~> wait[t] = "idle"

\* Both threads wait for mReprocJob: cancelPicture() overtakes a frame whose
\* postprocessor is still being started.
Crowded == pc = "cancelWait" /\ "idle" \notin Range(wait)

\* It does so at least in every run in which no call into the backend fails
\* and the two threads never wait together: jobDone wakes only one of them.  And
\* the destructor's two commands overtake every queued work, and it returns
\* whatever was left undone.
WaitsEnd ==
    /\ []~(trouble \/ Crowded) => WaitReturns
    /\ pc = "closing" ~> pc = "closed"
=============================================================================
