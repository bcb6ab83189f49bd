------------------------------ MODULE CameraApi ------------------------------
(***************************************************************************)
(* The threads and queues around the camera state machine: callers of the  *)
(* camera API block on m_cond for a result of their event's type, the      *)
(* state machine's thread takes API events before backend events, and the  *)
(* callback notifier, the live snapshot thread and the backend post events *)
(* of their own.                                                           *)
(***************************************************************************)
EXTENDS QCameraStateMachine, Sequences, SequencesExt, FiniteSets

CONSTANTS
    Threads,   \* the callers
    Calls,     \* what each caller calls
    MaxCalls,  \* bound on the calls of one caller
    MaxEvents, \* bound on the events queued by the backend
    Nobody

\* Results are told apart by their event only, so no two callers make the same
\* call.
ASSUME ApiAssumption ==
    /\ Calls \in [Threads -> SUBSET ApiEvents]
    /\ \A t, u \in Threads : t # u => Calls[t] \cap Calls[u] = {}
    /\ MaxCalls \in Nat /\ MaxEvents \in Nat
    /\ Nobody \notin Threads

VARIABLES
    thr,             \* each caller: where it is in which call
    made,            \* calls each caller has made
    m_lock,          \* the caller that holds it; m_cond's waiters do not
    m_apiResultList,
    api_queue,
    evt_queue,
    cmd_sem,
    running,         \* the state machine's thread runs
    closed,          \* releaseThread() was called
    notifier,        \* processSyncEvt in the notifier's thread; it holds
                     \* m_evtLock when "posted"
    m_evtResult,     \* there is a result for the notifier
    \* Not in the code: who waits for the reply in hand and for the end of
    \* PREPARE_SNAPSHOT, whose answer each caller got last, which capture this
    \* is, and whether a SNAPSHOT_DONE ended another capture than its own.
    by, prepareBy, got, capture, misdone

queueVars == <<api_queue, evt_queue, cmd_sem>>
callVars == <<thr, made, m_lock, m_apiResultList>>
evtVars == <<notifier, m_evtResult>>
ghosts == <<by, prepareBy, got, capture, misdone>>
apiVars == <<vars, queueVars, callVars, evtVars, running, closed, ghosts>>

Owners == Threads \cup {Nobody}

ApiNode(evt, t) == [evt |-> evt, by |-> t]

EXIT == ApiNode("EXIT", Nobody)

-----------------------------------------------------------------------------
(* Callers *)

Thr(t, pc, evt, then) == thr' = [thr EXCEPT ![t] =
                                   [pc |-> pc, evt |-> evt, then |-> then]]

\* lockAPI and processAPI up to the enqueueing.  take_picture prepares first
\* when the flash is needed.
processAPI(t, evt) ==
    /\ thr[t].pc = "idle" /\ m_lock = Nobody
    /\ made[t] < MaxCalls /\ ~closed
    /\ m_lock' = t
    /\ made' = [made EXCEPT ![t] = @ + 1]
    /\ \E flash \in IF evt = "TAKE_PICTURE" THEN BOOLEAN ELSE {FALSE} :
         LET first == IF flash THEN "PREPARE_SNAPSHOT" ELSE evt IN
         /\ Thr(t, "enqueued", first, flash)
         /\ api_queue' = Append(api_queue, ApiNode(first, t))
    /\ UNCHANGED <<vars, evt_queue, cmd_sem, m_apiResultList, evtVars, running,
                   closed, ghosts>>

\* procAPI posts the semaphore after it has enqueued.
postAPI(t) ==
    /\ thr[t].pc = "enqueued"
    /\ thr' = [thr EXCEPT ![t].pc = "posted"]
    /\ cmd_sem' = cmd_sem + 1
    /\ UNCHANGED <<vars, api_queue, evt_queue, made, m_lock, m_apiResultList,
                   evtVars, running, closed, ghosts>>

\* waitAPIResult waits before it looks; waiting releases m_lock.
waitAPIResult(t) ==
    /\ thr[t].pc = "posted"
    /\ thr' = [thr EXCEPT ![t].pc = "waiting"]
    /\ m_lock' = Nobody
    /\ UNCHANGED <<vars, queueVars, made, m_apiResultList, evtVars, running,
                   closed, ghosts>>

spuriousWakeup(t) ==
    /\ thr[t].pc = "waiting"
    /\ thr' = [thr EXCEPT ![t].pc = "woken"]
    /\ UNCHANGED <<vars, queueVars, made, m_lock, m_apiResultList, evtVars,
                   running, closed, ghosts>>

\* Mutant: any result will do.
AnyResult(t) == DOMAIN m_apiResultList

\* The first result of the event's type is the caller's.
Mine(t) == {i \in DOMAIN m_apiResultList : m_apiResultList[i].evt = thr[t].evt}

stillWaiting(t) ==
    /\ thr[t].pc = "woken" /\ m_lock = Nobody
    /\ Mine(t) = {}
    /\ thr' = [thr EXCEPT ![t].pc = "waiting"]
    /\ UNCHANGED <<vars, queueVars, made, m_lock, m_apiResultList, evtVars,
                   running, closed, ghosts>>

\* Whatever PREPARE_SNAPSHOT said, take_picture goes on with TAKE_PICTURE
\* without giving up m_lock.
resultReceived(t) ==
    /\ thr[t].pc = "woken" /\ m_lock = Nobody
    /\ \E i \in Mine(t) :
         /\ \A j \in Mine(t) : i <= j
         /\ got' = [got EXCEPT ![t] = m_apiResultList[i].by]
         /\ m_apiResultList' = RemoveAt(m_apiResultList, i)
    /\ IF thr[t].then
         THEN /\ Thr(t, "enqueued", "TAKE_PICTURE", FALSE)
              /\ m_lock' = t
              /\ api_queue' = Append(api_queue, ApiNode("TAKE_PICTURE", t))
         ELSE /\ Thr(t, "idle", "none", FALSE)
              /\ UNCHANGED <<m_lock, api_queue>>
    /\ UNCHANGED <<vars, evt_queue, cmd_sem, made, evtVars, running, closed,
                   by, prepareBy, capture, misdone>>

-----------------------------------------------------------------------------
(* The state machine's thread *)

\* What a handler posts: a SNAPSHOT_DONE, or a CANCEL_PICTURE nobody waits for.
Fired(h) == IF "CANCEL_PICTURE" \in h.out
              THEN <<ApiNode("CANCEL_PICTURE", Nobody)>> ELSE <<>>
Raised(h) == IF "SNAPSHOT_DONE" \in h.out
               THEN <<[evt |-> "SNAPSHOT_DONE", of |-> capture]>> ELSE <<>>

Post(h, apis, evts, sem) ==
    /\ api_queue' = apis \o Fired(h)
    /\ evt_queue' = evts \o Raised(h)
    /\ cmd_sem' = sem + Cardinality(h.out)

countCapture ==
    capture' = IF ~isCaptureRunning(m_state) /\ isCaptureRunning(m_state')
                 THEN capture + 1 ELSE capture

Listening == running /\ reply = Silence /\ cmd_sem > 0

\* API events go first, whatever waits in the other queue.  A node may be
\* taken with the post of another; there is one for each wait all the same.
handleAPI ==
    /\ Listening /\ api_queue # <<>> /\ Head(api_queue) # EXIT
    /\ LET node == Head(api_queue) IN
         /\ stateMachine(node.evt)
         /\ by' = node.by
         /\ prepareBy' = IF m_state' = "PREPARE_SNAPSHOT" /\ m_state # m_state'
                           THEN node.by ELSE prepareBy
    /\ Post(hw', Tail(api_queue), evt_queue, cmd_sem - 1)
    /\ countCapture
    /\ UNCHANGED <<callVars, evtVars, running, closed, got, misdone>>

handleEvt ==
    /\ Listening /\ api_queue = <<>> /\ evt_queue # <<>>
    /\ LET node == Head(evt_queue) IN
         /\ stateMachine(node.evt)
         /\ misdone' = (misdone \/ /\ node.evt = "SNAPSHOT_DONE"
                                   /\ isCaptureRunning(m_state)
                                   /\ node.of # capture)
    /\ by' = prepareBy
    /\ Post(hw', api_queue, Tail(evt_queue), cmd_sem - 1)
    /\ countCapture
    /\ UNCHANGED <<callVars, evtVars, running, closed, prepareBy, got>>

\* EXIT waits in the API queue like any API event.
exitThread ==
    /\ Listening /\ api_queue # <<>> /\ Head(api_queue) = EXIT
    /\ api_queue' = Tail(api_queue)
    /\ cmd_sem' = cmd_sem - 1
    /\ running' = FALSE
    /\ UNCHANGED <<vars, evt_queue, callVars, evtVars, closed, ghosts>>

\* Mutant: m_lock is not taken.
signalUnlocked ==
    /\ reply.to = "api"
    /\ m_apiResultList' = Append(m_apiResultList, ApiNode(reply.evt, by))
    /\ thr' = [t \in Threads |-> IF thr[t].pc = "waiting"
                                   THEN [thr[t] EXCEPT !.pc = "woken"]
                                   ELSE thr[t]]
    /\ reply' = Silence
    /\ UNCHANGED <<m_state, hw, queueVars, made, m_lock, evtVars, running,
                   closed, ghosts>>

\* Mutant: pthread_cond_signal, which wakes one waiter, whoever it is.
signalOneWaiter ==
    /\ reply.to = "api" /\ m_lock = Nobody
    /\ m_apiResultList' = Append(m_apiResultList, ApiNode(reply.evt, by))
    /\ IF \A t \in Threads : thr[t].pc # "waiting"
         THEN UNCHANGED thr
         ELSE \E t \in Threads : /\ thr[t].pc = "waiting"
                                 /\ thr' = [thr EXCEPT ![t].pc = "woken"]
    /\ reply' = Silence
    /\ UNCHANGED <<m_state, hw, queueVars, made, m_lock, evtVars, running,
                   closed, ghosts>>

signalAPIResult ==
    /\ reply.to = "api" /\ m_lock = Nobody
    /\ m_apiResultList' = Append(m_apiResultList, ApiNode(reply.evt, by))
    /\ thr' = [t \in Threads |-> IF thr[t].pc = "waiting"
                                   THEN [thr[t] EXCEPT !.pc = "woken"]
                                   ELSE thr[t]]
    /\ reply' = Silence
    /\ UNCHANGED <<m_state, hw, queueVars, made, m_lock, evtVars, running,
                   closed, ghosts>>

signalEvtResult ==
    /\ reply.to = "evt" /\ notifier # "posted"
    /\ m_evtResult' = TRUE
    /\ notifier' = IF notifier = "waiting" THEN "woken" ELSE notifier
    /\ reply' = Silence
    /\ UNCHANGED <<m_state, hw, queueVars, callVars, running, closed, ghosts>>

-----------------------------------------------------------------------------
(* The other threads *)

\* The notifier reports the last snapshot with processSyncEvt.
processSyncEvt ==
    /\ notifier = "idle" /\ hw.pp /\ ~closed
    /\ notifier' = "posted"
    /\ m_evtResult' = FALSE
    /\ evt_queue' = Append(evt_queue, [evt |-> "SNAPSHOT_DONE", of |-> capture])
    /\ cmd_sem' = cmd_sem + 1
    /\ UNCHANGED <<vars, api_queue, callVars, running, closed, ghosts>>

waitEvtResult ==
    /\ notifier = "posted"
    /\ notifier' = "waiting"
    /\ UNCHANGED <<vars, queueVars, callVars, m_evtResult, running, closed,
                   ghosts>>

evtResultReceived ==
    /\ notifier = "woken"
    /\ notifier' = IF m_evtResult THEN "idle" ELSE "waiting"
    /\ UNCHANGED <<vars, queueVars, callVars, m_evtResult, running, closed,
                   ghosts>>

liveSnapshot ==
    /\ Live_Snapshot_thread
    /\ Post(hw', api_queue, evt_queue, cmd_sem)
    /\ UNCHANGED <<callVars, evtVars, running, closed, ghosts>>

\* The backend's metadata says the flash is ready; it may say so twice.
prepSnapshotDone ==
    /\ m_state = "PREPARE_SNAPSHOT" /\ Len(evt_queue) < MaxEvents
    /\ evt_queue' = Append(evt_queue,
                           [evt |-> "PREP_SNAPSHOT_DONE", of |-> capture])
    /\ cmd_sem' = cmd_sem + 1
    /\ UNCHANGED <<vars, api_queue, callVars, evtVars, running, closed, ghosts>>

\* The camera service closes a camera nobody uses any more, with its preview
\* stopped; closeCamera has the notifier exit before releaseThread.
releaseThread ==
    /\ ~closed /\ m_state = "PREVIEW_STOPPED" /\ notifier = "idle"
    /\ \A t \in Threads : thr[t].pc = "idle"
    /\ closed' = TRUE
    /\ api_queue' = Append(api_queue, EXIT)
    /\ cmd_sem' = cmd_sem + 1
    /\ UNCHANGED <<vars, evt_queue, callVars, evtVars, running, ghosts>>

-----------------------------------------------------------------------------
ApiInit ==
    /\ Init
    /\ thr = [t \in Threads |-> [pc |-> "idle", evt |-> "none", then |-> FALSE]]
    /\ made = [t \in Threads |-> 0]
    /\ m_lock = Nobody
    /\ m_apiResultList = <<>> /\ api_queue = <<>> /\ evt_queue = <<>>
    /\ cmd_sem = 0 /\ running = TRUE /\ closed = FALSE
    /\ notifier = "idle" /\ m_evtResult = FALSE
    /\ by = Nobody /\ prepareBy = Nobody /\ capture = 0 /\ misdone = FALSE
    /\ got = [t \in Threads |-> t]

caller(t) == postAPI(t) \/ waitAPIResult(t) \/ stillWaiting(t) \/ resultReceived(t)

smEvtProcRoutine ==
    handleAPI \/ handleEvt \/ exitThread
        \/ signalAPIResult \/ signalEvtResult

cbNotifyRoutine == waitEvtResult \/ evtResultReceived

ApiNext ==
    \/ \E t \in Threads : (\E evt \in Calls[t] : processAPI(t, evt))
                          \/ caller(t) \/ spuriousWakeup(t)
    \/ smEvtProcRoutine \/ cbNotifyRoutine \/ processSyncEvt
    \/ liveSnapshot \/ prepSnapshotDone \/ releaseThread

\* The scheduler runs every thread that can run, and the backend reports the
\* end of a preparation.
ApiSpec ==
    /\ ApiInit /\ [][ApiNext]_apiVars
    /\ \A t \in Threads : WF_apiVars(caller(t))
    /\ WF_apiVars(smEvtProcRoutine)
    /\ WF_apiVars(cbNotifyRoutine)
    /\ WF_apiVars(prepSnapshotDone)

-----------------------------------------------------------------------------
(* Properties *)

ApiTypeOK ==
    /\ TypeOK
    /\ thr \in [Threads -> [pc: {"idle", "enqueued", "posted", "waiting", "woken"},
                            evt: ApiEvents \cup {"none"}, then: BOOLEAN]]
    /\ made \in [Threads -> 0..MaxCalls]
    /\ m_lock \in Owners
    /\ m_apiResultList \in Seq([evt: ApiEvents, by: Owners])
    /\ api_queue \in Seq([evt: ApiEvents \cup {"EXIT"}, by: Owners])
    /\ evt_queue \in Seq([evt: {"SNAPSHOT_DONE", "PREP_SNAPSHOT_DONE"}, of: Nat])
    /\ cmd_sem \in Nat
    /\ {running, closed, m_evtResult, misdone} \subseteq BOOLEAN
    /\ notifier \in {"idle", "posted", "waiting", "woken"}
    /\ by \in Owners /\ prepareBy \in Owners
    /\ got \in [Threads -> Owners] /\ capture \in Nat

\* No caller sleeps on m_cond while its answer lies in the list: waitAPIResult
\* waits before it looks, so this is up to the lock signalAPIResult takes.
NoLostWakeup == \A t \in Threads : thr[t].pc = "waiting" => Mine(t) = {}

\* A caller gets the answer to its own call ("it will return only certain API
\* event type arrives", waitAPIResult).
OwnReply == \A t \in Threads : got[t] = t

\* A SNAPSHOT_DONE ends the capture it was raised for and no later one.
DoneEndsItsCapture == ~misdone

phase == [t \in Threads |->
    CASE thr[t].pc = "idle" -> "idle"
      [] thr[t].pc # "idle" /\ (\/ reply.to = "api" /\ by = t
                                \/ \E i \in DOMAIN m_apiResultList :
                                      m_apiResultList[i].by = t) -> "answered"
      [] OTHER -> "requested"]

Abstract == INSTANCE ApiCall WITH phase <- phase, Threads <- Threads

\* The lock, the queues, the result list and the state machine together give
\* every caller one answer to every call, its own, and give it in the end.
ImplementsApiCall == Abstract!Spec
=============================================================================
