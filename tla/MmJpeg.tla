------------------------------- MODULE MmJpeg -------------------------------
(***************************************************************************)
(* The JPEG interface of one client: its session, the jobs that wait for   *)
(* an encoder, the thread that gives them one, and the encoders, OpenMAX   *)
(* components that answer on threads of their own.  The client calls one   *)
(* operation at a time (g_intf_lock).  job_lock is held by a call that     *)
(* aborts and by the thread while it starts a job.                         *)
(***************************************************************************)
EXTENDS Integers, Sequences, SequencesExt, FiniteSets, FiniteSetsExt, Sublists

CONSTANTS
    NUM_MAX_JPEG_CNCURRENT_JOBS,
    MM_JPEG_CONCURRENT_SESSIONS_COUNT, \* encoders of a session in burst mode
    MaxJobs                            \* bound on the jobs started

ASSUME MmJpegAssumption ==
    {NUM_MAX_JPEG_CNCURRENT_JOBS, MM_JPEG_CONCURRENT_SESSIONS_COUNT, MaxJobs} \subseteq Nat \ {0}

Encoders == 1..MM_JPEG_CONCURRENT_SESSIONS_COUNT
JobIds == 1..MaxJobs
EXIT == 0      \* in the job queue: MM_JPEG_CMD_TYPE_EXIT

\* A session's use of one component: encoding and abort_state are the session's,
\* busy (the job whose input it reads, 0 if none) and idling (asked to go idle)
\* the component's.
Encoder == [encoding: BOOLEAN, abort_state: {"NONE", "INIT", "DONE"},
            job: {0} \cup JobIds, busy: {0} \cup JobIds, idling: BOOLEAN]
FreshEncoder == [encoding |-> FALSE, abort_state |-> "NONE", job |-> 0,
                 busy |-> 0, idling |-> FALSE]

VARIABLES
    fault,            \* how a component reports a failure: "none" (it has none),
                      \* "call" (OMX_FillThisBuffer fails) or "event"
    num_omx_sessions, \* encoders of the session, 0 if there is no session
    encoder,          \* the sessions' records
    session_handle_q, \* encoders free for a job
    job_hist,         \* jobs started
    job_queue, job_sem, ongoing_job_q,
    mgr,              \* the job thread: waits, takes a job, fills, exited
    mgr_on,           \* the encoder it is starting, 0 if none
    call,             \* the call in progress that aborts: its operation and the
                      \* encoder it has come to, if it waits for that one
    jpeg_evts         \* answers given to the client's callback, not yet handled

jpegVars == <<fault, num_omx_sessions, encoder, session_handle_q, job_hist, job_queue,
              job_sem, ongoing_job_q, mgr, mgr_on, call, jpeg_evts>>
sessionVars == <<fault, num_omx_sessions>>
mgrVars == <<mgr, mgr_on>>

NoCall == [op |-> "none", at |-> 0, waits |-> FALSE]
InSession == 1..num_omx_sessions

JpegTypeOK ==
    /\ fault \in {"none", "call", "event"}
    /\ num_omx_sessions \in 0..MM_JPEG_CONCURRENT_SESSIONS_COUNT
    /\ encoder \in [Encoders -> Encoder]
    /\ \A i \in DOMAIN session_handle_q : session_handle_q[i] \in Encoders
    /\ job_hist \in 0..MaxJobs
    /\ \A i \in DOMAIN job_queue : job_queue[i] \in {EXIT} \cup JobIds
    /\ job_sem \in Nat /\ ongoing_job_q \subseteq JobIds
    /\ mgr \in {"waits", "takes", "fills", "exited"} /\ mgr_on \in {0} \cup Encoders
    /\ call.op \in {"none", "abort", "destroy", "returned"}
    /\ call.at \in 0..MM_JPEG_CONCURRENT_SESSIONS_COUNT + 1 /\ call.waits \in BOOLEAN
    /\ \A i \in DOMAIN jpeg_evts :
           /\ jpeg_evts[i].job \in JobIds /\ jpeg_evts[i].status \in {"DONE", "ERROR"}

\* mm_jpeg_init() and mm_jpeg_new_client().
JpegInit ==
    /\ fault \in {"none", "call", "event"}
    /\ num_omx_sessions = 0 /\ encoder = [h \in Encoders |-> FreshEncoder]
    /\ session_handle_q = << >> /\ job_hist = 0
    /\ job_queue = << >> /\ job_sem = 0 /\ ongoing_job_q = {}
    /\ mgr = "waits" /\ mgr_on = 0 /\ call = NoCall /\ jpeg_evts = << >>

-----------------------------------------------------------------------------
(* The client's calls.                                                     *)

\* mm_jpeg_create_session() with n encoders.
CreateSession(n) ==
    /\ num_omx_sessions' = n
    /\ encoder' = [h \in Encoders |-> FreshEncoder]
    /\ session_handle_q' = [h \in 1..n |-> h]

\* mm_jpeg_start_job(): the id of the job is job_hist'.
StartJob ==
    /\ job_hist' = job_hist + 1
    /\ job_queue' = Append(job_queue, job_hist') /\ job_sem' = job_sem + 1

JobLockFree == call.op = "none" /\ mgr # "fills"

\* mm_jpeg_abort_job(): a job that waits is dropped, one that has started stops its
\* session, the first encoder of it first.
AbortJob(j) ==
    /\ JobLockFree
    /\ job_queue' = At(job_queue, {i \in DOMAIN job_queue : job_queue[i] # j})
    /\ ongoing_job_q' = IF j \in ToSet(job_queue) THEN ongoing_job_q ELSE ongoing_job_q \ {j}
    /\ call' = IF j \notin ToSet(job_queue) /\ j \in ongoing_job_q
               THEN [op |-> "abort", at |-> 1, waits |-> FALSE]
               ELSE [NoCall EXCEPT !.op = "returned"]
    /\ UNCHANGED <<sessionVars, encoder, session_handle_q, job_hist, job_sem, mgrVars,
                   jpeg_evts>>

\* mm_jpeg_destroy_session(), as far as it drops the session's jobs.
DestroySession ==
    /\ JobLockFree
    /\ job_queue' = << >> /\ ongoing_job_q' = {}
    /\ call' = [op |-> "destroy", at |-> 1, waits |-> FALSE]
    /\ UNCHANGED <<sessionVars, encoder, session_handle_q, job_hist, job_sem, mgrVars,
                   jpeg_evts>>

\* mm_jpeg_session_abort() for the encoder the call has come to.
AbortEncoder ==
    LET h == call.at
    IN  /\ call.op \in {"abort", "destroy"} /\ ~call.waits /\ h \in InSession
        /\ IF encoder[h].abort_state # "NONE"      \* nor those after it
           THEN /\ call' = [call EXCEPT !.at = num_omx_sessions + 1]
                /\ UNCHANGED encoder
           ELSE IF encoder[h].encoding
           THEN /\ encoder' = [encoder EXCEPT ![h].abort_state = "INIT", ![h].idling = TRUE]
                /\ call' = [call EXCEPT !.waits = TRUE]
           ELSE /\ encoder' = [encoder EXCEPT ![h].abort_state = "DONE"]
                /\ call' = [call EXCEPT !.at = h + 1]
        /\ UNCHANGED <<sessionVars, session_handle_q, job_hist, job_queue, job_sem,
                       ongoing_job_q, mgrVars, jpeg_evts>>

\* Mutant: whatever wakes the call, it goes on.
AbortWakesAnyway ==
    /\ call.waits
    /\ encoder' = [encoder EXCEPT ![call.at].abort_state = "DONE"]
    /\ call' = [call EXCEPT !.at = call.at + 1, !.waits = FALSE]
    /\ UNCHANGED <<sessionVars, session_handle_q, job_hist, job_queue, job_sem,
                   ongoing_job_q, mgrVars, jpeg_evts>>

AbortWakes ==
    /\ call.waits /\ encoder[call.at].abort_state # "INIT"
    /\ encoder' = [encoder EXCEPT ![call.at].abort_state = "DONE"]
    /\ call' = [call EXCEPT !.at = call.at + 1, !.waits = FALSE]
    /\ UNCHANGED <<sessionVars, session_handle_q, job_hist, job_queue, job_sem,
                   ongoing_job_q, mgrVars, jpeg_evts>>

\* The call returns; mm_jpeg_session_destroy() has freed the components of a session
\* that is destroyed, once they are idle.
AbortReturns ==
    /\ call.op \in {"abort", "destroy"} /\ call.at > num_omx_sessions
    /\ call.op = "destroy" => \A h \in InSession : ~encoder[h].idling
    /\ call' = [NoCall EXCEPT !.op = "returned"]
    /\ IF call.op = "destroy"
       THEN /\ num_omx_sessions' = 0 /\ session_handle_q' = << >>
            /\ encoder' = [h \in Encoders |-> FreshEncoder] /\ job_sem' = job_sem + 1
       ELSE UNCHANGED <<num_omx_sessions, session_handle_q, encoder, job_sem>>
    /\ UNCHANGED <<fault, job_hist, job_queue, ongoing_job_q, mgrVars, jpeg_evts>>

\* Mutant: nobody wakes the thread for it.
ReleaseSilently ==
    /\ JobLockFree
    /\ job_queue' = Append(job_queue, EXIT)
    /\ UNCHANGED <<sessionVars, encoder, session_handle_q, job_hist, job_sem,
                   ongoing_job_q, mgrVars, call, jpeg_evts>>

\* mm_jpeg_jobmgr_thread_release(), by the close of the last client.
ReleaseThread ==
    /\ JobLockFree
    /\ job_queue' = Append(job_queue, EXIT) /\ job_sem' = job_sem + 1
    /\ UNCHANGED <<sessionVars, encoder, session_handle_q, job_hist, ongoing_job_q,
                   mgrVars, call, jpeg_evts>>

-----------------------------------------------------------------------------
(* The job thread.                                                         *)

\* mm_jpegenc_job_done(), and the answer status before it.
JobDone(h, status) ==
    /\ jpeg_evts' = Append(jpeg_evts, [job |-> encoder[h].job, status |-> status])
    /\ ongoing_job_q' = ongoing_job_q \ {encoder[h].job}
    /\ encoder' = [encoder EXCEPT ![h].encoding = FALSE, ![h].busy = 0]
    /\ session_handle_q' = Append(session_handle_q, h)
    /\ job_sem' = job_sem + 1

\* A post taken while the encoders are all at work is not made up for here.
MgrWakes ==
    /\ mgr = "waits" /\ job_sem > 0 /\ job_sem' = job_sem - 1
    /\ mgr' = IF Cardinality(ongoing_job_q) >= NUM_MAX_JPEG_CNCURRENT_JOBS
              THEN "waits" ELSE "takes"
    /\ UNCHANGED <<sessionVars, encoder, session_handle_q, job_hist, job_queue,
                   ongoing_job_q, mgr_on, call, jpeg_evts>>

\* mm_jpeg_process_encoding_job() and mm_jpeg_session_encode() to the point where the
\* component has its input.  Without an encoder the job goes back to the head.
MgrTakes ==
    /\ mgr = "takes" /\ call.op \in {"none", "returned"}
    /\ CASE job_queue = << >> \/ (job_queue[1] # EXIT /\ session_handle_q = << >>) ->
              /\ mgr' = "waits"
              /\ UNCHANGED <<encoder, session_handle_q, job_queue, ongoing_job_q, mgr_on>>
         [] job_queue # << >> /\ job_queue[1] = EXIT ->
              /\ mgr' = "exited" /\ job_queue' = Tail(job_queue)
              /\ UNCHANGED <<encoder, session_handle_q, ongoing_job_q, mgr_on>>
         [] OTHER ->
              LET j == job_queue[1]
                  h == session_handle_q[1]
              IN  /\ mgr' = "fills" /\ mgr_on' = h
                  /\ job_queue' = Tail(job_queue)
                  /\ session_handle_q' = Tail(session_handle_q)
                  /\ ongoing_job_q' = ongoing_job_q \cup {j}
                  /\ encoder' = [encoder EXCEPT ![h] =
                         [FreshEncoder EXCEPT !.encoding = TRUE, !.job = j, !.busy = j]]
    /\ UNCHANGED <<sessionVars, job_hist, job_sem, call, jpeg_evts>>

\* The component gets its output buffer, or refuses it and the job ends.
MgrFills ==
    /\ mgr = "fills" /\ mgr' = "waits" /\ mgr_on' = 0
    /\ \/ UNCHANGED <<encoder, session_handle_q, ongoing_job_q, job_sem, jpeg_evts>>
       \/ fault = "call" /\ JobDone(mgr_on, "ERROR")
    /\ UNCHANGED <<sessionVars, job_hist, job_queue, call>>

-----------------------------------------------------------------------------
(* The components' threads, under the lock of the session.                 *)

\* mm_jpeg_fbd(): the image is ready.
FillBufferDone(h) ==
    /\ encoder[h].busy # 0 /\ h # mgr_on
    /\ IF encoder[h].abort_state # "NONE"
       THEN /\ encoder' = [encoder EXCEPT ![h].busy = 0]
            /\ UNCHANGED <<session_handle_q, ongoing_job_q, job_sem, jpeg_evts>>
       ELSE JobDone(h, "DONE")
    /\ UNCHANGED <<sessionVars, job_hist, job_queue, mgrVars, call>>

\* mm_jpeg_event_handler() of an error.
ErrorEvent(h) ==
    /\ fault = "event" /\ encoder[h].busy # 0
    /\ CASE encoder[h].abort_state = "INIT" ->
              /\ encoder' = [encoder EXCEPT ![h].abort_state = "DONE", ![h].busy = 0]
              /\ UNCHANGED <<session_handle_q, ongoing_job_q, job_sem, jpeg_evts>>
         [] encoder[h].abort_state # "INIT" /\ encoder[h].encoding -> JobDone(h, "ERROR")
         [] OTHER ->
              /\ encoder' = [encoder EXCEPT ![h].busy = 0]
              /\ UNCHANGED <<session_handle_q, ongoing_job_q, job_sem, jpeg_evts>>
    /\ UNCHANGED <<sessionVars, job_hist, job_queue, mgrVars, call>>

\* mm_jpeg_event_handler() of OMX_EventCmdComplete.
IdleEvent(h) ==
    /\ encoder[h].idling
    /\ encoder' = [encoder EXCEPT ![h].idling = FALSE, ![h].busy = 0,
           ![h].abort_state = IF @ = "INIT" THEN "DONE" ELSE @]
    /\ UNCHANGED <<sessionVars, session_handle_q, job_hist, job_queue, job_sem,
                   ongoing_job_q, mgrVars, call, jpeg_evts>>

MgrStep == MgrWakes \/ MgrTakes \/ MgrFills
AbortStep == AbortEncoder \/ AbortWakes \/ AbortReturns
JpegStep ==
    \/ MgrStep \/ AbortStep
    \/ \E h \in Encoders : FillBufferDone(h) \/ ErrorEvent(h) \/ IdleEvent(h)

-----------------------------------------------------------------------------
(***************************************************************************)
(* Each encoder of a session is either free, once, or has a job, unless    *)
(* the session was aborted: a job that ends gives its encoder back, and    *)
(* gives it back once.                                                     *)
(***************************************************************************)
EncodersAccounted ==
    (\A h \in InSession : encoder[h].abort_state = "NONE") =>
        \A h \in InSession :
            Cardinality({i \in DOMAIN session_handle_q : session_handle_q[i] = h})
                = IF encoder[h].encoding THEN 0 ELSE 1

=============================================================================
