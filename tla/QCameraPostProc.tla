--------------------------- MODULE QCameraPostProc ---------------------------
(***************************************************************************)
(* The postprocessor between the camera and the JPEG interface: frames     *)
(* come from a channel's callback, are reprocessed if the capture asks for *)
(* it, encoded (or given out raw), and their buffers go back.  A data      *)
(* thread moves them from queue to queue on commands; the state machine's  *)
(* thread starts and stops it and handles the encoder's answers.           *)
(*                                                                         *)
(* A buffer is <<"src", f>> for frame f or <<"pp", f>> for the output of   *)
(* its reprocessing.  A job is a frame, the buffers it holds and the id of *)
(* its JPEG job, 0 until there is one.                                     *)
(***************************************************************************)
EXTENDS MmJpeg

CONSTANTS
    Captures,    \* kinds of capture
    ReprocBufs,  \* buffers of the reprocess stream
    MaxPicFrames, MaxRounds    \* bounds on the frames and on the captures

ASSUME PostProcAssumption ==
    /\ {ReprocBufs, MaxPicFrames, MaxRounds} \subseteq Nat
    /\ Captures \subseteq [reproc: BOOLEAN,   \* needReprocess()
                           raw: BOOLEAN,      \* the picture format is NV16 or NV21
                           zsl: BOOLEAN,
                           regular: BOOLEAN,  \* isRegularCapture()
                           longshot: BOOLEAN, \* isLongshotEnabled()
                           burst: BOOLEAN]    \* mUseJpegBurst

PicFrames == 1..MaxPicFrames
Buffers == {"src", "pp"} \X PicFrames
PpJob == [frame: PicFrames, bufs: SUBSET Buffers, id: {0} \cup JobIds]

VARIABLES
    capture,      \* the capture's kind
    ctrl,         \* what the state machine's thread does with the postprocessor
    rounds,       \* captures started
    source,       \* the source channel gives frames
    pics,         \* frames given
    out,          \* buffers given to the hardware interface and not returned
    left,         \* those of them that nobody returns before their channel goes
    pp_cmds,      \* commands of the data thread
    pp_pc,        \* where it is
    is_active,
    new_session,  \* mNewJpegSessionNeeded
    inputPPQ, ongoingPPQ, inputJpegQ, ongoingJpegQ, inputRawQ,
    aborted,      \* the job that STOP_DATA_PROC has taken off the ongoing ones
    reprocessing, \* frames the reprocess channel works on
    given,        \* buffers of raw frames on their way to the application
    jobs,         \* history: the frame of each JPEG job
    missed        \* history: an answer came before the job knew its id

ppQueues == <<inputPPQ, ongoingPPQ, inputJpegQ, ongoingJpegQ, inputRawQ>>
history == <<jobs, missed>>
ppVars == <<capture, ctrl, rounds, source, pics, out, left, pp_cmds, pp_pc, is_active,
            new_session, ppQueues, aborted, reprocessing, given, history>>
postprocVars == <<jpegVars, ppVars>>

Queued == {inputPPQ, ongoingPPQ, inputJpegQ, ongoingJpegQ, inputRawQ}

PostProcTypeOK ==
    /\ JpegTypeOK
    /\ capture \in Captures /\ rounds \in 0..MaxRounds /\ pics \in 0..MaxPicFrames
    /\ ctrl \in {"stopped", "starting", "started", "stopping", "closing", "exiting",
                 "releasing", "closed"}
    /\ {source, is_active, new_session, missed} \subseteq BOOLEAN
    /\ out \subseteq Buffers /\ left \subseteq out /\ given \subseteq out
    /\ \A i \in DOMAIN pp_cmds : pp_cmds[i] \in {"START", "STOP", "NEXT", "EXIT"}
    /\ pp_pc \in {"waits", "remembers", "gives", "reprocesses", "aborts", "destroys", "exited"}
    /\ \A q \in Queued \cup {aborted} : \A i \in DOMAIN q : q[i] \in PpJob
    /\ \A i \in DOMAIN reprocessing : reprocessing[i] \in PicFrames
    /\ \A i \in DOMAIN jobs : jobs[i] \in PicFrames

\* QCameraPostProcessor::init().
PostProcInit ==
    /\ JpegInit
    /\ capture \in Captures
    /\ ctrl = "stopped" /\ rounds = 0 /\ source = FALSE /\ pics = 0
    /\ out = {} /\ left = {}
    /\ pp_cmds = << >> /\ pp_pc = "waits" /\ is_active = FALSE /\ new_session = TRUE
    /\ inputPPQ = << >> /\ ongoingPPQ = << >> /\ inputJpegQ = << >>
    /\ ongoingJpegQ = << >> /\ inputRawQ = << >>
    /\ aborted = << >> /\ reprocessing = << >> /\ given = {}
    /\ jobs = << >> /\ missed = FALSE

-----------------------------------------------------------------------------
(* Helpers.                                                                *)

BufsIn(q) == UNION {q[i].bufs : i \in DOMAIN q}
BufsOfHead(q) == IF q = << >> THEN {} ELSE q[1].bufs
TailOf(q) == IF q = << >> THEN q ELSE Tail(q)

SendCmd(cmds) == pp_cmds' = pp_cmds \o cmds
SendFirst(cmd) == pp_cmds' = <<cmd>> \o pp_cmds

\* Mutant: one buffer is always held back.
OneLessQueued == ReprocBufs - 1 - Cardinality({b \in out : b[1] = "pp"})

\* getNumQueuedBuf() of the reprocess stream.
NumQueuedBuf == ReprocBufs - Cardinality({b \in out : b[1] = "pp"})

-----------------------------------------------------------------------------
(* The state machine's thread.                                             *)

\* start(): a command the caller waits for.
StartPostProc ==
    /\ ctrl = "stopped" /\ rounds < MaxRounds /\ ~source
    /\ ctrl' = "starting" /\ rounds' = rounds + 1 /\ SendCmd(<<"START">>)
    /\ UNCHANGED <<jpegVars, capture, source, pics, out, left, pp_pc, is_active, new_session,
                   ppQueues, aborted, reprocessing, given, history>>

\* stop(): its command goes to the head of the others.
StopPostProc ==
    /\ ctrl = "started"
    /\ ctrl' = "stopping" /\ SendFirst("STOP")
    /\ UNCHANGED <<jpegVars, capture, rounds, source, pics, out, left, pp_pc, is_active,
                   new_session, ppQueues, aborted, reprocessing, given, history>>

\* The last stop and deinit(); STOP and EXIT go to the head of the commands.
Close ==
    /\ ~source
    /\ \/ /\ ctrl = "stopped" /\ ctrl' = "closing" /\ SendFirst("STOP")
          /\ UNCHANGED jpegVars
       \/ /\ ctrl = "exiting" /\ pp_pc = "exited" /\ ctrl' = "releasing"
          /\ ReleaseThread /\ UNCHANGED pp_cmds
       \/ /\ ctrl = "releasing" /\ mgr = "exited" /\ ctrl' = "closed"
          /\ UNCHANGED <<jpegVars, pp_cmds>>
    /\ UNCHANGED <<capture, rounds, source, pics, out, left, pp_pc, is_active, new_session,
                   ppQueues, aborted, reprocessing, given, history>>

\* jpegEvtHandle() queued the answer; processJpegEvt() handles it while a capture
\* runs, and no other state of the state machine looks at it.
HandleJpegEvt ==
    LET evt == Head(jpeg_evts)
        done == {i \in DOMAIN ongoingJpegQ : ongoingJpegQ[i].id = evt.job}
    IN  /\ ctrl \in {"stopped", "started"} /\ jpeg_evts # << >>
        /\ jpeg_evts' = Tail(jpeg_evts)
        /\ IF ctrl = "stopped"
           THEN UNCHANGED <<out, pp_cmds, ongoingJpegQ, missed>>
           ELSE /\ ongoingJpegQ' = At(ongoingJpegQ, DOMAIN ongoingJpegQ \ done)
                /\ out' = out \ UNION {ongoingJpegQ[i].bufs : i \in done}
                /\ missed' = (missed \/ \E i \in DOMAIN ongoingJpegQ :
                                            /\ ongoingJpegQ[i].frame = jobs[evt.job]
                                            /\ ongoingJpegQ[i].id = 0)
                /\ SendCmd(IF inputPPQ = << >> THEN <<"NEXT">> ELSE <<"NEXT", "NEXT">>)
        /\ UNCHANGED <<sessionVars, encoder, session_handle_q, job_hist, job_queue, job_sem,
                       ongoing_job_q, mgrVars, call, capture, ctrl, rounds, source, pics, left,
                       pp_pc, is_active, new_session, inputPPQ, ongoingPPQ, inputJpegQ,
                       inputRawQ, aborted, reprocessing, given, jobs>>

-----------------------------------------------------------------------------
(* The callbacks of the channels.                                          *)

\* processData().
ProcessData ==
    LET f == pics + 1
        job == [frame |-> f, bufs |-> {<<"src", f>>}, id |-> 0]
        to(q, here) == IF here THEN Append(q, job) ELSE q
    IN  /\ source /\ pics < MaxPicFrames
        /\ pics' = f /\ out' = out \cup {<<"src", f>>}
        /\ inputPPQ' = to(inputPPQ, capture.reproc)
        /\ inputRawQ' = to(inputRawQ, ~capture.reproc /\ capture.raw)
        /\ inputJpegQ' = to(inputJpegQ, ~capture.reproc /\ ~capture.raw)
        /\ SendCmd(IF capture.raw /\ ~capture.reproc THEN <<"NEXT", "NEXT">> ELSE <<"NEXT">>)
        /\ UNCHANGED <<jpegVars, capture, ctrl, rounds, source, pp_pc, is_active, new_session,
                       ongoingPPQ, ongoingJpegQ, aborted, reprocessing, left, given, history>>

\* The source channel is stopped, before the postprocessor or after it.
SourceStops ==
    /\ source /\ source' = FALSE
    /\ UNCHANGED <<jpegVars, capture, ctrl, rounds, pics, out, pp_cmds, pp_pc, is_active,
                   new_session, ppQueues, aborted, reprocessing, left, given, history>>

\* processPPData(): the oldest reprocessing has its result.
ReprocessDone ==
    LET f == Head(reprocessing)
        job == Head(ongoingPPQ)
        bufs == {<<"pp", f>>}
    IN  /\ reprocessing # << >> /\ reprocessing' = Tail(reprocessing)
        /\ ongoingPPQ' = Tail(ongoingPPQ)
        /\ IF capture.raw
           THEN /\ out' = (out \cup bufs) \ job.bufs
                /\ inputRawQ' = Append(inputRawQ, [job EXCEPT !.bufs = bufs])
                /\ UNCHANGED inputJpegQ
           ELSE /\ out' = out \cup bufs
                /\ inputJpegQ' = Append(inputJpegQ, [job EXCEPT !.bufs = @ \cup bufs])
                /\ UNCHANGED inputRawQ
        /\ SendCmd(<<"NEXT">>)
        /\ UNCHANGED <<jpegVars, capture, ctrl, rounds, source, pics, pp_pc, is_active,
                       new_session, inputPPQ, ongoingJpegQ, aborted, left, given, history>>

\* releaseNotifyData(): the application is done with a raw frame.
RawGiven(b) ==
    /\ b \in given /\ given' = given \ {b} /\ out' = out \ {b}
    /\ UNCHANGED <<jpegVars, capture, ctrl, rounds, source, pics, left, pp_cmds, pp_pc,
                   is_active, new_session, ppQueues, aborted, reprocessing, history>>

-----------------------------------------------------------------------------
(* The data thread, dataProcessRoutine().                                  *)

Takes(cmd) ==
    pp_pc = "waits" /\ pp_cmds # << >> /\ Head(pp_cmds) = cmd /\ pp_cmds' = Tail(pp_cmds)

\* START_DATA_PROC, and the rest of start(): a capture that is not a ZSL one has its
\* JPEG session made there.
TakeStart ==
    /\ Takes("START") /\ is_active' = TRUE /\ ctrl' = "started" /\ source' = TRUE
    /\ IF capture.zsl \/ capture.longshot
       THEN UNCHANGED <<num_omx_sessions, encoder, session_handle_q, new_session>>
       ELSE /\ CreateSession(IF capture.burst THEN MM_JPEG_CONCURRENT_SESSIONS_COUNT ELSE 1)
            /\ new_session' = FALSE
    /\ UNCHANGED <<fault, job_hist, job_queue, job_sem, ongoing_job_q, mgrVars, call,
                   jpeg_evts, capture, rounds, pics, out, pp_pc, ppQueues, aborted,
                   reprocessing, left, given, history>>

\* Mutant: the job of inputPPQ is dropped, its buffers kept.
DropNextInactive ==
    /\ Takes("NEXT") /\ ~is_active
    /\ out' = out \ (BufsOfHead(inputJpegQ) \cup BufsOfHead(inputRawQ))
    /\ inputJpegQ' = TailOf(inputJpegQ)
    /\ inputRawQ' = TailOf(inputRawQ) /\ inputPPQ' = TailOf(inputPPQ)
    /\ UNCHANGED <<jpegVars, capture, ctrl, rounds, source, pics, pp_pc, is_active,
                   new_session, ongoingPPQ, ongoingJpegQ, aborted, reprocessing, left, given,
                   history>>

\* DO_NEXT_JOB of a thread that is not active gives one job of each queue back.
TakeNextInactive ==
    /\ Takes("NEXT") /\ ~is_active
    /\ out' = out \ (BufsOfHead(inputJpegQ) \cup BufsOfHead(inputRawQ) \cup BufsOfHead(inputPPQ))
    /\ inputJpegQ' = TailOf(inputJpegQ)
    /\ inputRawQ' = TailOf(inputRawQ) /\ inputPPQ' = TailOf(inputPPQ)
    /\ UNCHANGED <<jpegVars, capture, ctrl, rounds, source, pics, pp_pc, is_active,
                   new_session, ongoingPPQ, ongoingJpegQ, aborted, reprocessing, left, given,
                   history>>

\* DO_NEXT_JOB: a job for the encoder, if there is one, is started (encodeData()),
\* in a session made for it if there is none, ...
TakeNext ==
    /\ Takes("NEXT") /\ is_active
    /\ IF inputJpegQ = << >>
       THEN /\ pp_pc' = "gives"
            /\ UNCHANGED <<num_omx_sessions, encoder, session_handle_q, job_hist, job_queue,
                           job_sem, new_session, inputJpegQ, ongoingJpegQ, out, jobs>>
       ELSE LET job == Head(inputJpegQ)
            IN  /\ inputJpegQ' = Tail(inputJpegQ)
                /\ \/ /\ job_hist < MaxJobs /\ StartJob
                      /\ IF new_session
                         THEN CreateSession(IF capture.burst
                                            THEN MM_JPEG_CONCURRENT_SESSIONS_COUNT ELSE 1)
                         ELSE UNCHANGED <<num_omx_sessions, encoder, session_handle_q>>
                      /\ new_session' = FALSE /\ pp_pc' = "remembers"
                      /\ ongoingJpegQ' = Append(ongoingJpegQ, job)
                      /\ jobs' = Append(jobs, job.frame)
                      /\ UNCHANGED <<out>>
                   \/ /\ fault = "call"         \* the job is released with an error
                      /\ pp_pc' = "gives" /\ out' = out \ job.bufs
                      /\ UNCHANGED <<num_omx_sessions, encoder, session_handle_q, job_hist,
                                     job_queue, job_sem, new_session, ongoingJpegQ, jobs>>
    /\ UNCHANGED <<fault, ongoing_job_q, mgrVars, call, jpeg_evts, capture, ctrl, rounds,
                   source, pics, is_active, inputPPQ, ongoingPPQ, inputRawQ, aborted,
                   reprocessing, left, given, missed>>

\* ... its id is noted once start_job() has returned ...
RememberJobId ==
    /\ pp_pc = "remembers" /\ pp_pc' = "gives"
    /\ ongoingJpegQ' = [i \in DOMAIN ongoingJpegQ |->
           IF ongoingJpegQ[i].frame = Last(jobs) THEN [ongoingJpegQ[i] EXCEPT !.id = job_hist]
                                                 ELSE ongoingJpegQ[i]]
    /\ UNCHANGED <<jpegVars, capture, ctrl, rounds, source, pics, out, left, pp_cmds, is_active,
                   new_session, inputPPQ, ongoingPPQ, inputJpegQ, inputRawQ, aborted,
                   reprocessing, given, history>>

\* ... then a raw frame is given out (processRawImageImpl()): one of the ZSL channel goes
\* with the notification; of any other the application gets a copy, and its buffers stay
\* where they are, ...
GiveRaw ==
    /\ pp_pc = "gives" /\ pp_pc' = "reprocesses"
    /\ inputRawQ' = TailOf(inputRawQ)
    /\ IF inputRawQ = << >>
       THEN UNCHANGED <<given, left, out>>
       ELSE LET job == Head(inputRawQ)
            IN  \/ /\ IF capture.zsl /\ ~capture.reproc
                      THEN given' = given \cup job.bufs /\ UNCHANGED left
                      ELSE left' = left \cup job.bufs /\ UNCHANGED given
                   /\ UNCHANGED out
                \/ fault = "call" /\ out' = out \ job.bufs /\ UNCHANGED <<given, left>>
    /\ UNCHANGED <<jpegVars, capture, ctrl, rounds, source, pics, pp_cmds, is_active,
                   new_session, inputPPQ, ongoingPPQ, inputJpegQ, ongoingJpegQ, aborted,
                   reprocessing, jobs, missed>>

\* ... and a frame is reprocessed, in a longshot if there is a buffer for the result.
\* A regular capture's frame is reprocessed from a copy and left to its channel.
Reprocess ==
    /\ pp_pc = "reprocesses" /\ pp_pc' = "waits"
    /\ IF inputPPQ = << >> \/ (capture.longshot /\ Len(ongoingPPQ) >= NumQueuedBuf)
       THEN UNCHANGED <<inputPPQ, ongoingPPQ, reprocessing, left, out>>
       ELSE LET job == Head(inputPPQ)
            IN  /\ inputPPQ' = Tail(inputPPQ)
                /\ \/ /\ reprocessing' = Append(reprocessing, job.frame)
                      /\ IF capture.regular
                         THEN /\ ongoingPPQ' = Append(ongoingPPQ, [job EXCEPT !.bufs = {}])
                              /\ left' = left \cup job.bufs
                         ELSE ongoingPPQ' = Append(ongoingPPQ, job) /\ UNCHANGED left
                      /\ UNCHANGED <<out>>
                   \/ /\ fault = "call"
                      /\ out' = out \ job.bufs
                      /\ UNCHANGED <<ongoingPPQ, reprocessing, left>>
    /\ UNCHANGED <<jpegVars, capture, ctrl, rounds, source, pics, pp_cmds, is_active,
                   new_session, inputJpegQ, ongoingJpegQ, inputRawQ, aborted, given, jobs,
                   missed>>

\* STOP_DATA_PROC: the ongoing jobs are aborted one by one, ...
TakeStop ==
    /\ Takes("STOP") /\ is_active' = FALSE /\ pp_pc' = "aborts"
    /\ UNCHANGED <<jpegVars, capture, ctrl, rounds, source, pics, out, left, new_session, ppQueues,
                   aborted, reprocessing, given, history>>

AbortNextJob ==
    /\ pp_pc = "aborts" /\ aborted = << >> /\ ongoingJpegQ # << >>
    /\ aborted' = <<Head(ongoingJpegQ)>> /\ ongoingJpegQ' = Tail(ongoingJpegQ)
    /\ AbortJob(Head(ongoingJpegQ).id)
    /\ UNCHANGED <<capture, ctrl, rounds, source, pics, out, left, pp_cmds, pp_pc, is_active,
                   new_session, inputPPQ, ongoingPPQ, inputJpegQ, inputRawQ, reprocessing,
                   given, history>>

ReleaseAborted ==
    /\ pp_pc = "aborts" /\ call.op = "returned" /\ call' = NoCall
    /\ out' = out \ BufsIn(aborted) /\ aborted' = << >>
    /\ UNCHANGED <<sessionVars, encoder, session_handle_q, job_hist, job_queue, job_sem,
                   ongoing_job_q, mgrVars, jpeg_evts, capture, ctrl, rounds, source, pics,
                   pp_cmds, pp_pc, is_active, new_session, ppQueues, reprocessing, left, given,
                   history>>

\* ... the session goes, if there is one, ...
EndSession ==
    /\ pp_pc = "aborts" /\ aborted = << >> /\ ongoingJpegQ = << >> /\ pp_pc' = "destroys"
    /\ IF num_omx_sessions > 0
       THEN DestroySession
       ELSE /\ call' = [NoCall EXCEPT !.op = "returned"]
            /\ UNCHANGED <<sessionVars, encoder, session_handle_q, job_hist, job_queue,
                           job_sem, ongoing_job_q, mgrVars, jpeg_evts>>
    /\ UNCHANGED <<capture, ctrl, rounds, source, pics, out, left, pp_cmds, is_active, new_session,
                   ppQueues, aborted, reprocessing, given, history>>

\* ... the reprocess channel is stopped, the queues are flushed, and the stop returns.
FlushQueues ==
    /\ pp_pc = "destroys" /\ call.op = "returned" /\ call' = NoCall
    /\ pp_pc' = "waits" /\ new_session' = TRUE
    /\ out' = (out \ UNION {BufsIn(q) : q \in {ongoingPPQ, inputJpegQ, inputPPQ, inputRawQ}})
               \ {b \in left : b[1] = "pp"}
    /\ left' = {b \in left : b[1] = "src"}
    /\ inputPPQ' = << >> /\ ongoingPPQ' = << >> /\ inputJpegQ' = << >> /\ inputRawQ' = << >>
    /\ reprocessing' = << >>
    /\ IF ctrl = "closing"
       THEN ctrl' = "exiting" /\ pp_cmds' = <<"EXIT">> \o pp_cmds
       ELSE ctrl' = "stopped" /\ UNCHANGED pp_cmds
    /\ UNCHANGED <<sessionVars, encoder, session_handle_q, job_hist, job_queue, job_sem,
                   ongoing_job_q, mgrVars, jpeg_evts, capture, rounds, source, pics,
                   is_active, ongoingJpegQ, aborted, given, history>>

TakeExit ==
    /\ Takes("EXIT") /\ pp_pc' = "exited"
    /\ UNCHANGED <<jpegVars, capture, ctrl, rounds, source, pics, out, left, is_active, new_session,
                   ppQueues, aborted, reprocessing, given, history>>

DataThread ==
    \/ TakeStart \/ TakeNextInactive \/ TakeNext \/ RememberJobId \/ GiveRaw \/ Reprocess
    \/ TakeStop
    \/ AbortNextJob \/ ReleaseAborted \/ EndSession \/ FlushQueues \/ TakeExit

JpegThreads == JpegStep /\ UNCHANGED ppVars

PostProcNext ==
    \/ StartPostProc \/ StopPostProc \/ Close \/ HandleJpegEvt \/ ProcessData \/ SourceStops
    \/ ReprocessDone \/ (\E b \in given : RawGiven(b)) \/ DataThread \/ JpegThreads

\* The threads run and the components answer; nobody need start, stop or take a
\* picture, but a close that has begun goes on.
PostProcFairness ==
    /\ WF_postprocVars(DataThread) /\ WF_postprocVars(HandleJpegEvt)
    /\ WF_postprocVars(ReprocessDone) /\ WF_postprocVars(Close /\ ctrl # "stopped")
    /\ \A b \in Buffers : WF_postprocVars(RawGiven(b))
    /\ WF_postprocVars(MgrStep /\ UNCHANGED ppVars)
    /\ WF_postprocVars(AbortStep /\ UNCHANGED ppVars)
    /\ \A h \in Encoders : /\ WF_postprocVars(FillBufferDone(h) /\ UNCHANGED ppVars)
                           /\ WF_postprocVars(IdleEvent(h) /\ UNCHANGED ppVars)

PostProcSpec == PostProcInit /\ [][PostProcNext]_postprocVars /\ PostProcFairness

-----------------------------------------------------------------------------
(* Properties.                                                             *)

\* All jobs the postprocessor has, of whatever queue.
AllJobs == inputPPQ \o ongoingPPQ \o inputJpegQ \o ongoingJpegQ \o inputRawQ \o aborted

(***************************************************************************)
(* A buffer that is out belongs to one job, or is on its way to the        *)
(* application, and a job has only buffers that are out: whatever the      *)
(* order of callbacks, stop and flush, none is returned twice,             *)
(* used after its return or lost; and no encoder is, either.               *)
(***************************************************************************)
OwnedOnce ==
    /\ EncodersAccounted
    /\ \A b \in Buffers :
           Cardinality({i \in DOMAIN AllJobs : b \in AllJobs[i].bufs})
               = IF b \in out \ (left \cup given) THEN 1 ELSE 0

(***************************************************************************)
(* A component reads a frame only while its buffers are out: the buffers   *)
(* of a job are not returned before its encoder is done or has been made   *)
(* idle, whether the job ends or is aborted.  Not in burst mode: there the *)
(* next job can get the second encoder between the aborts of two jobs, and *)
(* its own abort stops at the first encoder, which is already aborted.     *)
(***************************************************************************)
EncoderOwnsInput ==
    ~capture.burst => \A h \in InSession :
        encoder[h].busy # 0 =>
            \E i \in DOMAIN AllJobs : /\ AllJobs[i].frame = jobs[encoder[h].busy]
                                      /\ AllJobs[i].bufs # {}

(***************************************************************************)
(* Every buffer is returned in the end, without a stop.  Not when an       *)
(* answer overtook start_job()'s return: the job is not found then and     *)
(* keeps its buffers until the stop.                                       *)
(***************************************************************************)
BuffersReturned ==
    \A b \in Buffers : (b \in out /\ ctrl = "started") ~> (b \notin out \ left \/ missed)

(***************************************************************************)
(* A close ends: the encoders are made idle and both threads exit.         *)
(***************************************************************************)
CloseEnds == (ctrl = "closing") ~> (ctrl = "closed")

=============================================================================
