------------------------------- MODULE MmPoll -------------------------------
(***************************************************************************)
(* The polling thread of a channel.  It polls the streams whose buffers    *)
(* the kernel has, and a pipe, through which the owner of the channel      *)
(* tells it that the list of streams has changed.  The owner waits for it  *)
(* to answer; those who return buffers, and the thread itself, change the  *)
(* list too when a stream's first buffer comes or its last one goes, and   *)
(* do not wait.  A stream that is stopped must be off the list, and the    *)
(* thread out of its callback, before its buffers go.                      *)
(*                                                                         *)
(* Waits are of the kind "if (!status) wait": they end with the first      *)
(* signal, whatever it answers, and may end without one.  Returning a      *)
(* buffer is seeing the stream active, then counting the buffer and        *)
(* listing the stream under its buf_lock, then giving it to the kernel.    *)
(* Bound: one buffer of a stream is being returned at a time.              *)
(***************************************************************************)
EXTENDS Integers, Sequences, FiniteSets, FiniteSetsExt

CONSTANT PollSetups     \* bufs: the streams, by their index in the channel, and how
                        \* many buffers each has; rounds: bound on the channel's starts

ASSUME PollAssumption ==
    \A p \in PollSetups : /\ p.bufs \in [DOMAIN p.bufs -> Nat \ {0}] /\ p.rounds \in Nat
                          /\ DOMAIN p.bufs \subseteq Nat

VARIABLES
    setup,          \* the channel, of PollSetups
    poll_entries,   \* streams whose fd is entered
    poll_fds,       \* streams the thread polls
    pipe,           \* commands written and not yet read
    woken,          \* cond_v was signalled since the owner began to wait, its wait ended
                    \* without, or it does not wait
    poll_state,     \* mm_camera_poll_task_state_type_t
    poller,         \* where the thread is, with which stream, and those left to look at
    owner,          \* where the owner is, and with which stream
    str_state,      \* mm_stream_state_type_t of each stream
    streams_on,     \* streams between STREAMON and STREAMOFF
    queued_buffer_count, empty, filled,   \* buffers of a stream: as counted, and in the
                                          \* kernel, without and with a frame
    taken,          \* buffers the client has
    returning,      \* how far the client is with the buffer it returns to a stream
    rounds,
    left_behind     \* history: streams that were put on the list, or left on it, by what
                    \* the owner's removal does not cover

pollVars == <<setup, poll_entries, poll_fds, pipe, woken, poll_state, poller, owner,
              str_state, streams_on, queued_buffer_count, empty, filled, taken, returning,
              rounds, left_behind>>

PollStreams == DOMAIN setup.bufs

listVars == <<poll_entries, pipe, woken>>
bufferVars == <<queued_buffer_count, empty, filled, taken>>
polledVars == <<str_state, streams_on>>
threadVars == <<setup, poll_fds, poll_state, poller>>
restVars == <<returning, rounds>>

Is(pc, s) == [pc |-> pc, s |-> s]
NoOne == [pc |-> "none", s |-> 0, left |-> {}]

PollInit ==
    /\ setup \in PollSetups
    /\ poll_entries = {} /\ poll_fds = {} /\ pipe = << >> /\ woken = FALSE
    /\ poll_state = "STOPPED" /\ poller = NoOne /\ owner = Is("init", 0)
    /\ str_state = [s \in PollStreams |-> "BUFFED"] /\ streams_on = {}
    /\ queued_buffer_count = [s \in PollStreams |-> 0]
    /\ empty = queued_buffer_count /\ filled = empty /\ taken = empty
    /\ returning = [s \in PollStreams |-> "no"] /\ rounds = 0 /\ left_behind = {}

-----------------------------------------------------------------------------
(* The list and the pipe.                                                  *)

\* mm_camera_poll_sig(): the caller waits for the thread's signal.
mm_camera_poll_sig(cmd) == pipe' = Append(pipe, cmd) /\ woken' = FALSE

\* Every command that is answered is.
Answered == \A k \in DOMAIN pipe : pipe[k] = "UPDATED_ASYNC"

mm_camera_poll_sig_async == pipe' = Append(pipe, "UPDATED_ASYNC") /\ UNCHANGED woken

\* n more buffers for the kernel; the stream goes on the list with the first.
CountUp(s, count, n) ==
    /\ queued_buffer_count' = [queued_buffer_count EXCEPT ![s] = count + n]
    /\ IF count = 0 /\ n > 0
       THEN poll_entries' = poll_entries \cup {s} /\ mm_camera_poll_sig_async
       ELSE UNCHANGED listVars

\* And off it with the last.  An entry that is gone is nobody's news.
CountDown(s) ==
    /\ queued_buffer_count' = [queued_buffer_count EXCEPT ![s] = @ - 1]
    /\ IF queued_buffer_count[s] = 1 /\ s \in poll_entries
       THEN poll_entries' = poll_entries \ {s} /\ mm_camera_poll_sig_async
       ELSE UNCHANGED listVars

\* A removal that waits; it fails when the entry is gone.
DelPollFd(s) ==
    /\ s \in poll_entries /\ poll_entries' = poll_entries \ {s}
    /\ mm_camera_poll_sig("UPDATED")

\* Mutant: a removal that finds the entry gone waits for nothing.
OffWithoutCommit(s) ==
    \/ DelPollFd(s)
    \/ s \notin poll_entries /\ woken' = TRUE /\ UNCHANGED <<poll_entries, pipe>>

\* Step 1 of stopping a stream.  When its entry is gone, which happens without waiting,
\* all updates before are waited for.
OffTheList(s) ==
    \/ DelPollFd(s)
    \/ s \notin poll_entries /\ mm_camera_poll_sig("COMMIT") /\ UNCHANGED poll_entries

-----------------------------------------------------------------------------
(* The owner.                                                              *)

mm_camera_poll_thread_launch ==
    /\ owner.pc = "init"
    /\ owner' = Is("launching", 0) /\ poller' = [NoOne EXCEPT !.pc = "born"]
    /\ woken' = FALSE
    /\ UNCHANGED <<setup, poll_entries, poll_fds, pipe, poll_state, polledVars, bufferVars,
                   restVars, left_behind>>

Launched ==
    /\ owner.pc = "launching" /\ woken /\ owner' = Is("stopped", 0)
    /\ UNCHANGED <<threadVars, listVars, polledVars, bufferVars, restVars, left_behind>>

BeginStart ==
    /\ owner.pc = "stopped" /\ rounds < setup.rounds
    /\ owner' = Is("starting", 0) /\ rounds' = rounds + 1
    /\ UNCHANGED <<threadVars, listVars, polledVars, bufferVars, returning, left_behind>>

\* One stream is brought to ACTIVE before the next is begun.
NextToStart(s) ==
    /\ owner.pc = "starting"
    /\ \A t \in PollStreams : t < s => str_state[t] = "ACTIVE"

\* Whoever counts a buffer has the buf_lock.
BufLocked(s) == returning[s] = "listed" \/ owner = Is("refused", s)

\* Mutant: goes on counting from the last time.
CountOn(s, n) == CountUp(s, queued_buffer_count[s], n)

\* n buffers are counted from the start.
QueueAll(s, n) == CountUp(s, 0, n)

\* The client may hold some of the buffers from the beginning.
RegBuf(s) ==
    /\ NextToStart(s) /\ str_state[s] = "BUFFED" /\ ~BufLocked(s)
    /\ \E n \in 0 .. setup.bufs[s] :
           /\ QueueAll(s, n) /\ empty' = [empty EXCEPT ![s] = n]
           /\ taken' = [taken EXCEPT ![s] = setup.bufs[s] - n]
    /\ str_state' = [str_state EXCEPT ![s] = "REG"]
    /\ UNCHANGED <<threadVars, owner, streams_on, filled, restVars, left_behind>>

\* After n buffers the kernel refuses one, when it is counted already.
RegFails(s) ==
    /\ NextToStart(s) /\ str_state[s] = "BUFFED" /\ ~BufLocked(s)
    /\ \E n \in 0 .. setup.bufs[s] - 1 :
           QueueAll(s, n + 1) /\ empty' = [empty EXCEPT ![s] = n]
    /\ owner' = Is("refused", s)
    /\ UNCHANGED <<threadVars, polledVars, filled, taken, restVars, left_behind>>

\* The stream's state stays as it was; the thread may have read the list.
GiveUpReg(s) ==
    /\ owner = Is("refused", s) /\ CountDown(s)
    /\ left_behind' = IF s \in poll_entries' \cup poll_fds THEN left_behind \cup {s}
                      ELSE left_behind
    /\ owner' = Is("stopping", 0)
    /\ UNCHANGED <<threadVars, polledVars, empty, filled, taken, restVars>>

\* ACTIVE comes before STREAMON.
GoActive(s) ==
    /\ NextToStart(s) /\ str_state[s] = "REG"
    /\ str_state' = [str_state EXCEPT ![s] = "ACTIVE"]
    /\ owner' = Is("streamon", s)
    /\ UNCHANGED <<threadVars, listVars, streams_on, bufferVars, restVars, left_behind>>

mm_stream_streamon(s) ==
    /\ owner = Is("streamon", s)
    /\ streams_on' = streams_on \cup {s}
    /\ owner' = Is(IF s = Max(PollStreams) THEN "running" ELSE "starting", 0)
    /\ UNCHANGED <<threadVars, listVars, str_state, bufferVars, restVars, left_behind>>

\* Nobody looks at what the removal returns: when the entry is gone there is no wait.
StreamonFails(s) ==
    /\ owner = Is("streamon", s)
    /\ \/ DelPollFd(s) /\ left_behind' = left_behind \ {s}
       \/ /\ s \notin poll_entries /\ woken' = TRUE /\ UNCHANGED <<poll_entries, pipe>>
          /\ left_behind' = left_behind \cup {s}
    /\ owner' = Is("not_on", s)
    /\ UNCHANGED <<threadVars, polledVars, bufferVars, restVars>>

\* A wait need not end with the answer that was waited for.
LeftIfEarly(s) ==
    left_behind' = IF Answered THEN left_behind ELSE left_behind \cup {s}

GiveUpStart(s) ==
    /\ owner = Is("not_on", s) /\ woken /\ LeftIfEarly(s)
    /\ str_state' = [str_state EXCEPT ![s] = "REG"]
    /\ owner' = Is("stopping", 0)
    /\ UNCHANGED <<threadVars, listVars, streams_on, bufferVars, restVars>>

BeginStop ==
    /\ owner.pc = "running" /\ owner' = Is("stopping", 0)
    /\ UNCHANGED <<threadVars, listVars, polledVars, bufferVars, restVars, left_behind>>

\* Stopping, and undoing a start: streams off, and their buffers out of the kernel.
BeginStreamoff(s) ==
    /\ owner.pc = "stopping" /\ str_state[s] = "ACTIVE"
    /\ OffTheList(s)
    /\ owner' = Is("streamoff", s)
    /\ left_behind' = left_behind \ {s}
    /\ UNCHANGED <<threadVars, polledVars, bufferVars, restVars>>

mm_stream_streamoff(s) ==
    /\ owner = Is("streamoff", s) /\ woken /\ LeftIfEarly(s)
    /\ streams_on' = streams_on \ {s}
    /\ filled' = [filled EXCEPT ![s] = 0] /\ empty' = [empty EXCEPT ![s] = 0]
    /\ owner' = Is("off", s)
    /\ UNCHANGED <<threadVars, listVars, str_state, queued_buffer_count, taken, restVars>>

StreamIsOff(s) ==
    /\ owner = Is("off", s)
    /\ str_state' = [str_state EXCEPT ![s] = "REG"]
    /\ owner' = Is("stopping", 0)
    /\ UNCHANGED <<threadVars, listVars, streams_on, bufferVars, restVars, left_behind>>

mm_stream_unreg_buf(s) ==
    /\ owner.pc = "stopping" /\ str_state[s] = "REG" /\ ~BufLocked(s)
    /\ str_state' = [str_state EXCEPT ![s] = "BUFFED"]
    /\ empty' = [empty EXCEPT ![s] = 0] /\ taken' = [taken EXCEPT ![s] = 0]
    /\ UNCHANGED <<threadVars, listVars, owner, streams_on, queued_buffer_count, filled,
                   restVars, left_behind>>

StreamsStopped ==
    /\ owner.pc = "stopping" /\ \A s \in PollStreams : str_state[s] = "BUFFED"
    /\ owner' = Is("stopped", 0)
    /\ UNCHANGED <<threadVars, listVars, polledVars, bufferVars, restVars, left_behind>>

\* A thread that does not run yet, as far as its state tells, is left alone.
mm_camera_poll_thread_release ==
    /\ owner.pc = "stopped"
    /\ IF poll_state = "STOPPED"
       THEN owner' = Is("not_released", 0) /\ UNCHANGED <<pipe, woken>>
       ELSE owner' = Is("releasing", 0) /\ mm_camera_poll_sig("EXIT")
    /\ UNCHANGED <<threadVars, poll_entries, polledVars, bufferVars, restVars, left_behind>>

PollerJoined ==
    /\ owner.pc = "releasing" /\ woken /\ poller.pc = "gone"
    /\ owner' = Is("released", 0) /\ poll_entries' = {} /\ poll_fds' = {}
    /\ UNCHANGED <<setup, pipe, woken, poll_state, poller, polledVars, bufferVars,
                   restVars, left_behind>>

\* A wait ends without a signal.  Whoever releases the thread still joins it.
SpuriousWakeup ==
    /\ owner.pc \in {"launching", "not_on", "streamoff"} /\ ~woken /\ woken' = TRUE
    /\ UNCHANGED <<threadVars, owner, poll_entries, pipe, polledVars, bufferVars, restVars,
                   left_behind>>

-----------------------------------------------------------------------------
(* The thread.  It says that it runs before its state does.                *)

PollerBorn ==
    /\ poller.pc = "born"
    /\ woken' = TRUE /\ poller' = [poller EXCEPT !.pc = "said"]
    /\ UNCHANGED <<setup, poll_entries, poll_fds, pipe, poll_state, owner, polledVars,
                   bufferVars, restVars, left_behind>>

PollerRuns ==
    /\ poller.pc = "said"
    /\ poll_state' = "POLL" /\ poller' = [poller EXCEPT !.pc = "poll"]
    /\ UNCHANGED <<setup, poll_fds, listVars, owner, polledVars, bufferVars,
                   restVars, left_behind>>

\* A command in the pipe comes before all frames.
mm_camera_poll_proc_pipe ==
    /\ poller.pc = "poll" /\ pipe # << >>
    /\ pipe' = Tail(pipe)
    /\ poll_fds' = IF Head(pipe) \in {"UPDATED", "UPDATED_ASYNC"} THEN poll_entries
                   ELSE poll_fds
    /\ woken' = (woken \/ Head(pipe) # "UPDATED_ASYNC")
    /\ poll_state' = IF Head(pipe) = "EXIT" THEN "STOPPED" ELSE poll_state
    /\ poller' = [poller EXCEPT !.pc = IF Head(pipe) = "EXIT" THEN "gone" ELSE "poll"]
    /\ UNCHANGED <<setup, poll_entries, owner, polledVars, bufferVars, restVars, left_behind>>

\* Streams with a frame, looked at in turn.
FramesReady ==
    /\ poller.pc = "poll" /\ pipe = << >>
    /\ LET ready == {s \in poll_fds \cap streams_on : filled[s] > 0} IN
       /\ ready # {} /\ poller' = [poller EXCEPT !.pc = "look", !.left = ready]
    /\ UNCHANGED <<setup, poll_fds, poll_state, listVars, owner, polledVars, bufferVars,
                   restVars, left_behind>>

\* The entry is read now.  mm_stream_data_notify() turns back unless the stream is ACTIVE.
Look ==
    /\ poller.pc = "look"
    /\ IF poller.left = {} THEN poller' = [poller EXCEPT !.pc = "poll"]
       ELSE LET s == Min(poller.left)
                pc == IF s \in poll_entries /\ str_state[s] = "ACTIVE" THEN "notify"
                      ELSE "look"
            IN poller' = [pc |-> pc, s |-> s, left |-> poller.left \ {s}]
    /\ UNCHANGED <<setup, poll_fds, poll_state, listVars, owner, polledVars, bufferVars,
                   restVars, left_behind>>

\* The last buffer takes the stream off the list.
mm_stream_read_msm_frame ==
    LET s == poller.s IN
    /\ poller.pc = "notify" /\ s \in streams_on /\ filled[s] > 0
    /\ filled' = [filled EXCEPT ![s] = @ - 1]
    /\ returning[s] # "listed" /\ CountDown(s)
    /\ poller' = [poller EXCEPT !.pc = "handle"]
    /\ UNCHANGED <<setup, poll_fds, poll_state, owner, polledVars, empty, taken, restVars,
                   left_behind>>

ReadFails ==
    /\ poller.pc = "notify" /\ (poller.s \notin streams_on \/ filled[poller.s] = 0)
    /\ poller' = [poller EXCEPT !.pc = "look"]
    /\ UNCHANGED <<setup, poll_fds, poll_state, listVars, owner, polledVars, bufferVars,
                   restVars, left_behind>>

mm_stream_handle_rcvd_buf ==
    /\ poller.pc = "handle"
    /\ taken' = [taken EXCEPT ![poller.s] = @ + 1]
    /\ poller' = [poller EXCEPT !.pc = "look"]
    /\ UNCHANGED <<setup, poll_fds, poll_state, listVars, owner, polledVars,
                   queued_buffer_count, empty, filled, restVars, left_behind>>

-----------------------------------------------------------------------------
(* The hardware, and whoever returns buffers.                              *)

DriverFills(s) ==
    /\ s \in streams_on /\ empty[s] > 0
    /\ empty' = [empty EXCEPT ![s] = @ - 1] /\ filled' = [filled EXCEPT ![s] = @ + 1]
    /\ UNCHANGED <<threadVars, listVars, owner, polledVars, queued_buffer_count, taken,
                   restVars, left_behind>>

\* The stream is active, and there is no lock that would keep it so.
mm_stream_fsm_active(s) ==
    /\ str_state[s] = "ACTIVE" /\ taken[s] > 0 /\ returning[s] = "no"
    /\ returning' = [returning EXCEPT ![s] = "checked"]
    /\ UNCHANGED <<threadVars, listVars, owner, polledVars, bufferVars, rounds, left_behind>>

\* From the removal from the list until the stream is active again.
BeingStopped(s) ==
    \/ str_state[s] # "ACTIVE"
    \/ owner \in {Is("streamoff", s), Is("off", s), Is("not_on", s)}

\* Mutant: nobody looks whether the buffer is the client's still.
BufDoneTwice(s) ==
    /\ returning[s] = "checked" /\ ~BufLocked(s)
    /\ taken' = [taken EXCEPT ![s] = @ - 1] /\ CountUp(s, queued_buffer_count[s], 1)
    /\ returning' = [returning EXCEPT ![s] = "listed"]
    /\ left_behind' = IF BeingStopped(s) /\ queued_buffer_count[s] = 0
                      THEN left_behind \cup {s} ELSE left_behind
    /\ UNCHANGED <<threadVars, owner, polledVars, empty, filled, rounds>>

mm_stream_buf_done(s) ==
    /\ returning[s] = "checked" /\ taken[s] > 0 /\ ~BufLocked(s)
    /\ taken' = [taken EXCEPT ![s] = @ - 1] /\ CountUp(s, queued_buffer_count[s], 1)
    /\ returning' = [returning EXCEPT ![s] = "listed"]
    /\ left_behind' = IF BeingStopped(s) /\ queued_buffer_count[s] = 0
                      THEN left_behind \cup {s} ELSE left_behind
    /\ UNCHANGED <<threadVars, owner, polledVars, empty, filled, rounds>>

\* Its buffers are nobody's by now.
NotCounted(s) ==
    /\ returning[s] = "checked" /\ taken[s] = 0 /\ ~BufLocked(s)
    /\ returning' = [returning EXCEPT ![s] = "no"]
    /\ UNCHANGED <<threadVars, listVars, owner, polledVars, bufferVars, rounds, left_behind>>

mm_stream_qbuf(s) ==
    /\ returning[s] = "listed" /\ str_state[s] # "BUFFED"
    /\ empty' = [empty EXCEPT ![s] = @ + 1]
    /\ returning' = [returning EXCEPT ![s] = "no"]
    /\ UNCHANGED <<threadVars, listVars, owner, polledVars, queued_buffer_count, filled,
                   taken, rounds, left_behind>>

\* The kernel refuses the buffer, which is lost.
QbufFails(s) ==
    /\ returning[s] = "listed" /\ CountDown(s)
    /\ returning' = [returning EXCEPT ![s] = "no"]
    /\ UNCHANGED <<threadVars, owner, polledVars, empty, filled, taken, rounds, left_behind>>

\* The kernel answers, and the buf_lock is free again.
KernelAnswers(s) == mm_stream_qbuf(s) \/ QbufFails(s)

ReturnNext(s) ==
    mm_stream_fsm_active(s) \/ mm_stream_buf_done(s) \/ NotCounted(s) \/ KernelAnswers(s)

-----------------------------------------------------------------------------
OwnerNext ==
    \/ mm_camera_poll_thread_launch \/ Launched \/ BeginStart \/ BeginStop
    \/ StreamsStopped \/ mm_camera_poll_thread_release \/ PollerJoined \/ SpuriousWakeup
    \/ \E s \in PollStreams :
        \/ RegBuf(s) \/ RegFails(s) \/ GiveUpReg(s) \/ GoActive(s) \/ mm_stream_streamon(s)
        \/ StreamonFails(s) \/ GiveUpStart(s) \/ BeginStreamoff(s)
        \/ mm_stream_streamoff(s) \/ StreamIsOff(s) \/ mm_stream_unreg_buf(s)

PollerNext ==
    \/ PollerBorn \/ PollerRuns \/ mm_camera_poll_proc_pipe \/ FramesReady \/ Look
    \/ mm_stream_read_msm_frame \/ ReadFails \/ mm_stream_handle_rcvd_buf

PollNext ==
    \/ OwnerNext \/ PollerNext
    \/ \E s \in PollStreams : DriverFills(s) \/ ReturnNext(s)

PollSpec ==
    /\ PollInit /\ [][PollNext]_pollVars /\ WF_pollVars(PollerNext)
    /\ \A s \in UNION {DOMAIN p.bufs : p \in PollSetups} :
           WF_pollVars(s \in PollStreams /\ KernelAnswers(s))

-----------------------------------------------------------------------------
PollTypeOK ==
    /\ setup \in PollSetups /\ rounds \in 0 .. setup.rounds
    /\ {poll_entries, poll_fds, streams_on, left_behind} \subseteq SUBSET PollStreams
    /\ pipe \in Seq({"UPDATED", "UPDATED_ASYNC", "COMMIT", "EXIT"}) /\ woken \in BOOLEAN
    /\ poll_state \in {"STOPPED", "POLL"}
    /\ poller.pc \in {"none", "born", "said", "poll", "look", "notify", "handle", "gone"}
    /\ str_state \in [PollStreams -> {"BUFFED", "REG", "ACTIVE"}]
    /\ returning \in [PollStreams -> {"no", "checked", "listed"}]
    /\ \A s \in PollStreams :
           {queued_buffer_count[s], empty[s], filled[s], taken[s]}
               \subseteq 0 .. 2 * setup.bufs[s]

\* The poller is at work on s.
InCallback(s) == poller.pc \in {"notify", "handle"} /\ poller.s = s

\* Off, and not yet begun again.
StandsStill(s) == \/ str_state[s] = "BUFFED" /\ owner # Is("refused", s)
                  \/ owner = Is("off", s)
                  \/ owner.pc = "stopping" /\ str_state[s] = "REG"

\* From before the buffers of a stream leave the kernel, and as long as they are out of
\* it, the stream is on neither list and the thread is not in its callback; and once a
\* channel is released there is no thread.  Excused are streams that were put on the list
\* behind the removal, or left on it by a registration that failed, or on the thread's
\* list when a removal was not waited for: one that found the entry gone when STREAMON
\* failed, and one whose wait ended before its answer.  So is a thread released before its
\* state said it runs.
QuietOnceOff ==
    /\ \A s \in PollStreams \ left_behind :
        StandsStill(s) => s \notin poll_entries \cup poll_fds /\ ~InCallback(s)
    /\ owner.pc = "released" => poller.pc = "gone"

\* A frame of a running stream is picked up, unless the stream is stopped first.
FramesPickedUp ==
    \A s \in UNION {DOMAIN p.bufs : p \in PollSetups} :
        s \in PollStreams /\ owner.pc = "running" /\ filled[s] > 0
        ~> owner.pc # "running" \/ InCallback(s)
=============================================================================
