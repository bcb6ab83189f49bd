-------------------------- MODULE QCameraCbNotifier --------------------------
(***************************************************************************)
(* The callback notifier: the threads of streams and of the postprocessor  *)
(* queue callbacks, and a thread of its own calls the application and      *)
(* releases what each callback holds.  It also counts the pictures of a    *)
(* capture, and tells the state machine when it has seen the last one.     *)
(* Data and commands have a queue each, and a command is sent after its    *)
(* datum is queued; START, STOP and EXIT go to the head of the commands.   *)
(*                                                                         *)
(* The other side of each call is the state machine's thread, which stops  *)
(* streams and captures, also as an answer to the notifier.  Left out are  *)
(* long shots, whose pictures are not counted, and messages the            *)
(* application has switched off.                                           *)
(***************************************************************************)
EXTENDS Integers, Sequences, SequencesExt, FiniteSets, Sublists

CONSTANTS
    Streams,                      \* those whose frames the application gets
    NumOfSnapshots,               \* pictures of a capture
    MaxStreamFrames, MaxStreamLives, MaxCaptures    \* bounds

ASSUME NotifierAssumption ==
    /\ {MaxStreamFrames, MaxStreamLives, MaxCaptures} \subseteq Nat
    /\ NumOfSnapshots \in Nat \ {0} /\ Streams \subseteq {"preview", "video"}

Producers == Streams \cup {"pictures"}
Callback == [kind: Producers, life: Nat]   \* life: of the stream, or the capture

VARIABLES
    mActive,         \* until closeCamera()
    cmd_queue,       \* of mProcTh; cmd_sem counts its length
    mDataQ,
    notifier,        \* "waits", "tells" (in processSyncEvt), "calls" or "exited"
    handling,        \* the callback it has dequeued, if any
    isSnapshotActive, numOfSnapshotRcvd,
    posting,         \* for each producer, the callback it is in notifyCallback with
    stream,          \* each stream: "none", "streams", "stopped" or "flushed"
    life, frames,    \* how often it was made; its frames in this life
    sm,              \* what the state machine's thread does
    taking,          \* "no", "taking" or "stopping": the postprocessor
    captures, pictures,   \* captures begun; pictures of this one
    counted,         \* history: the pictures counted for this capture
    told,            \* history: the capture that was there when SNAPSHOT_DONE was told last
    late,            \* history: a picture was queued while its capture was stopped
    inverted         \* history: a START was sent before a STOP was taken

queues == <<mActive, cmd_queue, mDataQ, posting>>
thread == <<notifier, handling, isSnapshotActive, numOfSnapshotRcvd, counted, told>>
client == <<stream, life, frames, sm, taking, captures, pictures>>
excuses == <<late, inverted>>
notifierVars == <<queues, thread, client, excuses>>

NotifierTypeOK ==
    /\ {mActive, isSnapshotActive, late, inverted} \subseteq BOOLEAN
    /\ ToSet(cmd_queue) \subseteq {"START", "STOP", "NEXT", "EXIT"}
    /\ ToSet(mDataQ) \cup ToSet(handling) \subseteq Callback /\ Len(handling) <= 1
    /\ notifier \in {"waits", "tells", "calls", "exited"}
    /\ numOfSnapshotRcvd \in 0..NumOfSnapshots * MaxCaptures
    /\ posting \in [Producers -> {"no", "enqueues", "sends"}]
    /\ stream \in [Streams -> {"none", "streams", "stopped", "flushed"}]
    /\ life \in [Streams -> 0..MaxStreamLives] /\ frames \in [Streams -> 0..MaxStreamFrames]
    /\ sm \in {"idle", "answering"} /\ taking \in {"no", "taking", "stopping"}
    /\ captures \in 0..MaxCaptures /\ pictures \in 0..NumOfSnapshots
    /\ ToSet(counted) \subseteq 1..MaxCaptures /\ told \in 0..MaxCaptures

\* setCallbacks().
NotifierInit ==
    /\ mActive = TRUE /\ cmd_queue = << >> /\ mDataQ = << >>
    /\ notifier = "waits" /\ handling = << >>
    /\ isSnapshotActive = FALSE /\ numOfSnapshotRcvd = 0
    /\ posting = [p \in Producers |-> "no"]
    /\ stream = [s \in Streams |-> "none"]
    /\ life = [s \in Streams |-> 0] /\ frames = [s \in Streams |-> 0]
    /\ sm = "idle" /\ taking = "no" /\ captures = 0 /\ pictures = 0
    /\ counted = << >> /\ told = 0
    /\ late = FALSE /\ inverted = FALSE

-----------------------------------------------------------------------------
(* notifyCallback(), on the thread of a producer.                          *)

\* The callback that p is about to queue.
CallbackOf(p) == [kind |-> p, life |-> IF p \in Streams THEN life[p] ELSE captures]

\* A frame comes from a stream's thread; a notifier that has ended refuses it.
PostFrame(s) ==
    /\ stream[s] = "streams" /\ posting[s] = "no" /\ frames[s] < MaxStreamFrames
    /\ frames' = [frames EXCEPT ![s] = @ + 1]
    /\ posting' = [posting EXCEPT ![s] = IF mActive THEN "enqueues" ELSE "no"]
    /\ UNCHANGED <<mActive, cmd_queue, mDataQ, thread, stream, life, sm, taking, captures,
                   pictures, excuses>>

\* The data thread has a picture, until it takes its own STOP.
PostPicture ==
    /\ taking # "no" /\ posting["pictures"] = "no" /\ pictures < NumOfSnapshots
    /\ pictures' = pictures + 1
    /\ posting' = [posting EXCEPT !["pictures"] = IF mActive THEN "enqueues" ELSE "no"]
    /\ UNCHANGED <<mActive, cmd_queue, mDataQ, thread, stream, life, frames, sm, taking,
                   captures, excuses>>

Enqueue(p) ==
    /\ posting[p] = "enqueues" /\ posting' = [posting EXCEPT ![p] = "sends"]
    /\ mDataQ' = Append(mDataQ, CallbackOf(p))
    /\ late' = (late \/ (p = "pictures" /\ taking = "stopping"))
    /\ UNCHANGED <<mActive, cmd_queue, thread, client, inverted>>

SendNext(p) ==
    /\ posting[p] = "sends" /\ posting' = [posting EXCEPT ![p] = "no"]
    /\ cmd_queue' = Append(cmd_queue, "NEXT")
    /\ UNCHANGED <<mActive, mDataQ, thread, client, excuses>>

-----------------------------------------------------------------------------
(* The thread of the state machine.                                        *)

SendWithPriority(cmd) == cmd_queue' = <<cmd>> \o cmd_queue

\* Neither a stream nor a capture is just being stopped.
Free == taking # "stopping" /\ \A s \in Streams : stream[s] \in {"none", "streams"}

\* The thread may take the next event.
Idle == sm = "idle" /\ Free

StartStream(s) ==
    /\ Idle /\ mActive /\ stream[s] = "none" /\ life[s] < MaxStreamLives
    /\ stream' = [stream EXCEPT ![s] = "streams"]
    /\ life' = [life EXCEPT ![s] = @ + 1] /\ frames' = [frames EXCEPT ![s] = 0]
    /\ UNCHANGED <<queues, thread, sm, taking, captures, pictures, excuses>>

\* What flushNodes() leaves of callbacks: those of other kinds.
NotOf(callbacks, kind) == At(callbacks, {i \in DOMAIN callbacks : callbacks[i].kind # kind})

\* Mutant: the callbacks of all kinds match.
FlushAll(s) ==
    /\ stream[s] = "stopped" /\ stream' = [stream EXCEPT ![s] = "flushed"]
    /\ mDataQ' = IF mActive THEN << >> ELSE mDataQ
    /\ UNCHANGED <<mActive, cmd_queue, posting, thread, life, frames, sm, taking, captures,
                   pictures, excuses>>

\* flushPreviewNotifications(), flushVideoNotifications().
Flush(s) ==
    /\ stream[s] = "stopped" /\ stream' = [stream EXCEPT ![s] = "flushed"]
    /\ mDataQ' = IF mActive THEN NotOf(mDataQ, s) ELSE mDataQ
    /\ UNCHANGED <<mActive, cmd_queue, posting, thread, life, frames, sm, taking, captures,
                   pictures, excuses>>

\* Mutant: the thread of the stream is not waited for.
StopStreamAtOnce(s) ==
    /\ Idle /\ stream[s] = "streams"
    /\ stream' = [stream EXCEPT ![s] = "stopped"]
    /\ UNCHANGED <<queues, thread, life, frames, sm, taking, captures, pictures, excuses>>

\* stopPreview(), stopRecording(): the channel is stopped, which joins the stream's
\* thread, its callbacks are flushed, ...
StopStream(s) ==
    /\ Idle /\ stream[s] = "streams" /\ posting[s] = "no"
    /\ stream' = [stream EXCEPT ![s] = "stopped"]
    /\ UNCHANGED <<queues, thread, life, frames, sm, taking, captures, pictures, excuses>>

\* ... and the channel is deleted with its streams and buffers.
DeleteStream(s) ==
    /\ stream[s] = "flushed" /\ stream' = [stream EXCEPT ![s] = "none"]
    /\ UNCHANGED <<queues, thread, life, frames, sm, taking, captures, pictures, excuses>>

\* QCameraPostProcessor::start().
StartSnapshots ==
    /\ Idle /\ mActive /\ taking = "no" /\ captures < MaxCaptures
    /\ taking' = "taking" /\ captures' = captures + 1 /\ pictures' = 0
    /\ SendWithPriority("START")
    /\ inverted' = (inverted \/ "STOP" \in ToSet(cmd_queue))
    /\ UNCHANGED <<mActive, mDataQ, posting, thread, stream, life, frames, sm, late>>

\* QCameraPostProcessor::stop(): the notifier is told, not waited for; ...
StopSnapshots ==
    /\ Idle /\ taking = "taking" /\ taking' = "stopping"
    /\ SendWithPriority("STOP")
    /\ UNCHANGED <<mActive, mDataQ, posting, thread, stream, life, frames, sm, captures,
                   pictures, excuses>>

\* ... the data thread is, and a picture it is at goes out first.
PostprocessorStopped ==
    /\ taking = "stopping" /\ posting["pictures"] = "no" /\ taking' = "no"
    /\ UNCHANGED <<queues, thread, stream, life, frames, sm, captures, pictures, excuses>>

\* SNAPSHOT_DONE ends the capture there is; the notifier waits for that.
HandleSnapshotDone ==
    /\ notifier = "tells" /\ Idle
    /\ sm' = "answering"
    /\ IF taking = "taking" THEN taking' = "stopping" /\ SendWithPriority("STOP")
                            ELSE UNCHANGED <<taking, cmd_queue>>
    /\ UNCHANGED <<mActive, mDataQ, posting, thread, stream, life, frames, captures,
                   pictures, excuses>>

SnapshotDoneHandled ==
    /\ sm = "answering" /\ taking # "stopping"
    /\ sm' = "idle" /\ notifier' = "calls"
    /\ UNCHANGED <<queues, handling, isSnapshotActive, numOfSnapshotRcvd, counted, told,
                   stream, life, frames, taking, captures, pictures, excuses>>

-----------------------------------------------------------------------------
(* The application.                                                        *)

\* closeCamera(), between two calls: exit() of the notifier, whose thread is joined.
Exit ==
    /\ Idle \/ sm = "answering"
    /\ mActive /\ mActive' = FALSE /\ SendWithPriority("EXIT")
    /\ UNCHANGED <<mDataQ, posting, thread, stream, life, frames, sm, taking, captures,
                   pictures, excuses>>

-----------------------------------------------------------------------------
(* cbNotifyRoutine().                                                      *)

GetCmd(cmd) ==
    /\ notifier = "waits" /\ cmd_queue # << >> /\ Head(cmd_queue) = cmd
    /\ cmd_queue' = Tail(cmd_queue)

NotifyStart ==
    /\ GetCmd("START")
    /\ isSnapshotActive' = TRUE /\ numOfSnapshotRcvd' = 0 /\ counted' = << >>
    /\ UNCHANGED <<mActive, mDataQ, posting, notifier, handling, told, client, excuses>>

\* Mutant: the pictures of the capture stay in the queue.
NotifyStopOnly ==
    /\ GetCmd("STOP")
    /\ isSnapshotActive' = FALSE /\ numOfSnapshotRcvd' = 0 /\ counted' = << >>
    /\ UNCHANGED <<mActive, mDataQ, posting, notifier, handling, told, client, excuses>>

NotifyStop ==
    /\ GetCmd("STOP")
    /\ mDataQ' = NotOf(mDataQ, "pictures")
    /\ isSnapshotActive' = FALSE /\ numOfSnapshotRcvd' = 0 /\ counted' = << >>
    /\ UNCHANGED <<mActive, posting, notifier, handling, told, client, excuses>>

\* DO_NEXT_JOB.  A flush may have left a command without a callback.
NotifyNext ==
    /\ GetCmd("NEXT")
    /\ IF mDataQ = << >>
       THEN UNCHANGED <<mDataQ, notifier, handling, numOfSnapshotRcvd, counted, told>>
       ELSE LET cb == Head(mDataQ)
                counts == cb.kind = "pictures" /\ isSnapshotActive
                last == counts /\ numOfSnapshotRcvd + 1 = NumOfSnapshots
            IN  /\ mDataQ' = Tail(mDataQ) /\ handling' = <<cb>>
                /\ numOfSnapshotRcvd' = IF counts THEN numOfSnapshotRcvd + 1
                                                  ELSE numOfSnapshotRcvd
                /\ counted' = IF counts THEN Append(counted, cb.life) ELSE counted
                /\ notifier' = IF last THEN "tells" ELSE "calls"
                /\ told' = IF last THEN captures ELSE told
    /\ UNCHANGED <<mActive, posting, isSnapshotActive, client, late, inverted>>

\* The application is called, and what the callback holds is released.
CallAndRelease ==
    /\ notifier = "calls" /\ notifier' = "waits" /\ handling' = << >>
    /\ UNCHANGED <<queues, isSnapshotActive, numOfSnapshotRcvd, counted, told, client,
                   excuses>>

NotifyExit ==
    /\ GetCmd("EXIT") /\ notifier' = "exited" /\ mDataQ' = << >>
    /\ UNCHANGED <<mActive, posting, handling, isSnapshotActive, numOfSnapshotRcvd, counted,
                   told, client, excuses>>

-----------------------------------------------------------------------------
CbNotifyRoutine ==
    NotifyStart \/ NotifyStop \/ NotifyNext \/ CallAndRelease \/ NotifyExit

\* What the state machine's thread does once it has begun.
GoOn ==
    \/ \E s \in Streams : Flush(s) \/ DeleteStream(s)
    \/ PostprocessorStopped \/ HandleSnapshotDone \/ SnapshotDoneHandled

NotifierNext ==
    \/ \E s \in Streams : PostFrame(s) \/ StartStream(s) \/ StopStream(s)
    \/ PostPicture \/ StartSnapshots \/ StopSnapshots
    \/ \E p \in Producers : Enqueue(p) \/ SendNext(p)
    \/ GoOn \/ Exit \/ CbNotifyRoutine

\* The threads run; nobody has to ask for anything.
NotifierFairness ==
    /\ WF_notifierVars(CbNotifyRoutine) /\ WF_notifierVars(GoOn)
    /\ \A p \in Producers : WF_notifierVars(Enqueue(p)) /\ WF_notifierVars(SendNext(p))

NotifierSpec == NotifierInit /\ [][NotifierNext]_notifierVars /\ NotifierFairness

-----------------------------------------------------------------------------
(* Properties.                                                             *)

\* No callback in the queue is of a stream that has been deleted: their release would
\* use it.  (One that the notifier has dequeued already may be, and is: stopPreview()
\* does not wait for it.)  While the notifier exits flushes do nothing, and what passed
\* the test of mActive before is queued after the last flush.
NoCallbackOfDeadStream ==
    mActive =>
        \A i \in DOMAIN mDataQ :
            mDataQ[i].kind \in Streams =>
                /\ stream[mDataQ[i].kind] # "none"
                /\ mDataQ[i].life = life[mDataQ[i].kind]

\* SNAPSHOT_DONE follows the pictures of its own capture: none of an earlier one is
\* counted, unless the data thread gave one out between the two stops, when the notifier
\* may have flushed already.
DoneAfterItsPictures ==
    (notifier = "tells" /\ ~late) => \A i \in DOMAIN counted : counted[i] = told

\* A capture whose pictures have all been queued is told to be done, or it is stopped or
\* the camera closed.  Not when START overtook the STOP of the capture before: the
\* notifier is then inactive for the whole capture.
DoneComes ==
    \A k \in 1..MaxCaptures :
        (captures = k /\ taking = "taking" /\ pictures = NumOfSnapshots)
            ~> (told = k \/ captures # k \/ taking # "taking" \/ ~mActive
                \/ inverted)

=============================================================================
