------------------------- MODULE DeferredWork_proofs -------------------------
(***************************************************************************)
(* Proofs about DeferredWork: whatever the number of slots and of channel  *)
(* objects, no slot is shared by two works, no channel is used before the  *)
(* work it needs is done, and no frame meets a postprocessor that is still *)
(* to be started.  (It may meet one that was stopped again.)               *)
(*                                                                         *)
(* These properties are not inductive.  What makes them so is where the    *)
(* id of each unfinished work is kept: in a job that the thread of the     *)
(* state machine still has to wait for (BuffersAwaited, StartAwaited), as  *)
(* long as the work's channel can still be reached (ChannelsLive).         *)
(***************************************************************************)
EXTENDS DeferredWork, SequenceTheorems, FiniteSetTheorems,
        WellFoundedInduction, TLAPS

-----------------------------------------------------------------------------
(* The inductive invariant *)

OneInHand == hand = {} \/ \E w \in Work : hand = {w}

\* Every DO_NEXT_JOB stands for a work; the other commands come before them.
CommandsMatchWorks ==
    \E k \in 0..Len(cmd_queue) :
        /\ \A i \in 1..k : cmd_queue[i] # "DO_NEXT_JOB"
        /\ \A i \in (k + 1)..Len(cmd_queue) : cmd_queue[i] = "DO_NEXT_JOB"
        /\ Len(mCmdQueue) = Len(cmd_queue) - k

\* STOP_DATA_PROC is sent once, and acknowledged once.
OneStop ==
    /\ \A i \in 1..Len(cmd_queue) : cmd_queue[i] = "STOP_DATA_PROC" =>
          /\ pc = "closing" /\ sync_sem = 0
          /\ \A k \in 1..Len(cmd_queue) : cmd_queue[k] = "STOP_DATA_PROC" => k = i
    /\ sync_sem = 1 => pc = "closing"

BuildingPreview == {"previewMetadata", "previewPreview", "previewAdded"}
BuildingCapture == {"captureMetadata", "capturePostview", "captureSnapshot",
                    "captureRaw", "captureAdded"}
Building == BuildingPreview \cup BuildingCapture

\* The three references to channels are distinct, and what they refer to
\* exists.  Only the capture channel streams, and only a channel that does
\* has a frame on its way.
ChannelsLive ==
    /\ (pChannel # NULL) <=> pc \in Building
    /\ pChannel # NULL => object[pChannel] # "deleted"
    /\ \A c \in {"PREVIEW", "CAPTURE"} : m_channels[c] # NULL =>
          object[m_channels[c]] # "deleted" /\ m_channels[c] # pChannel
    /\ m_channels["PREVIEW"] = m_channels["CAPTURE"] => m_channels["PREVIEW"] = NULL
    /\ \A o \in Objects : object[o] = "active" =>
          /\ o = m_channels["CAPTURE"]
          /\ pc \in {"picture", "cancelWait", "cancelStop", "cancelChannel"}
    /\ wait["captureCb"] # "idle" =>
          m_channels["CAPTURE"] # NULL /\ object[m_channels["CAPTURE"]] = "active"

\* The buffers of job j may still have to be waited for.
Awaited(j) ==
    \/ j = "mMetadataJob" /\
       pc \in {"previewPreview", "previewAdded", "previewWait", "capturePostview",
               "captureSnapshot", "captureRaw", "captureAdded", "stopPreview",
               "waitSnapshot", "waitMetadata"}
    \/ j = "mSnapshotJob" /\
       pc \in {"captureRaw", "captureAdded", "stopPreview", "waitSnapshot"}
    \/ j = "mRawdataJob" /\
       pc \in {"captureAdded", "stopPreview", "waitSnapshot", "waitMetadata", "waitRawdata"}
    \/ j = "mPostviewJob" /\ pc = "waitPostview"

\* The state machine has waited for j.
WaitedFor(j) ==
    pc \in DOMAIN Waits /\ Waits[pc].job = j /\ wait["stateMachine"] = "returned"

\* The channel the state machine is concerned with.
InProgress == IF pc \in Building THEN pChannel
              ELSE IF pc = "previewWait" THEN m_channels["PREVIEW"]
              ELSE m_channels["CAPTURE"]

\* Buffers are allocated for the channel in progress, or for one that is gone;
\* and the id of that work is one the state machine will wait for.
BuffersAwaited ==
    \A w \in Pending :
        /\ w.cmd = "ALLOCATE_BUFF"
        /\ w.ch \in {NULL, pChannel, m_channels["PREVIEW"], m_channels["CAPTURE"]}
        => /\ w.ch = InProgress
           /\ \E j \in Jobs : Awaited(j) /\ job[j] = w.id /\ ~WaitedFor(j)

\* The postprocessor is started for the capture channel, or for one that is gone.
StartAwaited ==
    \A w \in Pending : w.cmd # "ALLOCATE_BUFF" =>
        /\ w.ch \in Objects
        /\ w.ch # pChannel /\ w.ch # m_channels["PREVIEW"]
        /\ w.ch = m_channels["CAPTURE"] =>
              /\ pc \in {"startCapture", "picture", "cancelWait"}
              /\ job["mReprocJob"] = w.id
              /\ ~WaitedFor("mReprocJob")

\* As long as the postprocessor is stopped, the work that starts it is queued, until
\* cancelPicture() stops it.
StartPending ==
    /\ pc \in {"startCapture", "picture", "cancelWait", "cancelStop"} /\ pp = "stopped" =>
          \E w \in Pending : w.cmd = "PPROC_START" /\ w.id = job["mReprocJob"]
    /\ wait["captureCb"] = "returned" => pp # "stopped" \/ Cancelling

Capturing == {"stopPreview", "waitSnapshot", "waitMetadata", "waitRawdata",
              "queuePostview", "waitPostview", "configCapture", "startCapture",
              "picture", "cancelWait", "cancelStop", "cancelChannel"}

\* As long as no call into the backend has failed, channels are there.
NoTrouble ==
    ~trouble =>
        /\ pc \in Capturing => m_channels["CAPTURE"] # NULL
        /\ \A w \in Pending : /\ w.cmd # "DEL_CHANNEL"
                              /\ w.ch \in Objects /\ object[w.ch] # "deleted"

\* The wait for the postview buffers leaves a slot for the postprocessor's start.
SlotLeft ==
    /\ pc = "waitPostview" =>
          /\ wait["stateMachine"] \in {"idle", "entered"} =>
                job["mPostviewJob"] # MAX_ONGOING_JOBS
          /\ wait["stateMachine"] \in {"blocked", "woken"} =>
                job["mPostviewJob"] \in Slots
    /\ /\ \/ pc = "waitPostview" /\ wait["stateMachine"] = "returned"
          \/ pc = "configCapture"
       /\ job["mPostviewJob"] # -1
       => Free # {}

Inv ==
    /\ TypeOK /\ OneInHand /\ CommandsMatchWorks /\ OneStop /\ ChannelsLive
    /\ OneWorkPerSlot /\ BuffersAwaited /\ StartAwaited /\ StartPending
    /\ NoTrouble /\ SlotLeft

-----------------------------------------------------------------------------
(* Slots, sequences and queues *)

Commands == {"START_DATA_PROC", "STOP_DATA_PROC", "DO_NEXT_JOB", "EXIT"}

LEMMA SlotFacts ==
  /\ Slots \subseteq Nat
  /\ \A i \in Slots : i < MAX_ONGOING_JOBS /\ i \in -1..MAX_ONGOING_JOBS
  /\ MAX_ONGOING_JOBS \in Nat /\ MAX_ONGOING_JOBS \notin Slots /\ -1 \notin Slots
BY DeferredWorkAssumption DEF Slots

\* The lowest of some slots is one of them.
LEMMA FirstFacts ==
  ASSUME NEW S, S \subseteq Slots, S # {}
  PROVE First(S) \in S
<1>1. \A x, y \in Nat : ~(<<y, x>> \in OpToRel(<, Nat)) => x <= y
  BY DEF OpToRel
<1>2. S \subseteq Nat
  BY SlotFacts
<1>3. PICK x \in S : \A y \in S : ~(<<y, x>> \in OpToRel(<, Nat))
  BY <1>2, NatLessThanWellFounded, WFMin
<1>4. \E i \in S : \A k \in S : i <= k
  BY <1>1, <1>2, <1>3
<1> QED
  BY <1>4 DEF First

\* Range, for sequences.
LEMMA RangeFacts ==
  ASSUME NEW S, NEW s \in Seq(S)
  PROVE /\ Range(s) \subseteq S
        /\ \A i \in 1..Len(s) : s[i] \in Range(s)
        /\ \A x \in Range(s) : \E i \in 1..Len(s) : s[i] = x
BY LenProperties DEF Range

LEMMA RangeAppend ==
  ASSUME NEW S, NEW s \in Seq(S), NEW e \in S
  PROVE Range(Append(s, e)) = Range(s) \cup {e}
<1> DEFINE t == Append(s, e)
<1>1. /\ t \in Seq(S) /\ Len(t) = Len(s) + 1 /\ t[Len(s) + 1] = e
      /\ \A i \in 1..Len(s) : t[i] = s[i]
      /\ Len(s) \in Nat
  OBVIOUS
<1>2. \A i \in 1..Len(t) : i \in 1..Len(s) \/ i = Len(s) + 1
  BY <1>1
<1>3. 1..Len(s) \subseteq 1..Len(t) /\ Len(s) + 1 \in 1..Len(t)
  BY <1>1
<1> HIDE DEF t
<1>4. Range(t) = Range(s) \cup {e}
  BY <1>1, <1>2, <1>3, LenProperties DEF Range
<1> QED
  BY <1>4 DEF t

LEMMA RangeTail ==
  ASSUME NEW S, NEW s \in Seq(S), s # <<>>
  PROVE Range(s) = {Head(s)} \cup Range(Tail(s))
<1>1. /\ Len(s) \in Nat \ {0} /\ Head(s) = s[1]
      /\ Tail(s) \in Seq(S) /\ Len(Tail(s)) = Len(s) - 1
      /\ \A i \in 1..Len(Tail(s)) : Tail(s)[i] = s[i + 1]
  BY HeadTailProperties, EmptySeq
<1> DEFINE t == Tail(s)
<1> HIDE DEF t
<1>2. \A i \in 1..Len(s) : i = 1 \/ (i - 1 \in 1..Len(t) /\ t[i - 1] = s[i])
  BY <1>1 DEF t
<1>3. 1 \in 1..Len(s) /\ \A i \in 1..Len(t) : i + 1 \in 1..Len(s) /\ t[i] = s[i + 1]
  BY <1>1 DEF t
<1>4. DOMAIN t = 1..Len(t) /\ DOMAIN s = 1..Len(s)
  BY <1>1, LenProperties DEF t
<1>5. Range(s) \subseteq {Head(s)} \cup Range(t)
  BY <1>1, <1>2, <1>4 DEF Range
<1>6. {Head(s)} \cup Range(t) \subseteq Range(s)
  BY <1>1, <1>3, <1>4 DEF Range
<1> QED
  BY <1>5, <1>6 DEF t

\* A command is put before the others.
LEMMA CommandsPrepend ==
  ASSUME Inv, NEW c \in Commands \ {"DO_NEXT_JOB"},
         cmd_queue' = <<c>> \o cmd_queue, UNCHANGED mCmdQueue
  PROVE /\ cmd_queue' \in Seq(Commands) /\ CommandsMatchWorks'
        /\ Len(cmd_queue') = Len(cmd_queue) + 1 /\ cmd_queue'[1] = c
        /\ \A i \in 2..Len(cmd_queue') : cmd_queue'[i] = cmd_queue[i - 1]
<1>1. cmd_queue \in Seq(Commands)
  BY DEF Inv, TypeOK, Commands
<1>2. <<c>> \in Seq(Commands) /\ Len(<<c>>) = 1 /\ <<c>>[1] = c
  OBVIOUS
<1>3. /\ cmd_queue' \in Seq(Commands) /\ Len(cmd_queue') = 1 + Len(cmd_queue)
      /\ \A i \in 1..(1 + Len(cmd_queue)) :
            cmd_queue'[i] = IF i <= 1 THEN c ELSE cmd_queue[i - 1]
  BY <1>1, <1>2, ConcatProperties
<1>4. Len(cmd_queue) \in Nat
  BY <1>1
<1>5. PICK k \in 0..Len(cmd_queue) :
        /\ \A i \in 1..k : cmd_queue[i] # "DO_NEXT_JOB"
        /\ \A i \in (k + 1)..Len(cmd_queue) : cmd_queue[i] = "DO_NEXT_JOB"
        /\ Len(mCmdQueue) = Len(cmd_queue) - k
  BY DEF Inv, CommandsMatchWorks
<1>6. PICK m \in 0..Len(cmd_queue') : m = k + 1
  BY <1>3, <1>4
<1>7. \A i \in 1..m : cmd_queue'[i] # "DO_NEXT_JOB"
  BY <1>3, <1>4, <1>5, <1>6
<1>8. \A i \in (m + 1)..Len(cmd_queue') : cmd_queue'[i] = "DO_NEXT_JOB"
  BY <1>3, <1>4, <1>5, <1>6
<1>9. CommandsMatchWorks'
  <2>1. Len(mCmdQueue') = Len(cmd_queue') - m
    BY <1>3, <1>4, <1>5, <1>6
  <2> QED
    BY <1>6, <1>7, <1>8, <2>1 DEF CommandsMatchWorks
<1> QED
  BY <1>3, <1>4, <1>9

\* The slot of an unfinished work is taken.
LEMMA PendingFacts ==
  ASSUME Inv
  PROVE /\ Pending \subseteq Work
        /\ \A w \in Pending : w.id \in Slots /\ mDeffOngoingJobs[w.id] = TRUE
<1>1. mCmdQueue \in Seq(Work) /\ hand \subseteq Work
  BY DEF Inv, TypeOK
<1>2. Pending \subseteq Work
  BY <1>1, RangeFacts DEF Pending
<1> QED
  BY <1>2 DEF Inv, OneWorkPerSlot, Work, TypeOK


\* What queueDefferedWork does: it takes a free slot for a new work, or
\* finds none.
LEMMA Queued ==
  ASSUME Inv, UNCHANGED hand,
         NEW j \in Jobs, NEW cmd \in {"ALLOCATE_BUFF", "PPROC_START"},
         NEW ch \in Objects \cup {NULL}, queueDefferedWork(j, cmd, ch)
  PROVE /\ mDeffOngoingJobs' \in [Slots -> BOOLEAN]
        /\ mCmdQueue' \in Seq(Work) /\ cmd_queue' \in Seq(Commands)
        /\ job' \in [Jobs -> -1..MAX_ONGOING_JOBS]
        /\ \A k \in Jobs \ {j} : job'[k] = job[k]
        /\ \/ Free = {} /\ job'[j] = -1 /\ Pending' = Pending
              /\ UNCHANGED <<mDeffOngoingJobs, mCmdQueue, cmd_queue>>
           \/ \E w \in Work : /\ w.cmd = cmd /\ w.ch = ch /\ w.id = job'[j]
                              /\ job'[j] \in Slots /\ Pending' = Pending \cup {w}
        /\ CommandsMatchWorks' /\ OneWorkPerSlot'
        /\ (pc = "closing" => pc' = "closing") /\ UNCHANGED sync_sem => OneStop'
<1>0. /\ mDeffOngoingJobs \in [Slots -> BOOLEAN]
      /\ mCmdQueue \in Seq(Work) /\ cmd_queue \in Seq(Commands)
      /\ job \in [Jobs -> -1..MAX_ONGOING_JOBS] /\ hand \subseteq Work
  BY DEF Inv, TypeOK, Commands
<1>1. CASE Free = {}
  <2>1. job' = [job EXCEPT ![j] = -1] /\ UNCHANGED <<mDeffOngoingJobs, mCmdQueue, cmd_queue>>
    BY <1>1 DEF queueDefferedWork
  <2>2. -1 \in -1..MAX_ONGOING_JOBS
    BY SlotFacts
  <2>3. Pending' = Pending
    BY <2>1 DEF Pending
  <2>4. CommandsMatchWorks' /\ OneWorkPerSlot'
    BY <2>1, <2>3 DEF Inv, CommandsMatchWorks, OneWorkPerSlot
  <2>5. (pc = "closing" => pc' = "closing") /\ UNCHANGED sync_sem => OneStop'
    BY <2>1 DEF Inv, OneStop
  <2> QED
    BY <1>0, <1>1, <2>1, <2>2, <2>3, <2>4, <2>5
<1>2. CASE Free # {}
  <2> DEFINE i == First(Free)
             w == [cmd |-> cmd, id |-> i, ch |-> ch]
  <2>1. i \in Slots /\ mDeffOngoingJobs[i] = FALSE
    <3>1. Free \subseteq Slots
      BY DEF Free
    <3>2. First(Free) \in Free
      BY <1>2, <3>1, FirstFacts
    <3> QED
      BY <3>2, <1>0 DEF Free
  <2>2. /\ mCmdQueue' = Append(mCmdQueue, w) /\ cmd_queue' = Append(cmd_queue, "DO_NEXT_JOB")
        /\ mDeffOngoingJobs' = [mDeffOngoingJobs EXCEPT ![i] = TRUE]
        /\ job' = [job EXCEPT ![j] = i]
    BY <1>2 DEF queueDefferedWork
  <2>3. w \in Work
    BY <2>1 DEF Work
  <2>4. w.cmd = cmd /\ w.ch = ch /\ w.id = i
    OBVIOUS
  <2> HIDE DEF w, i
  <2>5. /\ mCmdQueue' \in Seq(Work) /\ Len(mCmdQueue') = Len(mCmdQueue) + 1
        /\ mCmdQueue'[Len(mCmdQueue) + 1] = w
        /\ \A k \in 1..Len(mCmdQueue) : mCmdQueue'[k] = mCmdQueue[k]
        /\ Len(mCmdQueue) \in Nat
        /\ DOMAIN mCmdQueue = 1..Len(mCmdQueue) /\ DOMAIN mCmdQueue' = 1..Len(mCmdQueue')
    BY <1>0, <2>2, <2>3
  <2>6. /\ cmd_queue' \in Seq(Commands) /\ Len(cmd_queue') = Len(cmd_queue) + 1
        /\ cmd_queue'[Len(cmd_queue) + 1] = "DO_NEXT_JOB"
        /\ \A k \in 1..Len(cmd_queue) : cmd_queue'[k] = cmd_queue[k]
        /\ Len(cmd_queue) \in Nat
    BY <1>0, <2>2 DEF Commands
  <2>7. Range(mCmdQueue') = Range(mCmdQueue) \cup {w}
    BY <1>0, <2>2, <2>3, RangeAppend
  <2>8. Pending' = Pending \cup {w}
    BY <2>7 DEF Pending
  <2>9. CommandsMatchWorks'
    <3>1. PICK k \in 0..Len(cmd_queue) :
            /\ \A n \in 1..k : cmd_queue[n] # "DO_NEXT_JOB"
            /\ \A n \in (k + 1)..Len(cmd_queue) : cmd_queue[n] = "DO_NEXT_JOB"
            /\ Len(mCmdQueue) = Len(cmd_queue) - k
      BY DEF Inv, CommandsMatchWorks
    <3>2. k \in 0..Len(cmd_queue')
      BY <2>6
    <3>3. \A n \in 1..k : cmd_queue'[n] # "DO_NEXT_JOB"
      BY <2>6, <3>1
    <3>4. \A n \in (k + 1)..Len(cmd_queue') : cmd_queue'[n] = "DO_NEXT_JOB"
      BY <2>6, <3>1
    <3>5. Len(mCmdQueue') = Len(cmd_queue') - k
      BY <2>5, <2>6, <3>1
    <3> QED
      BY <3>2, <3>3, <3>4, <3>5 DEF CommandsMatchWorks
  <2>10. OneWorkPerSlot'
    <3>1. \A v \in Pending : v.id # i
      BY <2>1, PendingFacts
    <3>2. \A k \in 1..Len(mCmdQueue) : mCmdQueue[k] \in Pending
      BY <1>0, RangeFacts DEF Pending
    <3>3. \A k \in 1..Len(mCmdQueue') : k \in 1..Len(mCmdQueue) \/ k = Len(mCmdQueue) + 1
      BY <2>5
    <3>4. \A k \in 1..Len(mCmdQueue) : mCmdQueue'[k] = mCmdQueue[k] /\ mCmdQueue'[k].id # i
      BY <2>5, <3>1, <3>2
    <3>5. \A k, n \in 1..Len(mCmdQueue') : mCmdQueue'[k].id = mCmdQueue'[n].id => k = n
      BY <2>4, <2>5, <3>3, <3>4 DEF Inv, OneWorkPerSlot
    <3>6. \A v \in Pending' : mDeffOngoingJobs'[v.id]
      BY <1>0, <2>1, <2>2, <2>4, <2>8, PendingFacts
    <3>7. \A v \in hand' : v.id # i /\ v \in Pending
      BY <3>1 DEF Pending
    <3>8. \A v \in hand', k \in 1..Len(mCmdQueue') : mCmdQueue'[k].id # v.id
      BY <2>4, <2>5, <3>3, <3>4, <3>7 DEF Inv, OneWorkPerSlot
    <3> QED
      BY <2>5, <3>5, <3>6, <3>8 DEF OneWorkPerSlot
  <2>11. (pc = "closing" => pc' = "closing") /\ UNCHANGED sync_sem => OneStop'
    <3> SUFFICES ASSUME pc = "closing" => pc' = "closing", UNCHANGED sync_sem PROVE OneStop'
      OBVIOUS
    <3>1. \A k \in 1..Len(cmd_queue') : cmd_queue'[k] = "STOP_DATA_PROC" =>
             k \in 1..Len(cmd_queue) /\ cmd_queue[k] = "STOP_DATA_PROC"
      BY <2>6
    <3> QED
      BY <3>1 DEF Inv, OneStop
  <2>12. job' \in [Jobs -> -1..MAX_ONGOING_JOBS] /\ job'[j] = i
         /\ \A k \in Jobs \ {j} : job'[k] = job[k]
    BY <1>0, <2>1, <2>2, SlotFacts
  <2>13. mDeffOngoingJobs' \in [Slots -> BOOLEAN]
    BY <1>0, <2>2
  <2>14. w \in Work /\ w.cmd = cmd /\ w.ch = ch /\ w.id = job'[j]
         /\ job'[j] \in Slots /\ Pending' = Pending \cup {w}
    BY <2>1, <2>3, <2>4, <2>8, <2>12
  <2> QED
    BY <2>5, <2>6, <2>9, <2>10, <2>11, <2>12, <2>13, <2>14
<1> QED
  BY <1>1, <1>2

-----------------------------------------------------------------------------
(* What a step leaves as it is *)

WaitType == [Threads -> {"idle", "entered", "blocked", "woken", "returned"}]

\* Works are neither added nor finished.
LEMMA QueuesStay ==
  ASSUME Inv, UNCHANGED <<mDeffOngoingJobs, mCmdQueue, cmd_queue, hand>>
  PROVE /\ Pending' = Pending /\ Free' = Free
        /\ OneInHand' /\ CommandsMatchWorks' /\ OneWorkPerSlot'
        /\ (pc = "closing" => pc' = "closing") /\ UNCHANGED sync_sem => OneStop'
<1>1. Pending' = Pending /\ Free' = Free
  BY DEF Pending, Free
<1>2. OneInHand' /\ CommandsMatchWorks' /\ OneWorkPerSlot'
  BY <1>1 DEF Inv, OneInHand, CommandsMatchWorks, OneWorkPerSlot
<1>3. (pc = "closing" => pc' = "closing") /\ UNCHANGED sync_sem => OneStop'
  BY DEF Inv, OneStop
<1> QED
  BY <1>1, <1>2, <1>3

\* The conjuncts about works, when there are only fewer of them.
LEMMA FewerWorks ==
  ASSUME Inv, Pending' \subseteq Pending, UNCHANGED <<pc, job, m_channels, pChannel, object>>,
         wait'["stateMachine"] = "returned" => wait["stateMachine"] = "returned",
         trouble => trouble'
  PROVE BuffersAwaited' /\ StartAwaited' /\ NoTrouble'
<1>1. \A j : Awaited(j)' <=> Awaited(j)
  BY DEF Awaited
<1>2. \A j : WaitedFor(j)' => WaitedFor(j)
  BY DEF WaitedFor
<1>3. InProgress' = InProgress
  BY DEF InProgress
<1>4. BuffersAwaited'
  BY <1>1, <1>2, <1>3 DEF Inv, BuffersAwaited
<1>5. StartAwaited'
  BY <1>2 DEF Inv, StartAwaited
<1>6. NoTrouble'
  BY DEF Inv, NoTrouble
<1> QED
  BY <1>4, <1>5, <1>6

\* A signal wakes who is blocked.
LEMMA Signalled ==
  ASSUME wait \in WaitType, signal
  PROVE /\ wait' \in WaitType
        /\ \A t \in Threads : wait'[t] = wait[t] \/ (wait[t] = "blocked" /\ wait'[t] = "woken")
<1>1. CASE \A t \in Threads : wait[t] # "blocked"
  BY <1>1 DEF signal
<1>2. CASE ~\A t \in Threads : wait[t] # "blocked"
  <2>1. PICK t \in Threads : wait[t] = "blocked" /\ wait' = [wait EXCEPT ![t] = "woken"]
    BY <1>2 DEF signal
  <2> QED
    BY <2>1 DEF WaitType
<1> QED
  BY <1>1, <1>2

LEMMA HandFacts ==
  ASSUME Inv, NEW w \in hand
  PROVE /\ hand = {w} /\ w \in Work /\ w \in Pending /\ w \notin Range(mCmdQueue)
        /\ w.id \in Slots
<1>1. hand = {w} /\ w \in Work
  BY DEF Inv, OneInHand
<1>2. mCmdQueue \in Seq(Work)
  BY DEF Inv, TypeOK
<1>3. \A i \in 1..Len(mCmdQueue) : mCmdQueue[i].id # w.id
  BY <1>2, LenProperties DEF Inv, OneWorkPerSlot
<1>4. w \notin Range(mCmdQueue)
  BY <1>2, <1>3, RangeFacts
<1> QED
  BY <1>1, <1>4 DEF Pending, Work

LEMMA EmptyHand == {} \subseteq Work /\ Cardinality({}) <= 1
BY FS_EmptySet

LEMMA FullHand ==
  ASSUME NEW w \in Work
  PROVE {w} \subseteq Work /\ Cardinality({w}) <= 1
<1>1. Cardinality({w}) = 1
  BY FS_Singleton
<1> QED
  BY <1>1

\* The work in hand is dropped, its slot freed or not.
LEMMA HandDropped ==
  ASSUME Inv, NEW w \in hand, hand' = {}, UNCHANGED mCmdQueue,
         mDeffOngoingJobs' \in {mDeffOngoingJobs, [mDeffOngoingJobs EXCEPT ![w.id] = FALSE]}
  PROVE /\ mDeffOngoingJobs' \in [Slots -> BOOLEAN] /\ Free \subseteq Free'
        /\ Pending' \subseteq Pending /\ \A v \in Pending : v \in Pending' \/ v = w
        /\ OneInHand' /\ OneWorkPerSlot'
<1>0. mDeffOngoingJobs \in [Slots -> BOOLEAN] /\ mCmdQueue \in Seq(Work)
  BY DEF Inv, TypeOK
<1>1. mDeffOngoingJobs' \in [Slots -> BOOLEAN] /\ Free \subseteq Free'
  BY <1>0 DEF Free
<1>2. Pending' \subseteq Pending /\ \A v \in Pending : v \in Pending' \/ v = w
  BY HandFacts DEF Pending
<1>3. \A v \in Pending' : v.id # w.id
  <2>1. \A i \in 1..Len(mCmdQueue) : mCmdQueue[i].id # w.id
    BY <1>0, LenProperties DEF Inv, OneWorkPerSlot
  <2>2. Pending' = Range(mCmdQueue)
    BY DEF Pending
  <2> QED
    BY <1>0, <2>1, <2>2, RangeFacts
<1>4. \A v \in Pending' : mDeffOngoingJobs'[v.id]
  BY <1>0, <1>2, <1>3, PendingFacts
<1>5. OneWorkPerSlot'
  BY <1>4 DEF Inv, OneWorkPerSlot
<1> QED
  BY <1>1, <1>2, <1>5 DEF OneInHand

-----------------------------------------------------------------------------
(* defferedWorkRoutine *)

LEMMA getCmdInv == ASSUME Inv, getCmd PROVE Inv'
<1>0. /\ mCmdQueue \in Seq(Work) /\ cmd_queue \in Seq(Commands) /\ hand = {}
      /\ cmd_queue # <<>> /\ cmd_queue' = Tail(cmd_queue)
      /\ UNCHANGED <<mDeffOngoingJobs, job, m_channels, pChannel, object, pc, wait, pp, fed,
                     trouble>>
  BY DEF Inv, TypeOK, getCmd, Commands, channels, picture
<1>1. /\ Head(cmd_queue) = cmd_queue[1] /\ cmd_queue[1] \in Commands
      /\ Len(cmd_queue) \in Nat \ {0} /\ cmd_queue' \in Seq(Commands)
      /\ Len(cmd_queue') = Len(cmd_queue) - 1
      /\ \A i \in 1..Len(cmd_queue') : cmd_queue'[i] = cmd_queue[i + 1]
  BY <1>0, HeadTailProperties, EmptySeq
<1>2. PICK k \in 0..Len(cmd_queue) :
        /\ \A i \in 1..k : cmd_queue[i] # "DO_NEXT_JOB"
        /\ \A i \in (k + 1)..Len(cmd_queue) : cmd_queue[i] = "DO_NEXT_JOB"
        /\ Len(mCmdQueue) = Len(cmd_queue) - k
  BY DEF Inv, CommandsMatchWorks
<1>3. Free' = Free
  BY <1>0 DEF Free
<1>4. OneStop'
  <2>1. \A i \in 1..Len(cmd_queue') : i + 1 \in 1..Len(cmd_queue)
    BY <1>1
  <2>2. CASE cmd_queue[1] = "STOP_DATA_PROC"
    <3>1. pc = "closing" /\ sync_sem = 0
      BY <1>1, <2>2 DEF Inv, OneStop
    <3>2. \A i \in 1..Len(cmd_queue') : cmd_queue'[i] # "STOP_DATA_PROC"
      BY <1>1, <2>1, <2>2 DEF Inv, OneStop
    <3> QED
      BY <1>0, <3>1, <3>2 DEF OneStop
  <2>3. CASE cmd_queue[1] # "STOP_DATA_PROC"
    <3>1. sync_sem' = sync_sem
      BY <1>1, <2>3 DEF getCmd, Commands
    <3>2. \A i \in 1..Len(cmd_queue') : cmd_queue'[i] = "STOP_DATA_PROC" =>
             pc = "closing" /\ sync_sem = 0
      BY <1>1, <2>1 DEF Inv, OneStop
    <3>3. \A i, n \in 1..Len(cmd_queue') :
             cmd_queue'[i] = "STOP_DATA_PROC" /\ cmd_queue'[n] = "STOP_DATA_PROC" => i = n
      BY <1>1, <2>1 DEF Inv, OneStop
    <3> QED
      BY <1>0, <3>1, <3>2, <3>3 DEF Inv, OneStop
  <2> QED
    BY <2>2, <2>3
<1>5. SlotLeft' /\ ChannelsLive'
  BY <1>0, <1>3 DEF Inv, SlotLeft, ChannelsLive
<1>6. sync_sem' \in 0..1 /\ worker' \in {"running", "exited"}
  <2>1. cmd_queue[1] = "STOP_DATA_PROC" => sync_sem = 0
    BY <1>1 DEF Inv, OneStop
  <2>2. sync_sem \in 0..1 /\ worker \in {"running", "exited"}
    BY DEF Inv, TypeOK
  <2>3. CASE cmd_queue[1] = "STOP_DATA_PROC"
    <3>1. sync_sem' = sync_sem + 1 /\ worker' = worker
      BY <1>1, <2>3 DEF getCmd
    <3> QED
      BY <2>1, <2>2, <2>3, <3>1
  <2>4. CASE cmd_queue[1] # "STOP_DATA_PROC"
    <3>1. sync_sem' = sync_sem /\ worker' \in {worker, "exited"}
      BY <1>1, <2>4 DEF getCmd, Commands
    <3> QED
      BY <2>2, <3>1
  <2> QED
    BY <2>3, <2>4
<1>7. /\ Pending' = Pending /\ CommandsMatchWorks' /\ OneWorkPerSlot' /\ OneInHand'
      /\ mCmdQueue' \in Seq(Work) /\ hand' \subseteq Work /\ Cardinality(hand') <= 1
  <2>1. CASE cmd_queue[1] = "DO_NEXT_JOB"
    <3>1. k = 0 /\ Len(mCmdQueue) = Len(cmd_queue) /\ mCmdQueue # <<>>
      <4>1. k = 0
        BY <1>1, <1>2, <2>1
      <4>2. Len(mCmdQueue) = Len(cmd_queue)
        BY <1>1, <1>2, <4>1
      <4> QED
        BY <1>0, <1>1, <4>1, <4>2, EmptySeq
    <3>2. hand' = {Head(mCmdQueue)} /\ mCmdQueue' = Tail(mCmdQueue)
      BY <1>1, <2>1 DEF getCmd
    <3>3. /\ Head(mCmdQueue) = mCmdQueue[1] /\ mCmdQueue[1] \in Work
          /\ mCmdQueue' \in Seq(Work) /\ Len(mCmdQueue') = Len(mCmdQueue) - 1
          /\ \A i \in 1..Len(mCmdQueue') : mCmdQueue'[i] = mCmdQueue[i + 1]
          /\ Len(mCmdQueue) \in Nat \ {0}
      BY <1>0, <3>1, <3>2, HeadTailProperties, EmptySeq
    <3>4. Pending' = Pending
      BY <1>0, <3>1, <3>2, RangeTail DEF Pending
    <3>5. CommandsMatchWorks'
      <4>1. \A i \in 1..Len(cmd_queue') : cmd_queue'[i] = "DO_NEXT_JOB"
        BY <1>1, <1>2, <3>1
      <4>2. Len(mCmdQueue') = Len(cmd_queue') - 0 /\ 0 \in 0..Len(cmd_queue')
        BY <1>1, <3>1, <3>3
      <4>3. \A i \in 1..0 : cmd_queue'[i] # "DO_NEXT_JOB"
        OBVIOUS
      <4>4. \A i \in (0 + 1)..Len(cmd_queue') : cmd_queue'[i] = "DO_NEXT_JOB"
        BY <4>1
      <4> QED
        BY <4>2, <4>3, <4>4 DEF CommandsMatchWorks
    <3>6. OneWorkPerSlot'
      <4>1. /\ DOMAIN mCmdQueue = 1..Len(mCmdQueue) /\ DOMAIN mCmdQueue' = 1..Len(mCmdQueue')
            /\ \A i \in 1..Len(mCmdQueue') : i + 1 \in 1..Len(mCmdQueue) /\ i + 1 # 1
            /\ 1 \in 1..Len(mCmdQueue)
        BY <1>0, <3>3, LenProperties
      <4>5. \A i, n \in 1..Len(mCmdQueue) : mCmdQueue[i].id = mCmdQueue[n].id => i = n
        BY <4>1 DEF Inv, OneWorkPerSlot
      <4>6. \A i \in 1..Len(mCmdQueue') : mCmdQueue'[i] = mCmdQueue[i + 1]
        BY <3>3
      <4>2. ASSUME NEW i \in 1..Len(mCmdQueue'), NEW n \in 1..Len(mCmdQueue'),
                   mCmdQueue'[i].id = mCmdQueue'[n].id
            PROVE  i = n
        <5>1. i + 1 \in 1..Len(mCmdQueue) /\ n + 1 \in 1..Len(mCmdQueue)
              /\ mCmdQueue[i + 1].id = mCmdQueue[n + 1].id
          BY <4>1, <4>2, <4>6
        <5>2. i + 1 = n + 1
          BY <4>5, <5>1
        <5>3. i \in Int /\ n \in Int
          OBVIOUS
        <5> QED
          BY <5>2, <5>3
      <4>3. \A i \in 1..Len(mCmdQueue') : mCmdQueue'[i].id # mCmdQueue[1].id
        BY <4>1, <4>5, <4>6
      <4>4. \A w \in Pending' : mDeffOngoingJobs'[w.id]
        BY <1>0, <3>4 DEF Inv, OneWorkPerSlot
      <4> QED
        BY SMTT(30), <3>2, <3>3, <4>1, <4>2, <4>3, <4>4 DEF OneWorkPerSlot
    <3>7. OneInHand' /\ hand' \subseteq Work /\ Cardinality(hand') <= 1
      BY <3>2, <3>3, FullHand DEF OneInHand
    <3> QED
      BY <3>3, <3>4, <3>5, <3>6, <3>7
  <2>2. CASE cmd_queue[1] # "DO_NEXT_JOB"
    <3>1. UNCHANGED <<hand, mCmdQueue>>
      BY <1>1, <2>2 DEF getCmd, Commands
    <3>2. Pending' = Pending
      BY <3>1 DEF Pending
    <3>3. CommandsMatchWorks'
      <4>1. k > 0
        BY <1>1, <1>2, <2>2
      <4>2. PICK m \in 0..Len(cmd_queue') : m = k - 1
        BY <1>1, <4>1
      <4>3. \A i \in 1..m : cmd_queue'[i] # "DO_NEXT_JOB"
        BY <1>1, <1>2, <4>2
      <4>4. \A i \in (m + 1)..Len(cmd_queue') : cmd_queue'[i] = "DO_NEXT_JOB"
        BY <1>1, <1>2, <4>2
      <4>5. Len(mCmdQueue') = Len(cmd_queue') - m
        BY <1>1, <1>2, <3>1, <4>2
      <4> QED
        BY <4>2, <4>3, <4>4, <4>5 DEF CommandsMatchWorks
    <3>4. OneWorkPerSlot' /\ OneInHand'
      BY <1>0, <3>1, <3>2 DEF Inv, OneWorkPerSlot, OneInHand
    <3> QED
      BY <1>0, <3>1, <3>2, <3>3, <3>4, EmptyHand
  <2> QED
    BY <2>1, <2>2
<1>8. BuffersAwaited' /\ StartAwaited' /\ NoTrouble'
  BY <1>0, <1>7, FewerWorks
<1>9. StartPending'
  BY <1>0, <1>7 DEF Inv, StartPending, Cancelling
<1>10. TypeOK'
  BY <1>0, <1>1, <1>6, <1>7 DEF Inv, TypeOK, Commands
<1> QED
  BY <1>4, <1>5, <1>7, <1>8, <1>9, <1>10 DEF Inv


LEMMA allocateBuffersInv == ASSUME Inv, NEW w \in hand, allocateBuffers(w) PROVE Inv'
<1>1. /\ hand' = {} /\ UNCHANGED <<mCmdQueue, cmd_queue, job, sync_sem, worker, m_channels,
                                   pChannel, object, pc, pp, fed, trouble>>
      /\ mDeffOngoingJobs' \in {mDeffOngoingJobs, [mDeffOngoingJobs EXCEPT ![w.id] = FALSE]}
  BY DEF allocateBuffers, jobDone, channels, picture
<1>2. /\ wait' \in WaitType
      /\ \A t \in Threads : wait'[t] = wait[t] \/ (wait[t] = "blocked" /\ wait'[t] = "woken")
  <2>1. wait \in WaitType
    BY DEF Inv, TypeOK, WaitType
  <2> QED
    BY <2>1, Signalled DEF allocateBuffers, jobDone
<1>3. /\ mDeffOngoingJobs' \in [Slots -> BOOLEAN] /\ Free \subseteq Free'
      /\ Pending' \subseteq Pending /\ \A v \in Pending : v \in Pending' \/ v = w
      /\ OneInHand' /\ OneWorkPerSlot'
  BY <1>1, HandDropped
<1>4. {"stateMachine", "captureCb"} \subseteq Threads
  BY DEF Threads
<1>5. TypeOK'
  BY <1>1, <1>2, <1>3, EmptyHand DEF Inv, TypeOK, WaitType
<1>6. CommandsMatchWorks' /\ OneStop'
  BY <1>1 DEF Inv, CommandsMatchWorks, OneStop
<1>7. ChannelsLive'
  BY <1>1, <1>2, <1>4 DEF Inv, ChannelsLive
<1>8. BuffersAwaited' /\ StartAwaited' /\ NoTrouble'
  BY <1>1, <1>2, <1>3, <1>4, FewerWorks
<1>9. StartPending'
  BY <1>1, <1>2, <1>3, <1>4 DEF Inv, StartPending, Cancelling, allocateBuffers
<1>10. SlotLeft'
  BY <1>1, <1>2, <1>3, <1>4 DEF Inv, SlotLeft
<1> QED
  BY <1>3, <1>5, <1>6, <1>7, <1>8, <1>9, <1>10 DEF Inv

LEMMA pprocStartInv == ASSUME Inv, NEW w \in hand, pprocStart(w) PROVE Inv'
<1>1. /\ hand' = {} /\ UNCHANGED <<mCmdQueue, cmd_queue, job, sync_sem, worker, m_channels,
                                   pChannel, object, pc, fed, trouble>>
      /\ mDeffOngoingJobs' \in {mDeffOngoingJobs, [mDeffOngoingJobs EXCEPT ![w.id] = FALSE]}
      /\ pp' = "started"
  BY DEF pprocStart, jobDone, channels
<1>2. /\ wait' \in WaitType
      /\ \A t \in Threads : wait'[t] = wait[t] \/ (wait[t] = "blocked" /\ wait'[t] = "woken")
  BY Signalled DEF Inv, TypeOK, WaitType, pprocStart, jobDone
<1>3. /\ mDeffOngoingJobs' \in [Slots -> BOOLEAN] /\ Free \subseteq Free'
      /\ Pending' \subseteq Pending /\ \A v \in Pending : v \in Pending' \/ v = w
      /\ OneInHand' /\ OneWorkPerSlot'
  BY <1>1, HandDropped
<1>4. {"stateMachine", "captureCb"} \subseteq Threads
  BY DEF Threads
<1>5. TypeOK'
  BY <1>1, <1>2, <1>3, EmptyHand DEF Inv, TypeOK, WaitType
<1>6. CommandsMatchWorks' /\ OneStop'
  BY <1>1 DEF Inv, CommandsMatchWorks, OneStop
<1>7. ChannelsLive'
  BY <1>1, <1>2, <1>4 DEF Inv, ChannelsLive
<1>8. BuffersAwaited' /\ StartAwaited' /\ NoTrouble'
  BY <1>1, <1>2, <1>3, <1>4, FewerWorks
<1>9. StartPending'
  BY <1>1 DEF StartPending
<1>10. SlotLeft'
  BY <1>1, <1>2, <1>3, <1>4 DEF Inv, SlotLeft
<1> QED
  BY <1>3, <1>5, <1>6, <1>7, <1>8, <1>9, <1>10 DEF Inv

LEMMA pprocRefusedInv == ASSUME Inv, NEW w \in hand, pprocRefused(w) PROVE Inv'
<1> DEFINE d == [w EXCEPT !.cmd = "DEL_CHANNEL"]
<1>1. /\ hand' = {d} /\ pp' = "refused" /\ trouble' = TRUE /\ w.cmd = "PPROC_START"
      /\ UNCHANGED <<mDeffOngoingJobs, mCmdQueue, cmd_queue, job, sync_sem, worker, m_channels,
                     pChannel, object, pc, wait, fed>>
  BY DEF pprocRefused, channels, queues
<1>2. d \in Work /\ d.id = w.id /\ d.ch = w.ch /\ d.cmd = "DEL_CHANNEL"
  BY HandFacts DEF Work
<1> HIDE DEF d
<1>3. /\ w \in Pending /\ \A v \in Pending' : v \in Pending \/ v = d
      /\ hand = {w}
  BY <1>1, HandFacts DEF Pending
<1>4. TypeOK'
  BY <1>1, <1>2, FullHand DEF Inv, TypeOK
<1>5. CommandsMatchWorks' /\ OneStop' /\ ChannelsLive' /\ OneInHand'
  BY <1>1, <1>2 DEF Inv, CommandsMatchWorks, OneStop, ChannelsLive, OneInHand
<1>6. OneWorkPerSlot'
  BY <1>1, <1>2, <1>3 DEF Inv, OneWorkPerSlot
<1>7. Free' = Free
  BY <1>1 DEF Free
<1>8. SlotLeft' /\ StartPending' /\ NoTrouble'
  BY <1>1, <1>7 DEF Inv, SlotLeft, StartPending, NoTrouble
<1>9. \A j : (Awaited(j)' <=> Awaited(j)) /\ (WaitedFor(j)' <=> WaitedFor(j))
  BY <1>1 DEF Awaited, WaitedFor
<1>10. InProgress' = InProgress
  BY <1>1 DEF InProgress
<1>11. BuffersAwaited'
  BY <1>1, <1>2, <1>3, <1>9, <1>10 DEF Inv, BuffersAwaited
<1>12. StartAwaited'
  BY <1>1, <1>2, <1>3, <1>9 DEF Inv, StartAwaited
<1> QED
  BY <1>4, <1>5, <1>6, <1>8, <1>11, <1>12 DEF Inv

LEMMA delCaptureChannelInv == ASSUME Inv, NEW w \in hand, delCaptureChannel(w) PROVE Inv'
<1>0. /\ m_channels \in [{"PREVIEW", "CAPTURE"} -> Objects \cup {NULL}]
      /\ object \in [Objects -> {"deleted", "live", "active"}]
      /\ NULL \notin Objects
  BY ObjectsAssumption DEF Inv, TypeOK
<1>1. /\ hand' = {} /\ UNCHANGED <<mCmdQueue, cmd_queue, job, sync_sem, worker,
                                   pChannel, pc, pp, fed, trouble>>
      /\ mDeffOngoingJobs' \in {mDeffOngoingJobs, [mDeffOngoingJobs EXCEPT ![w.id] = FALSE]}
      /\ m_channels' = [m_channels EXCEPT !["CAPTURE"] = NULL]
      /\ object' = Deleted(m_channels["CAPTURE"])
      /\ w.cmd = "DEL_CHANNEL" /\ Joinable("CAPTURE")
  BY DEF delCaptureChannel, jobDone, picture
<1>2. /\ wait' \in WaitType
      /\ \A t \in Threads : wait'[t] = wait[t] \/ (wait[t] = "blocked" /\ wait'[t] = "woken")
  BY Signalled DEF Inv, TypeOK, WaitType, delCaptureChannel, jobDone
<1>3. /\ mDeffOngoingJobs' \in [Slots -> BOOLEAN] /\ Free \subseteq Free'
      /\ Pending' \subseteq Pending /\ \A v \in Pending : v \in Pending' \/ v = w
      /\ OneInHand' /\ OneWorkPerSlot'
  BY <1>1, HandDropped
<1>4. {"stateMachine", "captureCb"} \subseteq Threads
  BY DEF Threads
<1>5. /\ m_channels' \in [{"PREVIEW", "CAPTURE"} -> Objects \cup {NULL}]
      /\ m_channels'["CAPTURE"] = NULL /\ m_channels'["PREVIEW"] = m_channels["PREVIEW"]
      /\ object' \in [Objects -> {"deleted", "live", "active"}]
      /\ \A o \in Objects : object'[o] =
             IF o = m_channels["CAPTURE"] THEN "deleted" ELSE object[o]
  BY <1>0, <1>1 DEF Deleted
<1>6. TypeOK'
  BY <1>1, <1>2, <1>3, <1>5, EmptyHand DEF Inv, TypeOK, WaitType
<1>7. CommandsMatchWorks' /\ OneStop'
  BY <1>1 DEF Inv, CommandsMatchWorks, OneStop
<1>8. ChannelsLive'
  BY <1>0, <1>1, <1>2, <1>4, <1>5 DEF Inv, TypeOK, ChannelsLive, Joinable
<1>9. \A j : (Awaited(j)' <=> Awaited(j)) /\ (WaitedFor(j)' => WaitedFor(j))
  BY <1>1, <1>2, <1>4 DEF Awaited, WaitedFor
<1>10. BuffersAwaited'
  <2> SUFFICES ASSUME NEW v \in Pending', v.cmd = "ALLOCATE_BUFF",
                      v.ch \in {NULL, pChannel, m_channels["PREVIEW"]}
               PROVE v.ch = InProgress' /\
                     \E j \in Jobs : Awaited(j)' /\ job'[j] = v.id /\ ~WaitedFor(j)'
    BY <1>1, <1>5 DEF BuffersAwaited
  <2>1. v.ch = InProgress /\ \E j \in Jobs : Awaited(j) /\ job[j] = v.id /\ ~WaitedFor(j)
    BY <1>3 DEF Inv, BuffersAwaited
  <2>2. v.ch = InProgress'
    BY <1>1, <1>5, <2>1 DEF InProgress, Inv, ChannelsLive
  <2> QED
    BY <1>1, <1>9, <2>1, <2>2
<1>11. StartAwaited'
  BY <1>0, <1>1, <1>3, <1>5, <1>9 DEF Inv, StartAwaited
<1>12. StartPending'
  BY <1>1, <1>2, <1>3, <1>4 DEF Inv, StartPending, Cancelling
<1>13. trouble
  BY <1>1, HandFacts DEF Inv, NoTrouble
<1>14. NoTrouble' /\ SlotLeft'
  BY <1>1, <1>2, <1>3, <1>4, <1>13 DEF Inv, NoTrouble, SlotLeft
<1> QED
  BY <1>3, <1>6, <1>7, <1>8, <1>10, <1>11, <1>12, <1>14 DEF Inv

-----------------------------------------------------------------------------
(* The thread of the state machine *)

LEMMA WaitsFacts ==
  /\ DOMAIN Waits = {"previewWait", "waitSnapshot", "waitMetadata", "waitRawdata",
                     "waitPostview", "cancelWait"}
  /\ \A p \in DOMAIN Waits : Waits[p].job \in Jobs
  /\ Waits["previewWait"] = [job |-> "mMetadataJob", then |-> "idle"]
  /\ Waits["waitSnapshot"] = [job |-> "mSnapshotJob", then |-> "waitMetadata"]
  /\ Waits["waitMetadata"] = [job |-> "mMetadataJob", then |-> "waitRawdata"]
  /\ Waits["waitRawdata"] = [job |-> "mRawdataJob", then |-> "queuePostview"]
  /\ Waits["waitPostview"] = [job |-> "mPostviewJob", then |-> "configCapture"]
  /\ Waits["cancelWait"] = [job |-> "mReprocJob", then |-> "cancelStop"]
BY DEF Waits, Jobs

PreviewStreams == {"previewMetadata", "previewPreview"}
CaptureStreams == {"captureMetadata", "capturePostview", "captureSnapshot", "captureRaw"}

LEMMA StreamsFacts ==
  /\ DOMAIN DeferredStreams = PreviewStreams \cup CaptureStreams
  /\ \A p \in PreviewStreams : DeferredStreams[p].failed = "idle"
  /\ \A p \in CaptureStreams : DeferredStreams[p].failed = "stopPreview"
  /\ DeferredStreams["previewMetadata"].job = "mMetadataJob"
  /\ DeferredStreams["previewMetadata"].then = "previewPreview"
  /\ DeferredStreams["previewPreview"].job \notin Jobs
  /\ DeferredStreams["previewPreview"].then = "previewAdded"
  /\ DeferredStreams["captureMetadata"].job = "mMetadataJob"
  /\ DeferredStreams["captureMetadata"].then = "capturePostview"
  /\ DeferredStreams["capturePostview"].job \notin Jobs
  /\ DeferredStreams["capturePostview"].then = "captureSnapshot"
  /\ DeferredStreams["captureSnapshot"].job = "mSnapshotJob"
  /\ DeferredStreams["captureSnapshot"].then \in {"captureRaw", "captureAdded"}
  /\ DeferredStreams["captureRaw"].job = "mRawdataJob"
  /\ DeferredStreams["captureRaw"].then = "captureAdded"
BY DEF DeferredStreams, Jobs, PreviewStreams, CaptureStreams

Places == PreviewStreams \cup CaptureStreams \cup
          {"previewWait", "waitSnapshot", "waitMetadata", "waitRawdata", "waitPostview",
           "cancelWait", "idle", "previewAdded", "captureAdded", "stopPreview",
           "queuePostview", "configCapture", "startCapture", "picture", "cancelStop",
           "cancelChannel", "closing", "joining", "closed", "crashed"}

\* The types of what the thread of the state machine changes.
LEMMA TypeFacts ==
  ASSUME Inv
  PROVE /\ pc \in Places /\ NULL \notin Objects
        /\ m_channels \in [{"PREVIEW", "CAPTURE"} -> Objects \cup {NULL}]
        /\ pChannel \in Objects \cup {NULL}
        /\ object \in [Objects -> {"deleted", "live", "active"}]
        /\ job \in [Jobs -> -1..MAX_ONGOING_JOBS]
        /\ wait \in WaitType /\ mDeffOngoingJobs \in [Slots -> BOOLEAN]
        /\ {"stateMachine", "captureCb"} = Threads
BY WaitsFacts, StreamsFacts, ObjectsAssumption DEF Inv, TypeOK, Places, WaitType, Threads

\* Channels and the place of the thread change, nothing else does.
LEMMA TypeStays ==
  ASSUME Inv, pc' \in Places,
         m_channels' \in [{"PREVIEW", "CAPTURE"} -> Objects \cup {NULL}],
         pChannel' \in Objects \cup {NULL},
         object' \in [Objects -> {"deleted", "live", "active"}],
         pp' \in {"stopped", "started", "refused"},
         {fed', trouble'} \subseteq BOOLEAN,
         wait' \in WaitType, job' \in [Jobs -> -1..MAX_ONGOING_JOBS],
         UNCHANGED <<mDeffOngoingJobs, mCmdQueue, cmd_queue, sync_sem, worker, hand>>
  PROVE TypeOK'
BY WaitsFacts, StreamsFacts DEF Inv, TypeOK, Places, WaitType

LEMMA DeletedFacts ==
  ASSUME Inv, NEW r \in Objects \cup {NULL}, object' = Deleted(r)
  PROVE /\ object' \in [Objects -> {"deleted", "live", "active"}]
        /\ \A o \in Objects : o # r => object'[o] = object[o]
        /\ r \in Objects => object'[r] = "deleted"
BY TypeFacts DEF Deleted

LEMMA addPreviewChannelInv == ASSUME Inv, addPreviewChannel PROVE Inv'
<1>0. /\ pc = "idle" /\ wait["stateMachine"] = "idle" /\ pc' = "previewMetadata"
      /\ m_channels["PREVIEW"] = NULL
      /\ UNCHANGED <<mDeffOngoingJobs, mCmdQueue, cmd_queue, job, sync_sem, worker, hand,
                     m_channels, wait, pp, fed, trouble>>
  BY DEF addPreviewChannel, PcAt, queues, thread, picture
<1>1. PICK o \in Objects : /\ object[o] = "deleted" /\ pChannel' = o
                           /\ \A w \in Pending : w.ch # o
                           /\ object' = [object EXCEPT ![o] = "live"]
  BY DEF addPreviewChannel, NewChannel
<1>2. /\ object' \in [Objects -> {"deleted", "live", "active"}] /\ object'[o] = "live"
      /\ \A x \in Objects : x # o => object'[x] = object[x]
  BY <1>1, TypeFacts
<1>3. /\ Pending' = Pending /\ Free' = Free
      /\ OneInHand' /\ CommandsMatchWorks' /\ OneWorkPerSlot' /\ OneStop'
  BY <1>0, QueuesStay
<1>4. TypeOK'
  BY <1>0, <1>1, <1>2, TypeFacts, TypeStays DEF Inv, TypeOK, Places, PreviewStreams
<1>5. ChannelsLive'
  BY <1>0, <1>1, <1>2, TypeFacts
  DEF Inv, ChannelsLive, Building, BuildingPreview, BuildingCapture
<1>6. BuffersAwaited'
  <2>1. \A j : ~Awaited(j)
    BY <1>0 DEF Awaited
  <2> QED
    BY <1>0, <1>1, <1>3, <2>1 DEF Inv, BuffersAwaited
<1>7. StartAwaited'
  BY <1>0, <1>1, <1>3 DEF Inv, StartAwaited
<1>8. StartPending' /\ SlotLeft'
  BY <1>0, <1>3 DEF Inv, StartPending, SlotLeft, Cancelling
<1>9. NoTrouble'
  BY <1>0, <1>1, <1>2, <1>3 DEF Inv, NoTrouble, Capturing
<1> QED
  BY <1>3, <1>4, <1>5, <1>6, <1>7, <1>8, <1>9 DEF Inv

LEMMA takePictureInv == ASSUME Inv, takePicture PROVE Inv'
<1>0. /\ pc = "idle" /\ wait["stateMachine"] = "idle" /\ pc' = "captureMetadata"
      /\ fed' = FALSE
      /\ UNCHANGED <<mDeffOngoingJobs, mCmdQueue, cmd_queue, job, sync_sem, worker, hand,
                     m_channels, wait, pp, trouble>>
  BY DEF takePicture, PcAt, queues, thread
<1>1. PICK o \in Objects : /\ object[o] = "deleted" /\ pChannel' = o
                           /\ \A w \in Pending : w.ch # o
                           /\ object' = [object EXCEPT ![o] = "live"]
  BY DEF takePicture, NewChannel
<1>2. /\ object' \in [Objects -> {"deleted", "live", "active"}] /\ object'[o] = "live"
      /\ \A x \in Objects : x # o => object'[x] = object[x]
  BY <1>1, TypeFacts
<1>3. /\ Pending' = Pending /\ Free' = Free
      /\ OneInHand' /\ CommandsMatchWorks' /\ OneWorkPerSlot' /\ OneStop'
  BY <1>0, QueuesStay
<1>4. TypeOK'
  BY <1>0, <1>1, <1>2, TypeFacts, TypeStays DEF Inv, TypeOK, Places, CaptureStreams
<1>5. ChannelsLive'
  BY <1>0, <1>1, <1>2, TypeFacts
  DEF Inv, ChannelsLive, Building, BuildingPreview, BuildingCapture
<1>6. BuffersAwaited'
  <2>1. \A j : ~Awaited(j)
    BY <1>0 DEF Awaited
  <2> QED
    BY <1>0, <1>1, <1>3, <2>1 DEF Inv, BuffersAwaited
<1>7. StartAwaited'
  BY <1>0, <1>1, <1>3 DEF Inv, StartAwaited
<1>8. StartPending' /\ SlotLeft'
  BY <1>0, <1>3 DEF Inv, StartPending, SlotLeft, Cancelling
<1>9. NoTrouble'
  BY <1>0, <1>1, <1>2, <1>3 DEF Inv, NoTrouble, Capturing
<1> QED
  BY <1>3, <1>4, <1>5, <1>6, <1>7, <1>8, <1>9 DEF Inv

LEMMA stopPreviewInv ==
  ASSUME Inv, stopPreview
  PROVE Inv'
<1>0. /\ pc \in {"idle", "stopPreview"} /\ wait["stateMachine"] = "idle"
      /\ pc' = IF pc = "idle" THEN "idle" ELSE "waitSnapshot"
      /\ m_channels' = [m_channels EXCEPT !["PREVIEW"] = NULL]
      /\ object' = Deleted(m_channels["PREVIEW"])
      /\ UNCHANGED <<mDeffOngoingJobs, mCmdQueue, cmd_queue, job, sync_sem, worker, hand,
                     pChannel, wait, pp, fed, trouble>>
  BY DEF stopPreview, PcAt, queues, thread, picture
<1>1. /\ m_channels' \in [{"PREVIEW", "CAPTURE"} -> Objects \cup {NULL}]
      /\ m_channels'["PREVIEW"] = NULL /\ m_channels'["CAPTURE"] = m_channels["CAPTURE"]
      /\ object' \in [Objects -> {"deleted", "live", "active"}]
      /\ \A o \in Objects : o # m_channels["PREVIEW"] => object'[o] = object[o]
      /\ m_channels["PREVIEW"] \in Objects => object'[m_channels["PREVIEW"]] = "deleted"
  BY <1>0, TypeFacts, DeletedFacts
<1>2. /\ Pending' = Pending /\ Free' = Free
      /\ OneInHand' /\ CommandsMatchWorks' /\ OneWorkPerSlot' /\ OneStop'
  BY <1>0, QueuesStay
<1>3. TypeOK'
  BY <1>0, <1>1, TypeFacts, TypeStays DEF Inv, TypeOK, Places
<1>4. ChannelsLive'
  BY <1>0, <1>1, TypeFacts
  DEF Inv, ChannelsLive, Building, BuildingPreview, BuildingCapture
<1>5. \A j : (Awaited(j) <=> Awaited(j)') /\ ~WaitedFor(j)'
  BY <1>0, WaitsFacts DEF Awaited, WaitedFor
<1>6. InProgress = m_channels["CAPTURE"] /\ InProgress' = m_channels["CAPTURE"]
  BY <1>0, <1>1 DEF InProgress, Building, BuildingPreview, BuildingCapture
<1>7. BuffersAwaited'
  BY <1>0, <1>1, <1>2, <1>5, <1>6 DEF Inv, BuffersAwaited
<1>8. StartAwaited'
  BY <1>0, <1>1, <1>2, <1>5, TypeFacts DEF Inv, StartAwaited
<1>9. StartPending' /\ SlotLeft'
  BY <1>0, <1>2 DEF Inv, StartPending, SlotLeft, Cancelling
<1>10. NoTrouble'
  <2>1. \A w \in Pending : w.ch \in Objects => w.ch # m_channels["PREVIEW"]
    <3> SUFFICES ASSUME NEW w \in Pending, w.ch \in Objects, w.ch = m_channels["PREVIEW"]
                 PROVE FALSE
      OBVIOUS
    <3>1. w.cmd = "ALLOCATE_BUFF"
      BY DEF Inv, StartAwaited
    <3>2. w.ch = m_channels["CAPTURE"]
      BY <1>6, <3>1 DEF Inv, BuffersAwaited
    <3> QED
      BY <3>2, TypeFacts DEF Inv, ChannelsLive
  <2> QED
    BY <1>0, <1>1, <1>2, <2>1 DEF Inv, NoTrouble, Capturing
<1> QED
  BY <1>2, <1>3, <1>4, <1>7, <1>8, <1>9, <1>10 DEF Inv


\* The channel is complete: it takes its place among the channels.
LEMMA channelAddedInv ==
  ASSUME Inv, NEW here, NEW c, NEW there, channelAdded(here, c, there),
         \/ here = "previewAdded" /\ c = "PREVIEW" /\ there = "previewWait"
         \/ here = "captureAdded" /\ c = "CAPTURE" /\ there = "stopPreview"
  PROVE Inv'
<1>0. /\ pc = here /\ wait["stateMachine"] = "idle" /\ pc' = there
      /\ m_channels' = [m_channels EXCEPT ![c] = pChannel] /\ pChannel' = NULL
      /\ UNCHANGED <<mDeffOngoingJobs, mCmdQueue, cmd_queue, job, sync_sem, worker, hand,
                     object, wait, pp, fed, trouble>>
  BY DEF channelAdded, PcAt, queues, thread, picture
<1>1. /\ m_channels' \in [{"PREVIEW", "CAPTURE"} -> Objects \cup {NULL}]
      /\ m_channels'[c] = pChannel
      /\ \A d \in {"PREVIEW", "CAPTURE"} : d # c => m_channels'[d] = m_channels[d]
  BY <1>0, TypeFacts
<1>2. /\ Pending' = Pending /\ Free' = Free
      /\ OneInHand' /\ CommandsMatchWorks' /\ OneWorkPerSlot' /\ OneStop'
  BY <1>0, QueuesStay
<1>3. TypeOK'
  BY <1>0, <1>1, TypeFacts, TypeStays DEF Inv, TypeOK, Places
<1>4. pChannel \in Objects
  BY <1>0, TypeFacts DEF Inv, ChannelsLive, Building, BuildingPreview, BuildingCapture
<1>5. ChannelsLive'
  BY <1>0, <1>1, <1>4, TypeFacts
  DEF Inv, ChannelsLive, Building, BuildingPreview, BuildingCapture
<1>6. \A j \in Jobs : (Awaited(j) => Awaited(j)') /\ ~WaitedFor(j)'
  BY <1>0, WaitsFacts DEF Awaited, WaitedFor
<1>7. InProgress = pChannel /\ InProgress' = pChannel
  BY <1>0, <1>1 DEF InProgress, Building, BuildingPreview, BuildingCapture
<1>8. BuffersAwaited'
  BY <1>0, <1>1, <1>2, <1>6, <1>7, TypeFacts DEF Inv, BuffersAwaited
<1>9. StartAwaited'
  BY <1>0, <1>1, <1>2, <1>4, TypeFacts DEF Inv, StartAwaited, ChannelsLive
<1>10. StartPending' /\ SlotLeft'
  BY <1>0, <1>2 DEF Inv, StartPending, SlotLeft, Cancelling
<1>11. NoTrouble'
  BY <1>0, <1>1, <1>2, <1>4, TypeFacts DEF Inv, NoTrouble, Capturing
<1> QED
  BY <1>2, <1>3, <1>5, <1>8, <1>9, <1>10, <1>11 DEF Inv

LEMMA queuePostviewInv == ASSUME Inv, queuePostview PROVE Inv'
<1> DEFINE ch == m_channels["CAPTURE"]
<1>0. /\ pc = "queuePostview" /\ wait["stateMachine"] = "idle" /\ pc' = "waitPostview"
      /\ UNCHANGED <<sync_sem, worker, hand, m_channels, pChannel, object, wait, pp, fed,
                     trouble>>
  BY DEF queuePostview, PcAt, thread, channels, picture
<1>1. /\ queueDefferedWork("mPostviewJob", "ALLOCATE_BUFF", ch)
      /\ ch \in Objects \cup {NULL} /\ "mPostviewJob" \in Jobs
  BY TypeFacts DEF queuePostview, Jobs
<1>2. /\ mDeffOngoingJobs' \in [Slots -> BOOLEAN]
      /\ mCmdQueue' \in Seq(Work) /\ cmd_queue' \in Seq(Commands)
      /\ job' \in [Jobs -> -1..MAX_ONGOING_JOBS]
      /\ \A k \in Jobs \ {"mPostviewJob"} : job'[k] = job[k]
      /\ CommandsMatchWorks' /\ OneWorkPerSlot' /\ OneStop'
      /\ job'["mPostviewJob"] \in Slots \cup {-1}
      /\ \A w \in Pending' : \/ w \in Pending
                             \/ /\ w.cmd = "ALLOCATE_BUFF" /\ w.ch = ch
                                /\ w.id = job'["mPostviewJob"]
  BY <1>0, <1>1, Queued
<1>3. TypeOK' /\ OneInHand'
  BY <1>0, <1>2, WaitsFacts DEF Inv, TypeOK, OneInHand, Commands
<1>4. ChannelsLive'
  BY <1>0 DEF Inv, ChannelsLive, Building, BuildingPreview, BuildingCapture
<1>5. (\A j : ~Awaited(j)) /\ Awaited("mPostviewJob")' /\ \A j : ~WaitedFor(j)'
  BY <1>0 DEF Awaited, WaitedFor
<1>6. InProgress = ch /\ InProgress' = ch
  BY <1>0 DEF InProgress, Building, BuildingPreview, BuildingCapture
<1>7. BuffersAwaited'
  BY <1>0, <1>1, <1>2, <1>5, <1>6 DEF Inv, BuffersAwaited
<1>8. StartAwaited'
  BY <1>0, <1>2 DEF Inv, StartAwaited
<1>9. StartPending' /\ SlotLeft'
  BY <1>0, <1>2, SlotFacts DEF Inv, StartPending, SlotLeft, Cancelling
<1>10. NoTrouble'
  <2>1. ~trouble => ch \in Objects /\ object[ch] # "deleted"
    BY <1>0, TypeFacts DEF Inv, NoTrouble, Capturing, ChannelsLive
  <2> QED
    BY <1>0, <1>2, <2>1 DEF Inv, NoTrouble, Capturing
<1> QED
  BY <1>2, <1>3, <1>4, <1>7, <1>8, <1>9, <1>10 DEF Inv

\* Both before the picture and while it starts, the channel is given up.
LEMMA ChannelGivenUp ==
  ASSUME Inv, delChannelAndFail, pc \in {"configCapture", "startCapture"},
         UNCHANGED <<mDeffOngoingJobs, mCmdQueue, cmd_queue, job, sync_sem, worker, hand,
                     pChannel, wait, pp, fed>>
  PROVE Inv'
<1>0. /\ m_channels' = [m_channels EXCEPT !["CAPTURE"] = NULL]
      /\ object' = Deleted(m_channels["CAPTURE"]) /\ pc' = "idle" /\ trouble' = TRUE
  BY DEF delChannelAndFail
<1>1. /\ m_channels' \in [{"PREVIEW", "CAPTURE"} -> Objects \cup {NULL}]
      /\ m_channels'["CAPTURE"] = NULL /\ m_channels'["PREVIEW"] = m_channels["PREVIEW"]
      /\ object' \in [Objects -> {"deleted", "live", "active"}]
      /\ \A o \in Objects : o # m_channels["CAPTURE"] => object'[o] = object[o]
      /\ m_channels["CAPTURE"] \in Objects => object'[m_channels["CAPTURE"]] = "deleted"
  BY <1>0, TypeFacts, DeletedFacts
<1>2. /\ Pending' = Pending /\ Free' = Free
      /\ OneInHand' /\ CommandsMatchWorks' /\ OneWorkPerSlot' /\ OneStop'
  BY <1>0, QueuesStay
<1>3. TypeOK'
  BY <1>0, <1>1, TypeFacts, TypeStays DEF Inv, TypeOK, Places
<1>4. ChannelsLive'
  BY <1>0, <1>1, TypeFacts
  DEF Inv, ChannelsLive, Building, BuildingPreview, BuildingCapture
<1>5. \A j : ~Awaited(j)
  BY DEF Awaited
<1>6. InProgress = m_channels["CAPTURE"]
  BY DEF InProgress, Building, BuildingPreview, BuildingCapture
<1>7. BuffersAwaited'
  BY <1>0, <1>1, <1>2, <1>5, <1>6 DEF Inv, BuffersAwaited
<1>8. StartAwaited'
  BY <1>0, <1>1, <1>2, TypeFacts DEF Inv, StartAwaited
<1>9. StartPending' /\ SlotLeft' /\ NoTrouble'
  BY <1>0, <1>2 DEF Inv, StartPending, SlotLeft, Cancelling, NoTrouble
<1> QED
  BY <1>2, <1>3, <1>4, <1>7, <1>8, <1>9 DEF Inv

\* Only the place changes.
LEMMA PlaceChanges ==
  ASSUME Inv, pc' \in Places, pc # "closing",
         UNCHANGED <<queues, thread, channels, picture, trouble>>,
         wait' \in WaitType, wait'["captureCb"] = wait["captureCb"]
  PROVE /\ TypeOK' /\ OneInHand' /\ CommandsMatchWorks' /\ OneWorkPerSlot' /\ OneStop'
        /\ Pending' = Pending /\ Free' = Free
<1> QED
  BY QueuesStay, TypeStays, TypeFacts
  DEF Inv, TypeOK, queues, thread, channels, picture

LEMMA configCaptureInv == ASSUME Inv, configCapture PROVE Inv'
<1> DEFINE ch == m_channels["CAPTURE"]
<1>0. /\ pc = "configCapture" /\ wait["stateMachine"] = "idle"
      /\ UNCHANGED <<sync_sem, worker, hand, wait, pp, fed>>
  BY DEF configCapture, PcAt, thread, picture
<1>1. \A j : ~Awaited(j)
  BY <1>0 DEF Awaited
<1>2. InProgress = ch
  BY <1>0 DEF InProgress, Building, BuildingPreview, BuildingCapture
<1>3. \A w \in Pending : w.ch # pChannel /\ w.ch # m_channels["PREVIEW"] /\ w.ch # ch /\ w.ch # NULL
  BY <1>0, <1>1, TypeFacts DEF Inv, BuffersAwaited, StartAwaited
<1>4. CASE /\ pc' = "idle" /\ UNCHANGED <<queues, channels, trouble>>
  <2>1. /\ UNCHANGED <<mDeffOngoingJobs, mCmdQueue, cmd_queue, job, m_channels, pChannel,
                       object, trouble>>
        /\ UNCHANGED <<queues, thread, channels, picture, trouble>>
    BY <1>0, <1>4 DEF queues, channels, thread, picture
  <2>2. /\ TypeOK' /\ OneInHand' /\ CommandsMatchWorks' /\ OneWorkPerSlot' /\ OneStop'
        /\ Pending' = Pending /\ Free' = Free
    BY <1>0, <1>4, <2>1, PlaceChanges, TypeFacts DEF Places
  <2>3. ChannelsLive'
    BY <1>0, <1>4, <2>1 DEF Inv, ChannelsLive, Building, BuildingPreview, BuildingCapture
  <2>4. BuffersAwaited' /\ StartAwaited'
    BY <1>3, <2>1, <2>2 DEF Inv, BuffersAwaited, StartAwaited
  <2>5. StartPending' /\ SlotLeft' /\ NoTrouble'
    BY <1>0, <1>4, <2>1, <2>2 DEF Inv, StartPending, SlotLeft, Cancelling, NoTrouble, Capturing
  <2> QED
    BY <2>2, <2>3, <2>4, <2>5 DEF Inv
<1>5. CASE /\ ch # NULL /\ job["mPostviewJob"] # -1
           /\ queueDefferedWork("mReprocJob", "PPROC_START", ch)
           /\ pc' = "startCapture" /\ UNCHANGED <<channels, trouble>>
  <2>0. /\ UNCHANGED <<m_channels, pChannel, object, trouble>>
        /\ ch \in Objects /\ "mReprocJob" \in Jobs
    BY <1>5, TypeFacts DEF channels, Jobs
  <2>1. Free # {}
    BY <1>0, <1>5 DEF Inv, SlotLeft
  <2>2. /\ mDeffOngoingJobs' \in [Slots -> BOOLEAN]
        /\ mCmdQueue' \in Seq(Work) /\ cmd_queue' \in Seq(Commands)
        /\ job' \in [Jobs -> -1..MAX_ONGOING_JOBS]
        /\ CommandsMatchWorks' /\ OneWorkPerSlot' /\ OneStop'
        /\ \E w \in Work : /\ w.cmd = "PPROC_START" /\ w.ch = ch
                           /\ w.id = job'["mReprocJob"] /\ Pending' = Pending \cup {w}
    BY <1>0, <1>5, <2>0, <2>1, Queued
  <2>3. TypeOK' /\ OneInHand'
    BY <1>0, <1>5, <2>0, <2>2, WaitsFacts DEF Inv, TypeOK, OneInHand, Commands
  <2>4. ChannelsLive'
    BY <1>0, <1>5, <2>0 DEF Inv, ChannelsLive, Building, BuildingPreview, BuildingCapture
  <2>5. ~WaitedFor("mReprocJob")'
    BY <1>0 DEF WaitedFor
  <2>6. BuffersAwaited'
    BY <1>3, <2>0, <2>2 DEF BuffersAwaited
  <2>7. StartAwaited'
    BY <1>0, <1>3, <1>5, <2>0, <2>2, <2>5 DEF Inv, StartAwaited, ChannelsLive
  <2>8. StartPending' /\ SlotLeft'
    BY <1>0, <1>5, <2>2 DEF Inv, StartPending, SlotLeft, Cancelling
  <2>9. NoTrouble'
    BY <1>0, <1>5, <2>0, <2>2 DEF Inv, NoTrouble, Capturing, ChannelsLive
  <2> QED
    BY <2>2, <2>3, <2>4, <2>6, <2>7, <2>8, <2>9 DEF Inv
<1>6. CASE delChannelAndFail /\ UNCHANGED <<queues, pChannel>>
  BY <1>0, <1>6, ChannelGivenUp DEF queues
<1> QED
  BY <1>4, <1>5, <1>6 DEF configCapture

LEMMA startCaptureInv == ASSUME Inv, startCapture PROVE Inv'
<1> DEFINE ch == m_channels["CAPTURE"]
<1>0. /\ pc = "startCapture" /\ wait["stateMachine"] = "idle"
      /\ UNCHANGED <<mDeffOngoingJobs, mCmdQueue, cmd_queue, job, sync_sem, worker, hand,
                     wait, pp, fed>>
  BY DEF startCapture, PcAt, thread, picture, queues
<1>1. \A j : ~Awaited(j) /\ ~WaitedFor(j)'
  BY <1>0 DEF Awaited, WaitedFor, startCapture
<1>2. InProgress = ch
  BY <1>0 DEF InProgress, Building, BuildingPreview, BuildingCapture
<1>3. CASE delChannelAndFail /\ UNCHANGED pChannel
  BY <1>0, <1>3, ChannelGivenUp
<1>4. CASE ~delChannelAndFail
  <2>0. \/ pc' = "crashed" /\ ch = NULL /\ UNCHANGED object
        \/ /\ pc' = "picture" /\ ch # NULL
           /\ object' = [object EXCEPT ![ch] = "active"]
    BY <1>4 DEF startCapture, channels
  <2>1. UNCHANGED <<m_channels, pChannel, trouble>>
    BY <1>4 DEF startCapture, channels
  <2>2. /\ object' \in [Objects -> {"deleted", "live", "active"}]
        /\ \A o \in Objects : o # ch => object'[o] = object[o]
        /\ ch # NULL => ch \in Objects /\ object'[ch] = "active"
    BY <2>0, TypeFacts
  <2>3. /\ Pending' = Pending /\ Free' = Free
        /\ OneInHand' /\ CommandsMatchWorks' /\ OneWorkPerSlot' /\ OneStop'
    BY <1>0, QueuesStay
  <2>4. TypeOK'
    BY <1>0, <2>0, <2>1, <2>2, TypeFacts, TypeStays DEF Inv, TypeOK, Places
  <2>5. ChannelsLive'
    BY <1>0, <2>0, <2>1, <2>2, TypeFacts
    DEF Inv, ChannelsLive, Building, BuildingPreview, BuildingCapture
  <2>6. BuffersAwaited'
    BY <1>0, <1>1, <1>2, <2>1, <2>3 DEF Inv, BuffersAwaited
  <2>7. StartAwaited'
    BY <1>0, <1>1, <2>0, <2>1, <2>3, ObjectsAssumption DEF Inv, StartAwaited
  <2>8. StartPending' /\ SlotLeft'
    BY <1>0, <2>0, <2>1, <2>3 DEF Inv, StartPending, SlotLeft, Cancelling
  <2>9. NoTrouble'
    BY <1>0, <2>0, <2>1, <2>2, <2>3 DEF Inv, NoTrouble, Capturing
  <2> QED
    BY <2>3, <2>4, <2>5, <2>6, <2>7, <2>8, <2>9 DEF Inv
<1> QED
  BY <1>3, <1>4 DEF startCapture, delChannelAndFail


LEMMA cancelPictureInv == ASSUME Inv, cancelPicture PROVE Inv'
<1>0. /\ pc = "picture" /\ pc' = "cancelWait" /\ wait["stateMachine"] = "idle"
      /\ UNCHANGED <<mDeffOngoingJobs, mCmdQueue, cmd_queue, job, m_channels, pChannel,
                     object, wait, pp, fed, trouble>>
      /\ UNCHANGED <<queues, thread, channels, picture, trouble>>
  BY DEF cancelPicture, PcAt, queues, channels, picture
<1>1. /\ TypeOK' /\ OneInHand' /\ CommandsMatchWorks' /\ OneWorkPerSlot' /\ OneStop'
      /\ Pending' = Pending /\ Free' = Free
  BY <1>0, PlaceChanges, TypeFacts DEF Places
<1>2. ChannelsLive'
  BY <1>0 DEF Inv, ChannelsLive, Building, BuildingPreview, BuildingCapture
<1>3. (\A j : ~Awaited(j)) /\ \A j : ~WaitedFor(j)'
  BY <1>0 DEF Awaited, WaitedFor
<1>4. BuffersAwaited' /\ StartAwaited'
  BY <1>0, <1>1, <1>3 DEF Inv, BuffersAwaited, StartAwaited
<1>5. StartPending' /\ SlotLeft' /\ NoTrouble'
  BY <1>0, <1>1 DEF Inv, StartPending, SlotLeft, Cancelling, NoTrouble, Capturing
<1> QED
  BY <1>1, <1>2, <1>4, <1>5 DEF Inv

\* The wait is over, so the work that starts the postprocessor is done: stopping it
\* leaves nothing queued behind.
LEMMA cancelStopInv == ASSUME Inv, cancelStop PROVE Inv'
<1>0. /\ pc = "cancelStop" /\ pc' = "cancelChannel" /\ pp' = "stopped"
      /\ UNCHANGED <<mDeffOngoingJobs, mCmdQueue, cmd_queue, job, sync_sem, worker, hand,
                     m_channels, pChannel, object, wait, fed, trouble>>
  BY DEF cancelStop, PcAt, queues, thread, channels, picture
<1>1. /\ Pending' = Pending /\ Free' = Free
      /\ OneInHand' /\ CommandsMatchWorks' /\ OneWorkPerSlot' /\ OneStop'
  BY <1>0, QueuesStay
<1>2. TypeOK'
  BY <1>0, TypeFacts, TypeStays DEF Inv, TypeOK, Places
<1>3. ChannelsLive'
  BY <1>0 DEF Inv, ChannelsLive, Building, BuildingPreview, BuildingCapture
<1>4. \A j : ~Awaited(j)
  BY <1>0 DEF Awaited
<1>5. BuffersAwaited'
  <2>1. InProgress' = InProgress
    BY <1>0 DEF InProgress, Building, BuildingPreview, BuildingCapture
  <2> QED
    BY <1>0, <1>1, <1>4, <2>1 DEF Inv, BuffersAwaited
<1>6. StartAwaited' /\ NoTrouble'
  BY <1>0, <1>1 DEF Inv, StartAwaited, NoTrouble, Capturing
<1>7. StartPending' /\ SlotLeft'
  BY <1>0, <1>1 DEF Inv, StartPending, SlotLeft, Cancelling
<1> QED
  BY <1>1, <1>2, <1>3, <1>5, <1>6, <1>7 DEF Inv

LEMMA cancelChannelInv == ASSUME Inv, cancelChannel PROVE Inv'
<1>0. /\ pc = "cancelChannel" /\ pc' = "idle" /\ wait["stateMachine"] = "idle"
      /\ UNCHANGED pp /\ Joinable("CAPTURE")
      /\ m_channels' = [m_channels EXCEPT !["CAPTURE"] = NULL]
      /\ object' = Deleted(m_channels["CAPTURE"])
      /\ UNCHANGED <<mDeffOngoingJobs, mCmdQueue, cmd_queue, job, sync_sem, worker, hand,
                     pChannel, wait, fed, trouble>>
  BY DEF cancelChannel, PcAt, queues, thread, picture
<1>1. /\ m_channels' \in [{"PREVIEW", "CAPTURE"} -> Objects \cup {NULL}]
      /\ m_channels'["CAPTURE"] = NULL /\ m_channels'["PREVIEW"] = m_channels["PREVIEW"]
      /\ object' \in [Objects -> {"deleted", "live", "active"}]
      /\ \A o \in Objects : o # m_channels["CAPTURE"] => object'[o] = object[o]
      /\ m_channels["CAPTURE"] \in Objects => object'[m_channels["CAPTURE"]] = "deleted"
  BY <1>0, TypeFacts, DeletedFacts
<1>2. /\ Pending' = Pending /\ Free' = Free
      /\ OneInHand' /\ CommandsMatchWorks' /\ OneWorkPerSlot' /\ OneStop'
  BY <1>0, QueuesStay
<1>3. TypeOK'
  BY <1>0, <1>1, TypeFacts, TypeStays DEF Inv, TypeOK, Places
<1>4. ChannelsLive'
  BY <1>0, <1>1, TypeFacts
  DEF Inv, ChannelsLive, Joinable, Building, BuildingPreview, BuildingCapture
<1>5. \A j : ~Awaited(j)
  BY <1>0 DEF Awaited
<1>6. InProgress = m_channels["CAPTURE"]
  BY <1>0 DEF InProgress, Building, BuildingPreview, BuildingCapture
<1>7. \A w \in Pending : w.ch # NULL /\ w.ch # m_channels["CAPTURE"]
  BY <1>0, <1>5, <1>6, TypeFacts DEF Inv, BuffersAwaited, StartAwaited
<1>8. BuffersAwaited' /\ StartAwaited'
  BY <1>0, <1>1, <1>2, <1>5, <1>7 DEF Inv, BuffersAwaited, StartAwaited
<1>9. wait'["captureCb"] = "idle"
  BY <1>0 DEF Inv, ChannelsLive, Joinable
<1>10. StartPending' /\ SlotLeft'
  BY <1>0, <1>9 DEF StartPending, SlotLeft, Cancelling
<1>11. NoTrouble'
  BY <1>0, <1>1, <1>2, <1>7 DEF Inv, NoTrouble, Capturing
<1> QED
  BY <1>2, <1>3, <1>4, <1>8, <1>10, <1>11 DEF Inv

LEMMA enterWaitInv == ASSUME Inv, enterWait PROVE Inv'
<1>0. /\ wait["stateMachine"] = "idle" /\ wait' = [wait EXCEPT !["stateMachine"] = "entered"]
      /\ pc \in DOMAIN Waits
      /\ UNCHANGED <<mDeffOngoingJobs, mCmdQueue, cmd_queue, job, m_channels, pChannel,
                     object, pc, pp, fed, trouble>>
      /\ UNCHANGED <<queues, thread, channels, picture, trouble>>
  BY DEF enterWait, Enter, queues, channels, picture
<1>1. /\ wait' \in WaitType /\ wait'["stateMachine"] = "entered"
      /\ wait'["captureCb"] = wait["captureCb"]
  BY <1>0, TypeFacts DEF WaitType
<1>2. /\ TypeOK' /\ OneInHand' /\ CommandsMatchWorks' /\ OneWorkPerSlot' /\ OneStop'
      /\ Pending' = Pending /\ Free' = Free
  BY <1>0, <1>1, PlaceChanges, TypeFacts, WaitsFacts
<1>3. ChannelsLive'
  BY <1>0, <1>1 DEF Inv, ChannelsLive
<1>4. BuffersAwaited' /\ StartAwaited' /\ NoTrouble'
  BY <1>0, <1>1, <1>2, FewerWorks
<1>5. StartPending' /\ SlotLeft'
  BY <1>0, <1>1, <1>2 DEF Inv, StartPending, SlotLeft, Cancelling
<1> QED
  BY <1>2, <1>3, <1>4, <1>5 DEF Inv

LEMMA waitReturnsInv == ASSUME Inv, waitReturns PROVE Inv'
<1>0. /\ wait["stateMachine"] = "returned" /\ wait' = [wait EXCEPT !["stateMachine"] = "idle"]
      /\ pc \in DOMAIN Waits /\ pc' = Waits[pc].then
      /\ UNCHANGED <<mDeffOngoingJobs, mCmdQueue, cmd_queue, job, m_channels, pChannel,
                     object, pp, fed, trouble>>
      /\ UNCHANGED <<queues, thread, channels, picture, trouble>>
  BY DEF waitReturns, queues, channels, picture
<1>1. /\ wait' \in WaitType /\ wait'["stateMachine"] = "idle"
      /\ wait'["captureCb"] = wait["captureCb"]
  BY <1>0, TypeFacts DEF WaitType
<1>2. /\ <<pc, pc'>> \in {<<"previewWait", "idle">>, <<"waitSnapshot", "waitMetadata">>,
                          <<"waitMetadata", "waitRawdata">>, <<"waitRawdata", "queuePostview">>,
                          <<"waitPostview", "configCapture">>, <<"cancelWait", "cancelStop">>}
      /\ WaitedFor(Waits[pc].job) /\ \A j : ~WaitedFor(j)'
  BY <1>0, <1>1, WaitsFacts DEF WaitedFor
<1>3. /\ TypeOK' /\ OneInHand' /\ CommandsMatchWorks' /\ OneWorkPerSlot' /\ OneStop'
      /\ Pending' = Pending /\ Free' = Free
  BY <1>0, <1>1, <1>2, PlaceChanges, TypeFacts DEF Places
<1>4. ChannelsLive'
  BY <1>0, <1>1, <1>2 DEF Inv, ChannelsLive, Building, BuildingPreview, BuildingCapture
<1>5. \A j : Awaited(j) /\ ~WaitedFor(j) => Awaited(j)'
  BY <1>2, WaitsFacts DEF Awaited
<1>6. pc # "previewWait" => InProgress' = InProgress
  BY <1>0, <1>2 DEF InProgress, Building, BuildingPreview, BuildingCapture
<1>7. BuffersAwaited'
  <2>1. pc = "previewWait" => \A j : ~(Awaited(j) /\ ~WaitedFor(j))
    BY <1>2, WaitsFacts DEF Awaited
  <2> QED
    BY <1>0, <1>2, <1>3, <1>5, <1>6, <2>1 DEF Inv, BuffersAwaited
<1>8. StartAwaited'
  BY <1>0, <1>2, <1>3, WaitsFacts DEF Inv, StartAwaited
<1>9. StartPending' /\ SlotLeft'
  BY <1>0, <1>1, <1>2, <1>3 DEF Inv, StartPending, SlotLeft, Cancelling
<1>10. NoTrouble'
  BY <1>0, <1>2, <1>3 DEF Inv, NoTrouble, Capturing
<1> QED
  BY <1>3, <1>4, <1>7, <1>8, <1>9, <1>10 DEF Inv

LEMMA ClosingInv ==
  ASSUME Inv, stopDataProc \/ exitThread \/ joined
  PROVE Inv'
<1>0. /\ <<pc, pc'>> \in {<<"idle", "closing">>, <<"closing", "joining">>, <<"joining", "closed">>}
      /\ UNCHANGED <<mDeffOngoingJobs, mCmdQueue, job, worker, hand, m_channels, pChannel,
                     object, wait, pp, fed, trouble>>
  BY DEF stopDataProc, exitThread, joined, PcAt, queues, thread, channels, picture
<1>1. cmd_queue' \in Seq(Commands) /\ CommandsMatchWorks' /\ sync_sem' \in 0..1 /\ OneStop'
  <2>0. cmd_queue \in Seq(Commands) /\ sync_sem \in 0..1 /\ Len(cmd_queue) \in Nat
    BY DEF Inv, TypeOK, Commands
  <2>1. CASE stopDataProc
    <3>1. cmd_queue' = <<"STOP_DATA_PROC">> \o cmd_queue /\ UNCHANGED sync_sem
          /\ pc = "idle" /\ pc' = "closing"
      BY <2>1 DEF stopDataProc, thread, PcAt
    <3>2. /\ cmd_queue' \in Seq(Commands) /\ CommandsMatchWorks'
          /\ Len(cmd_queue') = Len(cmd_queue) + 1
          /\ \A i \in 2..Len(cmd_queue') : cmd_queue'[i] = cmd_queue[i - 1]
      BY <1>0, <3>1, CommandsPrepend DEF Commands
    <3>3. sync_sem = 0 /\ \A i \in 1..Len(cmd_queue) : cmd_queue[i] # "STOP_DATA_PROC"
      BY <2>0, <3>1 DEF Inv, OneStop
    <3>4. \A i \in 1..Len(cmd_queue') : cmd_queue'[i] = "STOP_DATA_PROC" => i = 1
      BY <2>0, <3>2, <3>3
    <3> QED
      BY <2>0, <3>1, <3>2, <3>3, <3>4 DEF OneStop
  <2>2. CASE exitThread
    <3>1. cmd_queue' = <<"EXIT">> \o cmd_queue /\ sync_sem = 1 /\ sync_sem' = 0
          /\ pc = "closing"
      BY <2>0, <2>2 DEF exitThread
    <3>2. /\ cmd_queue' \in Seq(Commands) /\ CommandsMatchWorks'
          /\ Len(cmd_queue') = Len(cmd_queue) + 1 /\ cmd_queue'[1] = "EXIT"
          /\ \A i \in 2..Len(cmd_queue') : cmd_queue'[i] = cmd_queue[i - 1]
      BY <1>0, <3>1, CommandsPrepend DEF Commands
    <3>3. \A i \in 1..Len(cmd_queue) : cmd_queue[i] # "STOP_DATA_PROC"
      BY <3>1 DEF Inv, OneStop
    <3>4. \A i \in 1..Len(cmd_queue') : cmd_queue'[i] # "STOP_DATA_PROC"
      BY <2>0, <3>2, <3>3
    <3> QED
      BY <3>1, <3>2, <3>4 DEF OneStop
  <2>3. CASE joined
    <3>1. UNCHANGED <<cmd_queue, sync_sem>> /\ pc = "joining"
      BY <2>3 DEF joined, queues, thread
    <3> QED
      BY <1>0, <2>0, <3>1 DEF Inv, OneStop, CommandsMatchWorks
  <2> QED
    BY <2>1, <2>2, <2>3
<1>2. Pending' = Pending /\ Free' = Free /\ OneInHand' /\ OneWorkPerSlot'
  BY <1>0 DEF Pending, Free, Inv, OneInHand, OneWorkPerSlot
<1>3. TypeOK'
  BY <1>0, <1>1, WaitsFacts DEF Inv, TypeOK, Commands
<1>4. ChannelsLive'
  BY <1>0 DEF Inv, ChannelsLive, Building, BuildingPreview, BuildingCapture
<1>5. (\A j : ~Awaited(j)) /\ InProgress' = InProgress
  BY <1>0 DEF Awaited, InProgress, Building, BuildingPreview, BuildingCapture
<1>6. BuffersAwaited' /\ StartAwaited'
  BY <1>0, <1>2, <1>5 DEF Inv, BuffersAwaited, StartAwaited
<1>7. StartPending' /\ SlotLeft' /\ NoTrouble'
  BY <1>0, <1>2 DEF Inv, StartPending, SlotLeft, Cancelling, NoTrouble, Capturing
<1> QED
  BY <1>1, <1>2, <1>3, <1>4, <1>6, <1>7 DEF Inv


\* Where addStreamToChannel stands and goes to.
StreamPlaces ==
    {<<"previewMetadata", "previewPreview", "idle">>,
     <<"previewPreview", "previewAdded", "idle">>,
     <<"captureMetadata", "capturePostview", "stopPreview">>,
     <<"capturePostview", "captureSnapshot", "stopPreview">>,
     <<"captureSnapshot", "captureRaw", "stopPreview">>,
     <<"captureSnapshot", "captureAdded", "stopPreview">>,
     <<"captureRaw", "captureAdded", "stopPreview">>}

LEMMA addStreamToChannelInv == ASSUME Inv, addStreamToChannel PROVE Inv'
<1> DEFINE s == DeferredStreams[pc]
<1>0. /\ pc \in DOMAIN DeferredStreams /\ wait["stateMachine"] = "idle"
      /\ UNCHANGED <<sync_sem, worker, hand, wait, pp, fed>>
  BY DEF addStreamToChannel, PcAt, thread, picture
<1>1. /\ pc \in Building /\ pc # "closing"
      /\ <<pc, s.then, s.failed>> \in StreamPlaces
      /\ s.job \in Jobs => \/ pc \in {"previewMetadata", "captureMetadata"} /\ s.job = "mMetadataJob"
                           \/ pc = "captureSnapshot" /\ s.job = "mSnapshotJob"
                           \/ pc = "captureRaw" /\ s.job = "mRawdataJob"
      /\ pc \in {"previewPreview", "capturePostview"} => s.job \notin Jobs
      /\ s.job \notin Jobs => pc \in {"previewPreview", "capturePostview"}
  BY <1>0, StreamsFacts
  DEF Building, BuildingPreview, BuildingCapture, StreamPlaces, PreviewStreams, CaptureStreams, Jobs
<1>2. InProgress = pChannel /\ pChannel \in Objects /\ object[pChannel] # "deleted"
  BY <1>1, TypeFacts DEF InProgress, Inv, ChannelsLive
<1>3. \A j : ~WaitedFor(j)'
  BY <1>0 DEF WaitedFor
<1> HIDE DEF s
<1>9. ~Cancelling
  BY <1>1 DEF Cancelling, Building, BuildingPreview, BuildingCapture
<1>4. ASSUME pc' = s.then, UNCHANGED <<queues, channels, trouble>>, s.job \notin Jobs
      PROVE Inv'
  <2>1. /\ UNCHANGED <<mDeffOngoingJobs, mCmdQueue, cmd_queue, job, m_channels, pChannel,
                       object, trouble>>
        /\ UNCHANGED <<queues, thread, channels, picture, trouble>>
    BY <1>0, <1>4 DEF queues, channels, thread, picture
  <2>2. /\ TypeOK' /\ OneInHand' /\ CommandsMatchWorks' /\ OneWorkPerSlot' /\ OneStop'
        /\ Pending' = Pending /\ Free' = Free
    BY <1>0, <1>1, <1>4, <2>1, PlaceChanges, TypeFacts
    DEF Places, StreamPlaces, PreviewStreams, CaptureStreams
  <2>3. pc' \in Building /\ \A j : Awaited(j) => Awaited(j)'
    BY <1>1, <1>4 DEF StreamPlaces, Building, BuildingPreview, BuildingCapture, Awaited
  <2>4. ChannelsLive'
    BY <1>1, <2>1, <2>3, <1>0
    DEF Inv, ChannelsLive, Building, BuildingPreview, BuildingCapture
  <2>5. InProgress' = pChannel
    BY <2>1, <2>3 DEF InProgress
  <2>6. BuffersAwaited'
    BY <1>2, <1>3, <2>1, <2>2, <2>3, <2>5 DEF Inv, BuffersAwaited
  <2>7. StartAwaited'
    BY <1>1, <2>1, <2>2 DEF Inv, StartAwaited, Building, BuildingPreview, BuildingCapture
  <2>8. StartPending' /\ SlotLeft' /\ NoTrouble'
    BY <1>0, <1>9, <2>1, <2>2, <2>3
    DEF Inv, StartPending, SlotLeft, Cancelling, NoTrouble, Capturing, Building, BuildingPreview,
        BuildingCapture
  <2> QED
    BY <2>2, <2>4, <2>6, <2>7, <2>8 DEF Inv
<1>5. ASSUME pc' = s.then, UNCHANGED <<channels, trouble>>, s.job \in Jobs, job'[s.job] # -1,
             queueDefferedWork(s.job, "ALLOCATE_BUFF", pChannel)
      PROVE Inv'
  <2>1. UNCHANGED <<m_channels, pChannel, object, trouble>>
    BY <1>5 DEF channels
  <2>2. /\ mDeffOngoingJobs' \in [Slots -> BOOLEAN]
        /\ mCmdQueue' \in Seq(Work) /\ cmd_queue' \in Seq(Commands)
        /\ job' \in [Jobs -> -1..MAX_ONGOING_JOBS]
        /\ \A k \in Jobs \ {s.job} : job'[k] = job[k]
        /\ CommandsMatchWorks' /\ OneWorkPerSlot' /\ OneStop'
        /\ \A w \in Pending' : \/ w \in Pending
                               \/ /\ w.cmd = "ALLOCATE_BUFF" /\ w.ch = pChannel
                                  /\ w.id = job'[s.job]
    BY <1>0, <1>1, <1>2, <1>5, Queued
  <2>. PICK own : own = s.job
    OBVIOUS
  <2>3. /\ pc' \in Building /\ Awaited(own)'
        /\ \A j : Awaited(j) => j # s.job /\ Awaited(j)'
    <3>1. <<pc, pc'>> \in {<<"previewMetadata", "previewPreview">>,
                           <<"captureMetadata", "capturePostview">>,
                           <<"captureSnapshot", "captureRaw">>,
                           <<"captureSnapshot", "captureAdded">>,
                           <<"captureRaw", "captureAdded">>}
      BY <1>1, <1>5 DEF StreamPlaces
    <3>2. pc' \in Building
      BY <3>1 DEF Building, BuildingPreview, BuildingCapture
    <3>3. Awaited(own)'
      BY <1>1, <1>5, <3>1 DEF Awaited
    <3>4. \A j : Awaited(j) => j # s.job /\ Awaited(j)'
      BY <1>1, <1>5, <3>1 DEF Awaited
    <3> QED
      BY <3>2, <3>3, <3>4
  <2>4. TypeOK' /\ OneInHand'
    BY <1>0, <2>1, <2>2, <2>3, StreamsFacts
    DEF Inv, TypeOK, OneInHand, Commands, Building, BuildingPreview, BuildingCapture,
        PreviewStreams, CaptureStreams
  <2>5. ChannelsLive'
    BY <1>0, <1>1, <2>1, <2>3 DEF Inv, ChannelsLive, Building, BuildingPreview, BuildingCapture
  <2>6. InProgress' = pChannel
    BY <2>1, <2>3 DEF InProgress
  <2>7. BuffersAwaited'
    <3> SUFFICES ASSUME NEW w \in Pending', w.cmd = "ALLOCATE_BUFF",
                        w.ch \in {NULL, pChannel, m_channels["PREVIEW"], m_channels["CAPTURE"]}
                 PROVE w.ch = pChannel /\ \E j \in Jobs : Awaited(j)' /\ job'[j] = w.id
      BY <1>3, <2>1, <2>6 DEF BuffersAwaited
    <3>1. CASE w \in Pending
      <4>1. w.ch = pChannel /\ \E j \in Jobs : Awaited(j) /\ job[j] = w.id
        BY <1>2, <3>1 DEF Inv, BuffersAwaited
      <4> QED
        BY <2>2, <2>3, <4>1
    <3>2. CASE w \notin Pending
      <4>1. w.ch = pChannel /\ job'[s.job] = w.id
        BY <2>2, <3>2
      <4> QED
        BY <1>5, <2>3, <4>1
    <3> QED
      BY <3>1, <3>2
  <2>8. StartAwaited'
    BY <1>1, <2>1, <2>2 DEF Inv, StartAwaited, Building, BuildingPreview, BuildingCapture
  <2>9. StartPending' /\ SlotLeft'
    BY <1>0, <1>9, <2>3
    DEF Inv, StartPending, SlotLeft, Cancelling, Building, BuildingPreview, BuildingCapture
  <2>10. NoTrouble'
    BY <1>2, <2>1, <2>2, <2>3
    DEF Inv, NoTrouble, Capturing, Building, BuildingPreview, BuildingCapture
  <2> QED
    BY <2>2, <2>4, <2>5, <2>7, <2>8, <2>9, <2>10 DEF Inv
<1>6. ASSUME dropChannel(s.failed),
             UNCHANGED <<mDeffOngoingJobs, mCmdQueue, cmd_queue>>,
             job' \in [Jobs -> -1..MAX_ONGOING_JOBS]
      PROVE Inv'
  <2>1. /\ object' = Deleted(pChannel) /\ pChannel' = NULL /\ trouble' = TRUE
        /\ pc' \in {"idle", "stopPreview"} /\ UNCHANGED m_channels
    BY <1>1, <1>6 DEF dropChannel, StreamPlaces
  <2>2. /\ object' \in [Objects -> {"deleted", "live", "active"}]
        /\ \A o \in Objects : o # pChannel => object'[o] = object[o]
        /\ object'[pChannel] = "deleted"
    BY <1>2, <2>1, DeletedFacts
  <2>3. /\ Pending' = Pending /\ Free' = Free
        /\ OneInHand' /\ CommandsMatchWorks' /\ OneWorkPerSlot' /\ OneStop'
    BY <1>0, <1>1, <1>6, QueuesStay
  <2>4. TypeOK'
    BY <1>0, <1>6, <2>1, <2>2, TypeFacts, TypeStays DEF Inv, TypeOK, Places
  <2>5. ChannelsLive'
    BY <1>0, <1>1, <1>2, <2>1, <2>2, TypeFacts
    DEF Inv, ChannelsLive, Building, BuildingPreview, BuildingCapture
  <2>6. \A w \in Pending' : w.cmd = "ALLOCATE_BUFF" =>
           w.ch \notin {NULL, m_channels["PREVIEW"], m_channels["CAPTURE"]}
    BY <1>2, <2>3, TypeFacts DEF Inv, BuffersAwaited, ChannelsLive
  <2>7. BuffersAwaited'
    BY <2>1, <2>6 DEF BuffersAwaited
  <2>8. StartAwaited'
    BY <1>1, <2>1, <2>3, TypeFacts
    DEF Inv, StartAwaited, Building, BuildingPreview, BuildingCapture
  <2>9. StartPending' /\ SlotLeft' /\ NoTrouble'
    BY <1>0, <1>9, <2>1, <2>3 DEF Inv, StartPending, SlotLeft, Cancelling, NoTrouble
  <2> QED
    BY <2>3, <2>4, <2>5, <2>7, <2>8, <2>9 DEF Inv
<1>7. ASSUME s.job \in Jobs, job'[s.job] = -1,
             queueDefferedWork(s.job, "ALLOCATE_BUFF", pChannel)
      PROVE /\ UNCHANGED <<mDeffOngoingJobs, mCmdQueue, cmd_queue>>
            /\ job' \in [Jobs -> -1..MAX_ONGOING_JOBS]
  BY <1>0, <1>2, <1>7, Queued, SlotFacts
<1>8. UNCHANGED queues => /\ UNCHANGED <<mDeffOngoingJobs, mCmdQueue, cmd_queue>>
                          /\ job' \in [Jobs -> -1..MAX_ONGOING_JOBS]
  BY TypeFacts DEF queues
<1> QED
  BY <1>4, <1>5, <1>6, <1>7, <1>8 DEF addStreamToChannel, s

-----------------------------------------------------------------------------
(* waitDefferedWork *)

\* Who gets out of a wait has seen the slot of its job free, or had none.
LEMMA TryWaitFacts ==
  ASSUME Inv, NEW t \in Threads, NEW j \in Jobs, tryWait(t, j)
  PROVE /\ wait' \in WaitType /\ job' \in [Jobs -> -1..MAX_ONGOING_JOBS]
        /\ wait[t] \in {"entered", "woken"} /\ wait'[t] \in {"blocked", "returned"}
        /\ \A u \in Threads \ {t} : wait'[u] = wait[u]
        /\ \A k \in Jobs : job'[k] = job[k] \/ (k = j /\ job'[k] = MAX_ONGOING_JOBS)
        /\ wait'[t] = "blocked" => job' = job /\ (wait[t] = "entered" => job[j] \in Slots)
        /\ wait'[t] = "returned" => \A w \in Pending : w.id # job[j]
        /\ wait'[t] = "returned" =>
              \/ job'[j] = job[j] /\ job[j] \notin Slots /\ wait[t] = "entered"
              \/ job[j] \in Slots /\ ~mDeffOngoingJobs[job[j]]
              \/ job[j] \notin Slots /\ wait[t] = "woken"
        /\ \A w \in Pending, k \in Jobs : job[k] = w.id => job'[k] = w.id
<1>0. wait \in WaitType /\ job \in [Jobs -> -1..MAX_ONGOING_JOBS]
  BY TypeFacts
<1>1. \A w \in Pending : w.id \in Slots /\ mDeffOngoingJobs[w.id] = TRUE
  BY PendingFacts
<1>2. MAX_ONGOING_JOBS \in -1..MAX_ONGOING_JOBS
  BY SlotFacts
<1>3. CASE /\ wait[t] = "entered" /\ job[j] \notin Slots
           /\ wait' = [wait EXCEPT ![t] = "returned"] /\ UNCHANGED job
  BY <1>0, <1>1, <1>3 DEF WaitType
<1>4. CASE /\ wait[t] \in {"entered", "woken"} /\ (wait[t] = "entered" => job[j] \in Slots)
           /\ ongoing(j) /\ wait' = [wait EXCEPT ![t] = "blocked"] /\ UNCHANGED job
  BY <1>0, <1>1, <1>4 DEF WaitType
<1>5. CASE /\ wait[t] \in {"entered", "woken"} /\ (wait[t] = "entered" => job[j] \in Slots)
           /\ ~ongoing(j) /\ wait' = [wait EXCEPT ![t] = "returned"]
           /\ job' = [job EXCEPT ![j] = MAX_ONGOING_JOBS]
  <2>1. \A w \in Pending : w.id # job[j]
    BY <1>1, <1>5 DEF ongoing
  <2>2. job[j] \in Slots => ~mDeffOngoingJobs[job[j]]
    BY <1>5 DEF ongoing
  <2> QED
    BY <1>0, <1>2, <1>5, <2>1, <2>2 DEF WaitType
<1> QED
  BY <1>3, <1>4, <1>5 DEF tryWait

LEMMA waitStateMachineInv ==
  ASSUME Inv, pc \in DOMAIN Waits, waitDefferedWork("stateMachine", Waits[pc].job)
  PROVE Inv'
<1> DEFINE j == Waits[pc].job
<1>0. /\ UNCHANGED <<mDeffOngoingJobs, mCmdQueue, cmd_queue, sync_sem, worker, hand,
                     m_channels, pChannel, object, pc, pp, fed, trouble>>
      /\ tryWait("stateMachine", j) /\ j \in Jobs
  BY WaitsFacts DEF waitDefferedWork, thread, channels, picture
<1> HIDE DEF j
<1>1. /\ wait' \in WaitType /\ job' \in [Jobs -> -1..MAX_ONGOING_JOBS]
      /\ wait["stateMachine"] \in {"entered", "woken"}
      /\ wait'["stateMachine"] \in {"blocked", "returned"}
      /\ wait'["captureCb"] = wait["captureCb"]
      /\ \A k \in Jobs : job'[k] = job[k] \/ (k = j /\ job'[k] = MAX_ONGOING_JOBS)
      /\ wait'["stateMachine"] = "blocked" =>
            job' = job /\ (wait["stateMachine"] = "entered" => job[j] \in Slots)
      /\ wait'["stateMachine"] = "returned" => \A w \in Pending : w.id # job[j]
      /\ wait'["stateMachine"] = "returned" =>
            \/ job'[j] = job[j] /\ job[j] \notin Slots /\ wait["stateMachine"] = "entered"
            \/ job[j] \in Slots /\ ~mDeffOngoingJobs[job[j]]
            \/ job[j] \notin Slots /\ wait["stateMachine"] = "woken"
      /\ \A w \in Pending, k \in Jobs : job[k] = w.id => job'[k] = w.id
  BY <1>0, TryWaitFacts DEF Threads
<1>2. /\ Pending' = Pending /\ Free' = Free
      /\ OneInHand' /\ CommandsMatchWorks' /\ OneWorkPerSlot' /\ OneStop'
  BY <1>0, QueuesStay
<1>3. TypeOK'
  BY <1>0, <1>1, TypeFacts, TypeStays DEF Inv, TypeOK
<1>4. ChannelsLive'
  BY <1>0, <1>1 DEF Inv, ChannelsLive
<1>5. \A k : (Awaited(k)' <=> Awaited(k)) /\ InProgress' = InProgress
  BY <1>0 DEF Awaited, InProgress
<1>6. \A w \in Pending, k \in Jobs : job[k] = w.id => job'[k] = w.id /\ ~WaitedFor(k)'
  BY <1>0, <1>1, <1>2 DEF WaitedFor, j
<1>7. BuffersAwaited'
  BY <1>0, <1>2, <1>5, <1>6 DEF Inv, BuffersAwaited
<1>8. StartAwaited'
  BY <1>0, <1>2, <1>6 DEF Inv, StartAwaited, Jobs
<1>9. StartPending'
  BY <1>0, <1>1, <1>2, <1>6 DEF Inv, StartPending, Cancelling, Jobs
<1>10. NoTrouble'
  BY <1>0, <1>2 DEF Inv, NoTrouble
<1>11. SlotLeft'
  <2>1. CASE pc # "waitPostview"
    BY <1>0, <1>2, <2>1, WaitsFacts DEF SlotLeft
  <2>2. CASE pc = "waitPostview"
    <3>1. j = "mPostviewJob" /\ j \in Jobs
      BY <1>0, <2>2, WaitsFacts DEF j
    <3>2. CASE wait'["stateMachine"] = "blocked"
      BY <1>0, <1>1, <2>2, <3>1, <3>2 DEF Inv, SlotLeft
    <3>3. CASE wait'["stateMachine"] = "returned"
      <4>1. job'[j] # -1 => job[j] \in Slots /\ ~mDeffOngoingJobs[job[j]]
        <5>1. job[j] \in -1..MAX_ONGOING_JOBS
          BY <3>1, TypeFacts
        <5>2. job[j] \notin Slots => job[j] \in {-1, MAX_ONGOING_JOBS}
          BY <5>1, DeferredWorkAssumption DEF Slots
        <5> QED
          BY <1>1, <2>2, <3>1, <3>3, <5>2 DEF Inv, SlotLeft
      <4>2. job'[j] # -1 => Free # {}
        BY <4>1 DEF Free
      <4> QED
        BY <1>0, <1>2, <2>2, <3>1, <3>3, <4>2 DEF SlotLeft
    <3> QED
      BY <1>1, <3>2, <3>3
  <2> QED
    BY <2>1, <2>2
<1> QED
  BY <1>2, <1>3, <1>4, <1>7, <1>8, <1>9, <1>10, <1>11 DEF Inv

LEMMA waitCaptureCbInv ==
  ASSUME Inv, waitDefferedWork("captureCb", "mReprocJob")
  PROVE Inv'
<1>0. /\ UNCHANGED <<mDeffOngoingJobs, mCmdQueue, cmd_queue, sync_sem, worker, hand,
                     m_channels, pChannel, object, pc, pp, fed, trouble>>
      /\ tryWait("captureCb", "mReprocJob") /\ "mReprocJob" \in Jobs
  BY DEF waitDefferedWork, thread, channels, picture, Jobs
<1>1. /\ wait' \in WaitType /\ job' \in [Jobs -> -1..MAX_ONGOING_JOBS]
      /\ wait["captureCb"] \in {"entered", "woken"}
      /\ wait'["stateMachine"] = wait["stateMachine"]
      /\ \A k \in Jobs \ {"mReprocJob"} : job'[k] = job[k]
      /\ wait'["captureCb"] = "returned" => \A w \in Pending : w.id # job["mReprocJob"]
      /\ \A w \in Pending, k \in Jobs : job[k] = w.id => job'[k] = w.id
  BY <1>0, TryWaitFacts DEF Threads
<1>2. /\ Pending' = Pending /\ Free' = Free
      /\ OneInHand' /\ CommandsMatchWorks' /\ OneWorkPerSlot' /\ OneStop'
  BY <1>0, QueuesStay
<1>3. TypeOK'
  BY <1>0, <1>1, TypeFacts, TypeStays DEF Inv, TypeOK
<1>4. ChannelsLive'
  BY <1>0, <1>1 DEF Inv, ChannelsLive
<1>5. \A k : /\ Awaited(k)' <=> Awaited(k)
             /\ WaitedFor(k)' <=> WaitedFor(k)
             /\ InProgress' = InProgress
  BY <1>0, <1>1 DEF Awaited, InProgress, WaitedFor
<1>6. BuffersAwaited'
  BY <1>0, <1>1, <1>2, <1>5 DEF Inv, BuffersAwaited
<1>7. StartAwaited'
  BY <1>0, <1>1, <1>2, <1>5 DEF Inv, StartAwaited
<1>8. pc \in {"picture", "cancelWait", "cancelStop", "cancelChannel"}
  BY <1>1, TypeFacts DEF Inv, ChannelsLive
<1>9. StartPending'
  BY <1>0, <1>1, <1>2, <1>8 DEF Inv, StartPending, Cancelling
<1>10. NoTrouble' /\ SlotLeft'
  BY <1>0, <1>2, <1>8 DEF Inv, NoTrouble, SlotLeft
<1> QED
  BY <1>2, <1>3, <1>4, <1>6, <1>7, <1>9, <1>10 DEF Inv

\* Nothing but a wait changes: the state machine's is not over yet.
LEMMA WaitChanges ==
  ASSUME Inv, UNCHANGED <<queues, thread, channels, pc, pp, trouble>>, fed' \in BOOLEAN,
         wait' \in WaitType,
         \/ wait'["stateMachine"] = wait["stateMachine"]
         \/ wait["stateMachine"] = "blocked" /\ wait'["stateMachine"] = "woken",
         wait'["captureCb"] # "idle" =>
             m_channels["CAPTURE"] # NULL /\ object[m_channels["CAPTURE"]] = "active",
         wait'["captureCb"] = "returned" => wait["captureCb"] = "returned"
  PROVE Inv'
<1>0. UNCHANGED <<mDeffOngoingJobs, mCmdQueue, cmd_queue, job, sync_sem, worker, hand,
                  m_channels, pChannel, object>>
  BY DEF queues, thread, channels
<1>1. /\ Pending' = Pending /\ Free' = Free
      /\ OneInHand' /\ CommandsMatchWorks' /\ OneWorkPerSlot' /\ OneStop'
  BY <1>0, QueuesStay
<1>2. TypeOK'
  BY <1>0, TypeFacts, TypeStays DEF Inv, TypeOK
<1>3. ChannelsLive'
  BY <1>0 DEF Inv, ChannelsLive
<1>4. BuffersAwaited' /\ StartAwaited' /\ NoTrouble'
  BY <1>0, <1>1, FewerWorks
<1>5. StartPending' /\ SlotLeft'
  BY <1>0, <1>1 DEF Inv, StartPending, SlotLeft, Cancelling
<1> QED
  BY <1>1, <1>2, <1>3, <1>4, <1>5 DEF Inv

LEMMA callbackInv ==
  ASSUME Inv, \/ frameArrives \/ processData \/ \E t \in Threads : spuriousWakeup(t)
  PROVE Inv'
<1>0. wait \in WaitType /\ {"stateMachine", "captureCb"} = Threads /\ fed \in BOOLEAN
  BY TypeFacts DEF Inv, TypeOK
<1>1. CASE frameArrives
  <2>1. wait' = [wait EXCEPT !["captureCb"] = "entered"]
    BY <1>1 DEF frameArrives, Enter
  <2> QED
    BY <1>0, <1>1, <2>1, WaitChanges DEF frameArrives, WaitType, picture
<1>2. CASE processData
  BY <1>0, <1>2, WaitChanges DEF processData, WaitType
<1>3. ASSUME NEW t \in Threads, spuriousWakeup(t) PROVE Inv'
  <2>1. wait' \in WaitType /\ \A u \in Threads : wait'[u] = wait[u] \/
           (wait[u] = "blocked" /\ wait'[u] = "woken")
    BY <1>0, <1>3 DEF spuriousWakeup, WaitType
  <2>2. wait'["captureCb"] # "idle" =>
           m_channels["CAPTURE"] # NULL /\ object[m_channels["CAPTURE"]] = "active"
    BY <1>0, <2>1 DEF Inv, ChannelsLive
  <2> QED
    BY <1>0, <1>3, <2>1, <2>2, WaitChanges DEF spuriousWakeup, picture
<1> QED
  BY <1>1, <1>2, <1>3

-----------------------------------------------------------------------------
(* The theorems *)

LEMMA InitInv == Init => Inv
<1> SUFFICES ASSUME Init PROVE Inv
  OBVIOUS
<1> USE DEF Init
<1>1. /\ cmd_queue \in Seq(Commands) /\ Len(cmd_queue) = 1
      /\ cmd_queue[1] = "START_DATA_PROC" /\ mCmdQueue \in Seq(Work) /\ Len(mCmdQueue) = 0
      /\ DOMAIN mCmdQueue = {}
  BY DEF Commands
<1>2. Pending = {}
  BY <1>1 DEF Pending, Range
<1>3. TypeOK
  <2>1. -1 \in -1..MAX_ONGOING_JOBS
    BY SlotFacts
  <2>2. job \in [Jobs -> -1..MAX_ONGOING_JOBS] /\ sync_sem \in 0..1
    BY <2>1
  <2>3. hand \subseteq Work /\ Cardinality(hand) <= 1
    BY EmptyHand
  <2>4. wait \in WaitType
    BY DEF WaitType
  <2> QED
    BY <1>1, <2>2, <2>3, <2>4 DEF TypeOK, Commands, WaitType
<1>4. CommandsMatchWorks
  <2>1. \A i \in 1..1 : cmd_queue[i] # "DO_NEXT_JOB"
    BY <1>1
  <2>2. \A i \in (1 + 1)..Len(cmd_queue) : cmd_queue[i] = "DO_NEXT_JOB"
    BY <1>1
  <2> QED
    BY <1>1, <2>1, <2>2 DEF CommandsMatchWorks
<1>5. OneInHand /\ OneStop /\ OneWorkPerSlot
  BY <1>1, <1>2 DEF OneInHand, OneStop, OneWorkPerSlot
<1>6. ChannelsLive
  BY DEF ChannelsLive, Threads, Building, BuildingPreview, BuildingCapture
<1>7. BuffersAwaited /\ StartAwaited /\ StartPending /\ NoTrouble /\ SlotLeft
  BY <1>2 DEF BuffersAwaited, StartAwaited, StartPending, NoTrouble, SlotLeft, Capturing,
              Threads
<1> QED
  BY <1>3, <1>4, <1>5, <1>6, <1>7 DEF Inv

LEMMA NextInv == Inv /\ [Next]_vars => Inv'
<1> SUFFICES ASSUME Inv, [Next]_vars PROVE Inv'
  OBVIOUS
<1>1. CASE defferedWorkRoutine
  BY <1>1, getCmdInv, allocateBuffersInv, pprocStartInv, pprocRefusedInv, delCaptureChannelInv
  DEF defferedWorkRoutine
<1>2. CASE goOn
  <2>1. CASE channelAdded("previewAdded", "PREVIEW", "previewWait")
    BY <2>1, channelAddedInv
  <2>2. CASE channelAdded("captureAdded", "CAPTURE", "stopPreview")
    BY <2>2, channelAddedInv
  <2> QED
    BY <1>2, <2>1, <2>2, addStreamToChannelInv, stopPreviewInv, queuePostviewInv,
       configCaptureInv, startCaptureInv, cancelStopInv, cancelChannelInv, enterWaitInv,
       waitReturnsInv,
       ClosingInv, waitStateMachineInv
    DEF goOn
<1>3. CASE deliver
  BY <1>3, waitCaptureCbInv, callbackInv DEF deliver
<1>4. CASE \/ addPreviewChannel \/ takePicture \/ (PcAt("idle") /\ stopPreview)
           \/ cancelPicture \/ stopDataProc \/ frameArrives
           \/ \E t \in Threads : spuriousWakeup(t)
  BY <1>4, addPreviewChannelInv, takePictureInv, stopPreviewInv, cancelPictureInv, ClosingInv,
     callbackInv
<1>5. CASE UNCHANGED vars
  <2>1. /\ UNCHANGED <<queues, thread, channels, pc, pp, trouble>> /\ UNCHANGED fed
        /\ UNCHANGED wait
    BY <1>5 DEF vars, picture
  <2> QED
    BY <2>1, WaitChanges, TypeFacts DEF Inv, TypeOK, ChannelsLive
<1> QED
  BY <1>1, <1>2, <1>3, <1>4, <1>5 DEF Next

\* The invariant holds in every state that is reached.
THEOREM Invariant == Spec => []Inv
<1> QED
  BY InitInv, NextInv, PTL DEF Spec

\* Every variable keeps its type: above all, a slot's number never leaves the
\* slots, and the worker has one work in hand at most.
THEOREM TypeCorrect == Spec => []TypeOK
<1>1. Inv => TypeOK
  BY DEF Inv
<1> QED
  BY <1>1, Invariant, PTL

\* A slot of mDeffOngoingJobs belongs to one unfinished work at most, and
\* that of an unfinished work is taken.
THEOREM SlotsCorrect == Spec => []OneWorkPerSlot
<1>1. Inv => OneWorkPerSlot
  BY DEF Inv
<1> QED
  BY <1>1, Invariant, PTL

\* takePicture() configures and starts the capture channel after all its
\* buffers have been allocated; and as long as no call has failed, no
\* channel is deleted before the works queued for it are done.
THEOREM UseCorrect == Spec => []WorkPrecedesUse
<1>1. Inv => BuffersBeforeStart
  <2> SUFFICES ASSUME Inv, pc \in {"configCapture", "startCapture", "picture"},
                      NEW w \in Pending, w.cmd = "ALLOCATE_BUFF",
                      w.ch = m_channels["CAPTURE"]
               PROVE FALSE
    BY DEF BuffersBeforeStart
  <2>1. \E j \in Jobs : Awaited(j)
    BY DEF Inv, BuffersAwaited
  <2> QED
    BY <2>1 DEF Awaited
<1>2. Inv => WorkPrecedesUse
  BY <1>1 DEF Inv, NoTrouble, WorkPrecedesUse
<1> QED
  BY <1>2, Invariant, PTL

\* capture_channel_cb_routine passes the first frame of a picture on when the start of
\* the postprocessor is over, however the frame, the deferred start and a cancellation
\* cross; a postprocessor that is stopped is one that cancelPicture() has stopped again
\* while its channel still streams.
THEOREM FrameCorrect == Spec => FrameMeetsPostprocessor
<1>1. Inv /\ [Next]_vars => [~fed /\ fed' => pp # "stopped" \/ Cancelling]_vars
  <2> SUFFICES ASSUME Inv, Next, ~fed, fed'
               PROVE pp # "stopped" \/ Cancelling
    BY DEF vars
  <2>1. ~UNCHANGED fed
    OBVIOUS
  <2>2. processData
    <3>1. ~takePicture
      BY DEF takePicture
    <3>2. ~defferedWorkRoutine
      BY <2>1 DEF defferedWorkRoutine, getCmd, allocateBuffers, pprocStart, pprocRefused,
                  delCaptureChannel, picture
    <3>3. ~goOn
      BY <2>1 DEF goOn, addStreamToChannel, channelAdded, stopPreview, queuePostview,
                  configCapture, startCapture, cancelStop, cancelChannel, enterWait,
                  waitReturns, exitThread, joined, waitDefferedWork, picture
    <3> QED
      BY <2>1, <3>1, <3>2, <3>3
      DEF Next, deliver, waitDefferedWork, addPreviewChannel, stopPreview, cancelPicture,
          stopDataProc, frameArrives, spuriousWakeup, picture
  <2> QED
    BY <2>2 DEF processData, Inv, StartPending
<1> QED
  BY <1>1, Invariant, PTL DEF Spec, FrameMeetsPostprocessor

=============================================================================
