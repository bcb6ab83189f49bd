--------------------------- MODULE Channels_proofs ---------------------------
(***************************************************************************)
(* Proofs about three parts of mm-camera-interface, for every choice of    *)
(* their constants: the thread that polls the streams of a channel         *)
(* (MmPoll), the locks and counts of the cameras (MmCamera), and how       *)
(* channels are started and stopped (MmChannel).                           *)
(***************************************************************************)
EXTENDS MmPoll, MmCamera, MmChannel, FiniteSetTheorems, WellFoundedInduction, TLAPS

-----------------------------------------------------------------------------
(* The polling thread: what the owner waits for.                           *)

Updates == {"UPDATED", "UPDATED_ASYNC"}
PollCmds == Updates \cup {"COMMIT", "EXIT"}

OwnerPcs == {"init", "launching", "stopped", "starting", "refused", "streamon", "not_on",
             "running", "stopping", "streamoff", "off", "releasing", "released",
             "not_released"}

PollTypes ==
    /\ setup \in PollSetups
    /\ {poll_entries, poll_fds, left_behind} \subseteq SUBSET PollStreams
    /\ pipe \in Seq(PollCmds)
    /\ str_state \in [PollStreams -> {"BUFFED", "REG", "ACTIVE"}]
    /\ owner \in [pc : OwnerPcs, s : Int]
    /\ DOMAIN poller = {"pc", "s", "left"}
    /\ poller.pc \in {"notify", "handle"} => poller.s \in PollStreams

\* A channel is at rest with all its streams, and brings up one after another.
OneByOne ==
    /\ owner.pc \in {"init", "launching", "stopped"} =>
           \A s \in PollStreams : str_state[s] = "BUFFED"
    /\ owner.pc = "starting" =>
           \A s, t \in PollStreams :
               t < s /\ str_state[s] # "BUFFED" => str_state[t] = "ACTIVE"
    /\ owner.pc \in {"streamon", "not_on"} =>
           /\ owner.s \in PollStreams
           /\ \A t \in PollStreams :
                  str_state[t] = IF t <= owner.s THEN "ACTIVE" ELSE "BUFFED"
    /\ owner.pc \in {"running", "refused"} =>
           \A s \in PollStreams : str_state[s] # "REG"
    /\ owner.pc \in {"streamoff", "off"} =>
           owner.s \in PollStreams /\ str_state[owner.s] = "ACTIVE"

\* The thread polls a stream that is off the list only until the next update.
UpdateComes ==
    poll_fds \subseteq poll_entries \/ \E i \in DOMAIN pipe : pipe[i] \in Updates

\* On neither list, and not at work.
LeftAlone(s) == s \notin poll_entries \cup poll_fds /\ ~InCallback(s)

\* The thread will not poll s when it has answered all it is asked: before it answers
\* for the last time, or by that, it reads the list.
ListIsRead(s) ==
    s \in poll_fds =>
        \A k \in DOMAIN pipe :
            (\A j \in DOMAIN pipe : j > k => pipe[j] = "UPDATED_ASYNC") =>
                \E i \in DOMAIN pipe : i <= k /\ pipe[i] \in Updates

\* The stream that is being removed is off the list.  When every command is answered the
\* thread is at work on it no more; until then an update, or the removal's own, comes
\* before that.
Removed(s) ==
    s \notin poll_entries /\ IF Answered THEN LeftAlone(s) ELSE ListIsRead(s)

RemovalHolds ==
    owner.pc \in {"streamoff", "not_on"} /\ owner.s \notin left_behind => Removed(owner.s)

\* A stream that is off, or will be when the owner is through with another.
Off(s) == \/ str_state[s] = "BUFFED" \/ owner = Is("off", s)
          \/ owner.pc \in {"stopping", "streamoff", "off"} /\ str_state[s] = "REG"

\* One whose buffers are being registered is on the list already.
OffIsQuiet ==
    \A s \in PollStreams \ left_behind :
        Off(s) => IF owner = Is("refused", s) THEN ~InCallback(s) ELSE LeftAlone(s)

PollInv ==
    /\ PollTypes /\ OneByOne /\ UpdateComes /\ RemovalHolds /\ OffIsQuiet
    /\ (owner.pc = "released" => poller.pc = "gone")

\* The streams are numbered.
LEMMA StreamsAreNumbers == ASSUME PollTypes PROVE PollStreams \subseteq Nat
BY PollAssumption DEF PollTypes, PollStreams

\* What a command adds to the pipe.
LEMMA SigAppends ==
    ASSUME pipe \in Seq(PollCmds), NEW cmd \in PollCmds, pipe' = Append(pipe, cmd)
    PROVE  /\ pipe' \in Seq(PollCmds)
           /\ DOMAIN pipe' = DOMAIN pipe \cup {Len(pipe) + 1}
           /\ DOMAIN pipe = 1 .. Len(pipe) /\ Len(pipe) \in Nat
           /\ pipe'[Len(pipe) + 1] = cmd
           /\ \A j \in DOMAIN pipe : pipe'[j] = pipe[j]
OBVIOUS

\* The pipe is as it was, or has one more command that is not answered.
AsyncAdded == pipe' = pipe \/ pipe' = Append(pipe, "UPDATED_ASYNC")

\* That leaves what is in the pipe, and what is answered.
LEMMA AsyncKeeps ==
    ASSUME pipe \in Seq(PollCmds), AsyncAdded
    PROVE  /\ pipe' \in Seq(PollCmds)
           /\ DOMAIN pipe \subseteq DOMAIN pipe'
           /\ DOMAIN pipe \subseteq Nat /\ DOMAIN pipe' \subseteq Nat
           /\ \A j \in DOMAIN pipe : pipe'[j] = pipe[j]
           /\ \A j \in DOMAIN pipe' \ DOMAIN pipe :
                  pipe'[j] = "UPDATED_ASYNC" /\ \A i \in DOMAIN pipe : i < j
           /\ Answered' <=> Answered
<1>1. CASE pipe' = pipe
  BY <1>1 DEF Answered
<1>2. CASE pipe' = Append(pipe, "UPDATED_ASYNC")
  <2>1. "UPDATED_ASYNC" \in PollCmds
    BY DEF PollCmds, Updates
  <2>2. /\ pipe' \in Seq(PollCmds)
        /\ DOMAIN pipe' = DOMAIN pipe \cup {Len(pipe) + 1}
        /\ DOMAIN pipe = 1 .. Len(pipe) /\ Len(pipe) \in Nat
        /\ pipe'[Len(pipe) + 1] = "UPDATED_ASYNC"
        /\ \A j \in DOMAIN pipe : pipe'[j] = pipe[j]
    BY <1>2, <2>1, SigAppends
  <2>3. Answered' <=> Answered
    BY <2>2 DEF Answered
  <2>4. \A j \in DOMAIN pipe' \ DOMAIN pipe : j = Len(pipe) + 1
    BY <2>2
  <2> QED BY <2>2, <2>3, <2>4
<1> QED BY <1>1, <1>2 DEF AsyncAdded

\* The list follows the count up, and the thread hears of it,
LEMMA ListedUp ==
    ASSUME PollTypes, UpdateComes, poll_fds' = poll_fds,
           NEW s \in PollStreams, NEW count, NEW n, CountUp(s, count, n)
    PROVE  /\ AsyncAdded /\ UpdateComes'
           /\ poll_entries' \in {poll_entries, poll_entries \cup {s}}
           /\ ~(count = 0) => poll_entries' = poll_entries
<1>1. AsyncAdded
  BY DEF CountUp, AsyncAdded, mm_camera_poll_sig_async, listVars
<1>2. /\ poll_entries' \in {poll_entries, poll_entries \cup {s}}
      /\ ~(count = 0) => poll_entries' = poll_entries
  BY DEF CountUp, listVars
<1>3. pipe \in Seq(PollCmds)
  BY DEF PollTypes
<1>4. UpdateComes'
  BY <1>1, <1>2, <1>3, AsyncKeeps DEF UpdateComes
<1> QED BY <1>1, <1>2, <1>4

\* and down.
LEMMA ListedDown ==
    ASSUME PollTypes, UpdateComes, poll_fds' = poll_fds,
           NEW s \in PollStreams, CountDown(s)
    PROVE  /\ AsyncAdded /\ UpdateComes'
           /\ poll_entries' \in {poll_entries, poll_entries \ {s}}
<1>1. pipe \in Seq(PollCmds) /\ "UPDATED_ASYNC" \in PollCmds
  BY DEF PollTypes, PollCmds, Updates
<1>2. CASE queued_buffer_count[s] = 1 /\ s \in poll_entries
  <2>1. pipe' = Append(pipe, "UPDATED_ASYNC") /\ poll_entries' = poll_entries \ {s}
    BY <1>2 DEF CountDown, mm_camera_poll_sig_async
  <2>2. Len(pipe) + 1 \in DOMAIN pipe' /\ pipe'[Len(pipe) + 1] = "UPDATED_ASYNC"
    BY <1>1, <2>1, SigAppends
  <2> QED BY <2>1, <2>2 DEF AsyncAdded, UpdateComes, Updates
<1>3. CASE ~(queued_buffer_count[s] = 1 /\ s \in poll_entries)
  BY <1>3 DEF CountDown, AsyncAdded, UpdateComes, listVars
<1> QED BY <1>2, <1>3

\* Neither changes anything for the stream that is being removed, unless it is put on
\* the list again.
LEMMA RemovalKeeps ==
    ASSUME PollTypes, RemovalHolds, AsyncAdded, UNCHANGED <<owner, poll_fds>>,
           left_behind \subseteq left_behind',
           owner.pc \in {"streamoff", "not_on"} /\ owner.s \notin left_behind' =>
               /\ owner.s \in poll_entries' => owner.s \in poll_entries
               /\ InCallback(owner.s)' => InCallback(owner.s)
    PROVE  RemovalHolds'
<1> SUFFICES ASSUME owner.pc \in {"streamoff", "not_on"}, owner.s \notin left_behind'
             PROVE  Removed(owner.s)'
  BY DEF RemovalHolds
<1> DEFINE s == owner.s
<1>1. Removed(s)
  BY DEF RemovalHolds
<1>2. s \notin poll_entries'
  BY <1>1 DEF Removed
<1>3. /\ DOMAIN pipe \subseteq DOMAIN pipe'
      /\ DOMAIN pipe \subseteq Nat /\ DOMAIN pipe' \subseteq Nat
      /\ \A j \in DOMAIN pipe : pipe'[j] = pipe[j]
      /\ \A j \in DOMAIN pipe' \ DOMAIN pipe :
             pipe'[j] = "UPDATED_ASYNC" /\ \A i \in DOMAIN pipe : i < j
      /\ Answered' <=> Answered
  BY AsyncKeeps DEF PollTypes
<1>4. CASE Answered
  BY <1>1, <1>2, <1>3, <1>4 DEF Removed, LeftAlone
<1>5. CASE ~Answered
  <2> SUFFICES ASSUME s \in poll_fds, NEW k \in DOMAIN pipe',
                      \A j \in DOMAIN pipe' : j > k => pipe'[j] = "UPDATED_ASYNC"
               PROVE  \E i \in DOMAIN pipe' : i <= k /\ pipe'[i] \in Updates
    BY <1>2, <1>3, <1>5 DEF Removed, ListIsRead
  <2>1. CASE k \in DOMAIN pipe
    <3>1. \A j \in DOMAIN pipe : j > k => pipe[j] = "UPDATED_ASYNC"
      BY <1>3
    <3>2. PICK i \in DOMAIN pipe : i <= k /\ pipe[i] \in Updates
      BY <1>1, <1>5, <2>1, <3>1 DEF Removed, ListIsRead
    <3> QED BY <1>3, <3>2
  <2>2. CASE k \notin DOMAIN pipe
    BY <1>3, <2>2 DEF Updates
  <2> QED BY <2>1, <2>2
<1> QED BY <1>4, <1>5

\* A removal is over when the thread has read a command that comes after an update.
LEMMA RemovalBegins ==
    ASSUME PollTypes, UpdateComes, UNCHANGED <<setup, poll_fds>>, NEW s \in PollStreams,
           NEW cmd \in {"UPDATED", "COMMIT"}, mm_camera_poll_sig(cmd),
           s \notin poll_entries', cmd = "COMMIT" => poll_entries' = poll_entries
    PROVE  pipe' \in Seq(PollCmds) /\ UpdateComes' /\ Removed(s)'
<1> DEFINE k == Len(pipe) + 1
<1>1. pipe \in Seq(PollCmds) /\ cmd \in PollCmds /\ pipe' = Append(pipe, cmd)
  BY DEF PollTypes, PollCmds, Updates, mm_camera_poll_sig
<1>2. /\ pipe' \in Seq(PollCmds)
      /\ DOMAIN pipe' = DOMAIN pipe \cup {k} /\ pipe'[k] = cmd
      /\ DOMAIN pipe = 1 .. Len(pipe) /\ Len(pipe) \in Nat
      /\ \A j \in DOMAIN pipe : pipe'[j] = pipe[j]
  BY <1>1, SigAppends
<1>3. ~Answered'
  BY <1>2 DEF Answered
<1>4. UpdateComes'
  BY <1>2 DEF UpdateComes, Updates
<1>5. ListIsRead(s)'
  <2> SUFFICES ASSUME s \in poll_fds, NEW c \in DOMAIN pipe',
                      \A j \in DOMAIN pipe' : j > c => pipe'[j] = "UPDATED_ASYNC"
               PROVE  \E i \in DOMAIN pipe' : i <= c /\ pipe'[i] \in Updates
    BY DEF ListIsRead
  <2>1. c = k
    BY <1>2
  <2>2. CASE cmd = "UPDATED"
    BY <1>2, <2>1, <2>2 DEF Updates
  <2>3. CASE cmd = "COMMIT"
    <3>1. PICK i \in DOMAIN pipe : pipe[i] \in Updates
      BY <2>3 DEF UpdateComes
    <3> QED BY <1>2, <2>1, <3>1
  <2> QED BY <2>2, <2>3
<1> QED BY <1>2, <1>3, <1>4, <1>5 DEF Removed

\* Steps that touch neither the lists nor the pipe: of the owner,
LEMMA OwnerAlone ==
    ASSUME PollInv, UNCHANGED <<setup, poll_entries, poll_fds, pipe, poller>>,
           owner' \in [pc : OwnerPcs \ {"streamoff", "not_on", "released", "refused"},
                       s : Int],
           str_state' \in [PollStreams -> {"BUFFED", "REG", "ACTIVE"}],
           left_behind \subseteq left_behind', left_behind' \subseteq PollStreams,
           OneByOne',
           \A t \in PollStreams \ left_behind' : Off(t)' => Off(t) \/ LeftAlone(t),
           owner.pc # "refused"
    PROVE  PollInv'
<1>1. PollTypes'
  BY DEF PollInv, PollTypes, PollStreams
<1>2. UpdateComes' /\ RemovalHolds'
  BY DEF PollInv, UpdateComes, RemovalHolds
<1>3. OffIsQuiet'
  <2> SUFFICES ASSUME NEW t \in PollStreams, t \notin left_behind', Off(t)'
               PROVE  LeftAlone(t)'
    BY DEF OffIsQuiet, PollStreams, Is
  <2>1. LeftAlone(t)
    BY DEF PollInv, OffIsQuiet, Is
  <2> QED BY <2>1 DEF LeftAlone, InCallback
<1> QED BY <1>1, <1>2, <1>3 DEF PollInv

\* and of the others, who enter a callback only for a stream that is active and listed.
LEMMA OthersAlone ==
    ASSUME PollInv,
           UNCHANGED <<setup, poll_entries, poll_fds, pipe, owner, str_state, left_behind>>,
           \A t \in PollStreams :
               InCallback(t)' =>
                   InCallback(t) \/ (t \in poll_entries /\ str_state[t] = "ACTIVE"),
           poller'.pc \in {"notify", "handle"} => poller'.s \in PollStreams,
           poller.pc = "gone" => poller'.pc = "gone", DOMAIN poller' = DOMAIN poller
    PROVE  PollInv'
<1>1. PollTypes' /\ OneByOne' /\ UpdateComes'
  BY DEF PollInv, PollTypes, OneByOne, UpdateComes, PollStreams
<1>2. RemovalHolds'
  <2> SUFFICES ASSUME owner.pc \in {"streamoff", "not_on"}, owner.s \notin left_behind
               PROVE  Removed(owner.s)'
    BY DEF RemovalHolds
  <2>1. Removed(owner.s) /\ owner.s \in PollStreams
    BY DEF PollInv, RemovalHolds, OneByOne
  <2>2. Answered' <=> Answered
    BY DEF Answered
  <2> QED BY <2>1, <2>2 DEF Removed, LeftAlone, ListIsRead
<1>3. OffIsQuiet'
  <2> SUFFICES ASSUME NEW t \in PollStreams, t \notin left_behind, Off(t)
               PROVE  (IF owner = Is("refused", t) THEN ~InCallback(t) ELSE LeftAlone(t))'
    BY DEF OffIsQuiet, Off, PollStreams
  <2>1. IF owner = Is("refused", t) THEN ~InCallback(t) ELSE LeftAlone(t)
    BY DEF PollInv, OffIsQuiet
  <2>2. str_state[t] = "ACTIVE" => owner # Is("refused", t)
    BY DEF Off, Is
  <2> QED BY <2>1, <2>2 DEF LeftAlone
<1> QED BY <1>1, <1>2, <1>3 DEF PollInv

-----------------------------------------------------------------------------
(* The steps of the owner *)

\* The thread is launched, and the channel started, run and stopped, with its streams at
\* rest or active.
LEMMA ChannelSteps ==
    ASSUME PollInv,
           Launched \/ BeginStart \/ BeginStop \/ StreamsStopped
    PROVE  PollInv'
<1>1. /\ UNCHANGED <<setup, poll_entries, poll_fds, pipe, poller, str_state, left_behind>>
      /\ owner.pc # "refused"
  BY DEF Launched, BeginStart, BeginStop, StreamsStopped, threadVars, listVars, polledVars
<1>2. owner' \in [pc : {"stopped", "starting", "stopping"}, s : {0}]
  BY DEF Launched, BeginStart, BeginStop, StreamsStopped, Is
<1>3. OneByOne'
  BY <1>1 DEF PollInv, PollTypes, OneByOne, Launched, BeginStart, BeginStop,
              StreamsStopped, Is, PollStreams
<1>4. \A t \in PollStreams : Off(t)' => Off(t)
  BY <1>1, <1>2 DEF PollInv, OneByOne, Off, Launched, BeginStart, BeginStop,
                    StreamsStopped, Is
<1> QED BY <1>1, <1>2, <1>3, <1>4, OwnerAlone DEF PollInv, PollTypes, OwnerPcs

LEMMA mm_camera_poll_thread_launchInv ==
    ASSUME PollInv, mm_camera_poll_thread_launch
    PROVE  PollInv'
<1>1. /\ UNCHANGED <<setup, poll_entries, poll_fds, pipe, str_state, left_behind>>
      /\ owner' = Is("launching", 0) /\ owner.pc = "init" /\ poller'.pc = "born"
      /\ DOMAIN poller' = {"pc", "s", "left"}
  BY DEF mm_camera_poll_thread_launch, polledVars, NoOne
<1>2. PollTypes'
  BY <1>1 DEF PollInv, PollTypes, OwnerPcs, Is, PollStreams
<1>3. OneByOne' /\ UpdateComes' /\ RemovalHolds'
  BY <1>1 DEF PollInv, OneByOne, UpdateComes, RemovalHolds, Is, PollStreams
<1>4. OffIsQuiet'
  BY <1>1 DEF PollInv, OffIsQuiet, OneByOne, Off, LeftAlone, InCallback, Is, PollStreams
<1> QED BY <1>1, <1>2, <1>3, <1>4 DEF PollInv, Is

\* The thread is told to exit,
LEMMA mm_camera_poll_thread_releaseInv ==
    ASSUME PollInv, mm_camera_poll_thread_release
    PROVE  PollInv'
<1>1. /\ UNCHANGED <<setup, poll_entries, poll_fds, poller, str_state, left_behind>>
      /\ owner' \in [pc : {"not_released", "releasing"}, s : {0}] /\ owner.pc = "stopped"
      /\ pipe' = pipe \/ pipe' = Append(pipe, "EXIT")
  BY DEF mm_camera_poll_thread_release, mm_camera_poll_sig, threadVars, polledVars, Is
<1>2. pipe \in Seq(PollCmds) /\ "EXIT" \in PollCmds
  BY DEF PollInv, PollTypes, PollCmds
<1>3. /\ pipe' \in Seq(PollCmds)
      /\ \A j \in DOMAIN pipe : j \in DOMAIN pipe' /\ pipe'[j] = pipe[j]
  BY <1>1, <1>2, SigAppends
<1>4. PollTypes'
  BY <1>1, <1>3 DEF PollInv, PollTypes, OwnerPcs, PollStreams
<1>5. OneByOne' /\ UpdateComes' /\ RemovalHolds'
  BY <1>1, <1>3 DEF PollInv, OneByOne, UpdateComes, RemovalHolds
<1>6. OffIsQuiet'
  BY <1>1 DEF PollInv, OffIsQuiet, OneByOne, Off, LeftAlone, InCallback, Is, PollStreams
<1> QED BY <1>1, <1>4, <1>5, <1>6 DEF PollInv

\* and gone when it is joined.
LEMMA PollerJoinedInv ==
    ASSUME PollInv, PollerJoined
    PROVE  PollInv'
<1>1. /\ UNCHANGED <<setup, pipe, poller, str_state, left_behind>>
      /\ owner' = Is("released", 0) /\ poll_entries' = {} /\ poll_fds' = {}
      /\ poller.pc = "gone"
  BY DEF PollerJoined, polledVars
<1>2. PollTypes'
  BY <1>1 DEF PollInv, PollTypes, OwnerPcs, Is, PollStreams
<1>3. OneByOne' /\ UpdateComes' /\ RemovalHolds'
  BY <1>1 DEF OneByOne, UpdateComes, RemovalHolds, Is
<1>4. OffIsQuiet'
  BY <1>1 DEF OffIsQuiet, LeftAlone, InCallback, Is
<1> QED BY <1>1, <1>2, <1>3, <1>4 DEF PollInv

\* A stream that gets its buffers is alone between rest and running.
LEMMA RegBufInv ==
    ASSUME PollInv, NEW s \in PollStreams, RegBuf(s)
    PROVE  PollInv'
<1>1. /\ UNCHANGED <<setup, poll_fds, poller, owner, left_behind>>
      /\ owner.pc = "starting" /\ str_state' = [str_state EXCEPT ![s] = "REG"]
      /\ str_state[s] = "BUFFED" /\ \A t \in PollStreams : t < s => str_state[t] = "ACTIVE"
  BY DEF RegBuf, NextToStart, threadVars, restVars
<1>2. PICK n \in 0 .. setup.bufs[s] : CountUp(s, 0, n)
  BY DEF RegBuf, QueueAll
<1>3. /\ AsyncAdded /\ UpdateComes'
      /\ poll_entries' \in {poll_entries, poll_entries \cup {s}}
  BY <1>1, <1>2, ListedUp DEF PollInv
<1>4. PollTypes'
  BY <1>1, <1>3, AsyncKeeps DEF PollInv, PollTypes, PollStreams
<1>5. OneByOne'
  BY <1>1, StreamsAreNumbers DEF PollInv, PollTypes, OneByOne, PollStreams
<1>6. RemovalHolds'
  BY <1>1 DEF RemovalHolds
<1>7. OffIsQuiet'
  BY <1>1, <1>3 DEF PollInv, PollTypes, OffIsQuiet, Off, LeftAlone, InCallback, Is, PollStreams
<1> QED BY <1>1, <1>3, <1>4, <1>5, <1>6, <1>7 DEF PollInv

\* One whose buffer is refused is on the list already, and at rest all the same.
LEMMA RegFailsInv ==
    ASSUME PollInv, NEW s \in PollStreams, RegFails(s)
    PROVE  PollInv'
<1>1. /\ UNCHANGED <<setup, poll_fds, poller, str_state, left_behind>>
      /\ owner.pc = "starting" /\ owner' = Is("refused", s)
      /\ str_state[s] = "BUFFED" /\ \A t \in PollStreams : t < s => str_state[t] = "ACTIVE"
  BY DEF RegFails, NextToStart, threadVars, polledVars
<1>2. PICK n \in 0 .. setup.bufs[s] - 1 : CountUp(s, 0, n + 1)
  BY DEF RegFails, QueueAll
<1>3. /\ AsyncAdded /\ UpdateComes'
      /\ poll_entries' \in {poll_entries, poll_entries \cup {s}}
  BY <1>1, <1>2, ListedUp DEF PollInv
<1>4. PollTypes'
  BY <1>1, <1>3, AsyncKeeps, StreamsAreNumbers
     DEF PollInv, PollTypes, PollStreams, OwnerPcs, Is
<1>5. OneByOne'
  <2>1. \A t \in PollStreams : str_state[t] # "REG"
    BY <1>1, StreamsAreNumbers DEF PollInv, OneByOne
  <2> QED BY <1>1, <2>1 DEF OneByOne, Is, PollStreams
<1>6. RemovalHolds'
  BY <1>1 DEF RemovalHolds, Is
<1>7. OffIsQuiet'
  <2> SUFFICES ASSUME NEW t \in PollStreams, t \notin left_behind, Off(t)'
               PROVE  (IF owner = Is("refused", t) THEN ~InCallback(t) ELSE LeftAlone(t))'
    BY <1>1 DEF OffIsQuiet, PollStreams
  <2>1. LeftAlone(t)
    BY <1>1 DEF PollInv, OffIsQuiet, Off, Is
  <2>2. CASE t = s
    BY <1>1, <2>1, <2>2 DEF LeftAlone, InCallback
  <2>3. CASE t # s
    BY <1>1, <1>3, <2>1, <2>3 DEF LeftAlone, InCallback, Is
  <2> QED BY <2>2, <2>3
<1> QED BY <1>1, <1>3, <1>4, <1>5, <1>6, <1>7 DEF PollInv, Is

\* It may stay on the list, or on the thread's, and is excused then.
LEMMA GiveUpRegInv ==
    ASSUME PollInv, NEW s \in PollStreams, GiveUpReg(s)
    PROVE  PollInv'
<1>1. /\ UNCHANGED <<setup, poll_fds, poller, str_state>>
      /\ owner = Is("refused", s) /\ owner' = Is("stopping", 0) /\ CountDown(s)
      /\ left_behind' = IF s \in poll_entries' \cup poll_fds THEN left_behind \cup {s}
                        ELSE left_behind
  BY DEF GiveUpReg, threadVars, polledVars
<1>2. /\ AsyncAdded /\ UpdateComes' /\ poll_entries' \in {poll_entries, poll_entries \ {s}}
  BY <1>1, ListedDown DEF PollInv
<1>3. PollTypes'
  BY <1>1, <1>2, AsyncKeeps DEF PollInv, PollTypes, PollStreams, OwnerPcs, Is
<1>4. OneByOne' /\ RemovalHolds'
  BY <1>1 DEF OneByOne, RemovalHolds, Is
<1>5. OffIsQuiet'
  <2> SUFFICES ASSUME NEW t \in PollStreams, t \notin left_behind', Off(t)'
               PROVE  LeftAlone(t)'
    BY <1>1 DEF OffIsQuiet, PollStreams, Is
  <2>1. t \notin left_behind /\ Off(t)
    BY <1>1 DEF PollInv, OneByOne, Off, Is
  <2>2. IF t = s THEN ~InCallback(t) ELSE LeftAlone(t)
    BY <1>1, <2>1 DEF PollInv, OffIsQuiet, Is
  <2> QED BY <1>1, <1>2, <2>2 DEF LeftAlone, InCallback
<1> QED BY <1>1, <1>2, <1>3, <1>4, <1>5 DEF PollInv, Is

\* Streams are brought up one by one.
LEMMA StreamOnSteps ==
    ASSUME PollInv, NEW s \in PollStreams, GoActive(s) \/ mm_stream_streamon(s)
    PROVE  PollInv'
<1>1. UNCHANGED <<setup, poll_entries, poll_fds, pipe, poller, left_behind>>
  BY DEF GoActive, mm_stream_streamon, threadVars, listVars
<1>2. s \in Nat
  BY StreamsAreNumbers DEF PollInv
<1>3. CASE GoActive(s)
  <2>1. /\ owner' = Is("streamon", s) /\ str_state' = [str_state EXCEPT ![s] = "ACTIVE"]
        /\ owner.pc = "starting" /\ str_state[s] = "REG"
        /\ \A t \in PollStreams : t < s => str_state[t] = "ACTIVE"
    BY <1>3 DEF GoActive, NextToStart
  <2>2. \A t \in PollStreams : t > s => str_state[t] = "BUFFED"
    BY <2>1 DEF PollInv, OneByOne
  <2>3. OneByOne'
    BY <1>1, <2>1, <2>2, StreamsAreNumbers
       DEF PollInv, PollTypes, OneByOne, Is, PollStreams
  <2>4. str_state' \in [PollStreams -> {"BUFFED", "REG", "ACTIVE"}]
    BY <2>1 DEF PollInv, PollTypes
  <2>5. \A t \in PollStreams : Off(t)' => Off(t)
    BY <2>1 DEF PollInv, PollTypes, Off, Is
  <2>6. owner' \in [pc : {"streamon"}, s : Int] /\ owner.pc # "refused"
    BY <1>2, <2>1 DEF Is
  <2> QED BY <1>1, <2>3, <2>4, <2>5, <2>6, OwnerAlone DEF PollInv, PollTypes, OwnerPcs
<1>4. CASE mm_stream_streamon(s)
  <2>1. /\ owner' \in [pc : {"running", "starting"}, s : {0}] /\ str_state' = str_state
        /\ owner = Is("streamon", s)
    BY <1>4 DEF mm_stream_streamon, Is
  <2>2. \A t \in PollStreams : str_state[t] = IF t <= s THEN "ACTIVE" ELSE "BUFFED"
    BY <2>1 DEF PollInv, OneByOne, Is
  <2>3. OneByOne'
    BY <1>1, <1>2, <2>1, <2>2, StreamsAreNumbers DEF PollInv, OneByOne, PollStreams
  <2>4. \A t \in PollStreams : Off(t)' => Off(t)
    BY <2>1 DEF Off, Is
  <2> QED BY <1>1, <2>1, <2>3, <2>4, OwnerAlone DEF PollInv, PollTypes, OwnerPcs, Is
<1> QED BY <1>3, <1>4

\* One that cannot be is taken off the list, if it is on it,
LEMMA StreamonFailsInv ==
    ASSUME PollInv, NEW s \in PollStreams, StreamonFails(s)
    PROVE  PollInv'
<1>1. /\ UNCHANGED <<setup, poll_fds, poller, str_state>>
      /\ owner = Is("streamon", s) /\ owner' = Is("not_on", s)
  BY DEF StreamonFails, threadVars, polledVars
<1>2. \/ /\ DelPollFd(s) /\ left_behind' = left_behind \ {s}
      \/ UNCHANGED <<poll_entries, pipe>> /\ left_behind' = left_behind \cup {s}
  BY DEF StreamonFails
<1>3. /\ pipe' \in Seq(PollCmds) /\ UpdateComes'
      /\ s \notin left_behind' => Removed(s)'
  <2>1. CASE DelPollFd(s)
    BY <1>1, <2>1, RemovalBegins DEF PollInv, DelPollFd
  <2>2. CASE UNCHANGED <<poll_entries, pipe>> /\ left_behind' = left_behind \cup {s}
    BY <1>1, <2>2 DEF PollInv, PollTypes, UpdateComes
  <2> QED BY <1>2, <2>1, <2>2
<1>4. poll_entries' \subseteq poll_entries /\ left_behind' \subseteq PollStreams
  BY <1>2 DEF DelPollFd, PollInv, PollTypes
<1>5. PollTypes'
  BY <1>1, <1>3, <1>4, StreamsAreNumbers DEF PollInv, PollTypes, OwnerPcs, Is, PollStreams
<1>6. OneByOne' /\ RemovalHolds'
  BY <1>1, <1>3 DEF PollInv, OneByOne, RemovalHolds, Is, PollStreams
<1>7. OffIsQuiet'
  <2>1. str_state[s] = "ACTIVE" /\ \A t \in PollStreams : t # s /\ t \notin left_behind' =>
                                       t \notin left_behind
    BY <1>1, <1>2, StreamsAreNumbers DEF PollInv, OneByOne, Is
  <2> SUFFICES ASSUME NEW t \in PollStreams, t \notin left_behind', Off(t)'
               PROVE  LeftAlone(t)'
    BY <1>1 DEF OffIsQuiet, PollStreams, Is
  <2>2. t # s /\ Off(t)
    BY <1>1, <2>1 DEF Off, Is
  <2>3. LeftAlone(t)
    BY <1>1, <2>1, <2>2 DEF PollInv, OffIsQuiet, Is
  <2> QED BY <1>1, <1>4, <2>3 DEF LeftAlone, InCallback
<1> QED BY <1>1, <1>3, <1>5, <1>6, <1>7 DEF PollInv, Is

\* and goes back to rest.
LEMMA GiveUpStartInv ==
    ASSUME PollInv, NEW s \in PollStreams, GiveUpStart(s)
    PROVE  PollInv'
<1>1. /\ UNCHANGED <<setup, poll_entries, poll_fds, pipe, poller>>
      /\ owner = Is("not_on", s) /\ owner' = Is("stopping", 0)
      /\ str_state' = [str_state EXCEPT ![s] = "REG"]
      /\ left_behind' = IF Answered THEN left_behind ELSE left_behind \cup {s}
  BY DEF GiveUpStart, LeftIfEarly, threadVars, listVars
<1>2. OneByOne'
  BY <1>1 DEF OneByOne, Is
<1>3. \A t \in PollStreams \ left_behind' : Off(t)' => Off(t) \/ LeftAlone(t)
  <2>1. s \notin left_behind' => LeftAlone(s)
    BY <1>1 DEF PollInv, RemovalHolds, Removed, Is
  <2>2. \A t \in PollStreams : t # s /\ Off(t)' => Off(t)
    BY <1>1 DEF PollInv, PollTypes, OneByOne, Off, Is
  <2> QED BY <2>1, <2>2
<1>4. str_state' \in [PollStreams -> {"BUFFED", "REG", "ACTIVE"}]
  BY <1>1 DEF PollInv, PollTypes
<1> QED BY <1>1, <1>2, <1>3, <1>4, OwnerAlone DEF PollInv, PollTypes, OwnerPcs, Is

\* So is one that is stopped,
LEMMA BeginStreamoffInv ==
    ASSUME PollInv, NEW s \in PollStreams, BeginStreamoff(s)
    PROVE  PollInv'
<1>1. /\ UNCHANGED <<setup, poll_fds, poller, str_state>>
      /\ owner.pc = "stopping" /\ owner' = Is("streamoff", s) /\ str_state[s] = "ACTIVE"
      /\ left_behind' = left_behind \ {s} /\ OffTheList(s)
  BY DEF BeginStreamoff, threadVars, polledVars
<1>2. /\ pipe' \in Seq(PollCmds) /\ UpdateComes' /\ Removed(s)'
      /\ poll_entries' \subseteq poll_entries
  <2>1. CASE DelPollFd(s)
    BY <1>1, <2>1, RemovalBegins DEF PollInv, DelPollFd
  <2>2. CASE s \notin poll_entries /\ mm_camera_poll_sig("COMMIT") /\ UNCHANGED poll_entries
    BY <1>1, <2>2, RemovalBegins DEF PollInv
  <2> QED BY <1>1, <2>1, <2>2 DEF OffTheList
<1>3. PollTypes'
  BY <1>1, <1>2, StreamsAreNumbers DEF PollInv, PollTypes, OwnerPcs, Is, PollStreams
<1>4. OneByOne' /\ RemovalHolds'
  BY <1>1, <1>2 DEF PollInv, OneByOne, RemovalHolds, Is, PollStreams
<1>5. OffIsQuiet'
  <2> SUFFICES ASSUME NEW t \in PollStreams, t \notin left_behind', Off(t)'
               PROVE  LeftAlone(t)'
    BY <1>1 DEF OffIsQuiet, PollStreams, Is
  <2>1. t # s /\ Off(t) /\ t \notin left_behind
    BY <1>1 DEF Off, Is
  <2>2. LeftAlone(t)
    BY <1>1, <2>1 DEF PollInv, OffIsQuiet, Is
  <2> QED BY <1>1, <1>2, <2>2 DEF LeftAlone, InCallback
<1> QED BY <1>1, <1>2, <1>3, <1>4, <1>5 DEF PollInv, Is

\* whose buffers leave the kernel when the wait is over.  It stays off, also when its
\* buffers go.
LEMMA StreamOffSteps ==
    ASSUME PollInv, NEW s \in PollStreams,
           mm_stream_streamoff(s) \/ StreamIsOff(s) \/ mm_stream_unreg_buf(s)
    PROVE  PollInv'
<1>1. UNCHANGED <<setup, poll_entries, poll_fds, pipe, poller>>
  BY DEF mm_stream_streamoff, StreamIsOff, mm_stream_unreg_buf, threadVars, listVars
<1>2. s \in Int
  BY StreamsAreNumbers DEF PollInv
<1>3. CASE mm_stream_streamoff(s)
  <2>1. /\ owner = Is("streamoff", s) /\ owner' = Is("off", s) /\ str_state' = str_state
        /\ left_behind' = IF Answered THEN left_behind ELSE left_behind \cup {s}
    BY <1>3 DEF mm_stream_streamoff, LeftIfEarly
  <2>2. OneByOne'
    BY <1>1, <2>1 DEF PollInv, OneByOne, Is, PollStreams
  <2>3. s \notin left_behind' => LeftAlone(s)
    BY <2>1 DEF PollInv, RemovalHolds, Removed, Is
  <2>4. \A t \in PollStreams : t # s /\ Off(t)' => Off(t)
    BY <2>1 DEF Off, Is
  <2>5. owner' \in [pc : {"off"}, s : Int] /\ owner.pc # "refused"
    BY <1>2, <2>1 DEF Is
  <2> QED BY <1>1, <2>1, <2>2, <2>3, <2>4, <2>5, OwnerAlone DEF PollInv, PollTypes, OwnerPcs
<1>4. CASE StreamIsOff(s)
  <2>1. /\ owner = Is("off", s) /\ owner' = Is("stopping", 0) /\ left_behind' = left_behind
        /\ str_state' = [str_state EXCEPT ![s] = "REG"]
    BY <1>4 DEF StreamIsOff
  <2>2. OneByOne'
    BY <2>1 DEF OneByOne, Is
  <2>3. \A t \in PollStreams : Off(t)' => Off(t)
    BY <2>1 DEF PollInv, PollTypes, Off, Is
  <2>4. str_state' \in [PollStreams -> {"BUFFED", "REG", "ACTIVE"}]
    BY <2>1 DEF PollInv, PollTypes
  <2> QED BY <1>1, <2>1, <2>2, <2>3, <2>4, OwnerAlone DEF PollInv, PollTypes, OwnerPcs, Is
<1>5. CASE mm_stream_unreg_buf(s)
  <2>1. /\ owner.pc = "stopping" /\ owner' = owner /\ left_behind' = left_behind
        /\ str_state[s] = "REG" /\ str_state' = [str_state EXCEPT ![s] = "BUFFED"]
    BY <1>5 DEF mm_stream_unreg_buf, restVars
  <2>2. OneByOne'
    BY <2>1 DEF OneByOne
  <2>3. \A t \in PollStreams : Off(t)' => Off(t)
    BY <2>1 DEF PollInv, PollTypes, Off, Is
  <2>4. str_state' \in [PollStreams -> {"BUFFED", "REG", "ACTIVE"}]
    BY <2>1 DEF PollInv, PollTypes
  <2>5. owner' \in [pc : {"stopping"}, s : Int]
    BY <2>1 DEF PollInv, PollTypes
  <2> QED BY <1>1, <2>1, <2>2, <2>3, <2>4, <2>5, OwnerAlone DEF PollInv, PollTypes, OwnerPcs
<1> QED BY <1>3, <1>4, <1>5

-----------------------------------------------------------------------------
(* The steps of the thread *)

\* It enters a callback only for a stream on the list, which it reads again for every
\* frame.
LEMMA PollerSteps ==
    ASSUME PollInv,
           PollerBorn \/ PollerRuns \/ FramesReady \/ Look \/ ReadFails
           \/ mm_stream_handle_rcvd_buf
    PROVE  PollInv'
<1>1. UNCHANGED <<setup, poll_entries, poll_fds, pipe, owner, str_state, left_behind>>
  BY DEF PollerBorn, PollerRuns, FramesReady, Look, ReadFails, mm_stream_handle_rcvd_buf,
         listVars, polledVars
<1>2. CASE PollerBorn \/ PollerRuns \/ FramesReady \/ ReadFails \/ mm_stream_handle_rcvd_buf
  <2>1. /\ poller'.pc \notin {"notify", "handle"} /\ poller.pc # "gone"
        /\ DOMAIN poller' = DOMAIN poller
    BY <1>2 DEF PollInv, PollTypes, PollerBorn, PollerRuns, FramesReady, ReadFails,
                mm_stream_handle_rcvd_buf
  <2> QED BY <1>1, <2>1, OthersAlone DEF InCallback
<1>3. CASE Look
  <2>1. poller.pc = "look"
    BY <1>3 DEF Look
  <2>2. CASE poller.left = {}
    <3>1. poller' = [poller EXCEPT !.pc = "poll"]
      BY <1>3, <2>2 DEF Look
    <3>2. poller'.pc = "poll" /\ DOMAIN poller' = DOMAIN poller
      BY <3>1 DEF PollInv, PollTypes
    <3> QED BY <1>1, <2>1, <3>2, OthersAlone DEF InCallback
  <2>3. CASE poller.left # {}
    <3> DEFINE s == Min(poller.left)
               pc == IF s \in poll_entries /\ str_state[s] = "ACTIVE" THEN "notify" ELSE "look"
    <3>1. poller' = [pc |-> pc, s |-> s, left |-> poller.left \ {s}]
      BY <1>3, <2>3 DEF Look
    <3> HIDE DEF s
    <3>2. poller'.pc = pc /\ poller'.s = s /\ DOMAIN poller' = DOMAIN poller
      BY <3>1 DEF PollInv, PollTypes
    <3>3. s \in poll_entries => s \in PollStreams
      BY DEF PollInv, PollTypes
    <3> QED BY <1>1, <2>1, <3>2, <3>3, OthersAlone DEF InCallback
  <2> QED BY <2>2, <2>3
<1> QED BY <1>2, <1>3

\* A command finds it out of every callback, and the list it polls up to date.
LEMMA mm_camera_poll_proc_pipeInv ==
    ASSUME PollInv, mm_camera_poll_proc_pipe
    PROVE  PollInv'
<1>a. /\ pipe \in Seq(PollCmds) /\ pipe # << >> /\ poller.pc = "poll"
      /\ pipe' = Tail(pipe) /\ UNCHANGED <<owner, setup, str_state, poll_entries, left_behind>>
      /\ poll_fds' = IF Head(pipe) \in Updates THEN poll_entries ELSE poll_fds
  BY DEF PollInv, PollTypes, mm_camera_poll_proc_pipe, Updates, polledVars
<1>b. /\ DOMAIN pipe = 1 .. Len(pipe) /\ Len(pipe) \in Nat \ {0} /\ Head(pipe) = pipe[1]
      /\ DOMAIN pipe' = 1 .. Len(pipe) - 1
      /\ \A j \in DOMAIN pipe' : j + 1 \in DOMAIN pipe /\ pipe'[j] = pipe[j + 1]
      /\ pipe' \in Seq(PollCmds)
  BY <1>a
<1>c. \A i \in DOMAIN pipe : i # 1 => i - 1 \in DOMAIN pipe' /\ pipe'[i - 1] = pipe[i]
  BY <1>b
<1>d. /\ poller'.pc \in {"poll", "gone"} /\ \A t : ~InCallback(t)'
      /\ DOMAIN poller' = DOMAIN poller
  BY DEF PollInv, PollTypes, mm_camera_poll_proc_pipe, InCallback
<1>1. PollTypes' /\ OneByOne'
  BY <1>a, <1>b, <1>d DEF PollInv, PollTypes, OneByOne, PollStreams
<1>2. UpdateComes'
  <2>1. CASE Head(pipe) \in Updates
    BY <1>a, <2>1 DEF UpdateComes
  <2>2. CASE Head(pipe) \notin Updates /\ ~(poll_fds \subseteq poll_entries)
    <3>1. PICK i \in DOMAIN pipe : pipe[i] \in Updates
      BY <2>2 DEF PollInv, UpdateComes
    <3>2. i - 1 \in DOMAIN pipe' /\ pipe'[i - 1] \in Updates
      BY <1>b, <1>c, <2>2, <3>1
    <3> QED BY <3>2 DEF UpdateComes
  <2>3. CASE Head(pipe) \notin Updates /\ poll_fds \subseteq poll_entries
    BY <1>a, <2>3 DEF UpdateComes
  <2> QED BY <2>1, <2>2, <2>3
<1>3. RemovalHolds'
  <2> SUFFICES ASSUME owner.pc \in {"streamoff", "not_on"}, owner.s \notin left_behind
               PROVE  Removed(owner.s)'
    BY <1>a DEF RemovalHolds
  <2> DEFINE s == owner.s
  <2>1. Removed(s) /\ s \notin poll_entries'
    BY <1>a DEF PollInv, RemovalHolds, Removed
  <2>2. CASE s \notin poll_fds'
    BY <1>a, <1>d, <2>1, <2>2 DEF Removed, LeftAlone, ListIsRead
  <2>3. CASE s \in poll_fds'
    <3>1. Head(pipe) \notin Updates /\ s \in poll_fds /\ pipe[1] \notin Updates
      BY <1>a, <1>b, <2>1, <2>3
    <3>2. ListIsRead(s)
      BY <2>1, <3>1 DEF Removed, LeftAlone
    <3>3. ASSUME NEW k \in DOMAIN pipe,
                 \A j \in DOMAIN pipe : j > k => pipe[j] = "UPDATED_ASYNC"
          PROVE  k # 1 /\ \E i \in DOMAIN pipe' : i <= k - 1 /\ pipe'[i] \in Updates
      <4>1. PICK i \in DOMAIN pipe : i <= k /\ pipe[i] \in Updates
        BY <3>1, <3>2, <3>3 DEF ListIsRead
      <4>2. i # 1 /\ i - 1 \in DOMAIN pipe' /\ pipe'[i - 1] \in Updates /\ i \in Nat \ {0}
        BY <1>b, <1>c, <3>1, <4>1
      <4>3. k \in Nat /\ i - 1 <= k - 1 /\ k # 1
        BY <1>b, <4>1, <4>2
      <4> QED BY <4>2, <4>3
    <3>4. ~Answered'
      <4>1. SUFFICES ASSUME Answered' PROVE FALSE
        OBVIOUS
      <4>2. 1 \in DOMAIN pipe /\ \A j \in DOMAIN pipe : j > 1 => pipe[j] = "UPDATED_ASYNC"
        BY <1>b, <1>c, <4>1 DEF Answered
      <4> QED BY <3>3, <4>2
    <3>5. ListIsRead(s)'
      <4> SUFFICES ASSUME NEW c \in DOMAIN pipe',
                          \A j \in DOMAIN pipe' : j > c => pipe'[j] = "UPDATED_ASYNC"
                   PROVE  \E i \in DOMAIN pipe' : i <= c /\ pipe'[i] \in Updates
        BY DEF ListIsRead
      <4>1. c + 1 \in DOMAIN pipe /\ c \in Nat /\ DOMAIN pipe \subseteq Nat
        BY <1>b
      <4>2. \A j \in DOMAIN pipe : j > c + 1 => pipe[j] = "UPDATED_ASYNC"
        BY <1>c, <4>1
      <4>3. PICK i \in DOMAIN pipe' : i <= (c + 1) - 1 /\ pipe'[i] \in Updates
        BY <3>3, <4>1, <4>2
      <4> QED BY <4>1, <4>3
    <3> QED BY <1>a, <2>1, <3>4, <3>5 DEF Removed
  <2> QED BY <2>2, <2>3
<1>4. OffIsQuiet'
  BY <1>a, <1>d DEF PollInv, OffIsQuiet, Off, LeftAlone, PollStreams
<1> QED BY <1>1, <1>2, <1>3, <1>4, <1>a DEF PollInv

\* Whoever takes a stream off the list, or leaves it there, changes nothing else of the
\* removal.
LEMMA CountDownInv ==
    ASSUME PollInv, NEW s \in PollStreams, CountDown(s),
           UNCHANGED <<setup, poll_fds, owner, str_state, left_behind>>,
           \A t : InCallback(t)' => InCallback(t),
           poller'.pc \in {"notify", "handle"} => poller'.s \in PollStreams,
           poller.pc = "gone" => poller'.pc = "gone", DOMAIN poller' = DOMAIN poller
    PROVE  PollInv'
<1>1. /\ AsyncAdded /\ UpdateComes' /\ poll_entries' \in {poll_entries, poll_entries \ {s}}
  BY ListedDown DEF PollInv
<1>2. PollTypes' /\ OneByOne'
  BY <1>1, AsyncKeeps DEF PollInv, PollTypes, OneByOne, PollStreams
<1>3. RemovalHolds'
  BY <1>1, RemovalKeeps DEF PollInv
<1>4. OffIsQuiet'
  BY <1>1 DEF PollInv, OffIsQuiet, Off, LeftAlone, PollStreams
<1> QED BY <1>1, <1>2, <1>3, <1>4 DEF PollInv

\* So does reading a frame.
LEMMA mm_stream_read_msm_frameInv ==
    ASSUME PollInv, mm_stream_read_msm_frame
    PROVE  PollInv'
<1>1. /\ poller.pc = "notify" /\ poller.s \in PollStreams /\ CountDown(poller.s)
      /\ UNCHANGED <<setup, poll_fds, owner, str_state, left_behind>>
      /\ poller' = [poller EXCEPT !.pc = "handle"]
  BY DEF PollInv, PollTypes, mm_stream_read_msm_frame, polledVars
<1>2. poller'.s = poller.s /\ poller'.pc = "handle" /\ DOMAIN poller' = DOMAIN poller
  BY <1>1 DEF PollInv, PollTypes
<1>3. \A t : InCallback(t)' => InCallback(t)
  BY <1>1, <1>2 DEF InCallback
<1> QED BY <1>1, <1>2, <1>3, CountDownInv

-----------------------------------------------------------------------------
(* The steps of the hardware, and of those who return buffers *)

\* Nothing that is said of the thread and the lists changes.
LEMMA NothingHappens ==
    ASSUME PollInv,
           UNCHANGED <<setup, poll_entries, poll_fds, pipe, owner, str_state, left_behind>>,
           UNCHANGED poller
    PROVE  PollInv'
<1>1. \A t \in PollStreams :
          InCallback(t)' => InCallback(t) \/ (t \in poll_entries /\ str_state[t] = "ACTIVE")
  BY DEF InCallback
<1>2. /\ poller'.pc \in {"notify", "handle"} => poller'.s \in PollStreams
      /\ poller.pc = "gone" => poller'.pc = "gone"
      /\ DOMAIN poller' = DOMAIN poller
  BY DEF PollInv, PollTypes
<1> QED BY <1>1, <1>2, OthersAlone

\* Frames are filled, waits end, and buffers are on their way.
LEMMA OtherSteps ==
    ASSUME PollInv,
           \/ SpuriousWakeup
           \/ \E s \in PollStreams : DriverFills(s) \/ mm_stream_fsm_active(s)
                                     \/ NotCounted(s) \/ mm_stream_qbuf(s)
    PROVE  PollInv'
<1>1. /\ UNCHANGED <<setup, poll_entries, poll_fds, pipe, owner, str_state, left_behind>>
      /\ UNCHANGED poller
  BY DEF SpuriousWakeup, DriverFills, mm_stream_fsm_active, NotCounted, mm_stream_qbuf,
         threadVars, listVars, polledVars
<1> QED BY <1>1, NothingHappens

\* A buffer that comes back may put its stream on the list; if that is being removed, or
\* is off, the stream is excused.
LEMMA mm_stream_buf_doneInv ==
    ASSUME PollInv, NEW s \in PollStreams, mm_stream_buf_done(s)
    PROVE  PollInv'
<1>1. /\ UNCHANGED <<setup, poll_fds, poller, owner, str_state>>
      /\ CountUp(s, queued_buffer_count[s], 1) /\ ~BufLocked(s)
      /\ left_behind' = IF BeingStopped(s) /\ queued_buffer_count[s] = 0
                        THEN left_behind \cup {s} ELSE left_behind
  BY DEF mm_stream_buf_done, threadVars, polledVars
<1>2. /\ AsyncAdded /\ UpdateComes'
      /\ poll_entries' \in {poll_entries, poll_entries \cup {s}}
      /\ ~(queued_buffer_count[s] = 0) => poll_entries' = poll_entries
  BY <1>1, ListedUp DEF PollInv
<1>3. /\ left_behind \subseteq left_behind' /\ left_behind' \subseteq PollStreams
      /\ BeingStopped(s) => poll_entries' = poll_entries \/ s \in left_behind'
  BY <1>1, <1>2 DEF PollInv, PollTypes
<1>4. PollTypes' /\ OneByOne'
  BY <1>1, <1>2, <1>3, AsyncKeeps DEF PollInv, PollTypes, OneByOne, PollStreams
<1>5. RemovalHolds'
  <2>1. owner.pc \in {"streamoff", "not_on"} /\ owner.s = s => BeingStopped(s)
    BY DEF PollInv, PollTypes, BeingStopped, Is
  <2>2. owner.pc \in {"streamoff", "not_on"} /\ owner.s \notin left_behind' =>
            (owner.s \in poll_entries' => owner.s \in poll_entries)
    BY <1>2, <1>3, <2>1
  <2>3. InCallback(owner.s)' => InCallback(owner.s)
    BY <1>1 DEF InCallback
  <2> QED BY <1>1, <1>2, <1>3, <2>2, <2>3, RemovalKeeps DEF PollInv
<1>6. OffIsQuiet'
  <2> SUFFICES ASSUME NEW t \in PollStreams, t \notin left_behind', Off(t)
               PROVE  (IF owner = Is("refused", t) THEN ~InCallback(t) ELSE LeftAlone(t))'
    BY <1>1 DEF OffIsQuiet, Off, PollStreams
  <2>1. IF owner = Is("refused", t) THEN ~InCallback(t) ELSE LeftAlone(t)
    BY <1>3 DEF PollInv, OffIsQuiet
  <2>2. Off(s) => BeingStopped(s)
    BY DEF Off, BeingStopped
  <2>3. t \in poll_entries' => t \in poll_entries
    BY <1>2, <1>3, <2>2
  <2> QED BY <1>1, <2>1, <2>3 DEF LeftAlone, InCallback
<1> QED BY <1>1, <1>2, <1>4, <1>5, <1>6 DEF PollInv

\* One that is refused takes its stream off again.
LEMMA QbufFailsInv ==
    ASSUME PollInv, NEW s \in PollStreams, QbufFails(s)
    PROVE  PollInv'
<1>1. CountDown(s) /\ UNCHANGED <<setup, poll_fds, poller, owner, str_state, left_behind>>
  BY DEF QbufFails, threadVars, polledVars
<1> QED BY <1>1, CountDownInv DEF PollInv, PollTypes, InCallback

-----------------------------------------------------------------------------
(* The thread, as a whole *)

\* A channel begins with nothing on its lists.
LEMMA PollInitInv == ASSUME PollInit PROVE PollInv
<1>1. PollTypes
  <2>1. /\ poller.pc = "none" /\ DOMAIN poller = {"pc", "s", "left"}
        /\ << >> \in Seq(PollCmds)
    BY DEF PollInit, NoOne
  <2>2. owner \in [pc : {"init"}, s : {0}]
    BY DEF PollInit, Is
  <2>3. str_state \in [PollStreams -> {"BUFFED", "REG", "ACTIVE"}]
    BY DEF PollInit
  <2> QED BY <2>1, <2>2, <2>3 DEF PollInit, PollTypes, OwnerPcs
<1>2. OneByOne /\ UpdateComes /\ RemovalHolds
  BY DEF PollInit, OneByOne, UpdateComes, RemovalHolds, PollStreams, Is
<1>3. OffIsQuiet /\ (owner.pc = "released" => poller.pc = "gone")
  BY DEF PollInit, OffIsQuiet, LeftAlone, InCallback, PollStreams, Is, NoOne
<1> QED BY <1>1, <1>2, <1>3 DEF PollInv

\* Each step keeps the invariant.
LEMMA PollNextInv == ASSUME PollInv, [PollNext]_pollVars PROVE PollInv'
<1>1. CASE UNCHANGED pollVars
  BY <1>1, NothingHappens DEF pollVars
<1>2. CASE OwnerNext
  <2>1. CASE \E s \in PollStreams :
                 \/ RegBuf(s) \/ RegFails(s) \/ GiveUpReg(s) \/ GoActive(s)
                 \/ mm_stream_streamon(s) \/ StreamonFails(s) \/ GiveUpStart(s)
                 \/ BeginStreamoff(s) \/ mm_stream_streamoff(s) \/ StreamIsOff(s)
                 \/ mm_stream_unreg_buf(s)
    BY <2>1, RegBufInv, RegFailsInv, GiveUpRegInv, StreamOnSteps, StreamonFailsInv,
       GiveUpStartInv, BeginStreamoffInv, StreamOffSteps
  <2>2. CASE \/ mm_camera_poll_thread_launch \/ Launched \/ BeginStart \/ BeginStop
             \/ StreamsStopped \/ mm_camera_poll_thread_release \/ PollerJoined
             \/ SpuriousWakeup
    BY <2>2, mm_camera_poll_thread_launchInv, ChannelSteps,
       mm_camera_poll_thread_releaseInv, PollerJoinedInv, OtherSteps
  <2> QED BY <1>2, <2>1, <2>2 DEF OwnerNext
<1>3. CASE PollerNext
  BY <1>3, PollerSteps, mm_camera_poll_proc_pipeInv, mm_stream_read_msm_frameInv
     DEF PollerNext
<1>4. ASSUME NEW s \in PollStreams, DriverFills(s) \/ ReturnNext(s)
      PROVE  PollInv'
  BY <1>4, OtherSteps, mm_stream_buf_doneInv, QbufFailsInv DEF ReturnNext, KernelAnswers
<1> QED BY <1>1, <1>2, <1>3, <1>4 DEF PollNext

\* What the owner, the thread and those who return buffers keep between them, whatever
\* streams the channel has, however often it is started and stopped, and whichever waits
\* end early.
THEOREM PollInvariant == PollSpec => []PollInv
BY PollInitInv, PollNextInv, PTL DEF PollSpec

\* A stream whose buffers may leave the kernel is on neither list, and the thread is not
\* in its callback, unless it is one of those that the owner's removal does not cover
\* (mm_stream_streamoff, mm_stream_streamon, mm_camera_poll_thread_del_poll_fd,
\* mm_camera_poll_thread_commit_updates, mm_camera_poll_thread_release).
THEOREM PollerQuiet == PollSpec => []QuietOnceOff
<1>1. PollInv => QuietOnceOff
  <2>1. \A s : StandsStill(s) => Off(s) /\ owner # Is("refused", s)
    BY DEF StandsStill, Off, Is
  <2> QED BY <2>1 DEF PollInv, OffIsQuiet, LeftAlone, QuietOnceOff
<1> QED BY <1>1, PollInvariant, PTL

-----------------------------------------------------------------------------
(* The cameras: what their clients and the server keep to.                 *)

\* A call that makes an object, and one that unmakes it.
Making(c) == c.pc \in {"opening", "settle", "failed"}
Unmaking(c) == c.op = "close" /\ c.pc \in {"cam", "closing"}
Alone(c) == Making(c) \/ Unmaking(c)

CamPcs == {"idle", "intf", "cam", "look", "ch", "stray", "work", "joins", "msg", "told",
           "opening", "settle", "failed", "closing"}
CamOps == {"none", "open", "close"} \cup CameraCalls \cup ChannelCalls
CamCalls == [pc : CamPcs, op : CamOps, o : Cameras \cup {0}]

CamTypes ==
    /\ cam_obj \in Cameras \cup {0} /\ alive \subseteq Cameras
    /\ ref_count \in [Cameras -> Nat] /\ handle \in [Callers -> Cameras \cup {0}]
    /\ caller \in [Callers -> CamCalls]
    /\ DOMAIN requests = Cameras /\ DOMAIN msg_no = Cameras /\ DOMAIN evt_rcvd = Cameras

\* Where each kind of call can be.
CallFits(c) ==
    /\ c.pc = "idle" <=> c.op = "none"
    /\ c.op = "open" => c.pc \in {"intf", "opening", "settle", "failed"}
    /\ Making(c) => c.op = "open"
    /\ c.op = "close" => c.pc \in {"intf", "cam", "closing"}
    /\ c.pc = "closing" => c.op = "close"

\* The threads of a client share what it has open, and while one opens or closes the
\* others are at rest.
PeersAgree ==
    \A t \in Callers : \A u \in Peers(t) :
        /\ handle[u] = handle[t]
        /\ u # t /\ caller[t].op \in {"open", "close"} => caller[u].pc = "idle"

\* A call is about what its client has open.
CallsFit ==
    \A t \in Callers :
        /\ CallFits(caller[t])
        /\ caller[t].op = "open" \/ Unmaking(caller[t]) => handle[t] = 0
        /\ caller[t].op \notin {"none", "open"} /\ ~Unmaking(caller[t]) =>
               caller[t].o = handle[t] /\ handle[t] # 0

\* An object is not freed while it is in the table or a client has it open.
OpenIsAlive ==
    /\ cam_obj # 0 => cam_obj \in alive
    /\ \A t \in Callers : handle[t] # 0 => handle[t] \in alive

\* One that is being made or unmade is that caller's alone.
MineAlone ==
    \A t \in Callers : Alone(caller[t]) =>
        /\ caller[t].o \in alive /\ caller[t].o # cam_obj
        /\ \A u \in Callers :
               /\ handle[u] # caller[t].o
               /\ Alone(caller[u]) /\ caller[u].o = caller[t].o => u = t
        /\ Making(caller[t]) => ref_count[caller[t].o] = 1

\* The references of the camera in the table are those of its clients.
Users(o) == {c \in Clients : \E u \in c : handle[u] = o}
Counted == cam_obj # 0 => ref_count[cam_obj] = Cardinality(Users(cam_obj))

\* Without a race what is open is in the table, and one camera is made at a time.
InTable ==
    ~raced =>
        /\ \A t \in Callers : handle[t] # 0 => handle[t] = cam_obj
        /\ \A t \in Callers : Making(caller[t]) =>
               cam_obj = 0 /\ \A u \in Callers : Making(caller[u]) => u = t

\* One message is under way, or its answer there; if nobody gave up, for the one who
\* sent it.
Told(c, o) == c.pc = "told" /\ c.o = o
AnswersInOrder ==
    \A o \in Cameras :
        /\ \A t, u \in Callers : Told(caller[t], o) /\ Told(caller[u], o) => t = u
        /\ o \notin gave_up =>
               \/ /\ \A t \in Callers : ~Told(caller[t], o)
                  /\ requests[o] = << >> /\ evt_rcvd[o] = 0
               \/ /\ \E t \in Callers : Told(caller[t], o)
                  /\ \/ requests[o] = << >> /\ evt_rcvd[o] = msg_no[o]
                     \/ requests[o] = <<msg_no[o]>> /\ evt_rcvd[o] = 0

\* Clients and what they have open; and with that, the messages.
OpenInv == PeersAgree /\ CallsFit /\ OpenIsAlive /\ MineAlone /\ Counted /\ InTable
CamInv == CamTypes /\ OpenInv /\ AnswersInOrder

-----------------------------------------------------------------------------
(* Clients *)

\* A thread belongs to one client.
LEMMA PeersOf ==
    ASSUME NEW t \in Callers
    PROVE  /\ Peers(t) \in Clients /\ t \in Peers(t) /\ Peers(t) \subseteq Callers
           /\ \A c \in Clients : t \in c => c = Peers(t)
<1>1. \E c \in Clients : t \in c
  BY DEF Clients
<1>2. Peers(t) \in Clients /\ t \in Peers(t)
  BY <1>1 DEF Peers
<1>3. \A c, d \in Clients : t \in c /\ t \in d => c = d
  BY DEF Clients
<1> QED BY <1>2, <1>3, MmCameraAssumption DEF Clients

\* A process has finitely many threads, and so finitely many clients.
LEMMA ClientsFinite == IsFiniteSet(Clients)
<1> DEFINE S == Callers \ Hal
           T == {{t} : t \in S}
           one == [t \in S |-> {t}]
<1>1. IsFiniteSet(S)
  BY MmCameraAssumption, FS_Subset
<1>2. one \in Surjection(S, T)
  BY DEF Surjection
<1>3. IsFiniteSet(T)
  BY <1>1, <1>2, FS_Surjection
<1>4. Clients = T \cup {Hal}
  BY DEF Clients
<1> QED BY <1>3, <1>4, FS_AddElement

-----------------------------------------------------------------------------
(* Calls that only go on or return *)

CallersMove ==
    /\ UNCHANGED <<objVars, handle, raced>> /\ caller' \in [Callers -> CamCalls]
    /\ \A u \in Callers :
           \/ caller'[u] = Resting
           \/ /\ caller'[u].op = caller[u].op /\ caller'[u].o = caller[u].o
              /\ CallFits(caller'[u])
              /\ Making(caller'[u]) <=> Making(caller[u])
              /\ Unmaking(caller'[u]) <=> Unmaking(caller[u])

\* They leave what is open as it is.
LEMMA MovesKeep == ASSUME CamTypes, OpenInv, CallersMove PROVE OpenInv'
<1> USE DEF objVars, Resting
<1>1. CallsFit'
  BY DEF OpenInv, CallersMove, CallsFit, CallFits, Making, Unmaking
<1>2. PeersAgree'
  <2> SUFFICES ASSUME NEW t \in Callers, NEW u \in Peers(t)
               PROVE  /\ handle[u] = handle[t]
                      /\ u # t /\ caller'[t].op \in {"open", "close"} => caller'[u].pc = "idle"
    BY DEF PeersAgree, CallersMove
  <2>1. u \in Callers
    BY PeersOf
  <2>2. caller'[t].op \in {"open", "close"} => caller[t].op \in {"open", "close"}
    BY DEF CallersMove
  <2>3. caller[u].pc = "idle" => caller'[u].pc = "idle"
    BY <2>1 DEF OpenInv, CallsFit, CallersMove, CallFits
  <2> QED BY <2>2, <2>3 DEF OpenInv, PeersAgree
<1>3. OpenIsAlive' /\ Counted'
  BY DEF OpenInv, CallersMove, OpenIsAlive, Counted, Users
<1>4. MineAlone'
  <2>1. \A u \in Callers : Alone(caller'[u]) =>
            /\ Alone(caller[u]) /\ caller'[u].o = caller[u].o
            /\ Making(caller'[u]) => Making(caller[u])
    BY DEF CallersMove, Alone, Making, Unmaking
  <2> QED BY <2>1 DEF OpenInv, MineAlone, CallersMove
<1>5. InTable'
  <2>1. \A u \in Callers : Making(caller'[u]) => Making(caller[u])
    BY DEF CallersMove, Making
  <2> QED BY <2>1 DEF OpenInv, InTable, CallersMove
<1> QED BY <1>1, <1>2, <1>3, <1>4, <1>5 DEF OpenInv

NobodyTold ==
    /\ UNCHANGED msgVars
    /\ \A u \in Callers : \A o \in Cameras : Told(caller'[u], o) <=> Told(caller[u], o)

\* Calls that send nothing and wait for nothing leave messages as they are.
LEMMA ToldKeeps == ASSUME AnswersInOrder, NobodyTold PROVE AnswersInOrder'
BY DEF AnswersInOrder, NobodyTold, msgVars

\* The step of a thread that stays in its call, or returns.
LEMMA GoOn ==
    ASSUME CamTypes, OpenInv, UNCHANGED <<objVars, handle, raced>>,
           NEW t \in Callers, NEW pc \in CamPcs \ {"idle"},
           Goes(t, pc), CallFits([caller[t] EXCEPT !.pc = pc]), caller[t].op # "none",
           Making([caller[t] EXCEPT !.pc = pc]) <=> Making(caller[t]),
           Unmaking([caller[t] EXCEPT !.pc = pc]) <=> Unmaking(caller[t])
    PROVE  /\ CallersMove
           /\ UNCHANGED msgVars /\ "told" \notin {pc, caller[t].pc} => NobodyTold
<1>1. /\ caller' \in [Callers -> CamCalls]
      /\ caller'[t] = [caller[t] EXCEPT !.pc = pc]
      /\ \A u \in Callers \ {t} : caller'[u] = caller[u]
  BY DEF CamTypes, CamCalls, Goes
<1>2. caller'[t].op = caller[t].op /\ caller'[t].o = caller[t].o /\ caller'[t].pc = pc
  BY <1>1 DEF CamTypes, CamCalls
<1>3. \A u \in Callers : CallFits(caller[u])
  BY DEF OpenInv, CallsFit
<1>4. CallersMove
  BY <1>1, <1>2, <1>3 DEF CallersMove
<1> QED BY <1>1, <1>2, <1>4 DEF NobodyTold, Told

\* That of one that returns.
LEMMA GoHome ==
    ASSUME CamTypes, OpenInv, UNCHANGED <<objVars, handle, raced>>,
           NEW t \in Callers, Returns(t)
    PROVE  /\ CallersMove
           /\ UNCHANGED msgVars /\ "told" # caller[t].pc => NobodyTold
<1>1. /\ caller' \in [Callers -> CamCalls] /\ caller'[t] = Resting
      /\ \A u \in Callers \ {t} : caller'[u] = caller[u]
  BY DEF CamTypes, CamCalls, CamPcs, CamOps, Returns, Resting
<1>3. \A u \in Callers : CallFits(caller[u])
  BY DEF OpenInv, CallsFit
<1>4. CallersMove
  BY <1>1, <1>3 DEF CallersMove
<1> QED BY <1>1, <1>4 DEF NobodyTold, Told, Resting

SimpleStep(t) ==
    \/ mm_camera_open(t) \/ FindCamera(t) \/ TakeCam(t) \/ DoCameraCall(t) \/ TakeCh(t)
    \/ mm_camera_start_channel(t) \/ mm_camera_stop_channel(t) \/ CbJoined(t)
    \/ DeleteChannel(t) \/ OtherChannelCall(t) \/ StrayWakes(t)

\* With the camera or the channel locked, calls do no more than that to what is open.
LEMMA SimpleSteps ==
    ASSUME CamTypes, OpenInv, NEW t \in Callers, SimpleStep(t)
    PROVE  CallersMove /\ NobodyTold
<1>0. /\ caller[t] \in CamCalls /\ CallFits(caller[t])
      /\ caller[t].op = "close" => caller[t].pc \in {"intf", "cam", "closing"}
  BY DEF CamTypes, OpenInv, CallsFit, CallFits
<1> DEFINE At(pc) == [caller[t] EXCEPT !.pc = pc]
<1>a. \A pc \in CamPcs : At(pc).pc = pc /\ At(pc).op = caller[t].op
  BY <1>0 DEF CamCalls
<1> HIDE DEF At
<1>b. ASSUME NEW pc \in {"cam", "look", "ch", "work", "msg", "joins"}, Goes(t, pc),
             caller[t].pc \in {"intf", "cam", "look", "ch", "work"},
             caller[t].op \notin {"none", "open", "close"},
             UNCHANGED <<objVars, handle, raced, msgVars>>
      PROVE  CallersMove /\ NobodyTold
  <2>1. CallFits(At(pc)) /\ ~Making(At(pc)) /\ ~Unmaking(At(pc))
    BY <1>a, <1>b DEF CallFits, Making, Unmaking, CamPcs
  <2>2. ~Making(caller[t]) /\ ~Unmaking(caller[t])
    BY <1>b DEF Making, Unmaking
  <2> QED BY <1>b, <2>1, <2>2, GoOn DEF CamPcs, At
<1>1. CASE mm_camera_open(t)
  <2>1. PICK pc \in {"settle", "failed"} : Goes(t, pc)
    BY <1>1 DEF mm_camera_open
  <2>2. caller[t].pc = "opening" /\ caller[t].op = "open"
    BY <1>0, <1>1 DEF mm_camera_open, In, CallFits, Making
  <2>3. CallFits(At(pc)) /\ Making(At(pc)) /\ ~Unmaking(At(pc))
    BY <1>a, <2>2 DEF CallFits, Making, Unmaking, CamPcs
  <2>4. Making(caller[t]) /\ ~Unmaking(caller[t])
    BY <2>2 DEF Making, Unmaking
  <2> QED BY <1>1, <2>1, <2>2, <2>3, <2>4, GoOn DEF mm_camera_open, CamPcs, At
<1>2. CASE FindCamera(t)
  <2>1. caller[t].op \notin {"none", "open", "close"} /\ caller[t].pc = "intf"
    BY <1>0, <1>2 DEF FindCamera, In, CallFits
  <2> QED BY <1>2, <1>b, <2>1, GoHome DEF FindCamera
<1>3. CASE TakeCam(t)
  <2>1. CASE caller[t].op = "close"
    <3>1. CallFits(At("closing")) /\ ~Making(At("closing")) /\ Unmaking(At("closing"))
      BY <1>a, <2>1 DEF CallFits, Making, Unmaking, CamPcs
    <3>2. caller[t].pc = "cam" /\ ~Making(caller[t]) /\ Unmaking(caller[t])
      BY <1>3, <2>1 DEF TakeCam, In, Making, Unmaking
    <3> QED BY <1>3, <2>1, <3>1, <3>2, GoOn DEF TakeCam, CamPcs, At
  <2>2. CASE caller[t].op # "close"
    <3>1. caller[t].op \notin {"none", "open", "close"} /\ caller[t].pc = "cam"
      BY <1>0, <1>3, <2>2 DEF TakeCam, In, CallFits
    <3> QED BY <1>3, <1>b, <2>2, <3>1 DEF TakeCam
  <2> QED BY <2>1, <2>2
<1>4. CASE DoCameraCall(t)
  <2>1. caller[t].op \notin {"none", "open", "close"} /\ caller[t].pc = "look"
    BY <1>0, <1>4 DEF DoCameraCall, In, CallFits
  <2>2. Returns(t) \/ Goes(t, "msg") \/ Goes(t, "ch")
    BY <1>4 DEF DoCameraCall
  <2> QED BY <1>4, <1>b, <2>1, <2>2, GoHome DEF DoCameraCall
<1>5. CASE TakeCh(t)
  <2>1. caller[t].op \notin {"none", "open", "close"} /\ caller[t].pc = "ch"
    BY <1>0, <1>5 DEF TakeCh, In, CallFits
  <2> QED BY <1>5, <1>b, <2>1 DEF TakeCh
<1>6. CASE mm_camera_start_channel(t) \/ mm_camera_stop_channel(t)
  <2>1. caller[t].op \notin {"none", "open", "close"} /\ caller[t].pc = "work"
    BY <1>6 DEF mm_camera_start_channel, mm_camera_stop_channel, In
  <2>2. Returns(t) \/ Goes(t, "joins")
    BY <1>6 DEF mm_camera_start_channel, mm_camera_stop_channel
  <2> QED BY <1>6, <1>b, <2>1, <2>2, GoHome
             DEF mm_camera_start_channel, mm_camera_stop_channel
<1>7. CASE CbJoined(t) \/ OtherChannelCall(t) \/ StrayWakes(t)
  BY <1>7, GoHome DEF CbJoined, OtherChannelCall, StrayWakes, In
<1>8. CASE DeleteChannel(t)
  <2>1. /\ UNCHANGED <<objVars, handle, raced, msgVars>> /\ caller[t].pc = "work"
        /\ caller' = [u \in Callers |->
              IF u = t THEN Resting
              ELSE IF In(u, "ch") /\ caller[u].o = caller[t].o
                   THEN [caller[u] EXCEPT !.pc = "stray"] ELSE caller[u]]
    BY <1>8 DEF DeleteChannel, In
  <2>2. \A u \in Callers : /\ caller[u] \in CamCalls /\ CallFits(caller[u])
                           /\ [caller[u] EXCEPT !.pc = "stray"] \in CamCalls
    BY DEF CamTypes, OpenInv, CallsFit, CamCalls, CamPcs
  <2>3. caller' \in [Callers -> CamCalls]
    BY <2>1, <2>2 DEF CamCalls, CamPcs, CamOps, Resting
  <2>4. \A u \in Callers \ {t} :
           \/ caller'[u] = caller[u]
           \/ /\ caller[u].pc = "ch" /\ caller'[u].pc = "stray"
              /\ caller'[u].op = caller[u].op /\ caller'[u].o = caller[u].o
    BY <2>1, <2>2 DEF In, CamCalls
  <2>5. \A u \in Callers \ {t} :
           /\ caller'[u].op = caller[u].op /\ caller'[u].o = caller[u].o
           /\ CallFits(caller'[u])
           /\ Making(caller'[u]) <=> Making(caller[u])
           /\ Unmaking(caller'[u]) <=> Unmaking(caller[u])
    <3> SUFFICES ASSUME NEW u \in Callers \ {t}, caller'[u] # caller[u]
                 PROVE  /\ CallFits(caller'[u])
                        /\ ~Making(caller'[u]) /\ ~Making(caller[u])
                        /\ ~Unmaking(caller'[u]) /\ ~Unmaking(caller[u])
      BY <2>2, <2>4
    <3>1. caller[u].op \notin {"none", "open", "close"}
      BY <2>2, <2>4 DEF CallFits
    <3> QED BY <2>4, <3>1 DEF CallFits, Making, Unmaking
  <2>6. caller'[t] = Resting
    BY <2>1
  <2>7. CallersMove
    BY <2>1, <2>3, <2>5, <2>6 DEF CallersMove
  <2> QED BY <2>1, <2>4, <2>6, <2>7 DEF NobodyTold, Told, Resting
<1> QED BY <1>1, <1>2, <1>3, <1>4, <1>5, <1>6, <1>7, <1>8 DEF SimpleStep

-----------------------------------------------------------------------------
(* Calls that open and close *)

\* A thread begins a call.
LEMMA CallInv == ASSUME CamTypes, OpenInv, NEW t \in Callers, Call(t) PROVE OpenInv'
<1>1. PICK called \in {"open", "close"} \cup CameraCalls \cup ChannelCalls :
         /\ Allowed(t, called)
         /\ caller' = [caller EXCEPT ![t] = [pc |-> "intf", op |-> called, o |-> handle[t]]]
  BY DEF Call
<1>2. /\ UNCHANGED <<cam_obj, ref_count, alive, handle, raced>>
      /\ caller[t].pc = "idle"
      /\ caller'[t].pc = "intf" /\ caller'[t].op = called /\ caller'[t].o = handle[t]
      /\ \A u \in Callers \ {t} : caller'[u] = caller[u]
  BY <1>1 DEF Call, CamTypes, objVars, In
<1>3. /\ called # "none"
      /\ called = "open" => handle[t] = 0 /\ Quiet(Peers(t))
      /\ called = "close" => handle[t] # 0 /\ Quiet(Peers(t))
      /\ called \notin {"open", "close"} =>
             handle[t] # 0 /\ \A u \in Peers(t) : caller[u].op \notin {"open", "close"}
  BY <1>1 DEF Allowed, CameraCalls, ChannelCalls
<1>4. ~Making(caller'[t]) /\ ~Unmaking(caller'[t])
  BY <1>2 DEF Making, Unmaking
<1>5. CallFits(caller'[t])
  BY <1>2, <1>3, <1>4 DEF CallFits
<1>6. PeersAgree'
  <2> SUFFICES ASSUME NEW a \in Callers, NEW u \in Peers(a)
               PROVE  /\ handle'[u] = handle'[a]
                      /\ u # a /\ caller'[a].op \in {"open", "close"} => caller'[u].pc = "idle"
    BY DEF PeersAgree
  <2>1. handle[u] = handle[a] /\ u \in Callers /\ a \in Peers(u)
    BY PeersOf DEF OpenInv, PeersAgree
  <2>2. CASE a = t
    BY <1>2, <1>3, <2>1, <2>2 DEF Quiet, In
  <2>3. CASE u = t /\ a # t
    <3>1. ~(caller[a].op \in {"open", "close"})
      BY <1>2, <1>3, <2>1, <2>3 DEF OpenInv, CallsFit, CallFits, Quiet, In
    <3> QED BY <1>2, <2>1, <2>3, <3>1
  <2>4. CASE u # t /\ a # t
    BY <1>2, <2>1, <2>4 DEF OpenInv, PeersAgree
  <2> QED BY <2>2, <2>3, <2>4
<1>7. CallsFit'
  BY <1>2, <1>3, <1>4, <1>5 DEF OpenInv, CallsFit
<1>8. OpenIsAlive' /\ Counted'
  BY <1>2 DEF OpenInv, OpenIsAlive, Counted, Users
<1>9. MineAlone'
  BY <1>2, <1>4 DEF OpenInv, MineAlone, Alone
<1>10. InTable'
  BY <1>2, <1>4 DEF OpenInv, InTable
<1> QED BY <1>6, <1>7, <1>8, <1>9, <1>10 DEF OpenInv

\* What a client opens, or closes, is told to its threads.
LEMMA OpenOf ==
    ASSUME CamTypes, PeersAgree, NEW t \in Callers, NEW o \in Cameras \cup {0}, HasOpen(t, o)
    PROVE  /\ handle' \in [Callers -> Cameras \cup {0}]
           /\ \A u \in Callers : handle'[u] = IF u \in Peers(t) THEN o ELSE handle[u]
           /\ \A a \in Callers : \A u \in Peers(a) : handle'[u] = handle'[a]
           /\ \A p \in Cameras :
                  /\ Peers(t) \in Users(p) <=> handle[t] = p
                  /\ Users(p)' = IF o = p THEN Users(p) \cup {Peers(t)}
                                 ELSE Users(p) \ {Peers(t)}
<1>1. /\ handle' \in [Callers -> Cameras \cup {0}]
      /\ \A u \in Callers : handle'[u] = IF u \in Peers(t) THEN o ELSE handle[u]
  BY DEF HasOpen, CamTypes
<1>2. \A a \in Callers : \A u \in Peers(a) :
          /\ u \in Callers /\ handle[u] = handle[a]
          /\ u \in Peers(t) <=> a \in Peers(t)
  BY PeersOf DEF PeersAgree
<1>3. \A c \in Clients : c \subseteq Callers
  BY MmCameraAssumption DEF Clients
<1>4. ASSUME NEW p \in Cameras
      PROVE  /\ Peers(t) \in Users(p) <=> handle[t] = p
             /\ Users(p)' = IF o = p THEN Users(p) \cup {Peers(t)}
                            ELSE Users(p) \ {Peers(t)}
  <2>1. Peers(t) \in Clients /\ t \in Peers(t)
    BY PeersOf
  <2>2. \A u \in Peers(t) : handle[u] = handle[t] /\ handle'[u] = o
    BY <1>1, <1>2
  <2>3. \A c \in Clients \ {Peers(t)} : \A u \in c : handle'[u] = handle[u]
    <3> SUFFICES ASSUME NEW c \in Clients \ {Peers(t)}, NEW u \in c
                 PROVE  handle'[u] = handle[u]
      OBVIOUS
    <3>1. u \in Callers /\ u \notin Peers(t)
      BY <1>3, <2>1, PeersOf
    <3> QED BY <1>1, <3>1
  <2>4. Users(p) \subseteq Clients /\ Users(p)' \subseteq Clients
    BY DEF Users
  <2>5. Peers(t) \in Users(p) <=> handle[t] = p
    BY <2>1, <2>2 DEF Users
  <2>6. Peers(t) \in Users(p)' <=> o = p
    BY <2>1, <2>2 DEF Users
  <2>7. \A c \in Clients \ {Peers(t)} : c \in Users(p)' <=> c \in Users(p)
    BY <2>3 DEF Users
  <2> QED BY <2>1, <2>4, <2>5, <2>6, <2>7
<1> QED BY <1>1, <1>2, <1>4

\* The threads of a client whose call opens or closes, when it returns.
LEMMA OpenReturns ==
    ASSUME CamTypes, OpenInv, NEW t \in Callers, caller[t].op \in {"open", "close"},
           NEW o \in Cameras \cup {0}, HasOpen(t, o), Returns(t)
    PROVE  /\ PeersAgree' /\ CallsFit'
           /\ caller'[t] = Resting /\ \A u \in Callers \ {t} : caller'[u] = caller[u]
<1>1. caller'[t] = Resting /\ \A u \in Callers \ {t} : caller'[u] = caller[u]
  BY DEF CamTypes, Returns
<1>2. /\ \A u \in Callers : handle'[u] = IF u \in Peers(t) THEN o ELSE handle[u]
      /\ \A a \in Callers : \A u \in Peers(a) : handle'[u] = handle'[a]
  BY OpenOf DEF OpenInv
<1>3. PeersAgree'
  BY <1>1, <1>2, PeersOf DEF OpenInv, PeersAgree, Resting
<1>4. \A u \in Peers(t) \ {t} : caller[u].pc = "idle" /\ caller[u].op = "none"
  BY PeersOf DEF OpenInv, PeersAgree, CallsFit, CallFits
<1>5. CallFits(Resting) /\ ~Unmaking(Resting)
  BY DEF CallFits, Making, Unmaking, Resting
<1>6. CallsFit'
  <2> SUFFICES ASSUME NEW u \in Callers
               PROVE  /\ CallFits(caller'[u])
                      /\ caller'[u].op = "open" \/ Unmaking(caller'[u]) => handle'[u] = 0
                      /\ caller'[u].op \notin {"none", "open"} /\ ~Unmaking(caller'[u]) =>
                             caller'[u].o = handle'[u] /\ handle'[u] # 0
    BY DEF CallsFit
  <2>1. CASE u = t
    BY <1>1, <1>5, <2>1 DEF Resting
  <2>2. CASE u \in Peers(t) \ {t}
    BY <1>1, <1>4, <2>2 DEF OpenInv, CallsFit, Unmaking
  <2>3. CASE u \notin Peers(t)
    BY <1>1, <1>2, <2>3, PeersOf DEF OpenInv, CallsFit
  <2> QED BY <2>1, <2>2, <2>3
<1> QED BY <1>1, <1>3, <1>6

\* The camera that is open already gets one more reference.
LEMMA ReuseInv ==
    ASSUME CamTypes, OpenInv, NEW t \in Callers, caller[t].op = "open", Reuse(t)
    PROVE  OpenInv'
<1>1. /\ cam_obj \in Cameras /\ HasOpen(t, cam_obj) /\ Returns(t)
      /\ ref_count' = [ref_count EXCEPT ![cam_obj] = @ + 1]
      /\ cam_obj' = cam_obj /\ alive' = alive /\ raced' = raced
  BY DEF Reuse, CamTypes
<1>2. /\ PeersAgree' /\ CallsFit'
      /\ caller'[t] = Resting /\ \A u \in Callers \ {t} : caller'[u] = caller[u]
  BY <1>1, OpenReturns
<1>3. /\ \A u \in Callers : handle'[u] \in {cam_obj, handle[u]}
      /\ Peers(t) \notin Users(cam_obj)
      /\ Users(cam_obj)' = Users(cam_obj) \cup {Peers(t)}
  <2>1. handle[t] = 0 /\ cam_obj # 0
    BY DEF OpenInv, CallsFit, Reuse
  <2> QED BY <1>1, <2>1, OpenOf DEF OpenInv
<1>4. ~Alone(Resting) /\ ~Making(Resting)
  BY DEF Alone, Making, Unmaking, Resting
<1>5. OpenIsAlive'
  BY <1>1, <1>3 DEF OpenInv, OpenIsAlive
<1>6. MineAlone'
  <2>1. \A a \in Callers : Alone(caller'[a]) => a # t /\ Alone(caller[a])
    BY <1>2, <1>4
  <2>2. \A a \in Callers : Alone(caller'[a]) =>
           /\ caller[a].o # cam_obj
           /\ \A u \in Callers : handle'[u] # caller[a].o
           /\ caller[a].o \in Cameras => ref_count'[caller[a].o] = ref_count[caller[a].o]
    BY <1>1, <1>3, <2>1 DEF OpenInv, MineAlone, CamTypes
  <2>3. alive \subseteq Cameras
    BY DEF CamTypes
  <2> QED BY <1>1, <1>2, <2>1, <2>2, <2>3 DEF OpenInv, MineAlone
<1>7. Counted'
  <2>1. IsFiniteSet(Users(cam_obj))
    BY ClientsFinite, FS_Subset DEF Users
  <2>2. Cardinality(Users(cam_obj)') = Cardinality(Users(cam_obj)) + 1
    BY <1>3, <2>1, FS_AddElement
  <2>3. ref_count'[cam_obj] = ref_count[cam_obj] + 1
    BY <1>1 DEF CamTypes
  <2>4. ref_count[cam_obj] = Cardinality(Users(cam_obj))
    BY DEF OpenInv, Counted, Reuse
  <2> QED BY <1>1, <2>2, <2>3, <2>4 DEF Counted, Users
<1>8. InTable'
  <2>1. \A a \in Callers : Making(caller'[a]) => a # t /\ Making(caller[a])
    BY <1>2, <1>4
  <2> QED BY <1>1, <1>2, <1>3, <2>1 DEF OpenInv, InTable
<1> QED BY <1>2, <1>5, <1>6, <1>7, <1>8 DEF OpenInv

\* A camera is made; it is not in the table yet.
LEMMA NewCameraInv ==
    ASSUME CamTypes, OpenInv, NEW t \in Callers, caller[t].op = "open",
           caller[t].pc = "intf", NewCamera(t), UNCHANGED <<cam_obj, handle>>
    PROVE  OpenInv'
<1>1. PICK o \in Cameras \ alive :
         /\ ref_count' = [ref_count EXCEPT ![o] = 1] /\ alive' = alive \cup {o}
         /\ caller' = [caller EXCEPT ![t].pc = "opening", ![t].o = o]
  BY DEF NewCamera
<1>2. /\ cam_obj = 0 /\ cam_obj' = cam_obj /\ handle' = handle
      /\ o # 0
  BY DEF NewCamera, Cameras
<1>b. alive' = alive \cup {o}
  BY <1>1
<1>a. ~raced' => ~raced /\ \A u \in Callers : ~Making(caller[u])
  BY Zenon DEF NewCamera, Making
<1>3. /\ caller'[t].pc = "opening" /\ caller'[t].op = "open" /\ caller'[t].o = o
      /\ \A u \in Callers \ {t} : caller'[u] = caller[u]
  BY <1>1 DEF CamTypes, CamCalls
<1>4. Making(caller'[t]) /\ ~Unmaking(caller'[t]) /\ CallFits(caller'[t])
  BY <1>3 DEF Making, Unmaking, CallFits
<1>5. /\ ref_count'[o] = 1
      /\ \A p \in Cameras \ {o} : ref_count'[p] = ref_count[p]
  BY <1>1 DEF CamTypes
<1>6. \A u \in Callers : handle[u] # o /\ (Alone(caller[u]) => caller[u].o # o)
  BY <1>2 DEF OpenInv, OpenIsAlive, MineAlone
<1>7. PeersAgree'
  <2>1. \A u \in Peers(t) \ {t} : caller[u].pc = "idle" /\ u \in Callers
    BY PeersOf DEF OpenInv, PeersAgree
  <2>2. \A a \in Callers : t \in Peers(a) => a \in Peers(t)
    BY PeersOf
  <2>3. \A a \in Callers \ {t} : t \in Peers(a) => ~(caller'[a].op \in {"open", "close"})
    BY <1>3, <2>1, <2>2 DEF OpenInv, CallsFit, CallFits
  <2> QED BY <1>2, <1>3, <2>1, <2>3, PeersOf DEF OpenInv, PeersAgree
<1>8. CallsFit'
  BY <1>2, <1>3, <1>4 DEF OpenInv, CallsFit
<1>9. OpenIsAlive'
  BY <1>1, <1>2 DEF OpenInv, OpenIsAlive
<1>10. MineAlone'
  <2> SUFFICES ASSUME NEW a \in Callers, Alone(caller'[a])
               PROVE  /\ caller'[a].o \in alive' /\ caller'[a].o # cam_obj
                      /\ \A u \in Callers :
                             /\ handle[u] # caller'[a].o
                             /\ Alone(caller'[u]) /\ caller'[u].o = caller'[a].o => u = a
                      /\ Making(caller'[a]) => ref_count'[caller'[a].o] = 1
    BY <1>2 DEF MineAlone
  <2>1. CASE a = t
    <3>1. caller'[a].o \in alive' /\ caller'[a].o # cam_obj /\ ref_count'[caller'[a].o] = 1
      BY <1>1, <1>2, <1>3, <1>5, <2>1
    <3>2. \A u \in Callers \ {t} : Alone(caller'[u]) => caller'[u].o # o
      BY <1>3, <1>6
    <3> QED BY <1>3, <1>6, <2>1, <3>1, <3>2
  <2>2. CASE a # t
    <3>1. Alone(caller[a]) /\ caller'[a] = caller[a] /\ caller[a].o # o
      BY <1>3, <1>6, <2>2
    <3>2. caller[a].o \in alive /\ caller[a].o \in Cameras
      BY <3>1 DEF OpenInv, MineAlone, CamTypes
    <3>a. caller[a].o \in alive /\ caller[a].o # cam_obj
      BY <3>1 DEF OpenInv, MineAlone
    <3>3. caller'[a].o \in alive' /\ caller'[a].o # cam_obj
      BY <1>b, <3>1, <3>a
    <3>4. \A u \in Callers : handle[u] # caller'[a].o
      BY <3>1 DEF OpenInv, MineAlone
    <3>5. \A u \in Callers : Alone(caller'[u]) /\ caller'[u].o = caller'[a].o => u = a
      BY <1>3, <3>1 DEF OpenInv, MineAlone
    <3>6. Making(caller'[a]) => ref_count'[caller'[a].o] = 1
      BY <1>5, <3>1, <3>2 DEF OpenInv, MineAlone
    <3> QED BY <3>3, <3>4, <3>5, <3>6
  <2> QED BY <2>1, <2>2
<1>11. Counted'
  BY <1>2 DEF Counted
<1>12. InTable'
  BY <1>2, <1>3, <1>a DEF OpenInv, InTable
<1> QED BY <1>7, <1>8, <1>9, <1>10, <1>11, <1>12 DEF OpenInv

\* The camera that was made gets into the table, or is freed.
LEMMA OpenedInv ==
    ASSUME CamTypes, OpenInv, NEW t \in Callers, Opened(t)
    PROVE  OpenInv'
<1>0. alive \subseteq Cameras /\ 0 \notin Cameras
  BY DEF CamTypes, Cameras
<1>b. caller[t].op = "open" /\ Making(caller[t]) /\ handle[t] = 0
  BY DEF OpenInv, CallsFit, CallFits, Opened, Making
<1>c. PICK o \in Cameras : o = caller[t].o
  BY <1>0, <1>b DEF OpenInv, MineAlone, Alone
<1>1. /\ caller[t].op = "open" /\ Making(caller[t]) /\ handle[t] = 0
      /\ o \in alive /\ o \in Cameras /\ o # cam_obj /\ ref_count[o] = 1
      /\ \A u \in Callers : /\ handle[u] # o
                            /\ Alone(caller[u]) /\ caller[u].o = o => u = t
  BY <1>b, <1>c DEF OpenInv, MineAlone, Alone
<1>2. /\ Returns(t) /\ raced' = raced
      /\ \/ cam_obj' = o /\ HasOpen(t, o) /\ alive' = alive /\ ref_count' = ref_count
         \/ /\ cam_obj' = 0 /\ HasOpen(t, 0) /\ alive' = alive \ {o}
            /\ ref_count' = [ref_count EXCEPT ![o] = 0]
  <2>1. handle' = handle => HasOpen(t, 0)
    BY <1>1, PeersOf DEF HasOpen, OpenInv, PeersAgree, CamTypes
  <2> QED BY <1>c, <2>1 DEF Opened
<1>3. PICK h \in {0, o} : HasOpen(t, h) /\ cam_obj' = h /\ (h = 0 => alive' = alive \ {o})
                          /\ (h = o => alive' = alive /\ ref_count' = ref_count)
  BY <1>0, <1>1, <1>2
<1>a. h \in Cameras \cup {0}
  BY <1>1
<1>4. /\ PeersAgree' /\ CallsFit'
      /\ caller'[t] = Resting /\ \A u \in Callers \ {t} : caller'[u] = caller[u]
  BY <1>1, <1>2, <1>3, <1>a, OpenReturns
<1>5. ~Alone(Resting) /\ ~Making(Resting)
  BY DEF Alone, Making, Unmaking, Resting
<1>6. \A a \in Callers : /\ Alone(caller'[a]) => a # t /\ Alone(caller[a]) /\ caller[a].o # o
                         /\ Making(caller'[a]) => a # t /\ Making(caller[a])
  BY <1>1, <1>4, <1>5
<1>7. \A u \in Callers : handle'[u] \in {h, handle[u]}
  BY <1>3, <1>a, OpenOf DEF OpenInv
<1>8. OpenIsAlive'
  <2>1. h # 0 => h \in alive'
    BY <1>1, <1>3
  <2>2. \A u \in Callers : handle[u] # 0 => handle[u] \in alive'
    BY <1>1, <1>3 DEF OpenInv, OpenIsAlive
  <2> QED BY <1>3, <1>7, <2>1, <2>2 DEF OpenIsAlive
<1>9. MineAlone'
  <2> SUFFICES ASSUME NEW a \in Callers, Alone(caller'[a])
               PROVE  /\ caller'[a].o \in alive' /\ caller'[a].o # cam_obj'
                      /\ \A u \in Callers :
                             /\ handle'[u] # caller'[a].o
                             /\ Alone(caller'[u]) /\ caller'[u].o = caller'[a].o => u = a
                      /\ Making(caller'[a]) => ref_count'[caller'[a].o] = 1
    BY DEF MineAlone
  <2>1. a # t /\ Alone(caller[a]) /\ caller[a].o # o /\ caller'[a] = caller[a]
    BY <1>4, <1>6
  <2>2. /\ caller[a].o \in alive /\ caller[a].o \in Cameras /\ caller[a].o # 0
        /\ \A u \in Callers : /\ handle[u] # caller[a].o
                              /\ Alone(caller[u]) /\ caller[u].o = caller[a].o => u = a
        /\ Making(caller[a]) => ref_count[caller[a].o] = 1
    BY <1>0, <2>1 DEF OpenInv, MineAlone
  <2>3. caller[a].o \in alive' /\ caller[a].o # cam_obj'
    BY <1>3, <2>1, <2>2
  <2>4. \A u \in Callers : handle'[u] # caller[a].o
    BY <1>7, <2>1, <2>2
  <2>5. \A u \in Callers : Alone(caller'[u]) /\ caller'[u].o = caller[a].o => u = a
    BY <1>4, <1>6, <2>2
  <2>6. Making(caller[a]) => ref_count'[caller[a].o] = 1
    BY <1>2, <2>1, <2>2 DEF CamTypes
  <2> QED BY <2>1, <2>3, <2>4, <2>5, <2>6
<1>10. Counted'
  <2>1. CASE h = 0
    BY <1>3, <2>1 DEF Counted
  <2>2. CASE h = o
    <3>1. Users(o) = {} /\ Users(o)' = Users(o) \cup {Peers(t)}
      <4>1. Users(o) = {}
        <5>1. \A c \in Clients : c \subseteq Callers
          BY MmCameraAssumption DEF Clients
        <5> QED BY <1>1, <5>1 DEF Users
      <4>2. HasOpen(t, o) /\ o \in Cameras \cup {0}
        BY <1>3, <2>2
      <4> QED BY <4>1, <4>2, OpenOf DEF OpenInv
    <3>2. Cardinality({Peers(t)}) = 1
      BY FS_Singleton
    <3>3. Cardinality(Users(o)') = 1
      BY <3>1, <3>2
    <3>4. cam_obj' = o /\ ref_count'[o] = 1
      BY <1>1, <1>3, <2>2
    <3> QED BY <3>3, <3>4 DEF Counted, Users
  <2> QED BY <2>1, <2>2
<1>11. InTable'
  <2>1. ~raced => cam_obj = 0 /\ \A u \in Callers : Making(caller[u]) => u = t
    BY <1>1 DEF OpenInv, InTable
  <2>2. ~raced => \A u \in Callers : handle[u] = 0
    BY <2>1 DEF OpenInv, InTable
  <2> QED BY <1>2, <1>3, <1>6, <1>7, <2>1, <2>2 DEF InTable
<1> QED BY <1>4, <1>8, <1>9, <1>10, <1>11 DEF OpenInv

\* Closing takes a reference back, and the last one the camera out of the table.
LEMMA CloseInv ==
    ASSUME CamTypes, OpenInv, NEW t \in Callers, mm_camera_intf_close(t)
    PROVE  OpenInv'
<1>0. alive \subseteq Cameras /\ 0 \notin Cameras
  BY DEF CamTypes, Cameras
<1>1. /\ caller[t].op = "close" /\ caller[t].pc = "intf" /\ HasOpen(t, 0)
      /\ alive' = alive /\ raced' = raced
  BY DEF mm_camera_intf_close, In
<1>2. PICK o \in Cameras : o = handle[t] /\ o \in alive /\ o = caller[t].o
  BY <1>0, <1>1 DEF OpenInv, CallsFit, Unmaking, OpenIsAlive
<1>3. /\ \A u \in Callers : handle'[u] = IF u \in Peers(t) THEN 0 ELSE handle[u]
      /\ \A p \in Cameras : /\ Peers(t) \in Users(p) <=> handle[t] = p
                            /\ Users(p)' = Users(p) \ {Peers(t)}
  <2>1. \A p \in Cameras : 0 # p
    BY DEF Cameras
  <2> QED BY <1>1, <2>1, OpenOf DEF OpenInv
<1>4. \A p \in Cameras :
        /\ IsFiniteSet(Users(p)) /\ Cardinality(Users(p)) \in Nat
        /\ Cardinality(Users(p)') = IF handle[t] = p THEN Cardinality(Users(p)) - 1
                                    ELSE Cardinality(Users(p))
  <2> SUFFICES ASSUME NEW p \in Cameras
               PROVE  /\ IsFiniteSet(Users(p)) /\ Cardinality(Users(p)) \in Nat
                      /\ Cardinality(Users(p)') =
                             IF handle[t] = p THEN Cardinality(Users(p)) - 1
                             ELSE Cardinality(Users(p))
    OBVIOUS
  <2>1. IsFiniteSet(Users(p))
    BY ClientsFinite, FS_Subset DEF Users
  <2> QED BY <1>3, <2>1, FS_RemoveElement, FS_CardinalityType
<1>5. ~Making(caller[t]) /\ ~Alone(caller[t]) /\ ~Alone(Resting) /\ ~Making(Resting)
  BY <1>1 DEF Alone, Making, Unmaking, Resting
<1>6. CASE Returns(t) /\ cam_obj' = cam_obj
  <2>1. /\ PeersAgree' /\ CallsFit'
        /\ caller'[t] = Resting /\ \A u \in Callers \ {t} : caller'[u] = caller[u]
    BY <1>1, <1>6, OpenReturns
  <2>2. \A a \in Callers : /\ Alone(caller'[a]) => a # t /\ Alone(caller[a])
                           /\ Making(caller'[a]) => a # t /\ Making(caller[a])
    BY <1>5, <2>1
  <2>3. \/ cam_obj # o /\ ref_count' = ref_count
        \/ /\ cam_obj = o /\ ref_count' = [ref_count EXCEPT ![o] = @ - 1]
    BY <1>0, <1>2, <1>6 DEF mm_camera_intf_close, Found
  <2>4. OpenIsAlive'
    BY <1>1, <1>3, <1>6 DEF OpenInv, OpenIsAlive
  <2>5. MineAlone'
    <3>1. \A p \in Cameras : p # cam_obj => ref_count'[p] = ref_count[p]
      BY <2>3 DEF CamTypes
    <3>2. \A a \in Callers : Alone(caller'[a]) =>
             /\ caller[a].o \in Cameras /\ caller[a].o # 0
             /\ ref_count'[caller[a].o] = ref_count[caller[a].o]
      BY <1>0, <2>2, <3>1 DEF OpenInv, MineAlone
    <3>3. \A a \in Callers : Alone(caller'[a]) => \A u \in Callers : handle'[u] # caller[a].o
      BY <1>3, <2>2, <3>2 DEF OpenInv, MineAlone
    <3> QED BY <1>1, <1>6, <2>1, <2>2, <3>2, <3>3 DEF OpenInv, MineAlone
  <2>6. Counted'
    <3> SUFFICES ASSUME NEW p \in Cameras, p = cam_obj
                 PROVE  ref_count'[p] = Cardinality(Users(p)')
      BY <1>0, <1>6 DEF Counted, Users, CamTypes
    <3>1. ref_count[p] = Cardinality(Users(p))
      BY <1>0 DEF OpenInv, Counted
    <3>2. ref_count'[p] = IF handle[t] = p THEN ref_count[p] - 1 ELSE ref_count[p]
      BY <1>2, <2>3 DEF CamTypes
    <3> QED BY <1>4, <3>1, <3>2
  <2>7. InTable'
    BY <1>1, <1>3, <1>6, <2>1, <2>2 DEF OpenInv, InTable
  <2> QED BY <2>1, <2>4, <2>5, <2>6, <2>7 DEF OpenInv
<1>7. CASE Goes(t, "cam") /\ cam_obj' = 0 /\ cam_obj = o /\ ~(ref_count[o] > 1)
  <2>1. /\ caller'[t].pc = "cam" /\ caller'[t].op = "close" /\ caller'[t].o = o
        /\ \A u \in Callers \ {t} : caller'[u] = caller[u]
    BY <1>1, <1>2, <1>7 DEF Goes, CamTypes, CamCalls
  <2>2. /\ CallFits(caller'[t]) /\ Unmaking(caller'[t]) /\ ~Making(caller'[t])
        /\ Alone(caller'[t])
    BY <2>1 DEF CallFits, Making, Unmaking, Alone
  <2>3. \A u \in Callers : handle'[u] # o
    <3>1. Cardinality(Users(o)') = ref_count[o] - 1 /\ ref_count[o] \in Nat
      <4>1. ref_count[o] = Cardinality(Users(o)) /\ o = handle[t]
        BY <1>0, <1>2, <1>7 DEF OpenInv, Counted
      <4> QED BY <1>2, <1>4, <4>1
    <3>2. Users(o)' = {}
      <4>1. IsFiniteSet(Users(o)')
        BY <1>2, <1>3, <1>4, FS_RemoveElement
      <4>2. Cardinality(Users(o)') = 0
        BY <1>7, <3>1, <4>1, FS_CardinalityType
      <4> QED BY <4>1, <4>2, FS_EmptySet
    <3> QED BY <3>2, PeersOf DEF Users
  <2>4. ref_count' = [ref_count EXCEPT ![o] = @ - 1]
    BY <1>0, <1>2, <1>7 DEF mm_camera_intf_close, Found
  <2>5. PeersAgree'
    <3>1. \A a \in Callers : \A u \in Peers(a) : handle'[u] = handle'[a]
      BY <1>1, OpenOf DEF OpenInv
    <3>2. \A u \in Callers : caller'[u].op = caller[u].op
      BY <1>1, <2>1
    <3>3. \A u \in Callers : u # t => caller'[u].pc = caller[u].pc
      BY <2>1
    <3>4. \A a \in Callers : t \in Peers(a) /\ a # t => ~(caller[a].op \in {"open", "close"})
      BY <1>1 DEF OpenInv, PeersAgree
    <3> QED BY <3>1, <3>2, <3>3, <3>4, PeersOf DEF OpenInv, PeersAgree
  <2>6. CallsFit'
    <3>1. \A u \in Peers(t) \ {t} : u \in Callers /\ caller[u].pc = "idle" /\ caller[u].op = "none"
      BY <1>1, PeersOf DEF OpenInv, PeersAgree, CallsFit, CallFits
    <3> SUFFICES ASSUME NEW u \in Callers
                 PROVE  /\ CallFits(caller'[u])
                        /\ caller'[u].op = "open" \/ Unmaking(caller'[u]) => handle'[u] = 0
                        /\ caller'[u].op \notin {"none", "open"} /\ ~Unmaking(caller'[u]) =>
                               caller'[u].o = handle'[u] /\ handle'[u] # 0
      BY DEF CallsFit
    <3>2. CASE u = t
      BY <1>3, <2>1, <2>2, <3>2, PeersOf
    <3>3. CASE u \in Peers(t) \ {t}
      BY <1>3, <2>1, <3>1, <3>3 DEF OpenInv, CallsFit
    <3>4. CASE u \notin Peers(t)
      BY <1>3, <2>1, <3>4, PeersOf DEF OpenInv, CallsFit
    <3> QED BY <3>2, <3>3, <3>4
  <2>7. OpenIsAlive'
    BY <1>1, <1>3, <1>7 DEF OpenInv, OpenIsAlive
  <2>8. MineAlone'
    <3> SUFFICES ASSUME NEW a \in Callers, Alone(caller'[a])
                 PROVE  /\ caller'[a].o \in alive' /\ caller'[a].o # cam_obj'
                        /\ \A u \in Callers :
                               /\ handle'[u] # caller'[a].o
                               /\ Alone(caller'[u]) /\ caller'[u].o = caller'[a].o => u = a
                        /\ Making(caller'[a]) => ref_count'[caller'[a].o] = 1
      BY DEF MineAlone
    <3>1. \A u \in Callers \ {t} : Alone(caller'[u]) => caller'[u].o # o
      BY <1>7, <2>1 DEF OpenInv, MineAlone
    <3>2. CASE a = t
      <4>1. o # 0
        BY <1>0, <1>2
      <4> QED BY <1>1, <1>2, <1>7, <2>1, <2>2, <2>3, <3>1, <3>2, <4>1
    <3>3. CASE a # t
      <4>1. Alone(caller[a]) /\ caller'[a] = caller[a] /\ caller[a].o # o
        BY <2>1, <3>1, <3>3
      <4>2. /\ caller[a].o \in alive /\ caller[a].o \in Cameras /\ caller[a].o # 0
            /\ \A u \in Callers : /\ handle[u] # caller[a].o
                                  /\ Alone(caller[u]) /\ caller[u].o = caller[a].o => u = a
            /\ Making(caller[a]) => ref_count[caller[a].o] = 1
        BY <1>0, <4>1 DEF OpenInv, MineAlone
      <4>3. \A u \in Callers : handle'[u] # caller[a].o
        BY <1>3, <4>2
      <4>4. \A u \in Callers : Alone(caller'[u]) /\ caller'[u].o = caller[a].o => u = a
        BY <2>1, <4>1, <4>2
      <4>5. Making(caller[a]) => ref_count'[caller[a].o] = 1
        BY <2>4, <4>1, <4>2 DEF CamTypes
      <4> QED BY <1>1, <1>7, <4>1, <4>2, <4>3, <4>4, <4>5
    <3> QED BY <3>2, <3>3
  <2>9. Counted'
    BY <1>7 DEF Counted
  <2>10. InTable'
    <3>1. ~raced => \A u \in Callers : handle'[u] = 0
      BY <1>3, <1>7, <2>3 DEF OpenInv, InTable
    <3>2. \A u \in Callers : Making(caller'[u]) => u # t /\ Making(caller[u])
      BY <2>1, <2>2
    <3> QED BY <1>1, <1>7, <3>1, <3>2 DEF OpenInv, InTable
  <2> QED BY <2>5, <2>6, <2>7, <2>8, <2>9, <2>10 DEF OpenInv
<1> QED BY <1>0, <1>2, <1>6, <1>7 DEF mm_camera_intf_close, Found

\* A closed camera is freed when nobody can know it any more.
LEMMA FreeInv ==
    ASSUME CamTypes, OpenInv, AnswersInOrder, NEW t \in Callers, mm_camera_close(t)
    PROVE  OpenInv' /\ AnswersInOrder'
<1>0. alive \subseteq Cameras /\ 0 \notin Cameras
  BY DEF CamTypes, Cameras
<1>1. caller[t].op = "close" /\ caller[t].pc = "closing"
  BY DEF OpenInv, CallsFit, CallFits, mm_camera_close, In
<1>a. Alone(caller[t])
  BY <1>1 DEF Alone, Unmaking
<1>2. PICK o \in Cameras :
         /\ o = caller[t].o /\ o # cam_obj
         /\ \A u \in Callers : handle[u] # o
         /\ \A u \in Callers : Alone(caller[u]) /\ caller[u].o = o => u = t
  BY <1>0, <1>a DEF OpenInv, MineAlone
<1>3. /\ UNCHANGED <<cam_obj, ref_count, handle, raced>> /\ alive' = alive \ {o}
      /\ caller'[t] = Resting /\ \A u \in Callers \ {t} : caller'[u] = caller[u]
  BY <1>2 DEF mm_camera_close, Returns, CamTypes
<1>4. CallFits(Resting) /\ ~Unmaking(Resting) /\ ~Making(Resting) /\ ~Alone(Resting)
  BY DEF CallFits, Making, Unmaking, Alone, Resting
<1>5. PeersAgree'
  BY <1>1, <1>3, PeersOf DEF OpenInv, PeersAgree, Resting
<1>6. CallsFit'
  BY <1>3, <1>4 DEF OpenInv, CallsFit, Resting
<1>7. OpenIsAlive'
  BY <1>2, <1>3 DEF OpenInv, OpenIsAlive
<1>8. MineAlone'
  BY <1>2, <1>3, <1>4 DEF OpenInv, MineAlone
<1>9. Counted' /\ InTable'
  BY <1>3, <1>4 DEF OpenInv, Counted, Users, InTable
<1>10. AnswersInOrder'
  <2>1. \A u \in Callers : ~Told(caller[u], o)
    BY <1>2 DEF OpenInv, CallsFit, CallFits, Unmaking, Told
  <2>2. \A u \in Callers : \A p \in Cameras : Told(caller'[u], p) <=> Told(caller[u], p)
    BY <1>1, <1>3 DEF Told, Resting
  <2>3. /\ requests' = [requests EXCEPT ![o] = << >>]
        /\ evt_rcvd' = [evt_rcvd EXCEPT ![o] = 0]
        /\ gave_up' = gave_up \ {o} /\ msg_no' = msg_no
    BY <1>2 DEF mm_camera_close
  <2>4. /\ requests'[o] = << >> /\ evt_rcvd'[o] = 0
        /\ \A p \in Cameras \ {o} : requests'[p] = requests[p] /\ evt_rcvd'[p] = evt_rcvd[p]
    BY <2>3 DEF CamTypes
  <2> SUFFICES ASSUME NEW p \in Cameras
               PROVE  /\ \A a, u \in Callers : Told(caller'[a], p) /\ Told(caller'[u], p) => a = u
                      /\ p \notin gave_up' =>
                             \/ /\ \A a \in Callers : ~Told(caller'[a], p)
                                /\ requests'[p] = << >> /\ evt_rcvd'[p] = 0
                             \/ /\ \E a \in Callers : Told(caller'[a], p)
                                /\ \/ requests'[p] = << >> /\ evt_rcvd'[p] = msg_no[p]
                                   \/ requests'[p] = <<msg_no[p]>> /\ evt_rcvd'[p] = 0
    BY <2>3 DEF AnswersInOrder
  <2>5. CASE p = o
    BY <2>1, <2>2, <2>4, <2>5
  <2>6. CASE p # o
    BY <2>2, <2>3, <2>4, <2>6 DEF AnswersInOrder
  <2> QED BY <2>5, <2>6
<1> QED BY <1>5, <1>6, <1>7, <1>8, <1>9, <1>10 DEF OpenInv

-----------------------------------------------------------------------------
(* Messages *)

\* A message is sent when the one before has been waited for.
LEMMA SendInv ==
    ASSUME CamTypes, OpenInv, AnswersInOrder, NEW t \in Callers, mm_camera_util_sendmsg(t)
    PROVE  OpenInv' /\ AnswersInOrder'
<1>1. PICK o : o = caller[t].o
  OBVIOUS
<1>2. /\ caller[t].pc = "msg" /\ caller[t].op \notin {"none", "open", "close"}
      /\ CallFits(caller[t]) /\ caller[t] \in CamCalls
  BY DEF OpenInv, CallsFit, CallFits, mm_camera_util_sendmsg, In, CamTypes
<1>3. UNCHANGED <<objVars, handle, raced, evt_rcvd, gave_up>>
  BY DEF mm_camera_util_sendmsg
<1>4. CASE Returns(t) /\ UNCHANGED <<msg_no, requests>>
  BY <1>2, <1>3, <1>4, GoHome, MovesKeep, ToldKeeps DEF msgVars
<1>5. CASE /\ msg_no' = [msg_no EXCEPT ![o] = @ + 1]
           /\ requests' = [requests EXCEPT ![o] = Append(@, msg_no[o] + 1)]
           /\ Goes(t, "told")
  <2> DEFINE c == [caller[t] EXCEPT !.pc = "told"]
  <2>1. c.pc = "told" /\ c.op = caller[t].op /\ c.o = caller[t].o
    BY <1>2 DEF CamCalls
  <2>2. CallFits(c) /\ ~Making(c) /\ ~Unmaking(c)
    BY <1>2, <2>1 DEF CallFits, Making, Unmaking
  <2>3. ~Making(caller[t]) /\ ~Unmaking(caller[t])
    BY <1>2 DEF Making, Unmaking
  <2>4. CallersMove
    BY <1>2, <1>3, <1>5, <2>2, <2>3, GoOn DEF CamPcs
  <2>5. OpenInv'
    BY <2>4, MovesKeep
  <2>6. /\ \A u \in Callers \ {t} : caller'[u] = caller[u]
        /\ caller'[t] = c
    BY <1>5 DEF Goes, CamTypes
  <2>7. o \in Cameras
    BY <1>1, <1>2 DEF OpenInv, CallsFit, Unmaking, CamTypes
  <2>8. \A u \in Callers : ~Told(caller[u], o)
    BY <1>1 DEF mm_camera_util_sendmsg, MsgFree, In, Told
  <2>9. \A p \in Cameras : \A u \in Callers :
            Told(caller'[u], p) <=> (u = t /\ p = o) \/ Told(caller[u], p)
    BY <1>1, <1>2, <2>1, <2>6 DEF Told
  <2>10. \A p \in Cameras \ {o} : requests'[p] = requests[p] /\ msg_no'[p] = msg_no[p]
    BY <1>5 DEF CamTypes
  <2>11. requests[o] = << >> => requests'[o] = <<msg_no'[o]>>
    BY <1>5, <2>7 DEF CamTypes
  <2>12. AnswersInOrder'
    <3> SUFFICES ASSUME NEW p \in Cameras
                 PROVE  /\ \A a, u \in Callers : Told(caller'[a], p) /\ Told(caller'[u], p) => a = u
                        /\ p \notin gave_up =>
                               \/ /\ \A a \in Callers : ~Told(caller'[a], p)
                                  /\ requests'[p] = << >> /\ evt_rcvd[p] = 0
                               \/ /\ \E a \in Callers : Told(caller'[a], p)
                                  /\ \/ requests'[p] = << >> /\ evt_rcvd[p] = msg_no'[p]
                                     \/ requests'[p] = <<msg_no'[p]>> /\ evt_rcvd[p] = 0
      BY <1>3 DEF AnswersInOrder
    <3>1. CASE p = o
      <4>1. o \notin gave_up => requests[o] = << >> /\ evt_rcvd[o] = 0
        BY <2>7, <2>8 DEF AnswersInOrder
      <4> QED BY <2>8, <2>9, <2>11, <3>1, <4>1
    <3>2. CASE p # o
      BY <2>9, <2>10, <3>2 DEF AnswersInOrder
    <3> QED BY <3>1, <3>2
  <2> QED BY <2>5, <2>12
<1> QED BY <1>1, <1>4, <1>5 DEF mm_camera_util_sendmsg

\* A wait ends with the answer, or in giving up.
LEMMA WaitInv ==
    ASSUME CamTypes, OpenInv, AnswersInOrder, NEW t \in Callers,
           mm_camera_util_wait_for_event(t)
    PROVE  OpenInv' /\ AnswersInOrder'
<1>1. caller[t].pc = "told" /\ CallFits(caller[t]) /\ caller[t] \in CamCalls
  BY DEF OpenInv, CallsFit, mm_camera_util_wait_for_event, In, CamTypes
<1>2. PICK o \in Cameras : o = caller[t].o
  BY <1>1 DEF OpenInv, CallsFit, CallFits, Unmaking, CamTypes
<1>3. /\ UNCHANGED <<objVars, handle, raced, requests, msg_no>> /\ Returns(t)
      /\ gave_up' = IF evt_rcvd[o] = 0 THEN gave_up \cup {o} ELSE gave_up
      /\ evt_rcvd' = [evt_rcvd EXCEPT ![o] = 0]
  BY <1>2 DEF mm_camera_util_wait_for_event, ResetEvt
<1>4. OpenInv'
  BY <1>3, GoHome, MovesKeep
<1>5. caller'[t] = Resting /\ \A u \in Callers \ {t} : caller'[u] = caller[u]
  BY <1>3 DEF Returns, CamTypes
<1>6. \A p \in Cameras : \A u \in Callers :
          Told(caller'[u], p) <=> u # t /\ Told(caller[u], p)
  BY <1>5 DEF Told, Resting
<1>7. /\ evt_rcvd'[o] = 0
      /\ \A p \in Cameras \ {o} : evt_rcvd'[p] = evt_rcvd[p]
  BY <1>3 DEF CamTypes
<1>8. Told(caller[t], o) /\ \A u \in Callers : Told(caller[u], o) => u = t
  BY <1>1, <1>2 DEF AnswersInOrder, Told
<1>9. AnswersInOrder'
  <2> SUFFICES ASSUME NEW p \in Cameras
               PROVE  /\ \A a, u \in Callers : Told(caller'[a], p) /\ Told(caller'[u], p) => a = u
                      /\ p \notin gave_up' =>
                             \/ /\ \A a \in Callers : ~Told(caller'[a], p)
                                /\ requests[p] = << >> /\ evt_rcvd'[p] = 0
                             \/ /\ \E a \in Callers : Told(caller'[a], p)
                                /\ \/ requests[p] = << >> /\ evt_rcvd'[p] = msg_no[p]
                                   \/ requests[p] = <<msg_no[p]>> /\ evt_rcvd'[p] = 0
    BY <1>3 DEF AnswersInOrder
  <2>1. CASE p = o
    <3>1. o \notin gave_up' => requests[o] = << >>
      BY <1>3, <1>8 DEF AnswersInOrder
    <3> QED BY <1>6, <1>7, <1>8, <2>1, <3>1
  <2>2. CASE p # o
    <3>1. \A u \in Callers : Told(caller'[u], p) <=> Told(caller[u], p)
      BY <1>2, <1>6, <2>2 DEF Told
    <3>2. p \notin gave_up' => p \notin gave_up
      BY <1>3
    <3> QED BY <1>7, <2>2, <3>1, <3>2 DEF AnswersInOrder
  <2> QED BY <2>1, <2>2
<1> QED BY <1>4, <1>9

\* The answer to the one message that is under way is stored for its sender.
LEMMA DoneInv ==
    ASSUME CamTypes, OpenInv, AnswersInOrder, NEW o \in Cameras, MapUnmapDone(o)
    PROVE  OpenInv' /\ AnswersInOrder'
<1>1. UNCHANGED <<cam_obj, ref_count, alive, caller, handle, raced, msg_no, gave_up>>
  BY DEF MapUnmapDone, objVars
<1>2. OpenInv'
  BY <1>1 DEF OpenInv, PeersAgree, CallsFit, OpenIsAlive, MineAlone, Counted, Users, InTable
<1>3. /\ requests[o] # << >>
      /\ \A p \in Cameras \ {o} : requests'[p] = requests[p] /\ evt_rcvd'[p] = evt_rcvd[p]
      /\ requests[o] = <<msg_no[o]>> => requests'[o] = << >> /\ evt_rcvd'[o] = msg_no[o]
  <2>1. \A x : Head(<<x>>) = x /\ Tail(<<x>>) = << >>
    OBVIOUS
  <2>2. requests'[o] = Tail(requests[o]) /\ evt_rcvd'[o] = Head(requests[o])
    BY DEF MapUnmapDone, CamTypes
  <2> QED BY <2>1, <2>2 DEF MapUnmapDone, CamTypes
<1>4. AnswersInOrder'
  <2> SUFFICES ASSUME NEW p \in Cameras
               PROVE  /\ \A a, u \in Callers : Told(caller[a], p) /\ Told(caller[u], p) => a = u
                      /\ p \notin gave_up =>
                             \/ /\ \A a \in Callers : ~Told(caller[a], p)
                                /\ requests'[p] = << >> /\ evt_rcvd'[p] = 0
                             \/ /\ \E a \in Callers : Told(caller[a], p)
                                /\ \/ requests'[p] = << >> /\ evt_rcvd'[p] = msg_no[p]
                                   \/ requests'[p] = <<msg_no[p]>> /\ evt_rcvd'[p] = 0
    BY <1>1 DEF AnswersInOrder
  <2>1. CASE p = o
    BY <1>3, <2>1 DEF AnswersInOrder
  <2>2. CASE p # o
    BY <1>3, <2>2 DEF AnswersInOrder
  <2> QED BY <2>1, <2>2
<1> QED BY <1>2, <1>4

-----------------------------------------------------------------------------
(* The cameras, as a whole *)

\* A camera is found closed, or open with one client.
LEMMA CamInitInv == ASSUME CamInit PROVE CamInv
<1>0. 0 \notin Cameras /\ 1 \in Cameras
  BY MmCameraAssumption DEF Cameras
<1>1. PICK i \in Situations : LET open == i.chan # "none" IN
        /\ cam_obj = (IF open THEN 1 ELSE 0)
        /\ ref_count = [o \in Cameras |-> IF open /\ o = 1 THEN 1 ELSE 0]
        /\ alive = (IF open THEN {1} ELSE {})
        /\ caller = [t \in Callers |-> Resting]
        /\ handle = [t \in Callers |-> IF open /\ t \in Hal THEN 1 ELSE 0]
        /\ requests = [o \in Cameras |-> << >>]
        /\ msg_no = [o \in Cameras |-> 0] /\ evt_rcvd = msg_no
  BY DEF CamInit
<1>2. CallFits(Resting) /\ ~Unmaking(Resting) /\ ~Making(Resting) /\ ~Alone(Resting)
  BY DEF CallFits, Making, Unmaking, Alone, Resting
<1>3. \A t \in Callers : caller[t] = Resting
  BY <1>1
<1>4. CamTypes
  BY <1>0, <1>1 DEF CamTypes, CamCalls, CamPcs, CamOps, Resting
<1>5. PeersAgree
  <2> SUFFICES ASSUME NEW t \in Callers, NEW u \in Peers(t)
               PROVE  handle[u] = handle[t] /\ caller[u].pc = "idle"
    BY DEF PeersAgree
  <2>1. u \in Callers /\ (u \in Hal <=> t \in Hal)
    BY PeersOf DEF Clients
  <2> QED BY <1>1, <2>1 DEF Resting
<1>6. CallsFit
  BY <1>2, <1>3 DEF CallsFit, Resting
<1>7. OpenIsAlive
  BY <1>1 DEF OpenIsAlive
<1>8. MineAlone /\ InTable
  <2>1. InTable
    BY <1>1, <1>2, <1>3 DEF InTable
  <2> QED BY <1>2, <1>3, <2>1 DEF MineAlone
<1>9. Counted
  <2> SUFFICES ASSUME cam_obj = 1 PROVE ref_count[1] = Cardinality(Users(1))
    BY <1>1 DEF Counted
  <2>1. ref_count[1] = 1 /\ handle = [t \in Callers |-> IF t \in Hal THEN 1 ELSE 0]
    BY <1>0, <1>1
  <2>2. Users(1) = {Hal}
    BY <2>1, MmCameraAssumption DEF Users, Clients
  <2>3. Cardinality({Hal}) = 1
    BY FS_Singleton
  <2> QED BY <2>1, <2>2, <2>3
<1>10. AnswersInOrder
  BY <1>1, <1>3 DEF AnswersInOrder, Told, Resting
<1> QED BY <1>4, <1>5, <1>6, <1>7, <1>8, <1>9, <1>10 DEF CamInv, OpenInv

\* The types of the state, whatever is done.
LEMMA CamTypesKept ==
    ASSUME CamTypes, OpenInv, [CamNext]_camVars
    PROVE  CamTypes'
<1>1. ASSUME CallersMove, UNCHANGED msgVars
      PROVE  CamTypes'
  BY <1>1 DEF CamTypes, CallersMove, objVars, msgVars
<1>2. ASSUME NEW t \in Callers, SimpleStep(t)
      PROVE  CamTypes'
  BY <1>1, <1>2, SimpleSteps DEF NobodyTold
<1>3. ASSUME NEW t \in Callers, Call(t)
      PROVE  CamTypes'
  <2>1. PICK called \in {"open", "close"} \cup CameraCalls \cup ChannelCalls :
         caller' = [caller EXCEPT ![t] = [pc |-> "intf", op |-> called, o |-> handle[t]]]
    BY <1>3 DEF Call
  <2>2. [pc |-> "intf", op |-> called, o |-> handle[t]] \in CamCalls
    BY DEF CamTypes, CamCalls, CamPcs, CamOps
  <2>3. caller' \in [Callers -> CamCalls]
    BY <2>1, <2>2 DEF CamTypes
  <2> QED BY <1>3, <2>3 DEF Call, CamTypes, objVars, msgVars
<1>4. ASSUME NEW t \in Callers, Returns(t)
      PROVE  caller' \in [Callers -> CamCalls]
  BY <1>4 DEF CamTypes, CamCalls, CamPcs, CamOps, Returns, Resting
<1>5. ASSUME NEW t \in Callers, NEW o \in Cameras \cup {0}, HasOpen(t, o)
      PROVE  handle' \in [Callers -> Cameras \cup {0}]
  BY <1>5, OpenOf DEF OpenInv
<1>6. ASSUME NEW t \in Callers, camera_open(t)
      PROVE  CamTypes'
  <2>1. CASE Reuse(t)
    <3>1. /\ caller' \in [Callers -> CamCalls] /\ handle' \in [Callers -> Cameras \cup {0}]
          /\ UNCHANGED <<cam_obj, alive, msgVars>>
      BY <1>4, <1>5, <1>6, <2>1 DEF Reuse, camera_open, CamTypes
    <3>2. ref_count' \in [Cameras -> Nat]
      BY <2>1 DEF Reuse, CamTypes
    <3> QED BY <3>1, <3>2 DEF CamTypes, msgVars
  <2>2. CASE NewCamera(t)
    <3>1. PICK o \in Cameras \ alive :
             /\ ref_count' = [ref_count EXCEPT ![o] = 1] /\ alive' = alive \cup {o}
             /\ caller' = [caller EXCEPT ![t].pc = "opening", ![t].o = o]
      BY <2>2 DEF NewCamera
    <3>2. caller' \in [Callers -> CamCalls]
      <4>1. [caller[t] EXCEPT !.pc = "opening", !.o = o] \in CamCalls
        BY DEF CamTypes, CamCalls, CamPcs
      <4>2. caller' = [caller EXCEPT ![t] = [caller[t] EXCEPT !.pc = "opening", !.o = o]]
        BY <3>1
      <4> QED BY <4>1, <4>2 DEF CamTypes
    <3>3. ref_count' \in [Cameras -> Nat] /\ alive' \subseteq Cameras
      BY <3>1 DEF CamTypes
    <3>4. UNCHANGED <<cam_obj, handle, msgVars>>
      BY <1>6, <2>2 DEF camera_open, NewCamera
    <3> QED BY <3>2, <3>3, <3>4 DEF CamTypes, msgVars
  <2> QED BY <1>6, <2>1, <2>2 DEF camera_open
<1>7. ASSUME NEW t \in Callers, Opened(t)
      PROVE  CamTypes'
  <2>1. caller' \in [Callers -> CamCalls] /\ UNCHANGED msgVars
    BY <1>4, <1>7 DEF Opened
  <2>2. caller[t].o \in Cameras \cup {0}
    BY DEF CamTypes, CamCalls
  <2>3. handle' \in [Callers -> Cameras \cup {0}]
    BY <1>5, <1>7, <2>2 DEF Opened, CamTypes
  <2>4. /\ cam_obj' \in Cameras \cup {0} /\ alive' \subseteq Cameras
        /\ ref_count' \in [Cameras -> Nat]
    BY <1>7, <2>2 DEF Opened, CamTypes
  <2> QED BY <2>1, <2>3, <2>4 DEF CamTypes, msgVars
<1>8. ASSUME NEW t \in Callers, mm_camera_intf_close(t)
      PROVE  CamTypes'
  <2>1. handle' \in [Callers -> Cameras \cup {0}] /\ alive' = alive /\ UNCHANGED msgVars
    BY <1>5, <1>8 DEF mm_camera_intf_close
  <2>2. caller' \in [Callers -> CamCalls]
    <3>1. Returns(t) \/ Goes(t, "cam")
      BY <1>8 DEF mm_camera_intf_close
    <3> QED BY <1>4, <3>1 DEF Goes, CamTypes, CamCalls, CamPcs
  <2>3. cam_obj' \in Cameras \cup {0}
    BY <1>8 DEF mm_camera_intf_close, CamTypes
  <2>4. ref_count' \in [Cameras -> Nat]
    <3>1. CASE Found(caller[t].o)
      <4>1. PICK o \in Cameras : o = cam_obj /\ o = caller[t].o
        BY <3>1 DEF Found, CamTypes
      <4>2. In(t, "intf") /\ caller[t].op = "close"
        BY <1>8 DEF mm_camera_intf_close
      <4>3. handle[t] = o
        BY <4>1, <4>2 DEF OpenInv, CallsFit, Unmaking, In
      <4>4. ref_count[o] = Cardinality(Users(o)) /\ o # 0
        BY <3>1, <4>1 DEF OpenInv, Counted, Found
      <4>5. Peers(t) \in Users(o)
        BY <4>3, PeersOf DEF Users
      <4>6. IsFiniteSet(Users(o))
        BY ClientsFinite, FS_Subset DEF Users
      <4>7. ref_count[o] # 0
        BY <4>4, <4>5, <4>6, FS_EmptySet
      <4>8. ref_count' = [ref_count EXCEPT ![o] = @ - 1]
        BY <1>8, <3>1, <4>1 DEF mm_camera_intf_close
      <4> QED BY <4>7, <4>8 DEF CamTypes
    <3>2. CASE ~Found(caller[t].o)
      BY <1>8, <3>2 DEF mm_camera_intf_close, CamTypes
    <3> QED BY <3>1, <3>2
  <2> QED BY <2>1, <2>2, <2>3, <2>4 DEF CamTypes, msgVars
<1>9. ASSUME NEW t \in Callers, mm_camera_close(t)
      PROVE  CamTypes'
  <2>1. caller' \in [Callers -> CamCalls]
    BY <1>4, <1>9 DEF mm_camera_close
  <2> QED BY <1>9, <2>1 DEF mm_camera_close, CamTypes
<1>10. ASSUME NEW t \in Callers,
              mm_camera_util_sendmsg(t) \/ mm_camera_util_wait_for_event(t)
       PROVE  CamTypes'
  <2>1. Returns(t) \/ Goes(t, "told")
    BY <1>10 DEF mm_camera_util_sendmsg, mm_camera_util_wait_for_event
  <2>2. caller' \in [Callers -> CamCalls]
    BY SMTT(30), <1>4, <2>1 DEF Goes, CamTypes, CamCalls, CamPcs
  <2> QED BY <1>10, <2>2
          DEF mm_camera_util_sendmsg, mm_camera_util_wait_for_event, ResetEvt, CamTypes,
              objVars
<1>11. ASSUME NEW o \in Cameras, CbCalled(o) \/ CbThread(o) \/ MapUnmapDone(o)
       PROVE  CamTypes'
  BY <1>11 DEF CbCalled, CbThread, CbStep, mm_camera_intf_qbuf, CbTakeCam, CbQbuf,
               MapUnmapDone, CamTypes, objVars, msgVars
<1>12. CASE UNCHANGED camVars
  BY <1>12 DEF CamTypes, camVars
<1> QED BY <1>2, <1>3, <1>6, <1>7, <1>8, <1>9, <1>10, <1>11, <1>12
        DEF CamNext, CallerStep, SimpleStep

\* Each step keeps the invariant.
LEMMA CamNextInv == ASSUME CamInv, [CamNext]_camVars PROVE CamInv'
<1> USE DEF CamInv
<1>1. CamTypes'
  BY CamTypesKept
<1>2. ASSUME NEW t \in Callers, SimpleStep(t)
      PROVE  OpenInv' /\ AnswersInOrder'
  BY <1>2, SimpleSteps, MovesKeep, ToldKeeps
<1>3. ASSUME NEW t \in Callers, mm_camera_close(t) \/ mm_camera_util_sendmsg(t)
                                    \/ mm_camera_util_wait_for_event(t)
      PROVE  OpenInv' /\ AnswersInOrder'
  BY <1>3, FreeInv, SendInv, WaitInv
<1>4. ASSUME NEW t \in Callers,
             Call(t) \/ camera_open(t) \/ Opened(t) \/ mm_camera_intf_close(t)
      PROVE  OpenInv'
  <2>1. In(t, "intf") /\ caller[t].op = "open" /\ NewCamera(t) => OpenInv'
    BY NewCameraInv DEF NewCamera, In
  <2> QED BY <1>4, <2>1, CallInv, ReuseInv, OpenedInv, CloseInv DEF camera_open
<1>5. ASSUME NEW t \in Callers,
             Call(t) \/ camera_open(t) \/ Opened(t) \/ mm_camera_intf_close(t)
      PROVE  AnswersInOrder'
  <2>1. \A u \in Callers \ {t} : caller'[u] = caller[u]
    BY <1>5 DEF Call, camera_open, Opened, mm_camera_intf_close, Reuse, NewCamera,
                Returns, Goes, CamTypes
  <2>2. caller[t].pc # "told" /\ caller'[t].pc # "told"
    <3>1. CASE Call(t)
      BY <3>1 DEF Call, In, CamTypes
    <3>2. CASE camera_open(t)
      BY <3>2 DEF camera_open, Reuse, NewCamera, Returns, In, CamTypes, CamCalls, Resting
    <3>3. CASE Opened(t)
      BY <3>3 DEF Opened, Returns, CamTypes, Resting
    <3>4. CASE mm_camera_intf_close(t)
      <4>1. Returns(t) \/ Goes(t, "cam")
        BY <3>4 DEF mm_camera_intf_close
      <4> QED BY <3>4, <4>1
              DEF mm_camera_intf_close, Returns, Goes, In, CamTypes, CamCalls, Resting
    <3> QED BY <1>5, <3>1, <3>2, <3>3, <3>4
  <2>3. UNCHANGED msgVars
    BY <1>5 DEF Call, camera_open, Opened, mm_camera_intf_close
  <2> QED BY <2>1, <2>2, <2>3, ToldKeeps DEF NobodyTold, Told
<1>6. ASSUME NEW o \in Cameras, MapUnmapDone(o)
      PROVE  OpenInv' /\ AnswersInOrder'
  BY <1>6, DoneInv
<1>7. ASSUME UNCHANGED <<objVars, caller, handle, raced, msgVars>>
      PROVE  OpenInv' /\ AnswersInOrder'
  BY <1>7 DEF OpenInv, PeersAgree, CallsFit, OpenIsAlive, MineAlone, Counted, Users,
              InTable, AnswersInOrder, objVars, msgVars
<1>8. ASSUME NEW o \in Cameras, CbCalled(o) \/ CbThread(o)
      PROVE  OpenInv' /\ AnswersInOrder'
  <2>1. UNCHANGED <<objVars, caller, handle, raced, msgVars>>
    BY <1>8 DEF CbCalled, CbThread, CbStep, mm_camera_intf_qbuf, CbTakeCam, CbQbuf
  <2> QED BY <1>7, <2>1
<1>9. CASE UNCHANGED camVars
  <2>1. UNCHANGED <<objVars, caller, handle, raced, msgVars>>
    BY <1>9 DEF camVars, objVars, msgVars
  <2> QED BY <1>1, <1>7, <2>1
<1> QED BY <1>1, <1>2, <1>3, <1>4, <1>5, <1>6, <1>8, <1>9
        DEF CamNext, CallerStep, SimpleStep

\* What the clients of a camera and the server keep between them, however many threads
\* call, and however many cameras are made.
THEOREM CamInvariant == CamSpec => []CamInv
BY CamInitInv, CamNextInv, PTL DEF CamSpec

\* A camera in use is never freed, one that is open can be found and is counted unless
\* opens have overlapped, and the answer to a message is its sender's unless a wait timed
\* out (camera_open, mm_camera_intf_close, mm_camera_util_map_buf).
THEOREM HandlesCorrect == CamSpec => []HandlesAreLive
<1>1. ASSUME CamInv PROVE HandlesAreLive
  <2> USE <1>1 DEF CamInv, OpenInv
  <2>1. \A t \in Callers :
          caller[t].pc \in {"look", "ch", "work", "joins", "msg", "told"} =>
              caller[t].o \in alive /\ caller[t].o \in Cameras
    <3> SUFFICES ASSUME NEW t \in Callers,
                        caller[t].pc \in {"look", "ch", "work", "joins", "msg", "told"}
                 PROVE  caller[t].o \in alive /\ caller[t].o \in Cameras
      OBVIOUS
    <3>1. caller[t].op \notin {"none", "open"} /\ ~Unmaking(caller[t])
      BY DEF CallsFit, CallFits, Unmaking
    <3> QED BY <3>1 DEF CallsFit, OpenIsAlive, CamTypes
  <2>2. OwnAnswer
    BY <2>1 DEF AnswersInOrder, OwnAnswer, Told, In
  <2>3. ~raced => \A t \in Callers : handle[t] # 0 =>
           /\ cam_obj = handle[t] /\ cam_obj \in alive
           /\ ref_count[cam_obj] = Cardinality(Users(cam_obj))
    BY DEF InTable, OpenIsAlive, Counted
  <2> QED BY <2>1, <2>2, <2>3 DEF HandlesAreLive, Users
<1> QED BY <1>1, CamInvariant, PTL

-----------------------------------------------------------------------------
(* Starting and stopping channels: the inductive invariant.                *)

ChanCalls == {"none", "linked", "start", "rollback", "failed", "stop", "put", "crashed"}

ChanTypes ==
    /\ layout \in Layouts
    /\ chan_state \in [Chans -> {"NOTUSED", "STOPPED", "ACTIVE"}]
    /\ slots \in [Chans -> Seq(ChanStreams)]
    /\ stream_state \in [ChanStreams -> StreamStates]
    /\ in_driver \in [ChanStreams -> {"no", "yes", "some"}]
    /\ notify_cb \in [Chans -> BOOLEAN] /\ running \in [Chans -> BOOLEAN]
    /\ is_bundled \in [ChanStreams -> BOOLEAN]
    /\ linked_obj \in [ChanStreams -> Chans \cup {"none"}]
    /\ held \in [Chans -> SUBSET ChanStreams]
    /\ op \in [Chans -> [call: ChanCalls, i: Nat, s_objs: Seq(ChanStreams)]]

OwnStreams(c) == ToSet(layout[c].streams)
Stops(c) == op[c].call \in {"stop", "crashed"}

\* A channel that has begun with a start has all of its streams, and maybe linked ones.
Begun(c) ==
    op[c].call \in {"linked", "start", "rollback", "stop", "put", "crashed"}
        \/ chan_state[c] = "ACTIVE"

\* What a channel is in the middle of suits its state.
OpFits(c) ==
    /\ op[c].call \in {"linked", "start", "rollback", "failed"} => chan_state[c] = "STOPPED"
    /\ op[c].call \in {"stop", "put", "crashed"} => chan_state[c] = "ACTIVE"
    /\ op[c].call = "linked" => LinksStreams(c)

\* Own streams come first in the array, in their order, copies of linked ones after them.
SlotsFit(c) ==
    LET own == layout[c].streams IN
    /\ \A i \in DOMAIN slots[c] : IF i <= Len(own) THEN slots[c][i] = own[i]
                                  ELSE slots[c][i] \notin OwnStreams(c) /\ LinksStreams(c)
    /\ Begun(c) => Len(slots[c]) >= Len(own)
    /\ chan_state[c] = "NOTUSED" => slots[c] = << >>

\* The streams that a call works off are the own ones, once each, or the first of them,
\* and copies of linked ones; metadata start first and stop last.
ListFits(c) ==
    LET q == op[c].s_objs
        own == OwnStreams(c)
    IN
    /\ op[c].call \in {"start", "rollback", "stop", "put", "crashed"} =>
           /\ op[c].i \in 1..Len(q) + 1
           /\ \A j, k \in DOMAIN q : q[j] \in own /\ q[j] = q[k] => j = k
    /\ op[c].call \in {"start", "stop", "put", "crashed"} =>
           \A s \in own : \E j \in DOMAIN q : q[j] = s
    /\ op[c].call = "start" =>
           /\ \A j, k \in DOMAIN q : j <= k /\ q[k] \in own => q[j] \in own
           /\ \A s \in ToSet(slots[c]) : \E j \in DOMAIN q : q[j] = s
           /\ \A j \in DOMAIN q : q[j] \in ToSet(slots[c])
           /\ "metadata" \in own => q[1] = "metadata"
    /\ op[c].call = "rollback" => \A j \in DOMAIN q : q[j] \in own
    /\ (Stops(c) /\ "metadata" \in own) => q[Len(q)] = "metadata"

\* How far each own stream is, and that the kernel has the buffers of those registered.
StatesFit(c) ==
    LET q == op[c].s_objs
        i == op[c].i
        own == OwnStreams(c)
    IN
    /\ (op[c].call \in {"none", "linked", "failed"} /\ chan_state[c] = "ACTIVE") =>
           \A s \in own : stream_state[s] = "ACTIVE"
    /\ (op[c].call \in {"none", "linked", "failed"} /\ chan_state[c] # "ACTIVE") =>
           \A s \in own : stream_state[s] = IF s \in ToSet(slots[c]) THEN "CFG" ELSE "NOTUSED"
    /\ op[c].call = "start" =>
           \A j \in DOMAIN q : q[j] \in own =>
               /\ j < i => stream_state[q[j]] = "ACTIVE"
               /\ j = i => stream_state[q[j]] \in {"CFG", "BUFFED", "REG"}
               /\ j > i => stream_state[q[j]] = "CFG"
    /\ op[c].call = "rollback" =>
           \A s \in own : /\ stream_state[s] \in {"CFG", "BUFFED", "REG", "ACTIVE"}
                          /\ \/ stream_state[s] = "CFG"
                             \/ \E j \in DOMAIN q : j >= i /\ q[j] = s
    /\ Stops(c) => \A j \in DOMAIN q : q[j] \in own =>
                       stream_state[q[j]] = IF j < i THEN "BUFFED" ELSE "ACTIVE"
    /\ op[c].call = "put" => \A j \in DOMAIN q : q[j] \in own =>
                                 stream_state[q[j]] = IF j < i THEN "CFG" ELSE "BUFFED"
    /\ \A s \in own : in_driver[s] = "yes" <=> stream_state[s] \in {"REG", "ACTIVE"}

\* A channel that is started, or being started or stopped, has threads if it has a callback.
ThreadsFit(c) ==
    /\ running[c] <=> /\ notify_cb[c]
                      /\ \/ op[c].call \in {"start", "rollback", "stop", "crashed"}
                         \/ op[c].call = "none" /\ chan_state[c] = "ACTIVE"
    /\ notify_cb[c] => layout[c].cb
    /\ \A s \in OwnStreams(c) : is_bundled[s] => layout[c].cb /\ chan_state[c] # "NOTUSED"

\* Streams are linked one after the other and unlinked one after the other.
LinksFit(c) ==
    LET q == op[c].s_objs
        i == op[c].i
    IN
    /\ \A s \in ChanStreams : linked_obj[s] = c =>
           /\ s \notin OwnStreams(c) /\ LinksStreams(c)
           /\ \/ op[c].call = "none" /\ chan_state[c] = "ACTIVE" /\ s \in ToSet(slots[c])
              \/ op[c].call = "start" /\ \E j \in DOMAIN q : j < i /\ q[j] = s
              \/ Stops(c) /\ \E j \in DOMAIN q : j >= i /\ q[j] = s
    /\ (op[c].call = "none" /\ chan_state[c] = "ACTIVE") =>
           \A s \in ToSet(slots[c]) \ OwnStreams(c) : linked_obj[s] = c
    /\ op[c].call = "start" =>
           \A j \in DOMAIN q : j < i /\ q[j] \notin OwnStreams(c) =>
               linked_obj[q[j]] = c /\ LinksStreams(c)

\* While a channel borrows streams the others stay as they are.
BorrowFits(c) ==
    LinksStreams(c) /\ Begun(c) =>
        \A d \in Chans \ {c} : chan_state[d] = "ACTIVE" /\ op[d].call = "none"

\* Whose frames the threads of a channel have, and that somebody reads them.
HeldFits(c) ==
    /\ \A s \in held[c] : s \in OwnStreams(c) \/ LinksStreams(c)
    /\ ~layout[c].cb \/ chan_state[c] = "NOTUSED" => held[c] = {}
    /\ ~Forgotten(c) /\ op[c].call # "rollback" =>
           \A s \in held[c] : running[c] /\ stream_state[s] \in {"BUFFED", "REG", "ACTIVE"}

Fits(c) ==
    /\ OpFits(c) /\ SlotsFit(c) /\ ListFits(c) /\ StatesFit(c) /\ ThreadsFit(c)
    /\ LinksFit(c) /\ BorrowFits(c) /\ HeldFits(c)

ChanInv == ChanTypes /\ \A c \in Chans : Fits(c)

-----------------------------------------------------------------------------
(* Starting and stopping channels: lemmas.                                 *)

\* What the layouts are assumed to be, for the one there is.
LEMMA LayoutFacts ==
    ASSUME ChanTypes, NEW c \in Chans
    PROVE  /\ c # "none"
           /\ layout[c].streams \in Seq(ChanStreams) /\ layout[c].streams # << >>
           /\ \A i, j \in DOMAIN layout[c].streams :
                  layout[c].streams[i] = layout[c].streams[j] => i = j
           /\ OwnStreams(c) \subseteq ChanStreams
           /\ \A s : OwnedBy(s, c) <=> s \in OwnStreams(c)
           /\ LinksStreams(c) => layout[c].cb
           /\ layout[c].links \in Seq(ChanStreams)
           /\ \A i \in DOMAIN layout[c].links : layout[c].links[i] \notin OwnStreams(c)
           /\ \A d \in Chans \ {c} : /\ OwnStreams(c) \cap OwnStreams(d) = {}
                                     /\ ~(LinksStreams(c) /\ LinksStreams(d))
<1>1. layout \in Layouts  BY DEF ChanTypes
<1>2. c \in DOMAIN layout  BY DEF Chans
<1>3. /\ "none" \notin DOMAIN layout
      /\ layout[c].streams # << >> /\ layout[c].streams \in Seq(StreamsIn(layout))
      /\ \A i, j \in DOMAIN layout[c].streams :
             layout[c].streams[i] = layout[c].streams[j] => i = j
      /\ layout[c].links \in Seq(StreamsIn(layout) \ ToSet(layout[c].streams))
      /\ layout[c].links # << >> => layout[c].cb
  BY <1>1, <1>2, LayoutsAssumption
<1>4. \A d \in DOMAIN layout : c # d =>
          /\ ToSet(layout[c].streams) \cap ToSet(layout[d].streams) = {}
          /\ layout[c].links = << >> \/ layout[d].links = << >>
  BY <1>1, <1>2, LayoutsAssumption
<1>5. c # "none"  BY <1>2, <1>3
<1>6. layout[c].streams \in Seq(ChanStreams)  BY <1>3 DEF ChanStreams
<1>7. OwnStreams(c) \subseteq ChanStreams  BY <1>6 DEF OwnStreams, ToSet
<1>8. \A s : OwnedBy(s, c) <=> s \in OwnStreams(c)  BY DEF OwnedBy, OwnStreams
<1>9. LinksStreams(c) => layout[c].cb  BY <1>3 DEF LinksStreams
<1>10. \A i \in DOMAIN layout[c].links :
           layout[c].links[i] \in ChanStreams /\ layout[c].links[i] \notin OwnStreams(c)
  BY <1>3 DEF ChanStreams, OwnStreams
<1>11. layout[c].links \in Seq(ChanStreams)
  <2> DEFINE q == layout[c].links
  <2>1. q \in Seq(StreamsIn(layout) \ ToSet(layout[c].streams))  BY <1>3
  <2>2. \A i \in DOMAIN q : q[i] \in ChanStreams  BY <1>10
  <2> HIDE DEF q
  <2>3. q \in Seq(ChanStreams)  BY <2>1, <2>2
  <2> QED  BY <2>3 DEF q
<1>12. \A d \in Chans \ {c} : /\ OwnStreams(c) \cap OwnStreams(d) = {}
                              /\ ~(LinksStreams(c) /\ LinksStreams(d))
  BY <1>4 DEF Chans, OwnStreams, LinksStreams
<1> QED  BY <1>3, <1>5, <1>6, <1>7, <1>8, <1>9, <1>10, <1>11, <1>12

\* While a channel is not started and at rest, or a channel's owner sees to it, no other
\* channel borrows its streams.
LEMMA NobodyBorrows ==
    ASSUME ChanInv, NEW c \in Chans,
           chan_state[c] # "ACTIVE" \/ op[c].call # "none" \/ NotBorrowed(c)
    PROVE  \A d \in Chans \ {c} : ~(LinksStreams(d) /\ Begun(d))
<1> SUFFICES ASSUME NEW d \in Chans \ {c}, LinksStreams(d), Begun(d)  PROVE FALSE
  OBVIOUS
<1>1. BorrowFits(d)  BY DEF ChanInv, Fits
<1>2. chan_state[c] = "ACTIVE" /\ op[c].call = "none"  BY <1>1 DEF BorrowFits
<1>3. NotBorrowed(c)  BY <1>2
<1>4. op[d].call = "none" /\ chan_state[d] # "ACTIVE"  BY <1>3 DEF NotBorrowed, Idle
<1> QED  BY <1>4 DEF Begun

\* A step of one channel, of which no other one borrows streams, leaves what is true of
\* the others.
LEMMA OthersFit ==
    ASSUME ChanInv, NEW c \in Chans, layout' = layout, ChanTypes', Fits(c)',
           \A d \in Chans \ {c} :
               /\ chan_state'[d] = chan_state[d] /\ slots'[d] = slots[d] /\ op'[d] = op[d]
               /\ running'[d] = running[d] /\ notify_cb'[d] = notify_cb[d]
               /\ held'[d] = held[d],
           \A s \in ChanStreams \ OwnStreams(c) :
               /\ stream_state'[s] = stream_state[s] /\ in_driver'[s] = in_driver[s]
               /\ is_bundled'[s] = is_bundled[s],
           \A s \in ChanStreams : \A d \in Chans \ {c} :
               linked_obj'[s] = d => linked_obj[s] = d,
           \A d \in Chans \ {c} : ~(LinksStreams(d) /\ Begun(d))
    PROVE  ChanInv'
<1>1. Chans' = Chans /\ ChanStreams' = ChanStreams  BY DEF Chans, ChanStreams
<1>2. \A d : OwnStreams(d)' = OwnStreams(d) /\ LinksStreams(d)' = LinksStreams(d)
  BY DEF OwnStreams, LinksStreams
<1>3. ChanTypes  BY DEF ChanInv
<1>4. ASSUME NEW d \in Chans \ {c}  PROVE Fits(d)'
  <2>1. Fits(d)  BY DEF ChanInv
  <2>2. /\ chan_state'[d] = chan_state[d] /\ slots'[d] = slots[d] /\ op'[d] = op[d]
        /\ running'[d] = running[d] /\ notify_cb'[d] = notify_cb[d] /\ held'[d] = held[d]
    OBVIOUS
  <2>3. ~(LinksStreams(d) /\ Begun(d))  OBVIOUS
  <2>4. Begun(d)' = Begun(d) /\ Stops(d)' = Stops(d)  BY <2>2 DEF Begun, Stops
  <2>5. \A s \in OwnStreams(d) :
            /\ s \in ChanStreams /\ stream_state'[s] = stream_state[s]
            /\ in_driver'[s] = in_driver[s] /\ is_bundled'[s] = is_bundled[s]
    BY <1>3, LayoutFacts
  <2>6. \A s \in ChanStreams : linked_obj'[s] = d => linked_obj[s] = d  OBVIOUS
  <2>7. OpFits(d)'  BY <1>2, <2>1, <2>2 DEF Fits, OpFits
  <2>8. SlotsFit(d)'  BY <1>2, <2>1, <2>2, <2>4 DEF Fits, SlotsFit
  <2>9. ListFits(d)'  BY <1>2, <2>1, <2>2, <2>4 DEF Fits, ListFits
  <2>10. StatesFit(d)'  BY <1>2, <2>1, <2>2, <2>4, <2>5 DEF Fits, StatesFit
  <2>11. ThreadsFit(d)'  BY <1>2, <2>1, <2>2, <2>5 DEF Fits, ThreadsFit
  <2>12. op[d].call = "none" /\ chan_state[d] = "ACTIVE"
             => \A s \in ToSet(slots[d]) : s \in OwnStreams(d)
    <3> SUFFICES ASSUME op[d].call = "none" /\ chan_state[d] = "ACTIVE",
                        NEW i \in DOMAIN slots[d], slots[d][i] \notin OwnStreams(d)
                 PROVE  FALSE
      BY DEF ToSet
    <3>1. ~(i <= Len(layout[d].streams))
      <4>1. SlotsFit(d)  BY <2>1 DEF Fits
      <4>2. layout[d].streams \in Seq(ChanStreams) /\ slots[d] \in Seq(ChanStreams)
        BY <1>3, LayoutFacts DEF ChanTypes
      <4>3. i \in Nat /\ i # 0 /\ Len(layout[d].streams) \in Nat  BY <4>2
      <4> SUFFICES ASSUME i <= Len(layout[d].streams)  PROVE FALSE
        OBVIOUS
      <4>4. slots[d][i] = layout[d].streams[i]  BY <4>1 DEF SlotsFit
      <4>5. i \in DOMAIN layout[d].streams  BY <4>2, <4>3
      <4> QED  BY <4>4, <4>5 DEF OwnStreams, ToSet
    <3>2. LinksStreams(d)  BY <2>1, <3>1 DEF Fits, SlotsFit
    <3> QED  BY <2>3, <3>2 DEF Begun
  <2>13. LinksFit(d)'
    <3>1. ASSUME NEW s \in ChanStreams, linked_obj'[s] = d
          PROVE  FALSE
      <4>1. linked_obj[s] = d  BY <2>6, <3>1
      <4>2. LinksStreams(d) /\ (op[d].call = "start" \/ Stops(d)
                                   \/ (op[d].call = "none" /\ chan_state[d] = "ACTIVE"))
        BY <2>1, <4>1 DEF Fits, LinksFit
      <4> QED  BY <2>3, <4>2 DEF Begun, Stops
    <3>2. op[d].call = "start" =>
              \A j \in DOMAIN op[d].s_objs :
                  ~(j < op[d].i /\ op[d].s_objs[j] \notin OwnStreams(d))
      BY <2>1, <2>3 DEF Fits, LinksFit, Begun
    <3> QED  BY <1>1, <1>2, <2>2, <2>12, <3>1, <3>2 DEF LinksFit
  <2>14. BorrowFits(d)'  BY <1>2, <2>3, <2>4 DEF BorrowFits
  <2>15. HeldFits(d)'
    <3>1. Forgotten(d)' = Forgotten(d)  BY <2>2 DEF Forgotten
    <3>2. HeldFits(d) /\ ThreadsFit(d) /\ OpFits(d)  BY <2>1 DEF Fits
    <3>3. ASSUME ~Forgotten(d), op[d].call # "rollback", NEW s \in held[d]
          PROVE  running[d] /\ stream_state'[s] \in {"BUFFED", "REG", "ACTIVE"}
      <4>1. running[d] /\ stream_state[s] \in {"BUFFED", "REG", "ACTIVE"}
        BY <3>2, <3>3 DEF HeldFits
      <4>2. Begun(d)  BY <3>2, <4>1 DEF ThreadsFit, Begun
      <4>3. s \in OwnStreams(d)  BY <2>3, <3>2, <4>2 DEF HeldFits
      <4> QED  BY <2>5, <4>1, <4>3
    <3> QED  BY <1>2, <2>2, <3>1, <3>2, <3>3 DEF HeldFits
  <2> QED
    BY <2>7, <2>8, <2>9, <2>10, <2>11, <2>13, <2>14, <2>15 DEF Fits
<1>5. \A d \in Chans : Fits(d)'  BY <1>4
<1> QED  BY <1>1, <1>5 DEF ChanInv

\* The steps in which a channel is made.
LEMMA AddChannelFits ==
    ASSUME ChanInv, NEW c \in Chans, mm_camera_add_channel(c)
    PROVE  ChanInv'
<1>1. /\ chan_state[c] = "NOTUSED" /\ op[c].call = "none"
      /\ chan_state' = [chan_state EXCEPT ![c] = "STOPPED"]
      /\ notify_cb' = [notify_cb EXCEPT ![c] = layout[c].cb]
      /\ UNCHANGED <<layout, slots, stream_state, in_driver, running, is_bundled,
                     linked_obj, held, op>>
  BY DEF mm_camera_add_channel, Idle
<1>2. ChanTypes /\ Fits(c)  BY DEF ChanInv
<1>3. layout[c].cb \in BOOLEAN  BY <1>2, LayoutsAssumption DEF ChanTypes, Chans
<1>4. ChanTypes'  BY <1>1, <1>2, <1>3 DEF ChanTypes, Chans, ChanStreams
<1>5. chan_state'[c] = "STOPPED" /\ notify_cb'[c] = layout[c].cb  BY <1>1, <1>2 DEF ChanTypes
<1>6. UNCHANGED <<OwnStreams(c), LinksStreams(c), Stops(c), ChanStreams, Chans>>
  BY <1>1 DEF OwnStreams, LinksStreams, Stops, ChanStreams, Chans
<1>7. ~Begun(c) /\ ~Begun(c)'  BY <1>1, <1>5 DEF Begun
<1>8. OpFits(c)'  BY <1>1, <1>5 DEF OpFits
<1>9. SlotsFit(c)'  BY <1>1, <1>2, <1>5, <1>6, <1>7 DEF Fits, SlotsFit
<1>10. ListFits(c)'  BY <1>1, <1>2, <1>6 DEF Fits, ListFits
<1>11. StatesFit(c)'  BY <1>1, <1>2, <1>5, <1>6 DEF Fits, StatesFit
<1>12. ThreadsFit(c)'
  <2>1. ~running[c]  BY <1>1, <1>2 DEF Fits, ThreadsFit
  <2>2. \A s \in OwnStreams(c) : ~is_bundled[s]  BY <1>1, <1>2 DEF Fits, ThreadsFit
  <2> QED  BY <1>1, <1>5, <1>6, <2>1, <2>2 DEF ThreadsFit
<1>13. LinksFit(c)'  BY <1>1, <1>2, <1>5, <1>6 DEF Fits, LinksFit
<1>14. BorrowFits(c)'  BY <1>7 DEF BorrowFits
<1>15. HeldFits(c)'
  <2>1. held[c] = {}  BY <1>1, <1>2 DEF Fits, HeldFits
  <2> QED  BY <1>1, <2>1 DEF HeldFits
<1>16. Fits(c)'
  BY <1>8, <1>9, <1>10, <1>11, <1>12, <1>13, <1>14, <1>15 DEF Fits
<1>17. \A d \in Chans \ {c} : ~(LinksStreams(d) /\ Begun(d))  BY <1>1, NobodyBorrows
<1>18. \A d \in Chans \ {c} : chan_state'[d] = chan_state[d] /\ notify_cb'[d] = notify_cb[d]
  BY <1>1, <1>2 DEF ChanTypes
<1> QED  BY <1>1, <1>4, <1>16, <1>17, <1>18, OthersFit

\* Where an own stream is in the array of a channel that has all or some of them.
LEMMA OwnSlots ==
    ASSUME ChanTypes, NEW c \in Chans, SlotsFit(c)
    PROVE  /\ \A i \in DOMAIN slots[c] :
                  slots[c][i] \in OwnStreams(c) <=> i <= Len(layout[c].streams)
           /\ \A i, j \in DOMAIN slots[c] :
                  slots[c][i] = slots[c][j] /\ slots[c][i] \in OwnStreams(c) => i = j
           /\ Len(slots[c]) >= Len(layout[c].streams) =>
                  \A s \in OwnStreams(c) : \E i \in DOMAIN slots[c] : slots[c][i] = s
<1> DEFINE own == layout[c].streams
           q == slots[c]
<1>1. own \in Seq(ChanStreams) /\ q \in Seq(ChanStreams)
      /\ \A i, j \in DOMAIN own : own[i] = own[j] => i = j
  BY LayoutFacts DEF ChanTypes
<1>2. \A i \in DOMAIN q : IF i <= Len(own) THEN q[i] = own[i] ELSE q[i] \notin OwnStreams(c)
  BY DEF SlotsFit
<1>3. OwnStreams(c) = {own[i] : i \in DOMAIN own}  BY DEF OwnStreams, ToSet
<1> HIDE DEF own, q
<1>4. DOMAIN own = 1..Len(own) /\ Len(own) \in Nat /\ DOMAIN q = 1..Len(q) /\ Len(q) \in Nat
  BY <1>1
<1>5. \A i \in DOMAIN q : q[i] \in OwnStreams(c) <=> i <= Len(own)  BY <1>2, <1>3, <1>4
<1>6. \A i, j \in DOMAIN q : q[i] = q[j] /\ q[i] \in OwnStreams(c) => i = j
  <2> SUFFICES ASSUME NEW i \in DOMAIN q, NEW j \in DOMAIN q, q[i] = q[j],
                      q[i] \in OwnStreams(c)
               PROVE  i = j
    OBVIOUS
  <2>1. i <= Len(own) /\ j <= Len(own)  BY <1>5
  <2>2. i \in DOMAIN own /\ j \in DOMAIN own  BY <1>4, <2>1
  <2>3. own[i] = own[j]  BY <1>2, <2>1
  <2> QED  BY <1>1, <2>2, <2>3
<1>7. Len(q) >= Len(own) => \A s \in OwnStreams(c) : \E i \in DOMAIN q : q[i] = s
  <2> SUFFICES ASSUME Len(q) >= Len(own), NEW i \in DOMAIN own
               PROVE  i \in DOMAIN q /\ q[i] = own[i]
    BY <1>3
  <2> QED  BY <1>2, <1>4
<1> QED  BY <1>5, <1>6, <1>7 DEF own, q

LEMMA AddStreamFits ==
    ASSUME ChanInv, NEW c \in Chans, mm_channel_add_stream(c)
    PROVE  ChanInv'
<1> DEFINE own == layout[c].streams
           s == own[Len(slots[c]) + 1]
<1>1. /\ chan_state[c] = "STOPPED" /\ op[c].call = "none" /\ Len(slots[c]) < Len(own)
      /\ \/ /\ stream_state' = [stream_state EXCEPT
                                    ![s] = After(After("INITED", "ACQUIRE"), "SET_FMT")]
            /\ slots' = [slots EXCEPT ![c] = Append(@, s)] /\ op' = op
         \/ /\ op' = [op EXCEPT ![c].call = "failed"]
            /\ UNCHANGED <<slots, stream_state>>
      /\ UNCHANGED <<layout, chan_state, in_driver, notify_cb, running, is_bundled,
                     linked_obj, held>>
  BY DEF mm_channel_add_stream, Idle
<1>2. ChanTypes /\ Fits(c)  BY DEF ChanInv
<1>3. own \in Seq(ChanStreams) /\ slots[c] \in Seq(ChanStreams)  BY <1>2, LayoutFacts DEF ChanTypes
<1>4. UNCHANGED <<OwnStreams(c), LinksStreams(c), ChanStreams, Chans>>
  BY <1>1 DEF OwnStreams, LinksStreams, ChanStreams, Chans
<1>5. ~Begun(c)  BY <1>1 DEF Begun
<1>6. ~running[c]  BY <1>1, <1>2 DEF Fits, ThreadsFit
<1>7. \A t \in ChanStreams : linked_obj[t] # c
  BY <1>1, <1>2 DEF Fits, LinksFit, Stops
<1>8. \A d \in Chans \ {c} : ~(LinksStreams(d) /\ Begun(d))  BY <1>1, NobodyBorrows
<1>9. CASE op' = [op EXCEPT ![c].call = "failed"] /\ UNCHANGED <<slots, stream_state>>
  <2>1. op[c] \in [call: ChanCalls, i: Nat, s_objs: Seq(ChanStreams)]  BY <1>2 DEF ChanTypes
  <2>2. op'[c] = [op[c] EXCEPT !.call = "failed"] /\ op'[c].call = "failed"
    BY <1>2, <1>9, <2>1 DEF ChanTypes
  <2>3. op'[c] \in [call: ChanCalls, i: Nat, s_objs: Seq(ChanStreams)]
    BY <2>1, <2>2 DEF ChanCalls
  <2>4. ChanTypes'
    <3>1. op' \in [Chans -> [call: ChanCalls, i: Nat, s_objs: Seq(ChanStreams)]]
      BY <1>2, <1>9, <2>2, <2>3 DEF ChanTypes
    <3> QED  BY <1>1, <1>2, <1>4, <1>9, <3>1 DEF ChanTypes
  <2>5. ~Begun(c)' /\ ~Stops(c)'  BY <1>1, <2>2 DEF Begun, Stops
  <2>6. OpFits(c)'  BY <1>1, <2>2 DEF OpFits
  <2>7. SlotsFit(c)'  BY <1>1, <1>2, <1>4, <1>9, <2>5 DEF Fits, SlotsFit
  <2>8. ListFits(c)'  BY <2>2, <2>5 DEF ListFits
  <2>9. StatesFit(c)'  BY <1>1, <1>2, <1>4, <1>9, <2>2, <2>5 DEF Fits, StatesFit
  <2>10. ThreadsFit(c)'  BY <1>1, <1>2, <1>4, <1>6, <2>2 DEF Fits, ThreadsFit
  <2>11. LinksFit(c)'  BY <1>1, <1>4, <1>7, <2>2 DEF LinksFit
  <2>12. BorrowFits(c)'  BY <2>5 DEF BorrowFits
  <2>13. HeldFits(c)'
    <3>1. Forgotten(c)' = Forgotten(c)  BY <1>1 DEF Forgotten
    <3> QED  BY <1>1, <1>2, <1>4, <1>9, <3>1 DEF Fits, HeldFits
  <2>14. Fits(c)'
    BY <2>6, <2>7, <2>8, <2>9, <2>10, <2>11, <2>12, <2>13 DEF Fits
  <2>15. \A d \in Chans \ {c} : op'[d] = op[d]  BY <1>2, <1>9 DEF ChanTypes
  <2> QED  BY <1>1, <1>8, <1>9, <2>4, <2>14, <2>15, OthersFit
<1>10. CASE /\ stream_state' = [stream_state EXCEPT
                                    ![s] = After(After("INITED", "ACQUIRE"), "SET_FMT")]
            /\ slots' = [slots EXCEPT ![c] = Append(@, s)] /\ op' = op
  <2>1. After(After("INITED", "ACQUIRE"), "SET_FMT") = "CFG"  BY DEF After, Handles, LeadsTo
  <2> DEFINE n == Len(slots[c])
  <2>2. n \in Nat /\ n + 1 \in DOMAIN own /\ s \in ChanStreams /\ s \in OwnStreams(c)
    BY <1>1, <1>3 DEF OwnStreams, ToSet
  <2>3. stream_state' = [stream_state EXCEPT ![s] = "CFG"]  BY <1>10, <2>1
  <2>4. slots'[c] = Append(slots[c], s)  BY <1>2, <1>10 DEF ChanTypes
  <2>5. Append(slots[c], s) \in Seq(ChanStreams)  BY <1>3, <2>2
  <2>6. ChanTypes'
    <3>1. "CFG" \in StreamStates  BY DEF StreamStates
    <3>2. stream_state' \in [ChanStreams -> StreamStates]  BY <1>2, <2>3, <3>1 DEF ChanTypes
    <3>3. slots' \in [Chans -> Seq(ChanStreams)]  BY <1>2, <1>10, <2>4, <2>5 DEF ChanTypes
    <3> QED  BY <1>1, <1>2, <1>4, <1>10, <3>2, <3>3 DEF ChanTypes
  <2>7. ~Begun(c)' /\ Stops(c)' = Stops(c)  BY <1>1, <1>10 DEF Begun, Stops
  <2>8. /\ Len(slots'[c]) = n + 1 /\ slots'[c][n + 1] = s
        /\ \A i \in 1..n : slots'[c][i] = slots[c][i]
        /\ DOMAIN slots'[c] = 1..n + 1 /\ DOMAIN slots[c] = 1..n
    BY <1>3, <2>2, <2>4
  <2>9. OpFits(c)'  BY <1>1, <1>4, <1>10, <1>2 DEF OpFits, Fits
  <2>10. SlotsFit(c)'
    <3>1. \A i \in 1..n + 1 : i \in 1..n \/ i = n + 1  BY <2>2
    <3>2. \A i \in 1..n : IF i <= Len(own) THEN slots[c][i] = own[i]
                          ELSE slots[c][i] \notin OwnStreams(c) /\ LinksStreams(c)
      BY <1>2, <2>8 DEF Fits, SlotsFit
    <3>3. n + 1 <= Len(own)  BY <1>1, <1>3, <2>2
    <3>4. \A i \in DOMAIN slots'[c] : IF i <= Len(own) THEN slots'[c][i] = own[i]
                          ELSE slots'[c][i] \notin OwnStreams(c) /\ LinksStreams(c)
      BY <2>8, <3>1, <3>2, <3>3
    <3> QED  BY <1>1, <1>4, <2>7, <3>4 DEF SlotsFit
  <2>11. ListFits(c)'  BY <1>1, <1>10 DEF ListFits, Stops
  <2>12. ToSet(slots'[c]) = ToSet(slots[c]) \cup {s}
    <3>1. \A i \in 1..n + 1 : i \in 1..n \/ i = n + 1  BY <2>2
    <3>2. n + 1 \in 1..n + 1 /\ \A i \in 1..n : i \in 1..n + 1  BY <2>2
    <3> HIDE DEF s
    <3> QED  BY <2>8, <3>1, <3>2 DEF ToSet
  <2>13. \A t \in OwnStreams(c) : t \in ChanStreams /\ (t # s => stream_state'[t] = stream_state[t])
    BY <1>2, <2>3, LayoutFacts DEF ChanTypes
  <2>14. stream_state'[s] = "CFG"  BY <1>2, <2>2, <2>3 DEF ChanTypes
  <2>15. StatesFit(c)'
    <3>1. \A t \in OwnStreams(c) : stream_state[t] = IF t \in ToSet(slots[c]) THEN "CFG"
                                                     ELSE "NOTUSED"
      BY <1>1, <1>2 DEF Fits, StatesFit
    <3>2. \A t \in OwnStreams(c) : stream_state'[t] = IF t \in ToSet(slots'[c]) THEN "CFG"
                                                      ELSE "NOTUSED"
      <4> HIDE DEF s
      <4> QED  BY <2>12, <2>13, <2>14, <3>1
    <3>3. \A t \in OwnStreams(c) : in_driver[t] = "yes" <=> stream_state[t] \in {"REG", "ACTIVE"}
      BY <1>2 DEF Fits, StatesFit
    <3>4. \A t \in OwnStreams(c) : in_driver'[t] = "yes" <=> stream_state'[t] \in {"REG", "ACTIVE"}
      BY <1>1, <3>1, <3>2, <3>3
    <3> QED  BY <1>1, <1>4, <1>10, <3>2, <3>4 DEF StatesFit, Stops
  <2>16. ThreadsFit(c)'  BY <1>1, <1>2, <1>4, <1>10 DEF Fits, ThreadsFit
  <2>17. LinksFit(c)'  BY <1>1, <1>4, <1>7, <1>10 DEF LinksFit
  <2>18. BorrowFits(c)'  BY <2>7 DEF BorrowFits
  <2>19. HeldFits(c)'
    <3>1. Forgotten(c)' = Forgotten(c)  BY <1>1 DEF Forgotten
    <3> QED  BY <1>1, <1>2, <1>4, <1>6, <1>10, <3>1 DEF Fits, HeldFits
  <2>20. Fits(c)'
    BY <2>9, <2>10, <2>11, <2>15, <2>16, <2>17, <2>18, <2>19 DEF Fits
  <2>21. \A d \in Chans \ {c} : slots'[d] = slots[d]  BY <1>2, <1>10 DEF ChanTypes
  <2>22. \A t \in ChanStreams \ OwnStreams(c) : stream_state'[t] = stream_state[t]
    BY <1>2, <2>2, <2>3 DEF ChanTypes
  <2> QED  BY <1>1, <1>8, <1>10, <2>6, <2>20, <2>21, <2>22, OthersFit
<1> QED  BY <1>1, <1>9, <1>10

\* The step in which a channel goes.
LEMMA DelChannelFits ==
    ASSUME ChanInv, NEW c \in Chans, mm_camera_del_channel(c)
    PROVE  ChanInv'
<1>1. /\ chan_state[c] = "STOPPED" /\ op[c].call \in {"none", "failed"} /\ NotBorrowed(c)
      /\ chan_state' = [chan_state EXCEPT ![c] = "NOTUSED"]
      /\ stream_state' = [s \in ChanStreams |->
                              IF OwnedBy(s, c) THEN After(stream_state[s], "RELEASE")
                              ELSE stream_state[s]]
      /\ in_driver' = [s \in ChanStreams |-> IF OwnedBy(s, c) THEN "no" ELSE in_driver[s]]
      /\ is_bundled' = [s \in ChanStreams |-> is_bundled[s] /\ ~OwnedBy(s, c)]
      /\ linked_obj' = [s \in ChanStreams |->
                            IF OwnedBy(s, c) THEN "none" ELSE linked_obj[s]]
      /\ slots' = [slots EXCEPT ![c] = << >>]
      /\ notify_cb' = [notify_cb EXCEPT ![c] = FALSE]
      /\ held' = [held EXCEPT ![c] = {}]
      /\ op' = [op EXCEPT ![c] = AtRest]
      /\ UNCHANGED <<layout, running>>
  BY DEF mm_camera_del_channel
<1>2. ChanTypes /\ Fits(c)  BY DEF ChanInv
<1>3. /\ chan_state'[c] = "NOTUSED" /\ op'[c] = AtRest /\ op'[c].call = "none"
      /\ slots'[c] = << >> /\ notify_cb'[c] = FALSE /\ held'[c] = {}
  BY <1>1, <1>2 DEF ChanTypes, AtRest
<1>4. UNCHANGED <<OwnStreams(c), LinksStreams(c), ChanStreams, Chans>>
  BY <1>1 DEF OwnStreams, LinksStreams, ChanStreams, Chans
<1>5. \A s : OwnedBy(s, c) <=> s \in OwnStreams(c)  BY <1>2, LayoutFacts
<1>6. \A s \in OwnStreams(c) : s \in ChanStreams /\ stream_state[s] \in {"CFG", "NOTUSED"}
  <2>1. OwnStreams(c) \subseteq ChanStreams  BY <1>2, LayoutFacts
  <2> QED  BY <1>1, <1>2, <2>1 DEF Fits, StatesFit
<1>7. \A s \in OwnStreams(c) :
          stream_state'[s] = "NOTUSED" /\ in_driver'[s] = "no" /\ ~is_bundled'[s]
  <2>1. After("CFG", "RELEASE") = "NOTUSED" /\ After("NOTUSED", "RELEASE") = "NOTUSED"
    BY DEF After, Handles, LeadsTo
  <2> QED  BY <1>1, <1>5, <1>6, <2>1
<1>8. \A s \in ChanStreams \ OwnStreams(c) :
          /\ stream_state'[s] = stream_state[s] /\ in_driver'[s] = in_driver[s]
          /\ is_bundled'[s] = is_bundled[s]
  BY <1>1, <1>2, <1>5 DEF ChanTypes
<1>9. \A s \in ChanStreams :
          linked_obj'[s] = IF s \in OwnStreams(c) THEN "none" ELSE linked_obj[s]
  BY <1>1, <1>5
<1>10. ChanTypes'
  <2>1. op' \in [Chans -> [call: ChanCalls, i: Nat, s_objs: Seq(ChanStreams)]]
    <3>1. << >> \in Seq(ChanStreams)  OBVIOUS
    <3>2. AtRest \in [call: ChanCalls, i: Nat, s_objs: Seq(ChanStreams)]
      BY <3>1 DEF AtRest, ChanCalls
    <3> QED  BY <1>1, <1>2, <3>2 DEF ChanTypes
  <2>2. slots' \in [Chans -> Seq(ChanStreams)]
    <3>1. << >> \in Seq(ChanStreams)  OBVIOUS
    <3> QED  BY <1>1, <1>2, <3>1 DEF ChanTypes
  <2>3. stream_state' \in [ChanStreams -> StreamStates]
    <3>1. "NOTUSED" \in StreamStates  BY DEF StreamStates
    <3>2. \A s \in ChanStreams : stream_state'[s] \in StreamStates
      BY <1>2, <1>7, <1>8, <3>1 DEF ChanTypes
    <3> QED  BY <1>1, <3>2
  <2>4. in_driver' \in [ChanStreams -> {"no", "yes", "some"}]  BY <1>1, <1>2 DEF ChanTypes
  <2>5. is_bundled' \in [ChanStreams -> BOOLEAN]
    <3>1. \A s \in ChanStreams : is_bundled'[s] \in BOOLEAN  BY <1>1, <1>5
    <3> QED  BY <1>1, <3>1
  <2>6. linked_obj' \in [ChanStreams -> Chans \cup {"none"}]  BY <1>1, <1>2 DEF ChanTypes
  <2>7. held' \in [Chans -> SUBSET ChanStreams]  BY <1>1, <1>2 DEF ChanTypes
  <2> QED
    BY <1>1, <1>2, <1>4, <2>1, <2>2, <2>3, <2>4, <2>5, <2>6, <2>7 DEF ChanTypes
<1>11. ~Begun(c)' /\ ~Stops(c)'  BY <1>3 DEF Begun, Stops
<1>12. OpFits(c)'  BY <1>3 DEF OpFits
<1>13. SlotsFit(c)'
  <2>1. DOMAIN slots'[c] = {}  BY <1>3
  <2> QED  BY <1>3, <1>11, <2>1 DEF SlotsFit
<1>14. ListFits(c)'  BY <1>3, <1>11 DEF ListFits
<1>15. StatesFit(c)'
  <2>1. \A s : s \notin ToSet(slots'[c])  BY <1>3 DEF ToSet
  <2> QED  BY <1>3, <1>4, <1>7, <1>11, <2>1 DEF StatesFit
<1>16. ThreadsFit(c)'
  <2>1. ~running[c]  BY <1>1, <1>2 DEF Fits, ThreadsFit
  <2> QED  BY <1>1, <1>3, <1>4, <1>7, <2>1 DEF ThreadsFit
<1>17. \A s \in ChanStreams : linked_obj'[s] # c
  <2>1. \A s \in ChanStreams : linked_obj[s] # c
    BY <1>1, <1>2 DEF Fits, LinksFit, Stops
  <2>2. c # "none"  BY <1>2, LayoutFacts
  <2> QED  BY <1>9, <2>1, <2>2
<1>18. LinksFit(c)'  BY <1>3, <1>4, <1>17 DEF LinksFit
<1>19. BorrowFits(c)'  BY <1>11 DEF BorrowFits
<1>20. HeldFits(c)'  BY <1>3 DEF HeldFits
<1>21. Fits(c)'
  BY <1>12, <1>13, <1>14, <1>15, <1>16, <1>18, <1>19, <1>20 DEF Fits
<1>22. \A d \in Chans \ {c} : ~(LinksStreams(d) /\ Begun(d))  BY <1>1, NobodyBorrows
<1>23. \A d \in Chans \ {c} :
           /\ chan_state'[d] = chan_state[d] /\ slots'[d] = slots[d] /\ op'[d] = op[d]
           /\ running'[d] = running[d] /\ notify_cb'[d] = notify_cb[d] /\ held'[d] = held[d]
  BY <1>1, <1>2 DEF ChanTypes
<1>24. \A s \in ChanStreams : \A d \in Chans \ {c} :
           linked_obj'[s] = d => linked_obj[s] = d
  <2>1. "none" \notin Chans  BY <1>2, LayoutsAssumption DEF ChanTypes, Chans
  <2> QED  BY <1>9, <2>1
<1> QED  BY <1>1, <1>8, <1>10, <1>21, <1>22, <1>23, <1>24, OthersFit

\* A channel that has all of its streams has them at the head of its array.
LEMMA AllAdded ==
    ASSUME ChanTypes, NEW c \in Chans, SlotsFit(c),
           \A s \in ToSet(layout[c].streams) : s \in ToSet(slots[c])
    PROVE  Len(slots[c]) >= Len(layout[c].streams)
<1> DEFINE own == layout[c].streams
           q == slots[c]
<1>1. /\ own \in Seq(ChanStreams) /\ q \in Seq(ChanStreams) /\ own # << >>
      /\ \A i, j \in DOMAIN own : own[i] = own[j] => i = j
  BY LayoutFacts DEF ChanTypes
<1>2. \A i \in DOMAIN q : IF i <= Len(own) THEN q[i] = own[i] ELSE q[i] \notin OwnStreams(c)
  BY DEF SlotsFit
<1>3. OwnStreams(c) = {own[i] : i \in DOMAIN own}  BY DEF OwnStreams, ToSet
<1>4. \A i \in DOMAIN own : \E j \in DOMAIN q : q[j] = own[i]  BY DEF ToSet
<1> HIDE DEF own, q
<1>5. Len(own) \in Nat /\ Len(own) > 0 /\ DOMAIN own = 1..Len(own) /\ Len(q) \in Nat
      /\ DOMAIN q = 1..Len(q)
  BY <1>1
<1>6. Len(own) \in DOMAIN own  BY <1>5
<1>7. PICK j \in DOMAIN q : q[j] = own[Len(own)]  BY <1>4, <1>6
<1>8. j <= Len(own)  BY <1>2, <1>3, <1>6, <1>7
<1>9. j \in DOMAIN own /\ own[j] = own[Len(own)]  BY <1>2, <1>5, <1>7, <1>8
<1>10. j = Len(own)  BY <1>1, <1>6, <1>9
<1>11. Len(q) >= Len(own)  BY <1>5, <1>7, <1>10
<1> QED  BY <1>11 DEF own, q

\* The step in which streams of another channel are borrowed.
LEMMA LinkStreamFits ==
    ASSUME ChanInv, NEW c \in Chans, mm_channel_link_stream(c)
    PROVE  ChanInv'
<1> DEFINE own == layout[c].streams
           q == slots[c]
           r == slots'[c]
<1>1. /\ LinksStreams(c) /\ chan_state[c] = "STOPPED" /\ op[c].call = "none"
      /\ \A s \in ToSet(layout[c].streams) : s \in ToSet(slots[c])
      /\ \A d \in Chans \ {c} : chan_state[d] = "ACTIVE" /\ op[d].call = "none"
      /\ slots' = [slots EXCEPT
             ![c] = IF Len(@) < MAX_STREAM_NUM_IN_BUNDLE THEN @ \o layout[c].links ELSE @]
      /\ op' = [op EXCEPT ![c].call = "linked"]
      /\ UNCHANGED <<layout, chan_state, stream_state, in_driver, notify_cb, running,
                     is_bundled, linked_obj, held>>
  BY DEF mm_channel_link_stream, Idle
<1>2. ChanTypes /\ Fits(c)  BY DEF ChanInv
<1>3. UNCHANGED <<OwnStreams(c), LinksStreams(c), ChanStreams, Chans>>
  BY <1>1 DEF OwnStreams, LinksStreams, ChanStreams, Chans
<1>4. r = q \/ r = q \o layout[c].links  BY <1>1, <1>2 DEF ChanTypes
<1>5. /\ own \in Seq(ChanStreams) /\ q \in Seq(ChanStreams)
      /\ layout[c].links \in Seq(ChanStreams)
      /\ \A i \in DOMAIN layout[c].links : layout[c].links[i] \notin OwnStreams(c)
  BY <1>2, LayoutFacts DEF ChanTypes
<1>6. Len(q) >= Len(own)  BY <1>1, <1>2, AllAdded DEF Fits
<1>7. /\ r \in Seq(ChanStreams) /\ Len(r) >= Len(q)
      /\ \A i \in DOMAIN q : i \in DOMAIN r /\ r[i] = q[i]
      /\ \A i \in DOMAIN r : i \in DOMAIN q \/ (i > Len(q) /\ r[i] \notin OwnStreams(c))
  <2> DEFINE links == layout[c].links
  <2>1. links \in Seq(ChanStreams) /\ \A i \in DOMAIN links : links[i] \notin OwnStreams(c)
    BY <1>5
  <2>2. r = q \/ r = q \o links  BY <1>4
  <2>3. q \in Seq(ChanStreams)  BY <1>5
  <2> HIDE DEF links, q, r
  <2>4. CASE r = q
    BY <2>3, <2>4
  <2>5. CASE r = q \o links
    <3>1. /\ r \in Seq(ChanStreams) /\ Len(r) = Len(q) + Len(links)
          /\ \A i \in DOMAIN q : r[i] = q[i]
          /\ \A i \in DOMAIN r : i > Len(q) => r[i] = links[i - Len(q)]
      BY <2>1, <2>3, <2>5
    <3>2. Len(q) \in Nat /\ Len(links) \in Nat /\ DOMAIN q = 1..Len(q) /\ DOMAIN r = 1..Len(r)
          /\ DOMAIN links = 1..Len(links)
      BY <2>1, <2>3, <3>1
    <3>3. \A i \in DOMAIN q : i \in DOMAIN r  BY <3>1, <3>2
    <3>4. \A i \in DOMAIN r : i \in DOMAIN q \/ (i > Len(q) /\ i - Len(q) \in DOMAIN links)
      BY <3>1, <3>2
    <3>5. Len(r) >= Len(q)  BY <3>1, <3>2
    <3> QED  BY <2>1, <3>1, <3>3, <3>4, <3>5
  <2> QED  BY <2>2, <2>4, <2>5
<1>8. op'[c] = [op[c] EXCEPT !.call = "linked"] /\ op'[c].call = "linked"
  BY <1>1, <1>2 DEF ChanTypes
<1>9. ChanTypes'
  <2>1. op[c] \in [call: ChanCalls, i: Nat, s_objs: Seq(ChanStreams)]  BY <1>2 DEF ChanTypes
  <2>2. op'[c] \in [call: ChanCalls, i: Nat, s_objs: Seq(ChanStreams)]
    BY <1>8, <2>1 DEF ChanCalls
  <2>3. op' \in [Chans -> [call: ChanCalls, i: Nat, s_objs: Seq(ChanStreams)]]
    BY <1>1, <1>2, <1>8, <2>2 DEF ChanTypes
  <2>4. slots' \in [Chans -> Seq(ChanStreams)]  BY <1>1, <1>2, <1>7 DEF ChanTypes
  <2> QED  BY <1>1, <1>2, <1>3, <2>3, <2>4 DEF ChanTypes
<1>10. Begun(c)' /\ ~Stops(c)'  BY <1>8 DEF Begun, Stops
<1>11. OpFits(c)'  BY <1>1, <1>3, <1>8 DEF OpFits
<1>12. SlotsFit(c)'
  <2>1. \A i \in DOMAIN q : IF i <= Len(own) THEN q[i] = own[i]
                            ELSE q[i] \notin OwnStreams(c) /\ LinksStreams(c)
    BY <1>2 DEF Fits, SlotsFit
  <2>2. Len(q) \in Nat /\ Len(own) \in Nat /\ DOMAIN r = 1..Len(r) /\ Len(r) \in Nat
    BY <1>5, <1>7
  <2> HIDE DEF own, q, r
  <2>3. \A i \in DOMAIN r : IF i <= Len(own) THEN r[i] = own[i]
                            ELSE r[i] \notin OwnStreams(c) /\ LinksStreams(c)
    BY <1>1, <1>6, <1>7, <2>1, <2>2
  <2>4. Len(r) >= Len(own)  BY <1>6, <1>7, <2>2
  <2> QED  BY <1>1, <1>3, <2>3, <2>4 DEF SlotsFit, own, r
<1>13. ListFits(c)'  BY <1>8, <1>10 DEF ListFits
<1>14. StatesFit(c)'
  <2>1. \A s \in OwnStreams(c) : s \in ToSet(q)  BY <1>1 DEF OwnStreams
  <2>2. \A s \in OwnStreams(c) : stream_state[s] = "CFG"
    BY <1>1, <1>2, <2>1 DEF Fits, StatesFit
  <2>3. \A s \in OwnStreams(c) : s \in ToSet(r)  BY <1>7, <2>1 DEF ToSet
  <2>4. \A s \in OwnStreams(c) : in_driver[s] = "yes" <=> stream_state[s] \in {"REG", "ACTIVE"}
    BY <1>2 DEF Fits, StatesFit
  <2> QED  BY <1>1, <1>3, <1>8, <1>10, <2>2, <2>3, <2>4 DEF StatesFit
<1>15. ~running[c]  BY <1>1, <1>2 DEF Fits, ThreadsFit
<1>16. ThreadsFit(c)'  BY <1>1, <1>2, <1>3, <1>8, <1>15 DEF Fits, ThreadsFit
<1>17. LinksFit(c)'
  <2>1. \A s \in ChanStreams : linked_obj[s] # c
    BY <1>1, <1>2 DEF Fits, LinksFit, Stops
  <2> QED  BY <1>1, <1>3, <1>8, <2>1 DEF LinksFit
<1>18. \A d \in Chans \ {c} : op'[d] = op[d] /\ slots'[d] = slots[d]
  BY <1>1, <1>2 DEF ChanTypes
<1>19. BorrowFits(c)'  BY <1>1, <1>3, <1>18 DEF BorrowFits
<1>20. HeldFits(c)'
  <2>1. Forgotten(c)' = Forgotten(c)  BY <1>1 DEF Forgotten
  <2> QED  BY <1>1, <1>2, <1>3, <1>15, <2>1 DEF Fits, HeldFits
<1>21. Fits(c)'
  BY <1>11, <1>12, <1>13, <1>14, <1>16, <1>17, <1>19, <1>20 DEF Fits
<1>22. \A d \in Chans \ {c} : ~(LinksStreams(d) /\ Begun(d))  BY <1>1, <1>2, LayoutFacts
<1> QED  BY <1>1, <1>9, <1>18, <1>21, <1>22, OthersFit

\* What swapping two elements does.
LEMMA SwapFacts ==
    ASSUME NEW S, NEW q \in Seq(S), NEW i \in DOMAIN q, NEW j \in DOMAIN q
    PROVE  /\ Swap(q, i, j) \in Seq(S) /\ Len(Swap(q, i, j)) = Len(q)
           /\ DOMAIN Swap(q, i, j) = DOMAIN q
           /\ \A k \in DOMAIN q :
                  Swap(q, i, j)[k] = q[IF k = i THEN j ELSE IF k = j THEN i ELSE k]
<1> DEFINE r == Swap(q, i, j)
<1>1. r = [q EXCEPT ![i] = q[j], ![j] = q[i]]  BY DEF Swap
<1>2. DOMAIN q = 1..Len(q) /\ Len(q) \in Nat  OBVIOUS
<1>3. DOMAIN r = DOMAIN q  BY <1>1
<1>4. \A k \in DOMAIN q : r[k] = q[IF k = i THEN j ELSE IF k = j THEN i ELSE k]  BY <1>1
<1>5. r \in Seq(S) /\ Len(r) = Len(q)  BY <1>1
<1> QED  BY <1>3, <1>4, <1>5

\* Where a channel's metadata are in its array.
LEMMA MetaIdxFacts ==
    ASSUME ChanTypes, NEW c \in Chans, SlotsFit(c),
           Len(slots[c]) >= Len(layout[c].streams)
    PROVE  /\ MetaIdx(c) \in DOMAIN slots[c] /\ MetaIdx(c) <= Len(layout[c].streams)
           /\ 1 \in DOMAIN slots[c] /\ 1 <= Len(layout[c].streams)
           /\ Len(slots[c]) \in DOMAIN slots[c]
           /\ "metadata" \in OwnStreams(c) => slots[c][MetaIdx(c)] = "metadata"
<1> DEFINE q == slots[c]
           places == {i \in DOMAIN q : q[i] = "metadata" /\ OwnedBy("metadata", c)}
<1>1. /\ layout[c].streams \in Seq(ChanStreams) /\ layout[c].streams # << >>
      /\ q \in Seq(ChanStreams)
      /\ OwnedBy("metadata", c) <=> "metadata" \in OwnStreams(c)
  BY LayoutFacts DEF ChanTypes
<1>2. Len(layout[c].streams) \in Nat /\ Len(layout[c].streams) >= 1  BY <1>1
<1>3. Len(q) \in Nat /\ DOMAIN q = 1..Len(q) /\ 1 \in DOMAIN q /\ Len(q) \in DOMAIN q
  BY <1>1, <1>2
<1>4. MetaIdx(c) = IF places = {} THEN 1 ELSE CHOOSE i \in places : TRUE  BY DEF MetaIdx
<1>5. CASE places = {}
  <2>1. "metadata" \notin OwnStreams(c)
    <3> SUFFICES ASSUME "metadata" \in OwnStreams(c)  PROVE FALSE
      OBVIOUS
    <3>1. \E i \in DOMAIN q : q[i] = "metadata"  BY OwnSlots
    <3> QED  BY <1>1, <1>5, <3>1
  <2> QED  BY <1>2, <1>3, <1>4, <1>5, <2>1
<1>6. CASE places # {}
  <2>1. MetaIdx(c) \in places  BY <1>4, <1>6
  <2>2. /\ MetaIdx(c) \in DOMAIN q /\ q[MetaIdx(c)] = "metadata"
        /\ q[MetaIdx(c)] \in OwnStreams(c)
    BY <1>1, <2>1
  <2>3. MetaIdx(c) <= Len(layout[c].streams)  BY <2>2, OwnSlots
  <2> QED  BY <1>2, <1>3, <2>2, <2>3
<1> QED  BY <1>5, <1>6

\* The order in which a channel starts its streams, and the one in which it stops them.
LEMMA OrderFacts ==
    ASSUME ChanTypes, NEW c \in Chans, SlotsFit(c),
           Len(slots[c]) >= Len(layout[c].streams), NEW r, r \in {ToStart(c), ToStop(c)}
    PROVE  /\ r \in Seq(ChanStreams)
           /\ \A j, k \in DOMAIN r : r[j] \in OwnStreams(c) /\ r[j] = r[k] => j = k
           /\ \A s \in ToSet(slots[c]) : \E j \in DOMAIN r : r[j] = s
           /\ \A s \in OwnStreams(c) : \E j \in DOMAIN r : r[j] = s
           /\ \A j \in DOMAIN r : r[j] \in ToSet(slots[c])
           /\ r = ToStart(c) =>
                  /\ \A j, k \in DOMAIN r :
                         j <= k /\ r[k] \in OwnStreams(c) => r[j] \in OwnStreams(c)
                  /\ "metadata" \in OwnStreams(c) => r[1] = "metadata"
           /\ r = ToStop(c) /\ "metadata" \in OwnStreams(c) => r[Len(r)] = "metadata"
<1> DEFINE q == slots[c]
           n == Len(layout[c].streams)
           m == MetaIdx(c)
           i == IF r = ToStart(c) THEN 1 ELSE m
           k0 == IF r = ToStart(c) THEN m ELSE Len(q)
           p(k) == IF k = i THEN k0 ELSE IF k = k0 THEN i ELSE k
<1>1. q \in Seq(ChanStreams) /\ n \in Nat  BY LayoutFacts DEF ChanTypes
<1>2. /\ m \in DOMAIN q /\ m <= n /\ 1 \in DOMAIN q /\ 1 <= n /\ Len(q) \in DOMAIN q
      /\ "metadata" \in OwnStreams(c) => q[m] = "metadata"
  BY MetaIdxFacts
<1>3. /\ \A j \in DOMAIN q : q[j] \in OwnStreams(c) <=> j <= n
      /\ \A j, k \in DOMAIN q : q[j] = q[k] /\ q[j] \in OwnStreams(c) => j = k
      /\ \A s \in OwnStreams(c) : \E j \in DOMAIN q : q[j] = s
  BY OwnSlots
<1>4. r = Swap(q, i, k0)  BY DEF ToStart, ToStop
<1>5. i \in DOMAIN q /\ k0 \in DOMAIN q  BY <1>2
<1>6. r = ToStart(c) => i = 1 /\ k0 = m  OBVIOUS
<1>7. r = ToStop(c) => r[Len(r)] = q[m]
  <2> SUFFICES ASSUME r = ToStop(c)  PROVE r[Len(r)] = q[m]
    OBVIOUS
  <2> DEFINE z == Len(q)
  <2>1. r = Swap(q, m, z)  BY DEF ToStop
  <2>2. q \in Seq(ChanStreams) /\ m \in DOMAIN q /\ z \in DOMAIN q  BY <1>1, <1>2
  <2> HIDE DEF q, m, z
  <2>3. /\ Len(Swap(q, m, z)) = Len(q)
        /\ \A k \in DOMAIN q :
               Swap(q, m, z)[k] = q[IF k = m THEN z ELSE IF k = z THEN m ELSE k]
    BY <2>2, SwapFacts
  <2>4. r[z] = q[m]  BY <2>1, <2>2, <2>3
  <2> QED  BY <2>1, <2>3, <2>4 DEF z
<1> HIDE DEF q, n, m, i, k0
<1>8. /\ r \in Seq(ChanStreams) /\ DOMAIN r = DOMAIN q
      /\ \A k \in DOMAIN q : r[k] = q[p(k)]
  BY <1>1, <1>4, <1>5, SwapFacts
<1>9. \A k \in DOMAIN q : p(k) \in DOMAIN q /\ p(p(k)) = k  BY <1>5
<1>10. \A j, k \in DOMAIN q : p(j) = p(k) => j = k  BY <1>9
<1>11. DOMAIN q = 1..Len(q) /\ Len(q) \in Nat  BY <1>1
<1>12. \A j \in DOMAIN q : r[p(j)] = q[j]  BY <1>8, <1>9
<1>13. ToSet(q) = {q[j] : j \in DOMAIN q}  BY DEF ToSet
<1>14. r = ToStart(c) => \A k \in DOMAIN q : k <= n <=> p(k) <= n
  BY <1>2, <1>6, <1>11
<1> HIDE DEF p
<1>15. \A j, k \in DOMAIN r : r[j] \in OwnStreams(c) /\ r[j] = r[k] => j = k
  BY <1>3, <1>8, <1>9, <1>10
<1>16. \A s \in ToSet(q) : \E j \in DOMAIN r : r[j] = s  BY <1>8, <1>9, <1>12, <1>13
<1>17. \A s \in OwnStreams(c) : \E j \in DOMAIN r : r[j] = s  BY <1>3, <1>8, <1>9, <1>12
<1>18. \A j \in DOMAIN r : r[j] \in ToSet(q)  BY <1>8, <1>9, <1>13
<1>19. r = ToStart(c) => \A j, k \in DOMAIN r :
           j <= k /\ r[k] \in OwnStreams(c) => r[j] \in OwnStreams(c)
  <2> SUFFICES ASSUME r = ToStart(c), NEW j \in DOMAIN q, NEW k \in DOMAIN q, j <= k,
                      r[k] \in OwnStreams(c)
               PROVE  r[j] \in OwnStreams(c)
    BY <1>8
  <2>1. p(k) <= n /\ p(k) \in DOMAIN q  BY <1>3, <1>8, <1>9
  <2>2. k <= n  BY <1>14, <2>1
  <2>3. j <= n  BY <1>1, <1>11, <2>2
  <2>4. p(j) <= n /\ p(j) \in DOMAIN q  BY <1>9, <1>14, <2>3
  <2> QED  BY <1>3, <1>8, <2>4
<1>20. r = ToStart(c) /\ "metadata" \in OwnStreams(c) => r[1] = "metadata"
  <2>1. r = ToStart(c) => p(1) = m  BY <1>6 DEF p
  <2> QED  BY <1>2, <1>8, <2>1
<1>21. r = ToStop(c) /\ "metadata" \in OwnStreams(c) => r[Len(r)] = "metadata"
  BY <1>2, <1>7
<1> QED  BY <1>8, <1>15, <1>16, <1>17, <1>18, <1>19, <1>20, <1>21 DEF q

\* The step in which a channel's threads are launched.
LEMMA StartFits ==
    ASSUME ChanInv, NEW c \in Chans, mm_channel_start(c)
    PROVE  ChanInv'
<1> DEFINE q == ToStart(c)
<1>1. /\ chan_state[c] = "STOPPED"
      /\ op[c].call = IF LinksStreams(c) THEN "linked" ELSE "none"
      /\ \A s \in ToSet(layout[c].streams) : s \in ToSet(slots[c])
      /\ op' = [op EXCEPT ![c] = Doing("start", q)]
      /\ running' = [running EXCEPT ![c] = notify_cb[c]]
      /\ is_bundled' = [s \in ChanStreams |->
                            is_bundled[s] \/ (OwnedBy(s, c) /\ notify_cb[c])]
      /\ UNCHANGED <<layout, chan_state, slots, stream_state, in_driver, notify_cb,
                     linked_obj, held>>
  BY DEF mm_channel_start
<1>2. ChanTypes /\ Fits(c)  BY DEF ChanInv
<1>3. UNCHANGED <<OwnStreams(c), LinksStreams(c), ChanStreams, Chans>>
  BY <1>1 DEF OwnStreams, LinksStreams, ChanStreams, Chans
<1>4. /\ OwnStreams(c) \subseteq ChanStreams
      /\ \A s : OwnedBy(s, c) <=> s \in OwnStreams(c)
  BY <1>2, LayoutFacts
<1>5. SlotsFit(c) /\ Len(slots[c]) >= Len(layout[c].streams)
  BY <1>1, <1>2, AllAdded DEF Fits
<1>6. /\ q \in Seq(ChanStreams)
      /\ \A j, k \in DOMAIN q : q[j] \in OwnStreams(c) /\ q[j] = q[k] => j = k
      /\ \A s \in OwnStreams(c) : \E j \in DOMAIN q : q[j] = s
      /\ \A s \in ToSet(slots[c]) : \E j \in DOMAIN q : q[j] = s
      /\ \A j \in DOMAIN q : q[j] \in ToSet(slots[c])
      /\ \A j, k \in DOMAIN q :
             j <= k /\ q[k] \in OwnStreams(c) => q[j] \in OwnStreams(c)
      /\ "metadata" \in OwnStreams(c) => q[1] = "metadata"
  <2>1. q \in {ToStart(c), ToStop(c)} /\ q = ToStart(c)  OBVIOUS
  <2> HIDE DEF q
  <2> QED  BY <1>2, <1>5, <2>1, OrderFacts
<1> HIDE DEF q
<1>7. Len(q) \in Nat /\ DOMAIN q = 1..Len(q)  BY <1>6
<1>8. op'[c].call = "start" /\ op'[c].i = 1 /\ op'[c].s_objs = q
  BY <1>1, <1>2 DEF ChanTypes, Doing
<1>9. ChanTypes'
  <2>1. Doing("start", q) \in [call: ChanCalls, i: Nat, s_objs: Seq(ChanStreams)]
    BY <1>6 DEF Doing, ChanCalls
  <2>2. op' \in [Chans -> [call: ChanCalls, i: Nat, s_objs: Seq(ChanStreams)]]
    BY <1>1, <1>2, <2>1 DEF ChanTypes
  <2>3. running' \in [Chans -> BOOLEAN]  BY <1>1, <1>2 DEF ChanTypes
  <2>4. is_bundled' \in [ChanStreams -> BOOLEAN]
    <3>1. \A s \in ChanStreams : is_bundled'[s] \in BOOLEAN  BY <1>1
    <3> QED  BY <1>1, <3>1
  <2> QED  BY <1>1, <1>2, <1>3, <2>2, <2>3, <2>4 DEF ChanTypes
<1>10. Begun(c)' /\ ~Stops(c)'  BY <1>8 DEF Begun, Stops
<1>11. OpFits(c)'  BY <1>1, <1>8 DEF OpFits
<1>12. SlotsFit(c)'  BY <1>1, <1>3, <1>5 DEF SlotsFit
<1>13. ListFits(c)'  BY <1>1, <1>3, <1>6, <1>7, <1>8, <1>10 DEF ListFits
<1>14. ~running[c] /\ \A s \in ChanStreams : linked_obj[s] # c
  <2>1. ~running[c]  BY <1>1, <1>2 DEF Fits, ThreadsFit
  <2>2. \A s \in ChanStreams : linked_obj[s] # c
    BY <1>1, <1>2 DEF Fits, LinksFit, Stops
  <2> QED  BY <2>1, <2>2
<1>15. StatesFit(c)'
  <2>1. \A s \in OwnStreams(c) : stream_state[s] = "CFG"
    <3>1. \A s \in OwnStreams(c) : s \in ToSet(slots[c])  BY <1>1 DEF OwnStreams
    <3> QED  BY <1>1, <1>2, <3>1 DEF Fits, StatesFit
  <2>2. \A s \in OwnStreams(c) : in_driver[s] = "yes" <=> stream_state[s] \in {"REG", "ACTIVE"}
    BY <1>2 DEF Fits, StatesFit
  <2>3. \A j \in DOMAIN q : ~(j < 1)  BY <1>7
  <2> QED  BY <1>1, <1>3, <1>8, <1>10, <2>1, <2>2, <2>3 DEF StatesFit
<1>16. running'[c] = notify_cb[c]  BY <1>1, <1>2 DEF ChanTypes
<1>17. ThreadsFit(c)'
  <2>1. /\ notify_cb[c] => layout[c].cb
        /\ \A s \in OwnStreams(c) : is_bundled[s] => layout[c].cb
    BY <1>2 DEF Fits, ThreadsFit
  <2>2. \A s \in OwnStreams(c) : is_bundled'[s] => layout[c].cb
    BY <1>1, <1>4, <2>1
  <2> QED  BY <1>1, <1>3, <1>8, <1>16, <2>1, <2>2 DEF ThreadsFit
<1>18. LinksFit(c)'
  <2>1. \A j \in DOMAIN q : ~(j < 1)  BY <1>7
  <2> QED  BY <1>1, <1>3, <1>8, <1>14, <2>1 DEF LinksFit
<1>19. \A d \in Chans \ {c} : op'[d] = op[d] /\ running'[d] = running[d]
  BY <1>1, <1>2 DEF ChanTypes
<1>20. BorrowFits(c)'
  <2>1. LinksStreams(c) => Begun(c)  BY <1>1 DEF Begun
  <2> QED  BY <1>1, <1>2, <1>3, <1>19, <2>1 DEF Fits, BorrowFits
<1>21. HeldFits(c)'
  <2>1. Forgotten(c)' = Forgotten(c)  BY <1>1 DEF Forgotten
  <2>2. ~Forgotten(c) => held[c] = {}
    BY <1>1, <1>2, <1>14 DEF Fits, HeldFits
  <2> QED  BY <1>1, <1>2, <1>3, <2>1, <2>2 DEF Fits, HeldFits
<1>22. Fits(c)'
  BY <1>11, <1>12, <1>13, <1>15, <1>17, <1>18, <1>20, <1>21 DEF Fits
<1>23. \A d \in Chans \ {c} : ~(LinksStreams(d) /\ Begun(d))  BY <1>1, NobodyBorrows
<1>24. \A s \in ChanStreams \ OwnStreams(c) : is_bundled'[s] = is_bundled[s]
  BY <1>1, <1>2, <1>4 DEF ChanTypes
<1> QED  BY <1>1, <1>9, <1>19, <1>22, <1>23, <1>24, OthersFit

\* What advancing to the next stream changes.
LEMMA AdvanceFacts ==
    ASSUME ChanTypes, NEW c \in Chans, Advance(c)
    PROVE  /\ op' \in [Chans -> [call: ChanCalls, i: Nat, s_objs: Seq(ChanStreams)]]
           /\ op'[c].call = op[c].call /\ op'[c].i = op[c].i + 1
           /\ op'[c].s_objs = op[c].s_objs
           /\ \A d \in Chans \ {c} : op'[d] = op[d]
<1>1. op' = [op EXCEPT ![c].i = @ + 1]  BY DEF Advance
<1>2. op \in [Chans -> [call: ChanCalls, i: Nat, s_objs: Seq(ChanStreams)]]  BY DEF ChanTypes
<1>3. op[c] \in [call: ChanCalls, i: Nat, s_objs: Seq(ChanStreams)]  BY <1>2
<1>4. op'[c] = [op[c] EXCEPT !.i = @ + 1]  BY <1>1, <1>2
<1>5. op'[c] \in [call: ChanCalls, i: Nat, s_objs: Seq(ChanStreams)]  BY <1>3, <1>4
<1> QED  BY <1>1, <1>2, <1>3, <1>4, <1>5

\* The stream that a call is at.
LEMMA CurrentFacts ==
    ASSUME ChanTypes, NEW c \in Chans, ListFits(c),
           op[c].call \in {"start", "rollback", "stop", "put", "crashed"},
           op[c].i <= Len(op[c].s_objs)
    PROVE  /\ op[c].s_objs \in Seq(ChanStreams) /\ op[c].i \in Nat
           /\ op[c].i \in DOMAIN op[c].s_objs /\ Current(c) = op[c].s_objs[op[c].i]
           /\ Current(c) \in ChanStreams /\ op[c].i + 1 \in 1..Len(op[c].s_objs) + 1
           /\ \A j \in DOMAIN op[c].s_objs : /\ j < op[c].i + 1 <=> j < op[c].i \/ j = op[c].i
                                             /\ j > op[c].i + 1 => j > op[c].i
                                             /\ j >= op[c].i <=> j >= op[c].i + 1 \/ j = op[c].i
           /\ Current(c) \in OwnStreams(c) => \A j \in DOMAIN op[c].s_objs :
                  op[c].s_objs[j] = Current(c) => j = op[c].i
<1> DEFINE q == op[c].s_objs
           i == op[c].i
<1>1. op[c] \in [call: ChanCalls, i: Nat, s_objs: Seq(ChanStreams)]  BY DEF ChanTypes
<1>2. q \in Seq(ChanStreams) /\ i \in Nat  BY <1>1
<1>3. i \in 1..Len(q) + 1 /\ i <= Len(q)
      /\ \A j, k \in DOMAIN q : q[j] \in OwnStreams(c) /\ q[j] = q[k] => j = k
  BY DEF ListFits
<1>4. Current(c) = q[i]  BY DEF Current
<1> HIDE DEF q, i
<1>5. i \in DOMAIN q /\ i + 1 \in 1..Len(q) + 1  BY <1>2, <1>3
<1>6. q[i] \in ChanStreams  BY <1>2, <1>5
<1>7. \A j \in DOMAIN q : /\ j < i + 1 <=> j < i \/ j = i
                          /\ j > i + 1 => j > i
                          /\ j >= i <=> j >= i + 1 \/ j = i
  BY <1>2
<1>8. q[i] \in OwnStreams(c) => \A j \in DOMAIN q : q[j] = q[i] => j = i  BY <1>3, <1>5
<1> QED  BY <1>2, <1>4, <1>5, <1>6, <1>7, <1>8 DEF q, i

\* The steps in which streams are started.
LEMMA StartLinkedFits ==
    ASSUME ChanInv, NEW c \in Chans, StartLinked(c)
    PROVE  ChanInv'
<1> DEFINE q == op[c].s_objs
           i == op[c].i
           s == Current(c)
<1>1. /\ op[c].call = "start" /\ i <= Len(q) /\ ~OwnedBy(s, c) /\ Advance(c)
      /\ linked_obj' = [linked_obj EXCEPT ![s] = c]
      /\ UNCHANGED <<layout, chan_state, slots, stream_state, in_driver, notify_cb, running,
                     is_bundled, held>>
  BY DEF StartLinked, InCall
<1>2. ChanTypes /\ Fits(c)  BY DEF ChanInv
<1>3. UNCHANGED <<OwnStreams(c), LinksStreams(c), ChanStreams, Chans>>
  BY <1>1 DEF OwnStreams, LinksStreams, ChanStreams, Chans
<1>4. ListFits(c)  BY <1>2 DEF Fits
<1>5. /\ q \in Seq(ChanStreams) /\ i \in Nat /\ i \in DOMAIN q /\ s = q[i]
      /\ s \in ChanStreams /\ i + 1 \in 1..Len(q) + 1
      /\ \A j \in DOMAIN q : j < i + 1 <=> j < i \/ j = i
      /\ \A j \in DOMAIN q : j > i + 1 => j > i
  BY <1>1, <1>2, <1>4, CurrentFacts
<1>6. s \notin OwnStreams(c)  BY <1>1, <1>2, LayoutFacts
<1>7. /\ op' \in [Chans -> [call: ChanCalls, i: Nat, s_objs: Seq(ChanStreams)]]
      /\ op'[c].call = "start" /\ op'[c].i = i + 1 /\ op'[c].s_objs = q
      /\ \A d \in Chans \ {c} : op'[d] = op[d]
  BY <1>1, <1>2, AdvanceFacts
<1>8. LinksStreams(c)
  <2>1. q[i] \in ToSet(slots[c])  BY <1>1, <1>4, <1>5 DEF ListFits
  <2>2. PICK k \in DOMAIN slots[c] : slots[c][k] = s  BY <1>5, <2>1 DEF ToSet
  <2>3. SlotsFit(c)  BY <1>2 DEF Fits
  <2>4. ~(k <= Len(layout[c].streams))  BY <1>2, <1>6, <2>2, <2>3, OwnSlots
  <2> QED  BY <2>2, <2>3, <2>4 DEF SlotsFit
<1> HIDE DEF q, i, s
<1>9. linked_obj'[s] = c /\ \A t \in ChanStreams \ {s} : linked_obj'[t] = linked_obj[t]
  BY <1>1, <1>2, <1>5 DEF ChanTypes
<1>10. ChanTypes'
  <2>1. linked_obj' \in [ChanStreams -> Chans \cup {"none"}]  BY <1>1, <1>2 DEF ChanTypes
  <2> QED  BY <1>1, <1>2, <1>3, <1>7, <2>1 DEF ChanTypes
<1>11. Begun(c)' = Begun(c) /\ ~Stops(c)' /\ Begun(c)  BY <1>1, <1>7 DEF Begun, Stops
<1>12. OpFits(c)'  BY <1>1, <1>2, <1>7 DEF OpFits, Fits
<1>13. SlotsFit(c)'  BY <1>1, <1>2, <1>3, <1>11 DEF SlotsFit, Fits
<1>14. ListFits(c)'  BY <1>1, <1>3, <1>4, <1>5, <1>7, <1>11 DEF ListFits, q
<1>15. StatesFit(c)'
  <2>1. \A j \in DOMAIN q : q[j] \in OwnStreams(c) =>
            /\ j < i => stream_state[q[j]] = "ACTIVE"
            /\ j > i => stream_state[q[j]] = "CFG"
    BY <1>1, <1>2 DEF Fits, StatesFit, q, i
  <2>2. \A j \in DOMAIN q : q[j] \in OwnStreams(c) =>
            /\ j < i + 1 => stream_state[q[j]] = "ACTIVE"
            /\ j = i + 1 => stream_state[q[j]] \in {"CFG", "BUFFED", "REG"}
            /\ j > i + 1 => stream_state[q[j]] = "CFG"
    BY <1>5, <1>6, <2>1
  <2>3. \A t \in OwnStreams(c) : in_driver[t] = "yes" <=> stream_state[t] \in {"REG", "ACTIVE"}
    BY <1>2 DEF Fits, StatesFit
  <2> QED  BY <1>1, <1>3, <1>7, <1>11, <2>2, <2>3 DEF StatesFit
<1>16. ThreadsFit(c)'  BY <1>1, <1>2, <1>3, <1>7 DEF ThreadsFit, Fits
<1>17. LinksFit(c)'
  <2>1. \A t \in ChanStreams : linked_obj[t] = c =>
            t \notin OwnStreams(c) /\ \E j \in DOMAIN q : j < i /\ q[j] = t
    BY <1>1, <1>2 DEF Fits, LinksFit, Stops, q, i
  <2>2. \A t \in ChanStreams : linked_obj'[t] = c =>
            t \notin OwnStreams(c) /\ \E j \in DOMAIN q : j < i + 1 /\ q[j] = t
    <3> SUFFICES ASSUME NEW t \in ChanStreams, linked_obj'[t] = c
                 PROVE  t \notin OwnStreams(c) /\ \E j \in DOMAIN q : j < i + 1 /\ q[j] = t
      OBVIOUS
    <3>1. CASE t = s
      BY <1>5, <1>6, <3>1
    <3>2. CASE t # s
      BY <1>5, <1>9, <2>1, <3>2
    <3> QED  BY <3>1, <3>2
  <2>3. \A j \in DOMAIN q : j < i /\ q[j] \notin OwnStreams(c) => linked_obj[q[j]] = c
    BY <1>1, <1>2 DEF Fits, LinksFit, q, i
  <2>4. \A j \in DOMAIN q : q[j] \in ChanStreams  BY <1>5
  <2>5. \A j \in DOMAIN q : j < i + 1 /\ q[j] \notin OwnStreams(c) => linked_obj'[q[j]] = c
    BY <1>5, <1>9, <2>3, <2>4
  <2> QED  BY <1>3, <1>7, <1>8, <2>2, <2>5 DEF LinksFit
<1>18. BorrowFits(c)'  BY <1>1, <1>2, <1>3, <1>7, <1>11 DEF BorrowFits, Fits
<1>19. HeldFits(c)'
  <2>1. Forgotten(c)' = Forgotten(c)  BY <1>1 DEF Forgotten
  <2> QED  BY <1>1, <1>2, <1>3, <1>7, <2>1 DEF HeldFits, Fits
<1>20. Fits(c)'
  BY <1>12, <1>13, <1>14, <1>15, <1>16, <1>17, <1>18, <1>19 DEF Fits
<1>21. \A d \in Chans \ {c} : ~(LinksStreams(d) /\ Begun(d))  BY <1>1, NobodyBorrows
<1>22. \A t \in ChanStreams : \A d \in Chans \ {c} : linked_obj'[t] = d => linked_obj[t] = d
  BY <1>9
<1> QED  BY <1>1, <1>7, <1>10, <1>20, <1>21, <1>22, OthersFit

LEMMA StartOwnFits ==
    ASSUME ChanInv, NEW c \in Chans, StartOwn(c)
    PROVE  ChanInv'
<1> DEFINE q == op[c].s_objs
           i == op[c].i
           s == Current(c)
<1>1. PICK e \in {"GET_BUF", "REG_BUF", "START"} :
          /\ op[c].call = "start" /\ i <= Len(q) /\ OwnedBy(s, c)
          /\ stream_state[s] \in Handles[e]
          /\ stream_state' = [stream_state EXCEPT ![s] = LeadsTo[e]]
          /\ in_driver' = [in_driver EXCEPT ![s] = IF e = "REG_BUF" THEN "yes" ELSE @]
          /\ IF e = "START" THEN Advance(c) ELSE op' = op
          /\ UNCHANGED <<layout, chan_state, slots, notify_cb, running, is_bundled,
                         linked_obj, held>>
  BY DEF StartOwn, InCall
<1>2. ChanTypes /\ Fits(c)  BY DEF ChanInv
<1>3. UNCHANGED <<OwnStreams(c), LinksStreams(c), ChanStreams, Chans>>
  BY <1>1 DEF OwnStreams, LinksStreams, ChanStreams, Chans
<1>4. ListFits(c)  BY <1>2 DEF Fits
<1>5. /\ q \in Seq(ChanStreams) /\ i \in Nat /\ i \in DOMAIN q /\ s = q[i]
      /\ s \in ChanStreams /\ i + 1 \in 1..Len(q) + 1
      /\ \A j \in DOMAIN q : j < i + 1 <=> j < i \/ j = i
      /\ \A j \in DOMAIN q : j > i + 1 => j > i
  BY <1>1, <1>2, <1>4, CurrentFacts
<1>6. s \in OwnStreams(c)  BY <1>1, <1>2, LayoutFacts
<1>7. \A j \in DOMAIN q : q[j] = s => j = i  BY <1>1, <1>2, <1>4, <1>6, CurrentFacts
<1>8. /\ op' \in [Chans -> [call: ChanCalls, i: Nat, s_objs: Seq(ChanStreams)]]
      /\ op'[c].call = "start" /\ op'[c].i = IF e = "START" THEN i + 1 ELSE i
      /\ op'[c].s_objs = q
      /\ \A d \in Chans \ {c} : op'[d] = op[d]
  <2>1. CASE e = "START"
    BY <1>1, <1>2, <2>1, AdvanceFacts
  <2>2. CASE e # "START"
    BY <1>1, <1>2, <2>2 DEF ChanTypes
  <2> QED  BY <2>1, <2>2
<1> HIDE DEF q, i, s
<1>9. /\ stream_state'[s] = LeadsTo[e]
      /\ \A t \in ChanStreams \ {s} : stream_state'[t] = stream_state[t]
      /\ in_driver'[s] = IF e = "REG_BUF" THEN "yes" ELSE in_driver[s]
      /\ \A t \in ChanStreams \ {s} : in_driver'[t] = in_driver[t]
  BY <1>1, <1>2, <1>5 DEF ChanTypes
<1>10. /\ e = "GET_BUF" => stream_state[s] = "CFG" /\ stream_state'[s] = "BUFFED"
       /\ e = "REG_BUF" => stream_state[s] = "BUFFED" /\ stream_state'[s] = "REG"
       /\ e = "START" => stream_state[s] = "REG" /\ stream_state'[s] = "ACTIVE"
  BY <1>1, <1>9 DEF Handles, LeadsTo
<1>11. ChanTypes'
  <2>1. stream_state' \in [ChanStreams -> StreamStates]
    <3>1. LeadsTo[e] \in StreamStates  BY DEF LeadsTo, StreamStates
    <3> QED  BY <1>1, <1>2, <3>1 DEF ChanTypes
  <2>2. in_driver' \in [ChanStreams -> {"no", "yes", "some"}]  BY <1>1, <1>2 DEF ChanTypes
  <2> QED  BY <1>1, <1>2, <1>3, <1>8, <2>1, <2>2 DEF ChanTypes
<1>12. Begun(c)' = Begun(c) /\ ~Stops(c)' /\ Begun(c)  BY <1>1, <1>8 DEF Begun, Stops
<1>13. OpFits(c)'  BY <1>1, <1>2, <1>8 DEF OpFits, Fits
<1>14. SlotsFit(c)'  BY <1>1, <1>2, <1>3, <1>12 DEF SlotsFit, Fits
<1>15. ListFits(c)'
  <2>1. op'[c].i \in 1..Len(q) + 1
    <3>1. i \in 1..Len(q) + 1  BY <1>1, <1>4 DEF ListFits, q, i
    <3> QED  BY <1>5, <1>8, <3>1
  <2> QED  BY <1>1, <1>3, <1>4, <1>8, <1>12, <2>1 DEF ListFits, q
<1>16. \A t \in OwnStreams(c) : t \in ChanStreams  BY <1>2, LayoutFacts
<1>17. StatesFit(c)'
  <2>1. \A j \in DOMAIN q : q[j] \in OwnStreams(c) =>
            /\ j < i => stream_state[q[j]] = "ACTIVE"
            /\ j > i => stream_state[q[j]] = "CFG"
    BY <1>1, <1>2 DEF Fits, StatesFit, q, i
  <2>2. \A j \in DOMAIN q : j # i /\ q[j] \in OwnStreams(c) =>
            stream_state'[q[j]] = stream_state[q[j]]
    BY <1>7, <1>9, <1>16
  <2>3. \A j \in DOMAIN q : ~(j < i /\ j = i) /\ ~(j > i /\ j = i) /\ ~(j = i + 1 /\ j = i)
                            /\ (j = i + 1 => j > i)
    BY <1>5
  <2>4. CASE e = "START"
    <3>1. \A j \in DOMAIN q : q[j] \in OwnStreams(c) =>
              /\ j < i + 1 => stream_state'[q[j]] = "ACTIVE"
              /\ j = i + 1 => stream_state'[q[j]] \in {"CFG", "BUFFED", "REG"}
              /\ j > i + 1 => stream_state'[q[j]] = "CFG"
      BY <1>5, <1>10, <2>1, <2>2, <2>3, <2>4
    <3> QED
      <4>1. \A t \in OwnStreams(c) :
                in_driver'[t] = "yes" <=> stream_state'[t] \in {"REG", "ACTIVE"}
        <5>1. \A t \in OwnStreams(c) :
                  in_driver[t] = "yes" <=> stream_state[t] \in {"REG", "ACTIVE"}
          BY <1>2 DEF Fits, StatesFit
        <5> QED  BY <1>6, <1>9, <1>10, <1>16, <2>4, <5>1
      <4> QED  BY <1>3, <1>8, <1>12, <2>4, <3>1, <4>1 DEF StatesFit
  <2>5. CASE e # "START"
    <3>1. stream_state'[s] \in {"CFG", "BUFFED", "REG"}  BY <1>10, <2>5
    <3>2. \A j \in DOMAIN q : q[j] \in OwnStreams(c) =>
              /\ j < i => stream_state'[q[j]] = "ACTIVE"
              /\ j = i => stream_state'[q[j]] \in {"CFG", "BUFFED", "REG"}
              /\ j > i => stream_state'[q[j]] = "CFG"
      BY <1>5, <2>1, <2>2, <2>3, <3>1
    <3>3. \A t \in OwnStreams(c) :
              in_driver'[t] = "yes" <=> stream_state'[t] \in {"REG", "ACTIVE"}
      <4>1. \A t \in OwnStreams(c) :
                in_driver[t] = "yes" <=> stream_state[t] \in {"REG", "ACTIVE"}
        BY <1>2 DEF Fits, StatesFit
      <4> QED  BY <1>6, <1>9, <1>10, <1>16, <2>5, <4>1
    <3> QED  BY <1>3, <1>8, <1>12, <2>5, <3>2, <3>3 DEF StatesFit
  <2> QED  BY <2>4, <2>5
<1>18. ThreadsFit(c)'  BY <1>1, <1>2, <1>3, <1>8 DEF ThreadsFit, Fits
<1>19. LinksFit(c)'
  <2>1. \A t \in ChanStreams : linked_obj[t] = c =>
            t \notin OwnStreams(c) /\ LinksStreams(c) /\ \E j \in DOMAIN q : j < i /\ q[j] = t
    BY <1>1, <1>2 DEF Fits, LinksFit, Stops, q, i
  <2>2. \A j \in DOMAIN q : j < i /\ q[j] \notin OwnStreams(c) =>
            linked_obj[q[j]] = c /\ LinksStreams(c)
    BY <1>1, <1>2 DEF Fits, LinksFit, q, i
  <2>3. \A j \in DOMAIN q : j < i => j < op'[c].i  BY <1>5, <1>8
  <2>4. \A j \in DOMAIN q : j < op'[c].i /\ q[j] \notin OwnStreams(c) => j < i
    BY <1>5, <1>6, <1>8
  <2> QED  BY <1>1, <1>3, <1>8, <2>1, <2>2, <2>3, <2>4 DEF LinksFit
<1>20. BorrowFits(c)'  BY <1>1, <1>2, <1>3, <1>8, <1>12 DEF BorrowFits, Fits
<1>21. HeldFits(c)'
  <2>1. Forgotten(c)' = Forgotten(c)  BY <1>1 DEF Forgotten
  <2>2. stream_state'[s] \in {"BUFFED", "REG", "ACTIVE"}  BY <1>10
  <2>3. \A t \in held[c] : t \in ChanStreams  BY <1>2 DEF ChanTypes
  <2>4. \A t \in held[c] : stream_state[t] \in {"BUFFED", "REG", "ACTIVE"}
            => stream_state'[t] \in {"BUFFED", "REG", "ACTIVE"}
    BY <1>9, <2>2, <2>3
  <2> QED  BY <1>1, <1>2, <1>3, <1>8, <2>1, <2>4 DEF HeldFits, Fits
<1>22. Fits(c)'
  BY <1>13, <1>14, <1>15, <1>17, <1>18, <1>19, <1>20, <1>21 DEF Fits
<1>23. \A d \in Chans \ {c} : ~(LinksStreams(d) /\ Begun(d))  BY <1>1, NobodyBorrows
<1>24. \A t \in ChanStreams \ OwnStreams(c) :
           stream_state'[t] = stream_state[t] /\ in_driver'[t] = in_driver[t]
  BY <1>6, <1>9
<1> QED  BY <1>1, <1>8, <1>11, <1>22, <1>23, <1>24, OthersFit

\* The step in which a start gives up.
LEMMA StartFailsFits ==
    ASSUME ChanInv, NEW c \in Chans, StartFails(c)
    PROVE  ChanInv'
<1> DEFINE q == op[c].s_objs
           i == op[c].i
           s == Current(c)
           r == SubSeq(q, 1, i)
<1>1. /\ op[c].call = "start" /\ i <= Len(q) /\ OwnedBy(s, c)
      /\ op' = [op EXCEPT ![c] = Doing("rollback", r)]
      /\ \/ in_driver' = in_driver
         \/ stream_state[s] = "BUFFED" /\ in_driver' = [in_driver EXCEPT ![s] = "some"]
      /\ UNCHANGED <<layout, chan_state, slots, stream_state, notify_cb, running, is_bundled,
                     linked_obj, held>>
  BY DEF StartFails, InCall
<1>2. ChanTypes /\ Fits(c)  BY DEF ChanInv
<1>3. UNCHANGED <<OwnStreams(c), LinksStreams(c), ChanStreams, Chans>>
  BY <1>1 DEF OwnStreams, LinksStreams, ChanStreams, Chans
<1>4. ListFits(c)  BY <1>2 DEF Fits
<1>5. /\ q \in Seq(ChanStreams) /\ i \in Nat /\ i \in DOMAIN q /\ s = q[i]
      /\ s \in ChanStreams
  BY <1>1, <1>2, <1>4, CurrentFacts
<1>6. s \in OwnStreams(c)  BY <1>1, <1>2, LayoutFacts
<1>7. /\ \A j, k \in DOMAIN q : q[j] \in OwnStreams(c) /\ q[j] = q[k] => j = k
      /\ \A t \in OwnStreams(c) : \E j \in DOMAIN q : q[j] = t
      /\ \A j, k \in DOMAIN q :
             j <= k /\ q[k] \in OwnStreams(c) => q[j] \in OwnStreams(c)
  BY <1>1, <1>4 DEF ListFits
<1>8. /\ r \in Seq(ChanStreams) /\ Len(r) = i
      /\ DOMAIN r = 1..i /\ \A j \in 1..i : j \in DOMAIN q /\ r[j] = q[j]
  <2>1. \A j \in 1..i : j \in DOMAIN q  BY <1>5
  <2> HIDE DEF q, i
  <2>2. 1 <= i /\ i <= Len(q)  BY <1>1, <1>5
  <2>3. r \in Seq(ChanStreams) /\ Len(r) = i  BY <1>5, <2>2
  <2>4. \A j \in 1..i : r[j] = q[j]  BY <1>5, <2>2
  <2> QED  BY <1>5, <2>1, <2>3, <2>4
<1> HIDE DEF q, i, s, r
<1>9. op'[c].call = "rollback" /\ op'[c].i = 1 /\ op'[c].s_objs = r
      /\ \A d \in Chans \ {c} : op'[d] = op[d]
  BY <1>1, <1>2 DEF ChanTypes, Doing
<1>10. ChanTypes'
  <2>1. Doing("rollback", r) \in [call: ChanCalls, i: Nat, s_objs: Seq(ChanStreams)]
    BY <1>8 DEF Doing, ChanCalls
  <2>2. op' \in [Chans -> [call: ChanCalls, i: Nat, s_objs: Seq(ChanStreams)]]
    BY <1>1, <1>2, <2>1 DEF ChanTypes
  <2>3. in_driver' \in [ChanStreams -> {"no", "yes", "some"}]  BY <1>1, <1>2 DEF ChanTypes
  <2> QED  BY <1>1, <1>2, <1>3, <2>2, <2>3 DEF ChanTypes
<1>11. \A t \in ChanStreams : /\ t # s => in_driver'[t] = in_driver[t]
                              /\ in_driver'[t] = "yes" <=> in_driver[t] = "yes" /\
                                     (t # s \/ in_driver' = in_driver)
  BY <1>1, <1>2, <1>5 DEF ChanTypes
<1>12. Begun(c)' = Begun(c) /\ ~Stops(c)' /\ Begun(c)  BY <1>1, <1>9 DEF Begun, Stops
<1>13. OpFits(c)'  BY <1>1, <1>2, <1>9 DEF OpFits, Fits
<1>14. SlotsFit(c)'  BY <1>1, <1>2, <1>3, <1>12 DEF SlotsFit, Fits
<1>15. \A j \in DOMAIN r : r[j] \in OwnStreams(c)
  BY <1>5, <1>6, <1>7, <1>8
<1>16. ListFits(c)'
  <2>1. \A j, k \in DOMAIN r : r[j] = r[k] => j = k  BY <1>7, <1>8, <1>15
  <2>2. 1 \in 1..Len(r) + 1  BY <1>5, <1>8
  <2> QED  BY <1>3, <1>9, <1>12, <1>15, <2>1, <2>2 DEF ListFits
<1>17. StatesFit(c)'
  <2>1. \A j \in DOMAIN q : q[j] \in OwnStreams(c) =>
            /\ j < i => stream_state[q[j]] = "ACTIVE"
            /\ j = i => stream_state[q[j]] \in {"CFG", "BUFFED", "REG"}
            /\ j > i => stream_state[q[j]] = "CFG"
    BY <1>1, <1>2 DEF Fits, StatesFit, q, i
  <2>2. ASSUME NEW t \in OwnStreams(c)
        PROVE  /\ stream_state[t] \in {"CFG", "BUFFED", "REG", "ACTIVE"}
               /\ stream_state[t] = "CFG" \/ \E j \in DOMAIN r : j >= 1 /\ r[j] = t
    <3>1. PICK j \in DOMAIN q : q[j] = t  BY <1>7
    <3>2. j < i \/ j = i \/ j > i  BY <1>5
    <3>3. CASE j > i
      BY <2>1, <3>1, <3>3
    <3>4. CASE ~(j > i)
      <4>1. j \in 1..i /\ j >= 1  BY <1>5, <3>4
      <4>2. r[j] = t /\ j \in DOMAIN r  BY <1>8, <3>1, <4>1
      <4> QED  BY <2>1, <3>1, <3>2, <3>4, <4>1, <4>2
    <3> QED  BY <3>3, <3>4
  <2>3. \A t \in OwnStreams(c) :
            in_driver'[t] = "yes" <=> stream_state[t] \in {"REG", "ACTIVE"}
    <3>1. \A t \in OwnStreams(c) :
              in_driver[t] = "yes" <=> stream_state[t] \in {"REG", "ACTIVE"}
      BY <1>2 DEF Fits, StatesFit
    <3>2. \A t \in OwnStreams(c) : t \in ChanStreams  BY <1>2, LayoutFacts
    <3> QED  BY <1>1, <1>6, <1>11, <3>1, <3>2
  <2> QED  BY <1>1, <1>3, <1>9, <1>12, <2>2, <2>3 DEF StatesFit
<1>18. ThreadsFit(c)'  BY <1>1, <1>2, <1>3, <1>9 DEF ThreadsFit, Fits
<1>19. LinksFit(c)'
  <2>1. \A t \in ChanStreams : linked_obj[t] # c
    <3> SUFFICES ASSUME NEW t \in ChanStreams, linked_obj[t] = c  PROVE FALSE
      OBVIOUS
    <3>1. t \notin OwnStreams(c) /\ \E j \in DOMAIN q : j < i /\ q[j] = t
      BY <1>1, <1>2 DEF Fits, LinksFit, Stops, q, i
    <3>2. PICK j \in DOMAIN q : j < i /\ q[j] = t  BY <3>1
    <3>3. j <= i  BY <1>5, <3>2
    <3> QED  BY <1>5, <1>6, <1>7, <3>1, <3>2, <3>3
  <2> QED  BY <1>1, <1>3, <1>9, <2>1 DEF LinksFit
<1>20. BorrowFits(c)'  BY <1>1, <1>2, <1>3, <1>9, <1>12 DEF BorrowFits, Fits
<1>21. HeldFits(c)'  BY <1>1, <1>2, <1>3, <1>9 DEF HeldFits, Fits
<1>22. Fits(c)'
  BY <1>13, <1>14, <1>16, <1>17, <1>18, <1>19, <1>20, <1>21 DEF Fits
<1>23. \A d \in Chans \ {c} : ~(LinksStreams(d) /\ Begun(d))  BY <1>1, NobodyBorrows
<1>24. \A t \in ChanStreams \ OwnStreams(c) : in_driver'[t] = in_driver[t]
  BY <1>6, <1>11
<1> QED  BY <1>1, <1>9, <1>10, <1>22, <1>23, <1>24, OthersFit

\* The step in which a start succeeds.
LEMMA ChanStartedFits ==
    ASSUME ChanInv, NEW c \in Chans, ChanStarted(c)
    PROVE  ChanInv'
<1> DEFINE q == op[c].s_objs
           i == op[c].i
<1>1. /\ op[c].call = "start" /\ i > Len(q)
      /\ chan_state' = [chan_state EXCEPT ![c] = "ACTIVE"]
      /\ op' = [op EXCEPT ![c] = AtRest]
      /\ UNCHANGED <<layout, slots, stream_state, in_driver, notify_cb, running, is_bundled,
                     linked_obj, held>>
  BY DEF ChanStarted, Finished
<1>2. ChanTypes /\ Fits(c)  BY DEF ChanInv
<1>3. UNCHANGED <<OwnStreams(c), LinksStreams(c), ChanStreams, Chans>>
  BY <1>1 DEF OwnStreams, LinksStreams, ChanStreams, Chans
<1>4. /\ q \in Seq(ChanStreams) /\ i \in Nat /\ DOMAIN q = 1..Len(q)
      /\ \A j \in DOMAIN q : j < i
  <2>1. op[c] \in [call: ChanCalls, i: Nat, s_objs: Seq(ChanStreams)]  BY <1>2 DEF ChanTypes
  <2> QED  BY <1>1, <2>1
<1>5. /\ \A t \in OwnStreams(c) : \E j \in DOMAIN q : q[j] = t
      /\ \A t \in ToSet(slots[c]) : \E j \in DOMAIN q : q[j] = t
      /\ \A j \in DOMAIN q : q[j] \in ToSet(slots[c])
  BY <1>1, <1>2 DEF ListFits, Fits
<1>6. chan_state[c] = "STOPPED" /\ Begun(c)  BY <1>1, <1>2 DEF OpFits, Fits, Begun
<1>7. /\ \A t \in OwnStreams(c) : stream_state[t] = "ACTIVE"
      /\ \A t \in ChanStreams : linked_obj[t] = c =>
             t \notin OwnStreams(c) /\ LinksStreams(c) /\ t \in ToSet(slots[c])
      /\ \A t \in ToSet(slots[c]) \ OwnStreams(c) : linked_obj[t] = c
  <2>1. \A j \in DOMAIN q : q[j] \in OwnStreams(c) => stream_state[q[j]] = "ACTIVE"
    BY <1>1, <1>2, <1>4 DEF StatesFit, Fits, q, i
  <2>2. \A t \in ChanStreams : linked_obj[t] = c =>
            t \notin OwnStreams(c) /\ LinksStreams(c) /\ \E j \in DOMAIN q : q[j] = t
    BY <1>1, <1>2 DEF LinksFit, Stops, Fits
  <2>3. \A j \in DOMAIN q : q[j] \notin OwnStreams(c) => linked_obj[q[j]] = c
    BY <1>1, <1>2, <1>4 DEF LinksFit, Fits
  <2> QED  BY <1>5, <2>1, <2>2, <2>3
<1> HIDE DEF q, i
<1>8. chan_state'[c] = "ACTIVE" /\ op'[c] = AtRest /\ op'[c].call = "none"
      /\ \A d \in Chans \ {c} : chan_state'[d] = chan_state[d] /\ op'[d] = op[d]
  BY <1>1, <1>2 DEF ChanTypes, AtRest
<1>9. ChanTypes'
  <2>1. AtRest \in [call: ChanCalls, i: Nat, s_objs: Seq(ChanStreams)]
    <3>1. << >> \in Seq(ChanStreams)  OBVIOUS
    <3> QED  BY <3>1 DEF AtRest, ChanCalls
  <2>2. op' \in [Chans -> [call: ChanCalls, i: Nat, s_objs: Seq(ChanStreams)]]
    BY <1>1, <1>2, <2>1 DEF ChanTypes
  <2> QED  BY <1>1, <1>2, <1>3, <2>2 DEF ChanTypes
<1>10. Begun(c)' /\ ~Stops(c)'  BY <1>8 DEF Begun, Stops
<1>11. OpFits(c)'  BY <1>8 DEF OpFits
<1>12. SlotsFit(c)'  BY <1>1, <1>2, <1>3, <1>6, <1>8 DEF SlotsFit, Fits
<1>13. ListFits(c)'  BY <1>8, <1>10 DEF ListFits
<1>14. StatesFit(c)'
  <2>1. \A t \in OwnStreams(c) : in_driver[t] = "yes" <=> stream_state[t] \in {"REG", "ACTIVE"}
    BY <1>2 DEF Fits, StatesFit
  <2> QED  BY <1>1, <1>3, <1>7, <1>8, <1>10, <2>1 DEF StatesFit
<1>15. ThreadsFit(c)'  BY <1>1, <1>2, <1>3, <1>6, <1>8 DEF ThreadsFit, Fits
<1>16. LinksFit(c)'  BY <1>1, <1>3, <1>7, <1>8, <1>10 DEF LinksFit
<1>17. BorrowFits(c)'  BY <1>1, <1>2, <1>3, <1>6, <1>8 DEF BorrowFits, Fits
<1>18. HeldFits(c)'
  <2>1. Forgotten(c)' = Forgotten(c)  BY <1>1, <1>6, <1>8 DEF Forgotten
  <2>2. HeldFits(c)  BY <1>2 DEF Fits
  <2> QED  BY <1>1, <1>3, <1>6, <1>8, <2>1, <2>2 DEF HeldFits
<1>19. Fits(c)'
  BY <1>11, <1>12, <1>13, <1>14, <1>15, <1>16, <1>17, <1>18 DEF Fits
<1>20. \A d \in Chans \ {c} : ~(LinksStreams(d) /\ Begun(d))  BY <1>6, NobodyBorrows
<1> QED  BY <1>1, <1>8, <1>9, <1>19, <1>20, OthersFit

\* What taking an own stream back changes.
LEMMA UndoFacts ==
    ASSUME ChanTypes, NEW c \in Chans, NEW state \in StreamStates, Undo(c, state),
           Current(c) \in ChanStreams
    PROVE  /\ UNCHANGED <<layout, chan_state, slots, notify_cb, running, is_bundled,
                          linked_obj, held>>
           /\ Advance(c) /\ ChanTypes'
           /\ stream_state'[Current(c)] = state
           /\ in_driver'[Current(c)] = Unregistered(Current(c))
           /\ \A t \in ChanStreams \ {Current(c)} :
                  stream_state'[t] = stream_state[t] /\ in_driver'[t] = in_driver[t]
<1>1. /\ stream_state' = [stream_state EXCEPT ![Current(c)] = state]
      /\ in_driver' = [in_driver EXCEPT ![Current(c)] = Unregistered(Current(c))]
      /\ Advance(c)
      /\ UNCHANGED <<layout, chan_state, slots, notify_cb, running, is_bundled, linked_obj,
                     held>>
  BY DEF Undo
<1>2. UNCHANGED <<ChanStreams, Chans>>  BY <1>1 DEF ChanStreams, Chans
<1>3. op' \in [Chans -> [call: ChanCalls, i: Nat, s_objs: Seq(ChanStreams)]]
  BY <1>1, AdvanceFacts
<1>4. stream_state' \in [ChanStreams -> StreamStates]  BY <1>1 DEF ChanTypes
<1>5. Unregistered(Current(c)) \in {"no", "yes", "some"}  BY DEF ChanTypes, Unregistered
<1>6. in_driver' \in [ChanStreams -> {"no", "yes", "some"}]  BY <1>1, <1>5 DEF ChanTypes
<1>7. ChanTypes'  BY <1>1, <1>2, <1>3, <1>4, <1>6 DEF ChanTypes
<1>8. /\ stream_state'[Current(c)] = state
      /\ in_driver'[Current(c)] = Unregistered(Current(c))
      /\ \A t \in ChanStreams \ {Current(c)} :
             stream_state'[t] = stream_state[t] /\ in_driver'[t] = in_driver[t]
  BY <1>1 DEF ChanTypes
<1> QED  BY <1>1, <1>7, <1>8

\* The steps in which a start is undone.
LEMMA RollBackFits ==
    ASSUME ChanInv, NEW c \in Chans, RollBack(c)
    PROVE  ChanInv'
<1> DEFINE q == op[c].s_objs
           i == op[c].i
           s == Current(c)
           new == After(After(Stopped(s), "UNREG_BUF"), "PUT_BUF")
<1>1. op[c].call = "rollback" /\ i <= Len(q) /\ OwnedBy(s, c) /\ Undo(c, new)
  BY DEF RollBack, InCall
<1>2. ChanTypes /\ Fits(c)  BY DEF ChanInv
<1>3. ListFits(c)  BY <1>2 DEF Fits
<1>4. /\ q \in Seq(ChanStreams) /\ i \in Nat /\ i \in DOMAIN q /\ s = q[i]
      /\ s \in ChanStreams /\ i + 1 \in 1..Len(q) + 1
      /\ \A j \in DOMAIN q : j >= i <=> j >= i + 1 \/ j = i
  BY <1>1, <1>2, <1>3, CurrentFacts
<1>5. s \in OwnStreams(c)  BY <1>1, <1>2, LayoutFacts
<1>6. stream_state[s] \in {"CFG", "BUFFED", "REG", "ACTIVE"}
      /\ (in_driver[s] = "yes" <=> stream_state[s] \in {"REG", "ACTIVE"})
  BY <1>1, <1>2, <1>5 DEF StatesFit, Fits
<1>7. new = "CFG" /\ Unregistered(s) # "yes"
  BY <1>6 DEF After, Stopped, Unregistered, Handles, LeadsTo
<1> HIDE DEF new
<1>8. /\ UNCHANGED <<layout, chan_state, slots, notify_cb, running, is_bundled,
                     linked_obj, held>>
      /\ Advance(c) /\ ChanTypes' /\ stream_state'[s] = "CFG" /\ in_driver'[s] # "yes"
      /\ \A t \in ChanStreams \ {s} :
             stream_state'[t] = stream_state[t] /\ in_driver'[t] = in_driver[t]
  <2>1. new \in StreamStates  BY <1>7 DEF StreamStates
  <2> QED  BY <1>1, <1>2, <1>4, <1>7, <2>1, UndoFacts
<1>9. /\ op'[c].call = "rollback" /\ op'[c].i = i + 1 /\ op'[c].s_objs = q
      /\ \A d \in Chans \ {c} : op'[d] = op[d]
  BY <1>1, <1>2, <1>8, AdvanceFacts
<1>10. UNCHANGED <<OwnStreams(c), LinksStreams(c), ChanStreams, Chans>>
  BY <1>8 DEF OwnStreams, LinksStreams, ChanStreams, Chans
<1> HIDE DEF q, i, s
<1>11. Begun(c)' = Begun(c) /\ ~Stops(c)' /\ Begun(c)  BY <1>1, <1>9 DEF Begun, Stops
<1>12. OpFits(c)'  BY <1>1, <1>2, <1>8, <1>9 DEF OpFits, Fits
<1>13. SlotsFit(c)'  BY <1>2, <1>8, <1>10, <1>11 DEF SlotsFit, Fits
<1>14. ListFits(c)'  BY <1>1, <1>3, <1>4, <1>9, <1>10, <1>11 DEF ListFits, q
<1>15. StatesFit(c)'
  <2>1. \A t \in OwnStreams(c) : t \in ChanStreams  BY <1>2, LayoutFacts
  <2>2. \A t \in OwnStreams(c) :
            /\ stream_state[t] \in {"CFG", "BUFFED", "REG", "ACTIVE"}
            /\ stream_state[t] = "CFG" \/ \E j \in DOMAIN q : j >= i /\ q[j] = t
    BY <1>1, <1>2 DEF StatesFit, Fits, q, i
  <2>3. \A t \in OwnStreams(c) :
            /\ stream_state'[t] \in {"CFG", "BUFFED", "REG", "ACTIVE"}
            /\ stream_state'[t] = "CFG" \/ \E j \in DOMAIN q : j >= i + 1 /\ q[j] = t
    <3> SUFFICES ASSUME NEW t \in OwnStreams(c), t # s
                 PROVE  /\ stream_state'[t] \in {"CFG", "BUFFED", "REG", "ACTIVE"}
                        /\ \/ stream_state'[t] = "CFG"
                           \/ \E j \in DOMAIN q : j >= i + 1 /\ q[j] = t
      BY <1>8
    <3>1. stream_state'[t] = stream_state[t]  BY <1>8, <2>1
    <3> QED  BY <1>4, <2>2, <3>1
  <2>4. \A t \in OwnStreams(c) :
            in_driver'[t] = "yes" <=> stream_state'[t] \in {"REG", "ACTIVE"}
    <3>1. \A t \in OwnStreams(c) :
              in_driver[t] = "yes" <=> stream_state[t] \in {"REG", "ACTIVE"}
      BY <1>2 DEF Fits, StatesFit
    <3> QED  BY <1>8, <2>1, <3>1
  <2> QED  BY <1>9, <1>10, <1>11, <2>3, <2>4 DEF StatesFit
<1>16. ThreadsFit(c)'  BY <1>1, <1>2, <1>8, <1>9, <1>10 DEF ThreadsFit, Fits
<1>17. LinksFit(c)'
  <2>1. \A t \in ChanStreams : linked_obj[t] # c  BY <1>1, <1>2 DEF LinksFit, Stops, Fits
  <2> QED  BY <1>8, <1>9, <1>10, <2>1 DEF LinksFit
<1>18. BorrowFits(c)'  BY <1>2, <1>8, <1>9, <1>10, <1>11 DEF BorrowFits, Fits
<1>19. HeldFits(c)'  BY <1>2, <1>8, <1>9, <1>10 DEF HeldFits, Fits
<1>20. Fits(c)'
  BY <1>12, <1>13, <1>14, <1>15, <1>16, <1>17, <1>18, <1>19 DEF Fits
<1>21. \A d \in Chans \ {c} : ~(LinksStreams(d) /\ Begun(d))  BY <1>1, NobodyBorrows
<1>22. \A t \in ChanStreams \ OwnStreams(c) :
           stream_state'[t] = stream_state[t] /\ in_driver'[t] = in_driver[t]
  BY <1>5, <1>8
<1> QED  BY <1>8, <1>9, <1>20, <1>21, <1>22, OthersFit

LEMMA RolledBackFits ==
    ASSUME ChanInv, NEW c \in Chans, RolledBack(c)
    PROVE  ChanInv'
<1> DEFINE q == op[c].s_objs
           i == op[c].i
<1>1. /\ op[c].call = "rollback" /\ i > Len(q)
      /\ running' = [running EXCEPT ![c] = FALSE]
      /\ notify_cb' = [notify_cb EXCEPT ![c] = FALSE]
      /\ held' = [held EXCEPT ![c] = IF running[c] THEN {} ELSE @]
      /\ op' = [op EXCEPT ![c] =
                    IF LinksStreams(c) THEN AtRest ELSE [AtRest EXCEPT !.call = "failed"]]
      /\ UNCHANGED <<layout, chan_state, slots, stream_state, in_driver, is_bundled,
                     linked_obj>>
  BY DEF RolledBack, Finished
<1>2. ChanTypes /\ Fits(c)  BY DEF ChanInv
<1>3. UNCHANGED <<OwnStreams(c), LinksStreams(c), ChanStreams, Chans>>
  BY <1>1 DEF OwnStreams, LinksStreams, ChanStreams, Chans
<1>4. \A j \in DOMAIN q : ~(j >= i)
  <2>1. op[c] \in [call: ChanCalls, i: Nat, s_objs: Seq(ChanStreams)]  BY <1>2 DEF ChanTypes
  <2> QED  BY <1>1, <2>1
<1>5. chan_state[c] = "STOPPED" /\ Begun(c)  BY <1>1, <1>2 DEF OpFits, Fits, Begun
<1>6. \A t \in OwnStreams(c) : stream_state[t] = "CFG" /\ in_driver[t] # "yes"
  <2>1. \A t \in OwnStreams(c) : stream_state[t] = "CFG"
    BY <1>1, <1>2, <1>4 DEF StatesFit, Fits
  <2> QED  BY <1>2, <2>1 DEF StatesFit, Fits
<1>7. \A t \in OwnStreams(c) : t \in ToSet(slots[c])
  <2>1. SlotsFit(c) /\ Len(slots[c]) >= Len(layout[c].streams)
    BY <1>2, <1>5 DEF SlotsFit, Fits
  <2>2. \A t \in OwnStreams(c) : \E j \in DOMAIN slots[c] : slots[c][j] = t
    BY <1>2, <2>1, OwnSlots
  <2> QED  BY <2>2 DEF ToSet
<1>8. \A t \in ChanStreams : linked_obj[t] # c  BY <1>1, <1>2 DEF LinksFit, Stops, Fits
<1> HIDE DEF q, i
<1> DEFINE rest == IF LinksStreams(c) THEN AtRest ELSE [AtRest EXCEPT !.call = "failed"]
<1>9. /\ rest \in [call: ChanCalls, i: Nat, s_objs: Seq(ChanStreams)]
      /\ rest.call \in {"none", "failed"}
  <2>1. << >> \in Seq(ChanStreams)  OBVIOUS
  <2>2. /\ AtRest \in [call: ChanCalls, i: Nat, s_objs: Seq(ChanStreams)]
        /\ AtRest.call = "none"
    BY <2>1 DEF AtRest, ChanCalls
  <2>3. /\ [AtRest EXCEPT !.call = "failed"]
                \in [call: ChanCalls, i: Nat, s_objs: Seq(ChanStreams)]
        /\ [AtRest EXCEPT !.call = "failed"].call = "failed"
    BY <2>2 DEF ChanCalls
  <2> QED  BY <2>2, <2>3
<1>10. op' = [op EXCEPT ![c] = rest]  BY <1>1
<1> HIDE DEF rest
<1>11. /\ op'[c].call \in {"none", "failed"} /\ running'[c] = FALSE /\ notify_cb'[c] = FALSE
       /\ held'[c] = IF running[c] THEN {} ELSE held[c]
       /\ \A d \in Chans \ {c} : /\ op'[d] = op[d] /\ running'[d] = running[d]
                                 /\ notify_cb'[d] = notify_cb[d] /\ held'[d] = held[d]
  BY <1>1, <1>2, <1>9, <1>10 DEF ChanTypes
<1>12. ChanTypes'
  <2>1. op' \in [Chans -> [call: ChanCalls, i: Nat, s_objs: Seq(ChanStreams)]]
    BY <1>2, <1>9, <1>10 DEF ChanTypes
  <2>2. running' \in [Chans -> BOOLEAN]  BY <1>1, <1>2 DEF ChanTypes
  <2>3. notify_cb' \in [Chans -> BOOLEAN]  BY <1>1, <1>2 DEF ChanTypes
  <2>4. held' \in [Chans -> SUBSET ChanStreams]  BY <1>1, <1>2 DEF ChanTypes
  <2> QED  BY <1>1, <1>2, <1>3, <2>1, <2>2, <2>3, <2>4 DEF ChanTypes
<1>13. ~Begun(c)' /\ ~Stops(c)'  BY <1>1, <1>5, <1>11 DEF Begun, Stops
<1>14. OpFits(c)'  BY <1>1, <1>5, <1>11 DEF OpFits
<1>15. SlotsFit(c)'  BY <1>1, <1>2, <1>3, <1>13 DEF SlotsFit, Fits
<1>16. ListFits(c)'  BY <1>11, <1>13 DEF ListFits
<1>17. StatesFit(c)'  BY <1>1, <1>3, <1>5, <1>6, <1>7, <1>11, <1>13 DEF StatesFit
<1>18. ThreadsFit(c)'
  <2>1. \A t \in OwnStreams(c) : is_bundled[t] => layout[c].cb
    BY <1>2 DEF ThreadsFit, Fits
  <2> QED  BY <1>1, <1>3, <1>5, <1>11, <2>1 DEF ThreadsFit
<1>19. LinksFit(c)'  BY <1>1, <1>3, <1>5, <1>8, <1>11 DEF LinksFit
<1>20. BorrowFits(c)'  BY <1>13 DEF BorrowFits
<1>21. HeldFits(c)'
  <2>1. /\ \A t \in held[c] : t \in OwnStreams(c) \/ LinksStreams(c)
        /\ ~layout[c].cb => held[c] = {}
    BY <1>2 DEF HeldFits, Fits
  <2>2. ~Forgotten(c)' => ~layout[c].cb  BY <1>1, <1>5, <1>11 DEF Forgotten
  <2>3. held'[c] \subseteq held[c]  BY <1>11
  <2> QED  BY <1>1, <1>3, <1>5, <2>1, <2>2, <2>3 DEF HeldFits
<1>22. Fits(c)'
  BY <1>14, <1>15, <1>16, <1>17, <1>18, <1>19, <1>20, <1>21 DEF Fits
<1>23. \A d \in Chans \ {c} : ~(LinksStreams(d) /\ Begun(d))  BY <1>5, NobodyBorrows
<1> QED  BY <1>1, <1>11, <1>12, <1>22, <1>23, OthersFit

\* The steps in which a channel is stopped.
LEMMA StopFits ==
    ASSUME ChanInv, NEW c \in Chans, mm_channel_stop(c)
    PROVE  ChanInv'
<1> DEFINE q == ToStop(c)
<1>1. /\ chan_state[c] = "ACTIVE" /\ op[c].call = "none" /\ NotBorrowed(c)
      /\ op' = [op EXCEPT ![c] = Doing("stop", q)]
      /\ UNCHANGED <<layout, chan_state, slots, stream_state, in_driver, notify_cb, running,
                     is_bundled, linked_obj, held>>
  BY DEF mm_channel_stop, Idle
<1>2. ChanTypes /\ Fits(c)  BY DEF ChanInv
<1>3. UNCHANGED <<OwnStreams(c), LinksStreams(c), ChanStreams, Chans>>
  BY <1>1 DEF OwnStreams, LinksStreams, ChanStreams, Chans
<1>4. Begun(c) /\ SlotsFit(c)  BY <1>1, <1>2 DEF Begun, Fits
<1>5. Len(slots[c]) >= Len(layout[c].streams)  BY <1>4 DEF SlotsFit
<1>6. /\ q \in Seq(ChanStreams)
      /\ \A j, k \in DOMAIN q : q[j] \in OwnStreams(c) /\ q[j] = q[k] => j = k
      /\ \A s \in OwnStreams(c) : \E j \in DOMAIN q : q[j] = s
      /\ \A s \in ToSet(slots[c]) : \E j \in DOMAIN q : q[j] = s
      /\ "metadata" \in OwnStreams(c) => q[Len(q)] = "metadata"
  <2>1. q \in {ToStart(c), ToStop(c)} /\ q = ToStop(c)  OBVIOUS
  <2>2. ChanTypes /\ SlotsFit(c)  BY <1>2, <1>4
  <2> HIDE DEF q
  <2>3. /\ q \in Seq(ChanStreams)
        /\ \A j, k \in DOMAIN q : q[j] \in OwnStreams(c) /\ q[j] = q[k] => j = k
        /\ \A s \in OwnStreams(c) : \E j \in DOMAIN q : q[j] = s
        /\ \A s \in ToSet(slots[c]) : \E j \in DOMAIN q : q[j] = s
    BY <1>5, <2>1, <2>2, OrderFacts
  <2>4. "metadata" \in OwnStreams(c) => q[Len(q)] = "metadata"
    BY <1>5, <2>1, <2>2, OrderFacts
  <2> QED  BY <2>3, <2>4
<1> HIDE DEF q
<1>7. Len(q) \in Nat /\ DOMAIN q = 1..Len(q) /\ \A j \in DOMAIN q : ~(j < 1) /\ j >= 1
  BY <1>6
<1>8. op'[c].call = "stop" /\ op'[c].i = 1 /\ op'[c].s_objs = q
      /\ \A d \in Chans \ {c} : op'[d] = op[d]
  BY <1>1, <1>2 DEF ChanTypes, Doing
<1>9. ChanTypes'
  <2>1. Doing("stop", q) \in [call: ChanCalls, i: Nat, s_objs: Seq(ChanStreams)]
    BY <1>6 DEF Doing, ChanCalls
  <2>2. op' \in [Chans -> [call: ChanCalls, i: Nat, s_objs: Seq(ChanStreams)]]
    BY <1>1, <1>2, <2>1 DEF ChanTypes
  <2> QED  BY <1>1, <1>2, <1>3, <2>2 DEF ChanTypes
<1>10. Begun(c)' /\ Stops(c)'  BY <1>8 DEF Begun, Stops
<1>11. OpFits(c)'  BY <1>1, <1>8 DEF OpFits
<1>12. SlotsFit(c)'  BY <1>1, <1>3, <1>4, <1>5 DEF SlotsFit
<1>13. ListFits(c)'  BY <1>1, <1>3, <1>6, <1>7, <1>8, <1>10 DEF ListFits
<1>14. StatesFit(c)'
  <2>1. \A s \in OwnStreams(c) : stream_state[s] = "ACTIVE"
    BY <1>1, <1>2 DEF Fits, StatesFit
  <2>2. \A s \in OwnStreams(c) : in_driver[s] = "yes" <=> stream_state[s] \in {"REG", "ACTIVE"}
    BY <1>2 DEF Fits, StatesFit
  <2> QED  BY <1>1, <1>3, <1>7, <1>8, <1>10, <2>1, <2>2 DEF StatesFit
<1>15. ThreadsFit(c)'  BY <1>1, <1>2, <1>3, <1>8 DEF ThreadsFit, Fits
<1>16. LinksFit(c)'
  <2>1. \A s \in ChanStreams : linked_obj[s] = c =>
            s \notin OwnStreams(c) /\ LinksStreams(c) /\ s \in ToSet(slots[c])
    BY <1>1, <1>2 DEF LinksFit, Stops, Fits
  <2> QED  BY <1>1, <1>3, <1>6, <1>7, <1>8, <1>10, <2>1 DEF LinksFit
<1>17. BorrowFits(c)'  BY <1>1, <1>2, <1>3, <1>4, <1>8 DEF BorrowFits, Fits
<1>18. HeldFits(c)'
  <2>1. Forgotten(c)' = Forgotten(c)  BY <1>1 DEF Forgotten
  <2> QED  BY <1>1, <1>2, <1>3, <2>1 DEF HeldFits, Fits
<1>19. Fits(c)'
  BY <1>11, <1>12, <1>13, <1>14, <1>15, <1>16, <1>17, <1>18 DEF Fits
<1>20. \A d \in Chans \ {c} : ~(LinksStreams(d) /\ Begun(d))  BY <1>1, NobodyBorrows
<1> QED  BY <1>1, <1>8, <1>9, <1>19, <1>20, OthersFit

\* Emptying the copy of a stream takes one place with that stream out of the array.
LEMMA RemoveFirstFacts ==
    ASSUME NEW S, NEW q \in Seq(S), NEW e, NEW j \in DOMAIN q, q[j] = e
    PROVE  \E k \in DOMAIN q : q[k] = e /\ RemoveFirst(q, e) = RemoveAt(q, k)
<1> DEFINE I == {i \in 1..Len(q) : q[i] = e}
<1>1. Len(q) \in Nat /\ DOMAIN q = 1..Len(q)  OBVIOUS
<1>2. j \in I  BY <1>1
<1>3. PICK k \in I : \A i \in I : k <= i
  <2>1. I \subseteq Nat /\ I # {}  BY <1>1, <1>2
  <2> HIDE DEF I
  <2>2. \A x, y \in Nat : ~(<<y, x>> \in OpToRel(<, Nat)) => x <= y  BY DEF OpToRel
  <2>3. PICK k \in I : \A i \in I : ~(<<i, k>> \in OpToRel(<, Nat))
    BY <2>1, NatLessThanWellFounded, WFMin
  <2> QED  BY <2>1, <2>2, <2>3
<1>4. SelectInSeq(q, LAMBDA v : v = e) = CHOOSE x \in I : \A y \in I : x <= y
  BY <1>2 DEF SelectInSeq, Min
<1>5. SelectInSeq(q, LAMBDA v : v = e) \in I  BY <1>3, <1>4
<1>6. RemoveFirst(q, e) = RemoveAt(q, SelectInSeq(q, LAMBDA v : v = e))
  BY <1>2 DEF RemoveFirst
<1> QED  BY <1>1, <1>5, <1>6

\* What a list is without one of its places.
LEMMA RemoveAtFacts ==
    ASSUME NEW S, NEW q \in Seq(S), NEW k \in DOMAIN q
    PROVE  /\ RemoveAt(q, k) \in Seq(S) /\ Len(RemoveAt(q, k)) = Len(q) - 1
           /\ \A i \in DOMAIN RemoveAt(q, k) :
                  RemoveAt(q, k)[i] = q[IF i < k THEN i ELSE i + 1]
<1> DEFINE a == SubSeq(q, 1, k - 1)
           b == SubSeq(q, k + 1, Len(q))
           r == RemoveAt(q, k)
<1>1. r = a \o b  BY DEF RemoveAt
<1>2. Len(q) \in Nat /\ k \in 1..Len(q)  OBVIOUS
<1>3. a \in Seq(S) /\ Len(a) = k - 1 /\ \A i \in 1..k - 1 : a[i] = q[i]
  BY <1>2
<1>4. b \in Seq(S) /\ Len(b) = Len(q) - k /\ \A i \in 1..Len(q) - k : b[i] = q[i + k]
  BY <1>2
<1> HIDE DEF a, b, r
<1>5. r \in Seq(S) /\ Len(r) = Len(q) - 1  BY <1>1, <1>2, <1>3, <1>4
<1>6. ASSUME NEW i \in DOMAIN r
      PROVE  r[i] = q[IF i < k THEN i ELSE i + 1]
  <2>1. i \in 1..Len(q) - 1  BY <1>5
  <2>2. CASE i < k
    <3>1. i \in 1..k - 1  BY <1>2, <2>1, <2>2
    <3>2. r[i] = a[i]  BY <1>1, <1>3, <1>4, <3>1
    <3> QED  BY <1>3, <2>2, <3>1, <3>2
  <2>3. CASE ~(i < k)
    <3>1. i - (k - 1) \in 1..Len(q) - k /\ (i - (k - 1)) + k = i + 1
      BY <1>2, <2>1, <2>3
    <3>2. r[i] = b[i - (k - 1)]  BY <1>1, <1>2, <1>3, <1>4, <2>1, <2>3
    <3>3. b[i - (k - 1)] = q[(i - (k - 1)) + k]  BY <1>4, <3>1
    <3> QED  BY <2>3, <3>1, <3>2, <3>3
  <2> QED  BY <2>2, <2>3
<1> QED  BY <1>5, <1>6 DEF r

\* Own streams keep their places when a copy of a linked one is emptied.
LEMMA SlotsStayFit ==
    ASSUME ChanTypes, NEW c \in Chans, SlotsFit(c),
           Len(slots[c]) >= Len(layout[c].streams), NEW s, s \notin OwnStreams(c),
           NEW r, r = RemoveFirst(slots[c], s)
    PROVE  /\ r \in Seq(ChanStreams) /\ Len(r) >= Len(layout[c].streams)
           /\ \A i \in DOMAIN r : IF i <= Len(layout[c].streams)
                                  THEN r[i] = layout[c].streams[i]
                                  ELSE r[i] \notin OwnStreams(c) /\ LinksStreams(c)
<1> DEFINE q == slots[c]
           own == layout[c].streams
<1>1. q \in Seq(ChanStreams) /\ own \in Seq(ChanStreams)  BY LayoutFacts DEF ChanTypes
<1>2. \A i \in DOMAIN q : IF i <= Len(own) THEN q[i] = own[i]
                          ELSE q[i] \notin OwnStreams(c) /\ LinksStreams(c)
  BY DEF SlotsFit
<1>3. \A i \in DOMAIN q : q[i] \in OwnStreams(c) <=> i <= Len(own)  BY OwnSlots
<1>4. Len(q) >= Len(own) /\ r = RemoveFirst(q, s)  OBVIOUS
<1> HIDE DEF q, own
<1>5. DOMAIN q = 1..Len(q) /\ Len(q) \in Nat /\ Len(own) \in Nat  BY <1>1
<1>6. CASE \E j \in DOMAIN q : q[j] = s
  <2>1. PICK j \in DOMAIN q : q[j] = s  BY <1>6
  <2>2. PICK k \in DOMAIN q : q[k] = s /\ r = RemoveAt(q, k)
    BY <1>1, <1>4, <2>1, RemoveFirstFacts
  <2>3. ~(k <= Len(own))  BY <1>3, <2>2
  <2>4. /\ r \in Seq(ChanStreams) /\ Len(r) = Len(q) - 1
        /\ \A i \in DOMAIN r : r[i] = q[IF i < k THEN i ELSE i + 1]
    BY <1>1, <2>2, RemoveAtFacts
  <2>5. DOMAIN r = 1..Len(q) - 1  BY <2>4
  <2>6. ASSUME NEW i \in DOMAIN r
        PROVE  IF i <= Len(own) THEN r[i] = own[i]
               ELSE r[i] \notin OwnStreams(c) /\ LinksStreams(c)
    <3>1. i \in DOMAIN q /\ i + 1 \in DOMAIN q  BY <1>5, <2>5
    <3>2. i <= Len(own) => i < k  BY <1>5, <2>3, <2>5
    <3>3. ~(i <= Len(own)) => ~(i + 1 <= Len(own))  BY <1>5, <2>5
    <3> QED  BY <1>2, <2>4, <3>1, <3>2, <3>3
  <2>7. Len(r) >= Len(own)  BY <1>5, <2>2, <2>3, <2>4
  <2> QED  BY <2>4, <2>6, <2>7 DEF own
<1>7. CASE ~\E j \in DOMAIN q : q[j] = s
  <2>1. ~\E j \in 1..Len(q) : q[j] = s  BY <1>5, <1>7
  <2>2. r = q  BY <1>4, <2>1 DEF RemoveFirst
  <2> QED  BY <1>1, <1>2, <1>4, <2>2 DEF own
<1> QED  BY <1>6, <1>7

LEMMA StopLinkedFits ==
    ASSUME ChanInv, NEW c \in Chans, StopLinked(c)
    PROVE  ChanInv'
<1> DEFINE q == op[c].s_objs
           i == op[c].i
           s == Current(c)
           r == RemoveFirst(slots[c], s)
<1>1. /\ op[c].call = "stop" /\ i <= Len(q) /\ ~OwnedBy(s, c)
      /\ linked_obj' = [linked_obj EXCEPT ![s] = "none"]
      /\ slots' = [slots EXCEPT ![c] = r]
      /\ Advance(c)
      /\ UNCHANGED <<layout, chan_state, stream_state, in_driver, notify_cb, running,
                     is_bundled, held>>
  BY DEF StopLinked, InCall, UnlinkCurrent
<1>2. ChanTypes /\ Fits(c)  BY DEF ChanInv
<1>3. UNCHANGED <<OwnStreams(c), LinksStreams(c), ChanStreams, Chans>>
  BY <1>1 DEF OwnStreams, LinksStreams, ChanStreams, Chans
<1>4. ListFits(c) /\ SlotsFit(c)  BY <1>2 DEF Fits
<1>5. /\ q \in Seq(ChanStreams) /\ i \in Nat /\ i \in DOMAIN q /\ s = q[i]
      /\ s \in ChanStreams /\ i + 1 \in 1..Len(q) + 1
      /\ \A j \in DOMAIN q : j < i + 1 <=> j < i \/ j = i
      /\ \A j \in DOMAIN q : j >= i <=> j >= i + 1 \/ j = i
  BY <1>1, <1>2, <1>4, CurrentFacts
<1>6. s \notin OwnStreams(c)  BY <1>1, <1>2, LayoutFacts
<1>7. /\ op' \in [Chans -> [call: ChanCalls, i: Nat, s_objs: Seq(ChanStreams)]]
      /\ op'[c].call = "stop" /\ op'[c].i = i + 1 /\ op'[c].s_objs = q
      /\ \A d \in Chans \ {c} : op'[d] = op[d]
  BY <1>1, <1>2, AdvanceFacts
<1>8. chan_state[c] = "ACTIVE" /\ Begun(c)  BY <1>1, <1>2 DEF OpFits, Fits, Begun
<1>9. /\ r \in Seq(ChanStreams) /\ Len(r) >= Len(layout[c].streams)
      /\ \A k \in DOMAIN r : IF k <= Len(layout[c].streams)
                             THEN r[k] = layout[c].streams[k]
                             ELSE r[k] \notin OwnStreams(c) /\ LinksStreams(c)
  <2>1. Len(slots[c]) >= Len(layout[c].streams)  BY <1>4, <1>8 DEF SlotsFit
  <2>2. r = RemoveFirst(slots[c], s)  OBVIOUS
  <2> HIDE DEF r, s
  <2> QED  BY <1>2, <1>4, <1>6, <2>1, <2>2, SlotsStayFit
<1> HIDE DEF q, i, s, r
<1>10. /\ linked_obj'[s] = "none"
       /\ \A t \in ChanStreams \ {s} : linked_obj'[t] = linked_obj[t]
       /\ slots'[c] = r /\ \A d \in Chans \ {c} : slots'[d] = slots[d]
  BY <1>1, <1>2, <1>5 DEF ChanTypes
<1>11. ChanTypes'
  <2>1. linked_obj' \in [ChanStreams -> Chans \cup {"none"}]  BY <1>1, <1>2 DEF ChanTypes
  <2>2. slots' \in [Chans -> Seq(ChanStreams)]  BY <1>1, <1>2, <1>9 DEF ChanTypes
  <2> QED  BY <1>1, <1>2, <1>3, <1>7, <2>1, <2>2 DEF ChanTypes
<1>12. Begun(c)' /\ Stops(c)' /\ Stops(c)  BY <1>1, <1>7 DEF Begun, Stops
<1>13. OpFits(c)'  BY <1>1, <1>7, <1>8 DEF OpFits
<1>14. SlotsFit(c)'  BY <1>1, <1>3, <1>8, <1>9, <1>10 DEF SlotsFit
<1>15. ListFits(c)'  BY <1>1, <1>3, <1>4, <1>5, <1>7, <1>12 DEF ListFits, q
<1>16. StatesFit(c)'
  <2>1. \A j \in DOMAIN q : q[j] \in OwnStreams(c) =>
            stream_state[q[j]] = IF j < i THEN "BUFFED" ELSE "ACTIVE"
    BY <1>2, <1>12 DEF StatesFit, Fits, q, i
  <2>2. \A j \in DOMAIN q : q[j] \in OwnStreams(c) =>
            stream_state[q[j]] = IF j < i + 1 THEN "BUFFED" ELSE "ACTIVE"
    BY <1>5, <1>6, <2>1
  <2>3. \A t \in OwnStreams(c) : in_driver[t] = "yes" <=> stream_state[t] \in {"REG", "ACTIVE"}
    BY <1>2 DEF Fits, StatesFit
  <2> QED  BY <1>1, <1>3, <1>7, <1>12, <2>2, <2>3 DEF StatesFit
<1>17. ThreadsFit(c)'  BY <1>1, <1>2, <1>3, <1>7 DEF ThreadsFit, Fits
<1>18. LinksFit(c)'
  <2>1. \A t \in ChanStreams : linked_obj[t] = c =>
            /\ t \notin OwnStreams(c) /\ LinksStreams(c)
            /\ \E j \in DOMAIN q : j >= i /\ q[j] = t
    BY <1>1, <1>2 DEF LinksFit, Stops, Fits, q, i
  <2>2. c # "none"  BY <1>2, LayoutFacts
  <2>3. \A t \in ChanStreams : linked_obj'[t] = c =>
            /\ t \notin OwnStreams(c) /\ LinksStreams(c)
            /\ \E j \in DOMAIN q : j >= i + 1 /\ q[j] = t
    <3> SUFFICES ASSUME NEW t \in ChanStreams, linked_obj'[t] = c
                 PROVE  /\ t \notin OwnStreams(c) /\ LinksStreams(c)
                        /\ \E j \in DOMAIN q : j >= i + 1 /\ q[j] = t
      OBVIOUS
    <3>1. t # s /\ linked_obj[t] = c  BY <1>10, <2>2
    <3> QED  BY <1>5, <2>1, <3>1
  <2> QED  BY <1>3, <1>7, <1>12, <2>3 DEF LinksFit
<1>19. BorrowFits(c)'  BY <1>1, <1>2, <1>3, <1>7, <1>8 DEF BorrowFits, Fits
<1>20. HeldFits(c)'
  <2>1. Forgotten(c)' = Forgotten(c)  BY <1>1 DEF Forgotten
  <2> QED  BY <1>1, <1>2, <1>3, <2>1 DEF HeldFits, Fits
<1>21. Fits(c)'
  BY <1>13, <1>14, <1>15, <1>16, <1>17, <1>18, <1>19, <1>20 DEF Fits
<1>22. \A d \in Chans \ {c} : ~(LinksStreams(d) /\ Begun(d))  BY <1>1, NobodyBorrows
<1>23. \A t \in ChanStreams : \A d \in Chans \ {c} : linked_obj'[t] = d => linked_obj[t] = d
  <2>1. "none" \notin Chans  BY <1>2, LayoutsAssumption DEF ChanTypes, Chans
  <2> QED  BY <1>10, <2>1
<1> QED  BY <1>1, <1>7, <1>10, <1>11, <1>21, <1>22, <1>23, OthersFit

LEMMA StopOwnFits ==
    ASSUME ChanInv, NEW c \in Chans, StopOwn(c)
    PROVE  ChanInv'
<1> DEFINE q == op[c].s_objs
           i == op[c].i
           s == Current(c)
           new == After(Stopped(s), "UNREG_BUF")
<1>1. op[c].call = "stop" /\ i <= Len(q) /\ OwnedBy(s, c) /\ Undo(c, new)
  BY DEF StopOwn, InCall
<1>2. ChanTypes /\ Fits(c)  BY DEF ChanInv
<1>3. ListFits(c)  BY <1>2 DEF Fits
<1>4. /\ q \in Seq(ChanStreams) /\ i \in Nat /\ i \in DOMAIN q /\ s = q[i]
      /\ s \in ChanStreams /\ i + 1 \in 1..Len(q) + 1
      /\ \A j \in DOMAIN q : j < i + 1 <=> j < i \/ j = i
      /\ \A j \in DOMAIN q : j >= i <=> j >= i + 1 \/ j = i
  BY <1>1, <1>2, <1>3, CurrentFacts
<1>5. s \in OwnStreams(c)  BY <1>1, <1>2, LayoutFacts
<1>6. \A j \in DOMAIN q : q[j] = s => j = i  BY <1>1, <1>2, <1>3, <1>5, CurrentFacts
<1>7. \A j \in DOMAIN q : q[j] \in OwnStreams(c) =>
          stream_state[q[j]] = IF j < i THEN "BUFFED" ELSE "ACTIVE"
  BY <1>1, <1>2 DEF StatesFit, Fits, Stops
<1>8. new = "BUFFED" /\ Unregistered(s) = "no"
  <2>1. stream_state[s] = "ACTIVE"  BY <1>4, <1>5, <1>7
  <2> QED  BY <2>1 DEF After, Stopped, Unregistered, Handles, LeadsTo
<1> HIDE DEF new
<1>9. /\ UNCHANGED <<layout, chan_state, slots, notify_cb, running, is_bundled,
                     linked_obj, held>>
      /\ Advance(c) /\ ChanTypes' /\ stream_state'[s] = "BUFFED" /\ in_driver'[s] = "no"
      /\ \A t \in ChanStreams \ {s} :
             stream_state'[t] = stream_state[t] /\ in_driver'[t] = in_driver[t]
  <2>1. new \in StreamStates  BY <1>8 DEF StreamStates
  <2> QED  BY <1>1, <1>2, <1>4, <1>8, <2>1, UndoFacts
<1>10. /\ op'[c].call = "stop" /\ op'[c].i = i + 1 /\ op'[c].s_objs = q
       /\ \A d \in Chans \ {c} : op'[d] = op[d]
  BY <1>1, <1>2, <1>9, AdvanceFacts
<1>11. UNCHANGED <<OwnStreams(c), LinksStreams(c), ChanStreams, Chans>>
  BY <1>9 DEF OwnStreams, LinksStreams, ChanStreams, Chans
<1> HIDE DEF q, i, s
<1>12. Begun(c)' /\ Begun(c) /\ Stops(c)' /\ Stops(c)  BY <1>1, <1>10 DEF Begun, Stops
<1>13. OpFits(c)'  BY <1>1, <1>2, <1>9, <1>10 DEF OpFits, Fits
<1>14. SlotsFit(c)'  BY <1>2, <1>9, <1>11, <1>12 DEF SlotsFit, Fits
<1>15. ListFits(c)'  BY <1>1, <1>3, <1>4, <1>10, <1>11, <1>12 DEF ListFits, q
<1>16. \A t \in OwnStreams(c) : t \in ChanStreams  BY <1>2, LayoutFacts
<1>17. StatesFit(c)'
  <2>1. \A j \in DOMAIN q : j # i /\ q[j] \in OwnStreams(c) =>
            stream_state'[q[j]] = stream_state[q[j]]
    BY <1>6, <1>9, <1>16
  <2>2. \A j \in DOMAIN q : q[j] \in OwnStreams(c) =>
            stream_state'[q[j]] = IF j < i + 1 THEN "BUFFED" ELSE "ACTIVE"
    BY <1>4, <1>7, <1>9, <2>1
  <2>3. \A t \in OwnStreams(c) :
            in_driver'[t] = "yes" <=> stream_state'[t] \in {"REG", "ACTIVE"}
    <3>1. \A t \in OwnStreams(c) :
              in_driver[t] = "yes" <=> stream_state[t] \in {"REG", "ACTIVE"}
      BY <1>2 DEF Fits, StatesFit
    <3> QED  BY <1>9, <1>16, <3>1
  <2> QED  BY <1>10, <1>11, <1>12, <2>2, <2>3 DEF StatesFit
<1>18. ThreadsFit(c)'  BY <1>1, <1>2, <1>9, <1>10, <1>11 DEF ThreadsFit, Fits
<1>19. LinksFit(c)'
  <2>1. \A t \in ChanStreams : linked_obj[t] = c =>
            /\ t \notin OwnStreams(c) /\ LinksStreams(c)
            /\ \E j \in DOMAIN q : j >= i /\ q[j] = t
    BY <1>1, <1>2 DEF LinksFit, Stops, Fits, q, i
  <2>2. \A j \in DOMAIN q : j >= i /\ q[j] \notin OwnStreams(c) => j >= i + 1
    BY <1>4, <1>5
  <2>3. \A t \in ChanStreams : linked_obj[t] = c =>
            \E j \in DOMAIN q : j >= i + 1 /\ q[j] = t
    BY <2>1, <2>2
  <2> QED  BY <1>9, <1>10, <1>11, <1>12, <2>1, <2>3 DEF LinksFit
<1>20. BorrowFits(c)'  BY <1>2, <1>9, <1>10, <1>11, <1>12 DEF BorrowFits, Fits
<1>21. HeldFits(c)'
  <2>1. Forgotten(c)' = Forgotten(c)  BY <1>9 DEF Forgotten
  <2>2. \A t \in held[c] : t \in ChanStreams  BY <1>2 DEF ChanTypes
  <2>3. \A t \in held[c] : stream_state[t] \in {"BUFFED", "REG", "ACTIVE"}
            => stream_state'[t] \in {"BUFFED", "REG", "ACTIVE"}
    BY <1>9, <2>2
  <2> QED  BY <1>1, <1>2, <1>9, <1>11, <2>1, <2>3 DEF HeldFits, Fits
<1>22. Fits(c)'
  BY <1>13, <1>14, <1>15, <1>17, <1>18, <1>19, <1>20, <1>21 DEF Fits
<1>23. \A d \in Chans \ {c} : ~(LinksStreams(d) /\ Begun(d))  BY <1>1, NobodyBorrows
<1>24. \A t \in ChanStreams \ OwnStreams(c) :
           stream_state'[t] = stream_state[t] /\ in_driver'[t] = in_driver[t]
  BY <1>5, <1>9
<1> QED  BY <1>9, <1>10, <1>22, <1>23, <1>24, OthersFit

LEMMA StopCrashesFits ==
    ASSUME ChanInv, NEW c \in Chans, StopCrashes(c)
    PROVE  ChanInv'
<1>1. /\ op[c].call = "stop" /\ op' = [op EXCEPT ![c].call = "crashed"]
      /\ UNCHANGED <<layout, chan_state, slots, stream_state, in_driver, notify_cb, running,
                     is_bundled, linked_obj, held>>
  BY DEF StopCrashes, InCall
<1>2. ChanTypes /\ Fits(c)  BY DEF ChanInv
<1>3. UNCHANGED <<OwnStreams(c), LinksStreams(c), ChanStreams, Chans>>
  BY <1>1 DEF OwnStreams, LinksStreams, ChanStreams, Chans
<1>4. op[c] \in [call: ChanCalls, i: Nat, s_objs: Seq(ChanStreams)]  BY <1>2 DEF ChanTypes
<1>5. op'[c] = [op[c] EXCEPT !.call = "crashed"]
      /\ \A d \in Chans \ {c} : op'[d] = op[d]
  BY <1>1, <1>2 DEF ChanTypes
<1>6. op'[c].call = "crashed" /\ op'[c].i = op[c].i /\ op'[c].s_objs = op[c].s_objs
  BY <1>4, <1>5
<1>7. ChanTypes'
  <2>1. op'[c] \in [call: ChanCalls, i: Nat, s_objs: Seq(ChanStreams)]
    BY <1>4, <1>5 DEF ChanCalls
  <2>2. op' \in [Chans -> [call: ChanCalls, i: Nat, s_objs: Seq(ChanStreams)]]
    BY <1>1, <1>2, <1>5, <2>1 DEF ChanTypes
  <2> QED  BY <1>1, <1>2, <1>3, <2>2 DEF ChanTypes
<1>8. Begun(c)' /\ Begun(c) /\ Stops(c)' /\ Stops(c)  BY <1>1, <1>6 DEF Begun, Stops
<1>9. OpFits(c)'  BY <1>1, <1>2, <1>6 DEF OpFits, Fits
<1>10. SlotsFit(c)'  BY <1>1, <1>2, <1>3, <1>8 DEF SlotsFit, Fits
<1>11. ListFits(c)'  BY <1>1, <1>2, <1>3, <1>6, <1>8 DEF ListFits, Fits
<1>12. StatesFit(c)'  BY <1>1, <1>2, <1>3, <1>6, <1>8 DEF StatesFit, Fits
<1>13. ThreadsFit(c)'  BY <1>1, <1>2, <1>3, <1>6 DEF ThreadsFit, Fits
<1>14. LinksFit(c)'  BY <1>1, <1>2, <1>3, <1>6, <1>8 DEF LinksFit, Fits
<1>15. BorrowFits(c)'  BY <1>1, <1>2, <1>3, <1>5, <1>8 DEF BorrowFits, Fits
<1>16. HeldFits(c)'
  <2>1. Forgotten(c)' = Forgotten(c)  BY <1>1 DEF Forgotten
  <2> QED  BY <1>1, <1>2, <1>3, <2>1 DEF HeldFits, Fits
<1>17. Fits(c)'
  BY <1>9, <1>10, <1>11, <1>12, <1>13, <1>14, <1>15, <1>16 DEF Fits
<1>18. \A d \in Chans \ {c} : ~(LinksStreams(d) /\ Begun(d))  BY <1>1, NobodyBorrows
<1> QED  BY <1>1, <1>5, <1>7, <1>17, <1>18, OthersFit

\* The steps in which the threads of a channel end and its buffers go.
LEMMA StopThreadsFits ==
    ASSUME ChanInv, NEW c \in Chans, StopThreads(c)
    PROVE  ChanInv'
<1> DEFINE q == op[c].s_objs
           i == op[c].i
<1>1. /\ op[c].call = "stop" /\ i > Len(q)
      /\ running' = [running EXCEPT ![c] = FALSE]
      /\ held' = [held EXCEPT ![c] = IF running[c] THEN {} ELSE @]
      /\ op' = [op EXCEPT ![c] = Doing("put", @.s_objs)]
      /\ UNCHANGED <<layout, chan_state, slots, stream_state, in_driver, notify_cb,
                     is_bundled, linked_obj>>
  BY DEF StopThreads, Finished
<1>2. ChanTypes /\ Fits(c)  BY DEF ChanInv
<1>3. UNCHANGED <<OwnStreams(c), LinksStreams(c), ChanStreams, Chans>>
  BY <1>1 DEF OwnStreams, LinksStreams, ChanStreams, Chans
<1>4. /\ q \in Seq(ChanStreams) /\ DOMAIN q = 1..Len(q) /\ Len(q) \in Nat
      /\ \A j \in DOMAIN q : j < i /\ ~(j >= i) /\ ~(j < 1)
  <2>1. op[c] \in [call: ChanCalls, i: Nat, s_objs: Seq(ChanStreams)]  BY <1>2 DEF ChanTypes
  <2> QED  BY <1>1, <2>1
<1>5. op' = [op EXCEPT ![c] = Doing("put", q)]  BY <1>1, <1>2 DEF ChanTypes
<1>6. /\ op'[c].call = "put" /\ op'[c].i = 1 /\ op'[c].s_objs = q
      /\ running'[c] = FALSE /\ held'[c] = IF running[c] THEN {} ELSE held[c]
      /\ \A d \in Chans \ {c} :
             op'[d] = op[d] /\ running'[d] = running[d] /\ held'[d] = held[d]
  BY <1>1, <1>2, <1>5 DEF ChanTypes, Doing
<1>7. ChanTypes'
  <2>1. Doing("put", q) \in [call: ChanCalls, i: Nat, s_objs: Seq(ChanStreams)]
    BY <1>4 DEF Doing, ChanCalls
  <2>2. op' \in [Chans -> [call: ChanCalls, i: Nat, s_objs: Seq(ChanStreams)]]
    BY <1>2, <1>5, <2>1 DEF ChanTypes
  <2>3. running' \in [Chans -> BOOLEAN]  BY <1>1, <1>2 DEF ChanTypes
  <2>4. held' \in [Chans -> SUBSET ChanStreams]  BY <1>1, <1>2 DEF ChanTypes
  <2> QED  BY <1>1, <1>2, <1>3, <2>2, <2>3, <2>4 DEF ChanTypes
<1>8. Begun(c)' /\ Begun(c) /\ ~Stops(c)' /\ Stops(c)  BY <1>1, <1>6 DEF Begun, Stops
<1>9. OpFits(c)'  BY <1>1, <1>2, <1>6 DEF OpFits, Fits
<1>10. SlotsFit(c)'  BY <1>1, <1>2, <1>3, <1>8 DEF SlotsFit, Fits
<1>11. ListFits(c)'
  <2>1. /\ \A j, k \in DOMAIN q : q[j] \in OwnStreams(c) /\ q[j] = q[k] => j = k
        /\ \A s \in OwnStreams(c) : \E j \in DOMAIN q : q[j] = s
    BY <1>1, <1>2 DEF ListFits, Fits
  <2>2. 1 \in 1..Len(q) + 1  BY <1>4
  <2> QED  BY <1>3, <1>6, <1>8, <2>1, <2>2 DEF ListFits
<1>12. StatesFit(c)'
  <2>1. \A j \in DOMAIN q : q[j] \in OwnStreams(c) => stream_state[q[j]] = "BUFFED"
    BY <1>2, <1>4, <1>8 DEF StatesFit, Fits
  <2>2. \A t \in OwnStreams(c) : in_driver[t] = "yes" <=> stream_state[t] \in {"REG", "ACTIVE"}
    BY <1>2 DEF Fits, StatesFit
  <2> QED  BY <1>1, <1>3, <1>4, <1>6, <1>8, <2>1, <2>2 DEF StatesFit
<1>13. ThreadsFit(c)'
  <2>1. /\ notify_cb[c] => layout[c].cb
        /\ \A t \in OwnStreams(c) : is_bundled[t] => layout[c].cb /\ chan_state[c] # "NOTUSED"
    BY <1>2 DEF ThreadsFit, Fits
  <2> QED  BY <1>1, <1>3, <1>6, <2>1 DEF ThreadsFit
<1>14. LinksFit(c)'
  <2>1. \A t \in ChanStreams : linked_obj[t] # c
    BY <1>1, <1>2, <1>4 DEF LinksFit, Stops, Fits
  <2> QED  BY <1>1, <1>3, <1>6, <2>1 DEF LinksFit
<1>15. BorrowFits(c)'  BY <1>1, <1>2, <1>3, <1>6, <1>8 DEF BorrowFits, Fits
<1>16. HeldFits(c)'
  <2>1. Forgotten(c)' = Forgotten(c)  BY <1>1 DEF Forgotten
  <2>2. ~Forgotten(c) => held'[c] = {}
    <3>1. ~Forgotten(c) => \A t \in held[c] : running[c]
      BY <1>1, <1>2 DEF HeldFits, Fits
    <3> QED  BY <1>6, <3>1
  <2>3. held'[c] \subseteq held[c]  BY <1>6
  <2>4. /\ \A t \in held[c] : t \in OwnStreams(c) \/ LinksStreams(c)
        /\ ~layout[c].cb \/ chan_state[c] = "NOTUSED" => held[c] = {}
    BY <1>2 DEF HeldFits, Fits
  <2> QED  BY <1>1, <1>3, <2>1, <2>2, <2>3, <2>4 DEF HeldFits
<1>17. Fits(c)'
  BY <1>9, <1>10, <1>11, <1>12, <1>13, <1>14, <1>15, <1>16 DEF Fits
<1>18. \A d \in Chans \ {c} : ~(LinksStreams(d) /\ Begun(d))  BY <1>1, NobodyBorrows
<1> QED  BY <1>1, <1>6, <1>7, <1>17, <1>18, OthersFit

LEMMA PutBufsFits ==
    ASSUME ChanInv, NEW c \in Chans, PutBufs(c)
    PROVE  ChanInv'
<1> DEFINE q == op[c].s_objs
           i == op[c].i
           s == Current(c)
           new == After(stream_state[s], "PUT_BUF")
<1>1. op[c].call = "put" /\ i <= Len(q) /\ OwnedBy(s, c) /\ Undo(c, new)
  BY DEF PutBufs, InCall
<1>2. ChanTypes /\ Fits(c)  BY DEF ChanInv
<1>3. ListFits(c)  BY <1>2 DEF Fits
<1>4. /\ q \in Seq(ChanStreams) /\ i \in Nat /\ i \in DOMAIN q /\ s = q[i]
      /\ s \in ChanStreams /\ i + 1 \in 1..Len(q) + 1
      /\ \A j \in DOMAIN q : j < i + 1 <=> j < i \/ j = i
  BY <1>1, <1>2, <1>3, CurrentFacts
<1>5. s \in OwnStreams(c)  BY <1>1, <1>2, LayoutFacts
<1>6. \A j \in DOMAIN q : q[j] = s => j = i  BY <1>1, <1>2, <1>3, <1>5, CurrentFacts
<1>7. \A j \in DOMAIN q : q[j] \in OwnStreams(c) =>
          stream_state[q[j]] = IF j < i THEN "CFG" ELSE "BUFFED"
  BY <1>1, <1>2 DEF StatesFit, Fits
<1>8. new = "CFG" /\ Unregistered(s) # "yes"
  <2>1. stream_state[s] = "BUFFED"  BY <1>4, <1>5, <1>7
  <2>2. in_driver[s] # "yes"  BY <1>2, <1>5, <2>1 DEF StatesFit, Fits
  <2> QED  BY <2>1, <2>2 DEF After, Stopped, Unregistered, Handles, LeadsTo
<1> HIDE DEF new
<1>9. /\ UNCHANGED <<layout, chan_state, slots, notify_cb, running, is_bundled,
                     linked_obj, held>>
      /\ Advance(c) /\ ChanTypes' /\ stream_state'[s] = "CFG" /\ in_driver'[s] # "yes"
      /\ \A t \in ChanStreams \ {s} :
             stream_state'[t] = stream_state[t] /\ in_driver'[t] = in_driver[t]
  <2>1. new \in StreamStates  BY <1>8 DEF StreamStates
  <2> QED  BY <1>1, <1>2, <1>4, <1>8, <2>1, UndoFacts
<1>10. /\ op'[c].call = "put" /\ op'[c].i = i + 1 /\ op'[c].s_objs = q
       /\ \A d \in Chans \ {c} : op'[d] = op[d]
  BY <1>1, <1>2, <1>9, AdvanceFacts
<1>11. UNCHANGED <<OwnStreams(c), LinksStreams(c), ChanStreams, Chans>>
  BY <1>9 DEF OwnStreams, LinksStreams, ChanStreams, Chans
<1> HIDE DEF q, i, s
<1>12. Begun(c)' /\ Begun(c) /\ ~Stops(c)' /\ ~Stops(c)  BY <1>1, <1>10 DEF Begun, Stops
<1>13. OpFits(c)'  BY <1>1, <1>2, <1>9, <1>10 DEF OpFits, Fits
<1>14. SlotsFit(c)'  BY <1>2, <1>9, <1>11, <1>12 DEF SlotsFit, Fits
<1>15. ListFits(c)'  BY <1>1, <1>3, <1>4, <1>10, <1>11, <1>12 DEF ListFits, q
<1>16. \A t \in OwnStreams(c) : t \in ChanStreams  BY <1>2, LayoutFacts
<1>17. StatesFit(c)'
  <2>1. \A j \in DOMAIN q : j # i /\ q[j] \in OwnStreams(c) =>
            stream_state'[q[j]] = stream_state[q[j]]
    BY <1>6, <1>9, <1>16
  <2>2. \A j \in DOMAIN q : q[j] \in OwnStreams(c) =>
            stream_state'[q[j]] = IF j < i + 1 THEN "CFG" ELSE "BUFFED"
    BY <1>4, <1>7, <1>9, <2>1
  <2>3. \A t \in OwnStreams(c) :
            in_driver'[t] = "yes" <=> stream_state'[t] \in {"REG", "ACTIVE"}
    <3>1. \A t \in OwnStreams(c) :
              in_driver[t] = "yes" <=> stream_state[t] \in {"REG", "ACTIVE"}
      BY <1>2 DEF Fits, StatesFit
    <3> QED  BY <1>9, <1>16, <3>1
  <2> QED  BY <1>10, <1>11, <1>12, <2>2, <2>3 DEF StatesFit
<1>18. ThreadsFit(c)'  BY <1>1, <1>2, <1>9, <1>10, <1>11 DEF ThreadsFit, Fits
<1>19. LinksFit(c)'
  <2>1. \A t \in ChanStreams : linked_obj[t] # c  BY <1>1, <1>2, <1>12 DEF LinksFit, Fits
  <2> QED  BY <1>9, <1>10, <1>11, <2>1 DEF LinksFit
<1>20. BorrowFits(c)'  BY <1>2, <1>9, <1>10, <1>11, <1>12 DEF BorrowFits, Fits
<1>21. HeldFits(c)'
  <2>1. Forgotten(c)' = Forgotten(c)  BY <1>9 DEF Forgotten
  <2>2. ~running[c]  BY <1>1, <1>2 DEF ThreadsFit, Fits
  <2>3. ~Forgotten(c) => held[c] = {}  BY <1>1, <1>2, <2>2 DEF HeldFits, Fits
  <2> QED  BY <1>2, <1>9, <1>11, <2>1, <2>3 DEF HeldFits, Fits
<1>22. Fits(c)'
  BY <1>13, <1>14, <1>15, <1>17, <1>18, <1>19, <1>20, <1>21 DEF Fits
<1>23. \A d \in Chans \ {c} : ~(LinksStreams(d) /\ Begun(d))  BY <1>1, NobodyBorrows
<1>24. \A t \in ChanStreams \ OwnStreams(c) :
           stream_state'[t] = stream_state[t] /\ in_driver'[t] = in_driver[t]
  BY <1>5, <1>9
<1> QED  BY <1>9, <1>10, <1>22, <1>23, <1>24, OthersFit

LEMMA SkipLinkedFits ==
    ASSUME ChanInv, NEW c \in Chans, SkipLinked(c)
    PROVE  ChanInv'
<1> DEFINE q == op[c].s_objs
           i == op[c].i
           s == Current(c)
<1>1. /\ op[c].call = "put" /\ i <= Len(q) /\ ~OwnedBy(s, c) /\ Advance(c)
      /\ UNCHANGED <<layout, chan_state, slots, stream_state, in_driver, notify_cb, running,
                     is_bundled, linked_obj, held>>
  BY DEF SkipLinked, InCall
<1>2. ChanTypes /\ Fits(c)  BY DEF ChanInv
<1>3. UNCHANGED <<OwnStreams(c), LinksStreams(c), ChanStreams, Chans>>
  BY <1>1 DEF OwnStreams, LinksStreams, ChanStreams, Chans
<1>4. ListFits(c)  BY <1>2 DEF Fits
<1>5. /\ q \in Seq(ChanStreams) /\ i \in Nat /\ i \in DOMAIN q /\ s = q[i]
      /\ i + 1 \in 1..Len(q) + 1 /\ \A j \in DOMAIN q : j < i + 1 <=> j < i \/ j = i
  BY <1>1, <1>2, <1>4, CurrentFacts
<1>6. s \notin OwnStreams(c)  BY <1>1, <1>2, LayoutFacts
<1>7. /\ op' \in [Chans -> [call: ChanCalls, i: Nat, s_objs: Seq(ChanStreams)]]
      /\ op'[c].call = "put" /\ op'[c].i = i + 1 /\ op'[c].s_objs = q
      /\ \A d \in Chans \ {c} : op'[d] = op[d]
  BY <1>1, <1>2, AdvanceFacts
<1> HIDE DEF q, i, s
<1>8. ChanTypes'  BY <1>1, <1>2, <1>3, <1>7 DEF ChanTypes
<1>9. Begun(c)' /\ Begun(c) /\ ~Stops(c)' /\ ~Stops(c)  BY <1>1, <1>7 DEF Begun, Stops
<1>10. OpFits(c)'  BY <1>1, <1>2, <1>7 DEF OpFits, Fits
<1>11. SlotsFit(c)'  BY <1>1, <1>2, <1>3, <1>9 DEF SlotsFit, Fits
<1>12. ListFits(c)'  BY <1>1, <1>3, <1>4, <1>5, <1>7, <1>9 DEF ListFits, q
<1>13. StatesFit(c)'
  <2>1. \A j \in DOMAIN q : q[j] \in OwnStreams(c) =>
            stream_state[q[j]] = IF j < i THEN "CFG" ELSE "BUFFED"
    BY <1>1, <1>2 DEF StatesFit, Fits, q, i
  <2>2. \A j \in DOMAIN q : q[j] \in OwnStreams(c) =>
            stream_state[q[j]] = IF j < i + 1 THEN "CFG" ELSE "BUFFED"
    BY <1>5, <1>6, <2>1
  <2>3. \A t \in OwnStreams(c) : in_driver[t] = "yes" <=> stream_state[t] \in {"REG", "ACTIVE"}
    BY <1>2 DEF Fits, StatesFit
  <2> QED  BY <1>1, <1>3, <1>7, <1>9, <2>2, <2>3 DEF StatesFit
<1>14. ThreadsFit(c)'  BY <1>1, <1>2, <1>3, <1>7 DEF ThreadsFit, Fits
<1>15. LinksFit(c)'
  <2>1. \A t \in ChanStreams : linked_obj[t] # c  BY <1>1, <1>2, <1>9 DEF LinksFit, Fits
  <2> QED  BY <1>1, <1>3, <1>7, <2>1 DEF LinksFit
<1>16. BorrowFits(c)'  BY <1>1, <1>2, <1>3, <1>7, <1>9 DEF BorrowFits, Fits
<1>17. HeldFits(c)'
  <2>1. Forgotten(c)' = Forgotten(c)  BY <1>1 DEF Forgotten
  <2> QED  BY <1>1, <1>2, <1>3, <2>1 DEF HeldFits, Fits
<1>18. Fits(c)'
  BY <1>10, <1>11, <1>12, <1>13, <1>14, <1>15, <1>16, <1>17 DEF Fits
<1>19. \A d \in Chans \ {c} : ~(LinksStreams(d) /\ Begun(d))  BY <1>1, NobodyBorrows
<1> QED  BY <1>1, <1>7, <1>8, <1>18, <1>19, OthersFit

LEMMA ChanStoppedFits ==
    ASSUME ChanInv, NEW c \in Chans, ChanStopped(c)
    PROVE  ChanInv'
<1> DEFINE q == op[c].s_objs
           i == op[c].i
<1>1. /\ op[c].call = "put" /\ i > Len(q)
      /\ chan_state' = [chan_state EXCEPT ![c] = "STOPPED"]
      /\ op' = [op EXCEPT ![c] = AtRest]
      /\ UNCHANGED <<layout, slots, stream_state, in_driver, notify_cb, running, is_bundled,
                     linked_obj, held>>
  BY DEF ChanStopped, Finished
<1>2. ChanTypes /\ Fits(c)  BY DEF ChanInv
<1>3. UNCHANGED <<OwnStreams(c), LinksStreams(c), ChanStreams, Chans>>
  BY <1>1 DEF OwnStreams, LinksStreams, ChanStreams, Chans
<1>4. \A j \in DOMAIN q : j < i
  <2>1. op[c] \in [call: ChanCalls, i: Nat, s_objs: Seq(ChanStreams)]  BY <1>2 DEF ChanTypes
  <2> QED  BY <1>1, <2>1
<1>5. chan_state[c] = "ACTIVE" /\ Begun(c)  BY <1>1, <1>2 DEF OpFits, Fits, Begun
<1>6. \A t \in OwnStreams(c) : stream_state[t] = "CFG" /\ in_driver[t] # "yes"
  <2>1. \A t \in OwnStreams(c) : \E j \in DOMAIN q : q[j] = t
    BY <1>1, <1>2 DEF ListFits, Fits
  <2>2. \A j \in DOMAIN q : q[j] \in OwnStreams(c) => stream_state[q[j]] = "CFG"
    BY <1>1, <1>2, <1>4 DEF StatesFit, Fits
  <2>3. \A t \in OwnStreams(c) : stream_state[t] = "CFG"  BY <2>1, <2>2
  <2> QED  BY <1>2, <2>3 DEF StatesFit, Fits
<1>7. \A t \in OwnStreams(c) : t \in ToSet(slots[c])
  <2>1. SlotsFit(c) /\ Len(slots[c]) >= Len(layout[c].streams)
    BY <1>2, <1>5 DEF SlotsFit, Fits
  <2>2. \A t \in OwnStreams(c) : \E j \in DOMAIN slots[c] : slots[c][j] = t
    BY <1>2, <2>1, OwnSlots
  <2> QED  BY <2>2 DEF ToSet
<1>8. /\ \A t \in ChanStreams : linked_obj[t] # c
      /\ ~running[c]
  <2>1. \A t \in ChanStreams : linked_obj[t] # c  BY <1>1, <1>2 DEF LinksFit, Stops, Fits
  <2>2. ~running[c]  BY <1>1, <1>2 DEF ThreadsFit, Fits
  <2> QED  BY <2>1, <2>2
<1> HIDE DEF q, i
<1>9. chan_state'[c] = "STOPPED" /\ op'[c].call = "none"
      /\ \A d \in Chans \ {c} : chan_state'[d] = chan_state[d] /\ op'[d] = op[d]
  BY <1>1, <1>2 DEF ChanTypes, AtRest
<1>10. ChanTypes'
  <2>1. AtRest \in [call: ChanCalls, i: Nat, s_objs: Seq(ChanStreams)]
    <3>1. << >> \in Seq(ChanStreams)  OBVIOUS
    <3> QED  BY <3>1 DEF AtRest, ChanCalls
  <2>2. op' \in [Chans -> [call: ChanCalls, i: Nat, s_objs: Seq(ChanStreams)]]
    BY <1>1, <1>2, <2>1 DEF ChanTypes
  <2> QED  BY <1>1, <1>2, <1>3, <2>2 DEF ChanTypes
<1>11. ~Begun(c)' /\ ~Stops(c)'  BY <1>9 DEF Begun, Stops
<1>12. OpFits(c)'  BY <1>9 DEF OpFits
<1>13. SlotsFit(c)'  BY <1>1, <1>2, <1>3, <1>9, <1>11 DEF SlotsFit, Fits
<1>14. ListFits(c)'  BY <1>9, <1>11 DEF ListFits
<1>15. StatesFit(c)'  BY <1>1, <1>3, <1>6, <1>7, <1>9, <1>11 DEF StatesFit
<1>16. ThreadsFit(c)'
  <2>1. /\ notify_cb[c] => layout[c].cb
        /\ \A t \in OwnStreams(c) : is_bundled[t] => layout[c].cb
    BY <1>2 DEF ThreadsFit, Fits
  <2> QED  BY <1>1, <1>3, <1>8, <1>9, <2>1 DEF ThreadsFit
<1>17. LinksFit(c)'  BY <1>1, <1>3, <1>8, <1>9 DEF LinksFit
<1>18. BorrowFits(c)'  BY <1>11 DEF BorrowFits
<1>19. HeldFits(c)'
  <2>1. Forgotten(c)' = Forgotten(c)  BY <1>1, <1>5, <1>9 DEF Forgotten
  <2>2. ~Forgotten(c) => held[c] = {}  BY <1>1, <1>2, <1>8 DEF HeldFits, Fits
  <2>3. HeldFits(c)  BY <1>2 DEF Fits
  <2> QED  BY <1>1, <1>3, <1>5, <1>9, <2>1, <2>2, <2>3 DEF HeldFits
<1>20. Fits(c)'
  BY <1>12, <1>13, <1>14, <1>15, <1>16, <1>17, <1>18, <1>19 DEF Fits
<1>21. \A d \in Chans \ {c} : ~(LinksStreams(d) /\ Begun(d))  BY <1>1, NobodyBorrows
<1> QED  BY <1>1, <1>9, <1>10, <1>20, <1>21, OthersFit

\* Frames that come and go change nothing but what the threads have of them.
LEMMA FramesKeep ==
    ASSUME ChanInv, held' \in [Chans -> SUBSET ChanStreams],
           UNCHANGED <<layout, chan_state, slots, stream_state, in_driver, notify_cb, running,
                       is_bundled, linked_obj, op>>,
           \A c \in Chans : HeldFits(c)'
    PROVE  ChanInv'
<1>1. UNCHANGED <<ChanStreams, Chans>>  BY DEF ChanStreams, Chans
<1>2. ChanTypes  BY DEF ChanInv
<1>3. ChanTypes'  BY <1>1, <1>2 DEF ChanTypes
<1>4. ASSUME NEW c \in Chans  PROVE Fits(c)'
  <2>1. Fits(c)  BY DEF ChanInv
  <2>2. UNCHANGED <<OwnStreams(c), LinksStreams(c), Begun(c), Stops(c)>>
    BY DEF OwnStreams, LinksStreams, Begun, Stops
  <2>3. OpFits(c)'  BY <2>1, <2>2 DEF OpFits, Fits
  <2>4. SlotsFit(c)'  BY <2>1, <2>2 DEF SlotsFit, Fits
  <2>5. ListFits(c)'  BY <2>1, <2>2 DEF ListFits, Fits
  <2>6. StatesFit(c)'  BY <2>1, <2>2 DEF StatesFit, Fits
  <2>7. ThreadsFit(c)'  BY <2>1, <2>2 DEF ThreadsFit, Fits
  <2>8. LinksFit(c)'  BY <1>1, <2>1, <2>2 DEF LinksFit, Fits
  <2>9. BorrowFits(c)'  BY <1>1, <2>1, <2>2 DEF BorrowFits, Fits
  <2> QED  BY <2>3, <2>4, <2>5, <2>6, <2>7, <2>8, <2>9 DEF Fits
<1> QED  BY <1>1, <1>3, <1>4 DEF ChanInv

\* A frame comes from a stream that runs, so whoever is handed it has threads.
LEMMA FrameComesFits ==
    ASSUME ChanInv, NEW s \in ChanStreams, FrameComes(s)
    PROVE  ChanInv'
<1>1. /\ stream_state[s] = "ACTIVE"
      /\ held' = [c \in Chans |->
                      IF (OwnedBy(s, c) /\ is_bundled[s]) \/ linked_obj[s] = c
                      THEN held[c] \cup {s} ELSE held[c]]
      /\ UNCHANGED <<layout, chan_state, slots, stream_state, in_driver, notify_cb, running,
                     is_bundled, linked_obj, op>>
  BY DEF FrameComes
<1>2. ChanTypes  BY DEF ChanInv
<1>3. held' \in [Chans -> SUBSET ChanStreams]  BY <1>1, <1>2 DEF ChanTypes
<1>4. ASSUME NEW c \in Chans  PROVE HeldFits(c)'
  <2>1. Fits(c)  BY DEF ChanInv
  <2>2. UNCHANGED <<OwnStreams(c), LinksStreams(c), Forgotten(c)>>
    BY <1>1 DEF OwnStreams, LinksStreams, Forgotten
  <2>3. OwnedBy(s, c) <=> s \in OwnStreams(c)  BY <1>2, LayoutFacts
  <2>4. CASE ~((OwnedBy(s, c) /\ is_bundled[s]) \/ linked_obj[s] = c)
    <3>1. held'[c] = held[c]  BY <1>1, <2>4
    <3> QED  BY <1>1, <2>1, <2>2, <3>1 DEF HeldFits, Fits
  <2>5. CASE (OwnedBy(s, c) /\ is_bundled[s]) \/ linked_obj[s] = c
    <3>1. held'[c] = held[c] \cup {s}  BY <1>1, <2>5
    <3>2. s \in OwnStreams(c) \/ LinksStreams(c)
      BY <2>1, <2>3, <2>5 DEF LinksFit, Fits
    <3>3. layout[c].cb
      <4>1. OwnedBy(s, c) /\ is_bundled[s] => layout[c].cb
        BY <2>1, <2>3 DEF ThreadsFit, Fits
      <4>2. linked_obj[s] = c => layout[c].cb
        <5>1. linked_obj[s] = c => LinksStreams(c)  BY <2>1 DEF LinksFit, Fits
        <5> QED  BY <1>2, <5>1, LayoutFacts
      <4> QED  BY <2>5, <4>1, <4>2
    <3>4. chan_state[c] # "NOTUSED"
      <4>1. OwnedBy(s, c) /\ is_bundled[s] => chan_state[c] # "NOTUSED"
        BY <2>1, <2>3 DEF ThreadsFit, Fits
      <4>2. linked_obj[s] = c => chan_state[c] # "NOTUSED"
        BY <2>1 DEF LinksFit, OpFits, Stops, Fits
      <4> QED  BY <2>5, <4>1, <4>2
    <3>5. ~Forgotten(c) /\ op[c].call # "rollback" => running[c]
      <4> SUFFICES ASSUME ~Forgotten(c), op[c].call # "rollback"  PROVE running[c]
        OBVIOUS
      <4>1. notify_cb[c]  BY <3>3, <3>4 DEF Forgotten
      <4>2. CASE linked_obj[s] = c
        <5>1. \/ op[c].call = "none" /\ chan_state[c] = "ACTIVE"
              \/ op[c].call = "start" \/ Stops(c)
          BY <2>1, <4>2 DEF LinksFit, Fits
        <5> QED  BY <2>1, <4>1, <5>1 DEF ThreadsFit, Fits, Stops
      <4>3. CASE s \in OwnStreams(c)
        <5>1. op[c].call \in ChanCalls  BY <1>2 DEF ChanTypes
        <5>2. op[c].call # "put"
          <6> SUFFICES ASSUME op[c].call = "put"  PROVE FALSE
            OBVIOUS
          <6>1. \E j \in DOMAIN op[c].s_objs : op[c].s_objs[j] = s
            BY <2>1, <4>3 DEF ListFits, Fits
          <6>2. stream_state[s] \in {"CFG", "BUFFED"}
            BY <2>1, <4>3, <6>1 DEF StatesFit, Fits
          <6> QED  BY <1>1, <6>2
        <5>3. op[c].call \in {"none", "linked", "failed"}
                  => op[c].call = "none" /\ chan_state[c] = "ACTIVE"
          <6> SUFFICES ASSUME op[c].call \in {"none", "linked", "failed"}
                       PROVE  op[c].call = "none" /\ chan_state[c] = "ACTIVE"
            OBVIOUS
          <6>1. chan_state[c] = "ACTIVE"
            <7> SUFFICES ASSUME chan_state[c] # "ACTIVE"  PROVE FALSE
              OBVIOUS
            <7>1. stream_state[s] \in {"CFG", "NOTUSED"}
              BY <2>1, <4>3 DEF StatesFit, Fits
            <7> QED  BY <1>1, <7>1
          <6> QED  BY <2>1, <6>1 DEF OpFits, Fits
        <5> QED  BY <2>1, <4>1, <5>1, <5>2, <5>3 DEF ChanCalls, ThreadsFit, Fits
      <4> QED  BY <2>3, <2>5, <4>2, <4>3
    <3> QED  BY <1>1, <2>1, <2>2, <3>1, <3>2, <3>3, <3>4, <3>5 DEF HeldFits, Fits
  <2> QED  BY <2>4, <2>5
<1> QED  BY <1>1, <1>3, <1>4, FramesKeep

LEMMA FramesLeaveFits ==
    ASSUME ChanInv, NEW c \in Chans, FramesLeave(c)
    PROVE  ChanInv'
<1>1. PICK s \in held[c] : held' = [held EXCEPT ![c] = @ \ {s}]  BY DEF FramesLeave
<1>2. UNCHANGED <<layout, chan_state, slots, stream_state, in_driver, notify_cb, running,
                  is_bundled, linked_obj, op>>
  BY DEF FramesLeave
<1>3. ChanTypes  BY DEF ChanInv
<1>4. held' \in [Chans -> SUBSET ChanStreams]  BY <1>1, <1>3 DEF ChanTypes
<1>5. \A d \in Chans : held'[d] \subseteq held[d]  BY <1>1, <1>3 DEF ChanTypes
<1>6. ASSUME NEW d \in Chans  PROVE HeldFits(d)'
  <2>1. HeldFits(d)  BY DEF ChanInv, Fits
  <2>2. UNCHANGED <<OwnStreams(d), LinksStreams(d), Forgotten(d)>>
    BY <1>2 DEF OwnStreams, LinksStreams, Forgotten
  <2>3. held'[d] \subseteq held[d]  BY <1>5
  <2> QED  BY <1>2, <2>1, <2>2, <2>3 DEF HeldFits
<1> QED  BY <1>2, <1>4, <1>6, FramesKeep

\* The invariant holds at first.
LEMMA ChanInitFits == ASSUME ChanInit PROVE ChanInv
<1>1. /\ layout \in Layouts
      /\ chan_state = [c \in Chans |-> "NOTUSED"] /\ slots = [c \in Chans |-> << >>]
      /\ stream_state = [s \in ChanStreams |-> "NOTUSED"]
      /\ in_driver = [s \in ChanStreams |-> "no"]
      /\ notify_cb = [c \in Chans |-> FALSE] /\ running = [c \in Chans |-> FALSE]
      /\ is_bundled = [s \in ChanStreams |-> FALSE]
      /\ linked_obj = [s \in ChanStreams |-> "none"]
      /\ held = [c \in Chans |-> {}] /\ op = [c \in Chans |-> AtRest]
  BY DEF ChanInit
<1>2. ChanTypes
  <2>1. << >> \in Seq(ChanStreams)  OBVIOUS
  <2>2. AtRest \in [call: ChanCalls, i: Nat, s_objs: Seq(ChanStreams)]
    BY <2>1 DEF AtRest, ChanCalls
  <2>3. op \in [Chans -> [call: ChanCalls, i: Nat, s_objs: Seq(ChanStreams)]]
    BY <1>1, <2>2
  <2>4. slots \in [Chans -> Seq(ChanStreams)]  BY <1>1, <2>1
  <2>5. stream_state \in [ChanStreams -> StreamStates]  BY <1>1 DEF StreamStates
  <2>6. /\ chan_state \in [Chans -> {"NOTUSED", "STOPPED", "ACTIVE"}]
        /\ in_driver \in [ChanStreams -> {"no", "yes", "some"}]
        /\ notify_cb \in [Chans -> BOOLEAN] /\ running \in [Chans -> BOOLEAN]
        /\ is_bundled \in [ChanStreams -> BOOLEAN]
        /\ linked_obj \in [ChanStreams -> Chans \cup {"none"}]
        /\ held \in [Chans -> SUBSET ChanStreams]
    BY <1>1
  <2> QED  BY <1>1, <2>3, <2>4, <2>5, <2>6 DEF ChanTypes
<1>3. ASSUME NEW c \in Chans  PROVE Fits(c)
  <2>1. /\ chan_state[c] = "NOTUSED" /\ slots[c] = << >> /\ ~notify_cb[c] /\ ~running[c]
        /\ held[c] = {} /\ op[c].call = "none"
    BY <1>1 DEF AtRest
  <2>2. OwnStreams(c) \subseteq ChanStreams /\ c # "none"  BY <1>2, LayoutFacts
  <2>3. ~Begun(c) /\ ~Stops(c)  BY <2>1 DEF Begun, Stops
  <2>4. DOMAIN slots[c] = {} /\ ToSet(slots[c]) = {}  BY <2>1 DEF ToSet
  <2>5. OpFits(c)  BY <2>1 DEF OpFits
  <2>6. SlotsFit(c)  BY <2>1, <2>3, <2>4 DEF SlotsFit
  <2>7. ListFits(c)  BY <2>1, <2>3 DEF ListFits
  <2>8. StatesFit(c)  BY <1>1, <2>1, <2>2, <2>3, <2>4 DEF StatesFit
  <2>9. ThreadsFit(c)  BY <1>1, <2>1, <2>2 DEF ThreadsFit
  <2>10. LinksFit(c)  BY <1>1, <2>1, <2>2 DEF LinksFit
  <2>11. BorrowFits(c)  BY <2>3 DEF BorrowFits
  <2>12. HeldFits(c)  BY <2>1 DEF HeldFits
  <2> QED
    BY <2>5, <2>6, <2>7, <2>8, <2>9, <2>10, <2>11, <2>12 DEF Fits
<1> QED  BY <1>2, <1>3 DEF ChanInv

\* Every step keeps it.
LEMMA ChanNextFits == ASSUME ChanInv, [ChanNext]_chanVars PROVE ChanInv'
<1>1. CASE UNCHANGED chanVars
  <2>1. UNCHANGED <<layout, chan_state, slots, stream_state, in_driver, notify_cb, running,
                    is_bundled, linked_obj, held, op>>
    BY <1>1 DEF chanVars
  <2>2. held' \in [Chans -> SUBSET ChanStreams]  BY <2>1 DEF ChanInv, ChanTypes
  <2>3. ASSUME NEW c \in Chans  PROVE HeldFits(c)'
    <3>1. HeldFits(c)  BY DEF ChanInv, Fits
    <3>2. UNCHANGED <<OwnStreams(c), LinksStreams(c), Forgotten(c)>>
      BY <2>1 DEF OwnStreams, LinksStreams, Forgotten
    <3> QED  BY <2>1, <3>1, <3>2 DEF HeldFits
  <2> QED  BY <2>1, <2>2, <2>3, FramesKeep
<1>2. CASE ChanNext
  <2>1. ASSUME NEW c \in Chans, ChanStep(c)  PROVE ChanInv'
    <3>1. CASE mm_camera_add_channel(c)  BY <3>1, AddChannelFits
    <3>2. CASE mm_channel_add_stream(c)  BY <3>2, AddStreamFits
    <3>3. CASE mm_camera_del_channel(c)  BY <3>3, DelChannelFits
    <3>4. CASE mm_channel_link_stream(c)  BY <3>4, LinkStreamFits
    <3>5. CASE mm_channel_start(c)  BY <3>5, StartFits
    <3>6. CASE StartLinked(c)  BY <3>6, StartLinkedFits
    <3>7. CASE StartOwn(c)  BY <3>7, StartOwnFits
    <3>8. CASE StartFails(c)  BY <3>8, StartFailsFits
    <3>9. CASE ChanStarted(c)  BY <3>9, ChanStartedFits
    <3>10. CASE RollBack(c)  BY <3>10, RollBackFits
    <3>11. CASE RolledBack(c)  BY <3>11, RolledBackFits
    <3>12. CASE mm_channel_stop(c)  BY <3>12, StopFits
    <3>13. CASE StopLinked(c)  BY <3>13, StopLinkedFits
    <3>14. CASE StopOwn(c)  BY <3>14, StopOwnFits
    <3>15. CASE StopCrashes(c)  BY <3>15, StopCrashesFits
    <3>16. CASE StopThreads(c)  BY <3>16, StopThreadsFits
    <3>17. CASE PutBufs(c)  BY <3>17, PutBufsFits
    <3>18. CASE SkipLinked(c)  BY <3>18, SkipLinkedFits
    <3>19. CASE ChanStopped(c)  BY <3>19, ChanStoppedFits
    <3>20. CASE FramesLeave(c)  BY <3>20, FramesLeaveFits
    <3> QED
      BY <2>1, <3>1, <3>2, <3>3, <3>4, <3>5, <3>6, <3>7, <3>8, <3>9, <3>10, <3>11, <3>12,
         <3>13, <3>14, <3>15, <3>16, <3>17, <3>18, <3>19, <3>20 DEF ChanStep
  <2> QED  BY <1>2, <2>1, FrameComesFits DEF ChanNext
<1> QED  BY <1>1, <1>2

\* The channels' inductive invariant: the call that each of them is in the middle of, the
\* streams' states and the kernel's buffers, the threads, the links and the frames handed
\* out fit together, whatever fails and however calls on two channels interleave.
THEOREM ChanInvariant == ChanSpec => []ChanInv
<1>1. ChanInit => ChanInv  BY ChanInitFits
<1>2. ChanInv /\ [ChanNext]_chanVars => ChanInv'  BY ChanNextFits
<1> QED  BY <1>1, <1>2, PTL DEF ChanSpec

\* Between two calls a channel has everything it needs to run or nothing, and its metadata
\* start first and stop last (mm_channel_start, mm_channel_stop).
THEOREM ChannelsWhole == ChanSpec => []AllOrNothing
<1>1. ChanInv => AllOrNothing
  <2> SUFFICES ASSUME ChanInv  PROVE AllOrNothing
    OBVIOUS
  <2>1. ChanTypes  BY DEF ChanInv
  <2>2. MetadataAround
    <3> SUFFICES ASSUME NEW c \in Chans, OwnedBy("metadata", c), op[c].call # "rollback",
                        NEW s \in ToSet(layout[c].streams), stream_state[s] = "ACTIVE"
                 PROVE  stream_state["metadata"] = "ACTIVE"
      BY DEF MetadataAround
    <3> DEFINE q == op[c].s_objs
               i == op[c].i
    <3>1. Fits(c)  BY DEF ChanInv
    <3>2. "metadata" \in OwnStreams(c) /\ s \in OwnStreams(c)
      BY <2>1, LayoutFacts DEF OwnStreams
    <3>3. op[c] \in [call: ChanCalls, i: Nat, s_objs: Seq(ChanStreams)]
      BY <2>1 DEF ChanTypes
    <3>4. q \in Seq(ChanStreams) /\ DOMAIN q = 1..Len(q) /\ Len(q) \in Nat /\ i \in Nat
      BY <3>3
    <3>5. CASE op[c].call \in {"none", "linked", "failed"}
      <4>1. CASE chan_state[c] = "ACTIVE"
        BY <3>1, <3>2, <3>5, <4>1 DEF StatesFit, Fits
      <4>2. CASE chan_state[c] # "ACTIVE"
        <5>1. stream_state[s] \in {"CFG", "NOTUSED"}
          BY <3>1, <3>2, <3>5, <4>2 DEF StatesFit, Fits
        <5> QED  BY <5>1
      <4> QED  BY <4>1, <4>2
    <3>6. CASE op[c].call = "start"
      <4>1. PICK j \in DOMAIN q : q[j] = s  BY <3>1, <3>2, <3>6 DEF ListFits, Fits
      <4>2. ~(j = i) /\ ~(j > i)  BY <3>1, <3>2, <3>6, <4>1 DEF StatesFit, Fits
      <4>3. 1 \in DOMAIN q /\ 1 < i  BY <3>4, <4>1, <4>2
      <4>4. q[1] = "metadata"  BY <3>1, <3>2, <3>6 DEF ListFits, Fits
      <4> QED  BY <3>1, <3>2, <3>6, <4>3, <4>4 DEF StatesFit, Fits
    <3>7. CASE Stops(c)
      <4>1. PICK j \in DOMAIN q : q[j] = s  BY <3>1, <3>2, <3>7 DEF ListFits, Fits, Stops
      <4>2. ~(j < i)  BY <3>1, <3>2, <3>7, <4>1 DEF StatesFit, Fits
      <4>3. Len(q) \in DOMAIN q /\ ~(Len(q) < i)  BY <3>4, <4>1, <4>2
      <4>4. q[Len(q)] = "metadata"  BY <3>1, <3>2, <3>7 DEF ListFits, Fits
      <4> QED  BY <3>1, <3>2, <3>7, <4>3, <4>4 DEF StatesFit, Fits
    <3>8. CASE op[c].call = "put"
      <4>1. PICK j \in DOMAIN q : q[j] = s  BY <3>1, <3>2, <3>8 DEF ListFits, Fits
      <4>2. stream_state[s] \in {"CFG", "BUFFED"}
        BY <3>1, <3>2, <3>8, <4>1 DEF StatesFit, Fits
      <4> QED  BY <4>2
    <3> QED  BY <3>3, <3>5, <3>6, <3>7, <3>8 DEF ChanCalls, Stops
  <2>3. ASSUME NEW c \in Chans, op[c].call \in {"none", "linked", "failed"}
        PROVE  LET own == {s \in ToSet(slots[c]) : OwnedBy(s, c)} IN
               IF chan_state[c] = "ACTIVE"
               THEN /\ \A s \in own : stream_state[s] = "ACTIVE" /\ in_driver[s] = "yes"
                    /\ running[c] \/ ~layout[c].cb \/ Forgotten(c)
                    /\ \A s \in ToSet(slots[c]) \ own : linked_obj[s] = c
               ELSE /\ \A s \in own : stream_state[s] = "CFG" /\ in_driver[s] # "yes"
                    /\ ~running[c]
                    /\ \A s \in ChanStreams : linked_obj[s] # c
    <3>1. Fits(c)  BY DEF ChanInv
    <3>2. \A s : OwnedBy(s, c) <=> s \in OwnStreams(c)  BY <2>1, LayoutFacts
    <3>3. CASE chan_state[c] = "ACTIVE"
      <4>1. op[c].call = "none"  BY <2>3, <3>1, <3>3 DEF OpFits, Fits
      <4>2. \A s \in OwnStreams(c) : stream_state[s] = "ACTIVE"
        BY <3>1, <3>3, <4>1 DEF StatesFit, Fits
      <4>3. \A s \in OwnStreams(c) : in_driver[s] = "yes"
        BY <3>1, <4>2 DEF StatesFit, Fits
      <4>4. running[c] \/ ~layout[c].cb \/ Forgotten(c)
        BY <3>1, <3>3, <4>1 DEF ThreadsFit, Fits, Forgotten
      <4>5. \A s \in ToSet(slots[c]) \ OwnStreams(c) : linked_obj[s] = c
        BY <3>1, <3>3, <4>1 DEF LinksFit, Fits
      <4> QED  BY <3>2, <3>3, <4>2, <4>3, <4>4, <4>5
    <3>4. CASE chan_state[c] # "ACTIVE"
      <4>1. \A s \in OwnStreams(c) : s \in ToSet(slots[c]) => stream_state[s] = "CFG"
        BY <2>3, <3>1, <3>4 DEF StatesFit, Fits
      <4>2. \A s \in OwnStreams(c) : s \in ToSet(slots[c]) => in_driver[s] # "yes"
        BY <3>1, <4>1 DEF StatesFit, Fits
      <4>3. ~running[c]  BY <2>3, <3>1, <3>4 DEF ThreadsFit, Fits
      <4>4. \A s \in ChanStreams : linked_obj[s] # c
        BY <2>3, <3>1, <3>4 DEF LinksFit, Stops, Fits
      <4> QED  BY <3>2, <3>4, <4>1, <4>2, <4>3, <4>4
    <3> QED  BY <3>3, <3>4
  <2> QED  BY <2>2, <2>3 DEF AllOrNothing
<1> QED  BY <1>1, ChanInvariant, PTL

\* Frames handed to a channel are in buffers that are still there, and its threads, which
\* read them, still run (mm_channel_stop, mm_channel_dispatch_super_buf).
THEOREM ReadersCorrect == ChanSpec => []FramesHaveReaders
<1>1. ChanInv => FramesHaveReaders  BY DEF ChanInv, Fits, HeldFits, FramesHaveReaders
<1> QED  BY <1>1, ChanInvariant, PTL
==============================================================================
