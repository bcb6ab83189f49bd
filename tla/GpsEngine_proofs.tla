-------------------------- MODULE GpsEngine_proofs --------------------------
(***************************************************************************)
(* What is proved of the GPS engine.                                       *)
(*                                                                         *)
(* Timers: while a delegate is in the heap the kernel's timer is set for   *)
(* the second of the soonest, or somebody is about to see to it: the task  *)
(* between choosing a new top and setting the timer for it, or expiring    *)
(* what is due; the polling thread from the moment the timer has fired; or *)
(* a message of that thread which the task has still to take.              *)
(*                                                                         *)
(* Data connections: each interface has at most one request or one answer  *)
(* under way, and what it believes follows from that and the network.      *)
(*                                                                         *)
(* Requests of the network: a request is in one place at a time: in a      *)
(* session, on its way to the modem in a thread's hands, or answered; this *)
(* is why it is answered once.  Between a thread's look at the request and *)
(* its use nobody but a restart takes it away, for one thread at a time    *)
(* holds tLock there; so only a restart makes a thread answer nothing.     *)
(* And unless a session is used again too soon, an answer is, wherever it  *)
(* is, what the user said to the request beside it.                        *)
(***************************************************************************)
EXTENDS LocTimer, LocEngAgps, LocEngNi, FiniteSetTheorems, TLAPS

TimerMessages == [type: {"Push", "Remove"}, timer: 1..started] \cup [type: {"Expire"}]

TimerTasks == [pc: {"next", "add_poll", "set_time", "expire", "stop"}, timer: Nat,
               client: Timers \cup {"NULL"}, now: Times]

\* The types, and that the times of delegates that have been started are later
\* than the beginning.
TimerTypes ==
    /\ mTimer \in [Timers -> Nat]
    /\ \A t \in Timers : mTimer[t] # 0 => mTimer[t] \in 1..started
    /\ started \in 0..MaxDelegates
    /\ delegate \in [Delegates -> [mClient: Timers \cup {"NULL"}, due: Times]]
    /\ heap \subseteq 1..started
    /\ timer_queue \in Seq(TimerMessages)
    /\ timer_task \in TimerTasks
    /\ timer_task.pc # "next" => timer_task.timer \in 1..started
    /\ poll_pc \in {"wait", "disarm", "remove_poll", "send"}
    /\ timerfd \in [at: Times, polled: BOOLEAN]
    /\ now \in Times /\ now # 0
    /\ ended \in [Delegates -> SUBSET {"stopped", "called"}]
    /\ callbacks \subseteq [at: Times, due: Times]
    /\ \A d \in 1..started : delegate[d].due # 0

\* t is not later than anything in the heap, by the second.
NotLater(t) == \A d \in heap : Second(t) <= Second(delegate[d].due)

KernelSet == timerfd.polled /\ timerfd.at # 0 /\ NotLater(timerfd.at)

\* What the task is about to set the timer for is not later than the rest of the heap.
TaskTop ==
    timer_task.pc \in {"add_poll", "set_time"} => NotLater(delegate[timer_task.timer].due)

\* The task has the timer polled first, then it sets the time.
TaskWillSet == \/ timer_task.pc = "add_poll"
               \/ timer_task.pc = "set_time" /\ timerfd.polled

ExpireQueued == \E i \in DOMAIN timer_queue : timer_queue[i].type = "Expire"

\* Somebody sees to the soonest delegate.
SoonestSeenTo ==
    heap # {} =>
        \/ timer_task.pc = "next" /\ KernelSet
        \/ TaskWillSet
        \/ timer_task.pc \in {"expire", "stop"}
        \/ poll_pc # "wait"
        \/ ExpireQueued

TimerInv == TimerTypes /\ TaskTop /\ SoonestSeenTo

-----------------------------------------------------------------------------
(* Lemmas about times, tops and messages.                                  *)

\* The second of a point in time is a natural number.
LEMMA SecondIsNat == ASSUME NEW t \in Nat PROVE Second(t) \in Nat
<1>1. TicksPerSecond \in Nat /\ TicksPerSecond > 0  BY LocTimerAssumption
<1> QED  BY <1>1 DEF Second

\* A top is in the heap and not later than the rest of it.
LEMMA TopIsSoonest ==
    ASSUME NEW h, NEW d \in Tops(h)
    PROVE  /\ d \in h
           /\ \A e \in h : Second(delegate[d].due) <= Second(delegate[e].due)
BY DEF Tops

\* What has been started stays started.
LEMMA MoreStarted ==
    ASSUME started \in Nat, started' \in Nat, started <= started'
    PROVE  1..started \subseteq 1..started' /\ TimerMessages \subseteq TimerMessages'
<1>1. 1..started \subseteq 1..started'  OBVIOUS
<1> QED  BY <1>1 DEF TimerMessages

\* A queue that gets one more message keeps those it has.
LEMMA TimerAppend ==
    ASSUME NEW S, NEW q \in Seq(S), NEW m \in S
    PROVE  /\ Append(q, m) \in Seq(S)
           /\ \A i \in DOMAIN q : i \in DOMAIN Append(q, m) /\ Append(q, m)[i] = q[i]
           /\ Len(q) + 1 \in DOMAIN Append(q, m) /\ Append(q, m)[Len(q) + 1] = m
OBVIOUS

\* A queue that loses its first message keeps the others.
LEMMA TimerTail ==
    ASSUME NEW S, NEW q \in Seq(S), q # << >>
    PROVE  /\ Head(q) \in S /\ Tail(q) \in Seq(S)
           /\ \A i \in DOMAIN q : i # 1 => i - 1 \in DOMAIN Tail(q) /\ Tail(q)[i - 1] = q[i]
           /\ Head(q) = q[1]
OBVIOUS

\* What stopping a timer changes: its delegate has no client, and its removal is queued.
LEMMA StoppedKeeps ==
    ASSUME TimerTypes, started' = started, NEW t \in Timers, mTimer[t] # 0,
           NEW how \in {"stopped", "called"}, Stopped(t, how)
    PROVE  /\ mTimer' \in [Timers -> Nat]
           /\ \A u \in Timers : mTimer'[u] # 0 => mTimer'[u] \in 1..started'
           /\ delegate' \in [Delegates -> [mClient: Timers \cup {"NULL"}, due: Times]]
           /\ \A d \in Delegates : delegate'[d].due = delegate[d].due
           /\ timer_queue' \in Seq(TimerMessages')
           /\ ExpireQueued => ExpireQueued'
           /\ ended' \in [Delegates -> SUBSET {"stopped", "called"}]
<1> DEFINE d == mTimer[t]
           m == [type |-> "Remove", timer |-> d]
<1>1. d \in 1..started /\ d \in Delegates
  <2>1. d \in 1..started /\ started \in 0..MaxDelegates  BY DEF TimerTypes
  <2> QED  BY <2>1, LocTimerAssumption DEF Delegates
<1>2. mTimer' = [mTimer EXCEPT ![t] = 0]  BY DEF Stopped
<1>3. /\ delegate' = [delegate EXCEPT ![d].mClient = "NULL"]
      /\ timer_queue' = Append(timer_queue, m)
      /\ ended' = [ended EXCEPT ![d] = @ \cup {how}]
  BY DEF Stopped
<1>4. m \in TimerMessages /\ TimerMessages' = TimerMessages  BY <1>1 DEF TimerMessages
<1> HIDE DEF d, m
<1>5. mTimer' \in [Timers -> Nat]  BY <1>2 DEF TimerTypes
<1>6. \A u \in Timers : mTimer'[u] # 0 => mTimer'[u] \in 1..started'  BY <1>2 DEF TimerTypes
<1>7. delegate' \in [Delegates -> [mClient: Timers \cup {"NULL"}, due: Times]]
  BY <1>1, <1>3 DEF TimerTypes
<1>8. \A e \in Delegates : delegate'[e].due = delegate[e].due  BY <1>1, <1>3 DEF TimerTypes
<1>9. timer_queue \in Seq(TimerMessages)  BY DEF TimerTypes
<1>10. timer_queue' \in Seq(TimerMessages')  BY <1>3, <1>4, <1>9, TimerAppend
<1>11. ExpireQueued => ExpireQueued'
  BY <1>3, <1>4, <1>9, TimerAppend DEF ExpireQueued
<1>12. ended' \in [Delegates -> SUBSET {"stopped", "called"}]  BY <1>1, <1>3 DEF TimerTypes
<1> QED  BY <1>5, <1>6, <1>7, <1>8, <1>10, <1>11, <1>12

\* The task at rest, and with a top to set the kernel's timer for.
LEMMA TaskForms ==
    /\ Idle \in TimerTasks /\ Idle.pc = "next"
    /\ \A d \in Nat : /\ Update(d) \in TimerTasks
                      /\ Update(d).pc = "add_poll" /\ Update(d).timer = d
<1>1. 0 \in Times  BY LocTimerAssumption DEF Times
<1> QED  BY <1>1 DEF Idle, Update, TimerTasks

-----------------------------------------------------------------------------
(* Types, action by action.                                                *)

\* A start.
LEMMA StartTimer_Types ==
    ASSUME TimerTypes, NEW t \in Timers, NEW delay \in Delays, StartTimer(t, delay)
    PROVE  TimerTypes'
<1> DEFINE d == started + 1
           m == [type |-> "Push", timer |-> d]
<1>20. /\ d \in 1..started' /\ d \in Delegates /\ started' = d /\ d \in Nat /\ started \in Nat
       /\ started' <= MaxDelegates
  BY LocTimerAssumption DEF StartTimer, TimerTypes, Delegates
<1>21. now + delay \in Times /\ now + delay # 0
  BY LocTimerAssumption DEF StartTimer, TimerTypes, Times
<1>22. 1..started \subseteq 1..started' /\ TimerMessages \subseteq TimerMessages'
  BY <1>20, MoreStarted
<1>23. /\ delegate' = [delegate EXCEPT ![d] = [mClient |-> t, due |-> now + delay]]
       /\ mTimer' = [mTimer EXCEPT ![t] = d]
       /\ timer_queue' = Append(timer_queue, m)
       /\ UNCHANGED <<heap, timer_task, poll_pc, timerfd, now, ended, callbacks>>
  BY DEF StartTimer
<1>24. m \in TimerMessages'  BY <1>20 DEF TimerMessages
<1>25. \A e \in 1..started' : e # d => e \in 1..started  BY <1>20
<1>26. 1..started' \subseteq Delegates  BY <1>20, LocTimerAssumption DEF Delegates
<1> HIDE DEF d, m
<1>1. mTimer' \in [Timers -> Nat]
  BY <1>20, <1>21, <1>22, <1>23, <1>24 DEF TimerTypes
<1>2. \A u \in Timers : mTimer'[u] # 0 => mTimer'[u] \in 1..started'
  BY <1>20, <1>21, <1>22, <1>23, <1>24 DEF TimerTypes
<1>3. started' \in 0..MaxDelegates
  BY <1>20, LocTimerAssumption
<1>4. delegate' \in [Delegates -> [mClient: Timers \cup {"NULL"}, due: Times]]
  BY <1>20, <1>21, <1>22, <1>23, <1>24 DEF TimerTypes
<1>5. heap' \subseteq 1..started'
  BY <1>20, <1>21, <1>22, <1>23, <1>24 DEF TimerTypes
<1>6. timer_queue' \in Seq(TimerMessages')
  BY <1>22, <1>23, <1>24, TimerAppend DEF TimerTypes
<1>7. timer_task' \in TimerTasks
  BY <1>20, <1>21, <1>22, <1>23, <1>24 DEF TimerTypes
<1>8. timer_task'.pc # "next" => timer_task'.timer \in 1..started'
  BY <1>20, <1>21, <1>22, <1>23, <1>24 DEF TimerTypes
<1>9. poll_pc' \in {"wait", "disarm", "remove_poll", "send"}
  BY <1>20, <1>21, <1>22, <1>23, <1>24 DEF TimerTypes
<1>10. timerfd' \in [at: Times, polled: BOOLEAN]
  BY <1>20, <1>21, <1>22, <1>23, <1>24 DEF TimerTypes
<1>11. now' \in Times /\ now' # 0
  BY <1>20, <1>21, <1>22, <1>23, <1>24 DEF TimerTypes
<1>12. ended' \in [Delegates -> SUBSET {"stopped", "called"}]
  BY <1>20, <1>21, <1>22, <1>23, <1>24 DEF TimerTypes
<1>13. callbacks' \subseteq [at: Times, due: Times]
  BY <1>20, <1>21, <1>22, <1>23, <1>24 DEF TimerTypes
<1>14. \A e \in 1..started' : delegate'[e].due # 0
  BY <1>20, <1>21, <1>23, <1>25, <1>26 DEF TimerTypes
<1> QED
  BY <1>1, <1>2, <1>3, <1>4, <1>5, <1>6, <1>7, <1>8, <1>9, <1>10, <1>11, <1>12, <1>13, <1>14
  DEF TimerTypes

\* A stop.
LEMMA StopTimer_Types ==
    ASSUME TimerTypes, NEW t \in Timers, StopTimer(t)
    PROVE  TimerTypes'
<1>20. /\ mTimer[t] # 0 /\ Stopped(t, "stopped")
       /\ UNCHANGED <<started, heap, timer_task, poll_pc, timerfd, now, callbacks>>
  BY DEF StopTimer
<1>21. 1..started \subseteq Delegates  BY LocTimerAssumption DEF TimerTypes, Delegates
<1> DEFINE How == "stopped"
<1>22. How \in {"stopped", "called"} /\ Stopped(t, How)  BY <1>20
<1> HIDE DEF How
<1>1. mTimer' \in [Timers -> Nat]
  BY <1>20, <1>21, <1>22, StoppedKeeps DEF TimerTypes
<1>2. \A u \in Timers : mTimer'[u] # 0 => mTimer'[u] \in 1..started'
  BY <1>20, <1>21, <1>22, StoppedKeeps DEF TimerTypes
<1>3. started' \in 0..MaxDelegates
  BY <1>20, <1>21, <1>22, StoppedKeeps DEF TimerTypes
<1>4. delegate' \in [Delegates -> [mClient: Timers \cup {"NULL"}, due: Times]]
  BY <1>20, <1>21, <1>22, StoppedKeeps DEF TimerTypes
<1>5. heap' \subseteq 1..started'
  BY <1>20, <1>21, <1>22, StoppedKeeps DEF TimerTypes
<1>6. timer_queue' \in Seq(TimerMessages')
  BY <1>20, <1>21, <1>22, StoppedKeeps DEF TimerTypes
<1>7. timer_task' \in TimerTasks
  BY <1>20, <1>21, <1>22, StoppedKeeps DEF TimerTypes
<1>8. timer_task'.pc # "next" => timer_task'.timer \in 1..started'
  BY <1>20, <1>21, <1>22, StoppedKeeps DEF TimerTypes
<1>9. poll_pc' \in {"wait", "disarm", "remove_poll", "send"}
  BY <1>20, <1>21, <1>22, StoppedKeeps DEF TimerTypes
<1>10. timerfd' \in [at: Times, polled: BOOLEAN]
  BY <1>20, <1>21, <1>22, StoppedKeeps DEF TimerTypes
<1>11. now' \in Times /\ now' # 0
  BY <1>20, <1>21, <1>22, StoppedKeeps DEF TimerTypes
<1>12. ended' \in [Delegates -> SUBSET {"stopped", "called"}]
  BY <1>20, <1>21, <1>22, StoppedKeeps DEF TimerTypes
<1>13. callbacks' \subseteq [at: Times, due: Times]
  BY <1>20, <1>21, <1>22, StoppedKeeps DEF TimerTypes
<1>14. \A e \in 1..started' : delegate'[e].due # 0
  BY <1>20, <1>21, <1>22, StoppedKeeps DEF TimerTypes
<1> QED
  BY <1>1, <1>2, <1>3, <1>4, <1>5, <1>6, <1>7, <1>8, <1>9, <1>10, <1>11, <1>12, <1>13, <1>14
  DEF TimerTypes

\* A message is handled.
LEMMA TimerHandle_Types ==
    ASSUME TimerTypes, TimerHandle
    PROVE  TimerTypes'
<1> DEFINE m == Head(timer_queue)
<1>20. /\ timer_queue # << >> /\ timer_queue' = Tail(timer_queue)
       /\ \/ m.type = "Push" /\ HandlePush(m.timer)
          \/ m.type = "Remove" /\ HandleRemove(m.timer)
          \/ m.type = "Expire" /\ HandleExpire
       /\ UNCHANGED <<mTimer, started, poll_pc, timerfd, now, ended, callbacks>>
  BY DEF TimerHandle
<1>21. m \in TimerMessages /\ Tail(timer_queue) \in Seq(TimerMessages)
  BY <1>20, TimerTail DEF TimerTypes
<1>22. m.type \in {"Push", "Remove"} => m.timer \in 1..started  BY <1>21 DEF TimerMessages
<1>23. TimerMessages' = TimerMessages  BY <1>20 DEF TimerMessages
<1>24. 1..started \subseteq Nat /\ 0 \in Times
  BY LocTimerAssumption DEF Times
<1> HIDE DEF m
<1>25. heap' \subseteq 1..started
  <2>1. heap' \subseteq heap \cup {m.timer} /\ (m.type = "Expire" => heap' \subseteq heap)
    BY <1>20, <1>21 DEF HandlePush, HandleRemove, HandleExpire, TimerMessages
  <2>2. heap \subseteq 1..started  BY DEF TimerTypes
  <2> QED  BY <1>20, <1>22, <2>1, <2>2
<1>26. delegate' = delegate  BY <1>20 DEF HandlePush, HandleRemove, HandleExpire
<1>27. \/ timer_task' = Idle
       \/ \E top \in heap' : timer_task' = Update(top)
       \/ \E d \in heap : timer_task' = [pc |-> "expire", timer |-> d, client |-> "NULL",
                                         now |-> now]
  <2>1. CASE m.type = "Push" /\ HandlePush(m.timer)  BY <2>1 DEF HandlePush
  <2>2. CASE m.type = "Remove" /\ HandleRemove(m.timer)
    <3>1. \/ timer_task' = Idle
          \/ \E top \in Tops(heap') : timer_task' = Update(top)
      BY <2>2 DEF HandleRemove
    <3> QED  BY <3>1 DEF Tops
  <2>3. CASE m.type = "Expire" /\ HandleExpire  BY <2>3, TopIsSoonest DEF HandleExpire
  <2> QED  BY <1>20, <2>1, <2>2, <2>3
<1>28. \A d \in heap \cup heap' :
           LET task == [pc |-> "expire", timer |-> d, client |-> "NULL", now |-> now]
           IN  task \in TimerTasks /\ task.timer = d
  BY <1>24, <1>25 DEF TimerTypes, TimerTasks
<1>1. mTimer' \in [Timers -> Nat]
  BY <1>20, <1>21, <1>22, <1>23, <1>24, <1>25, <1>26 DEF TimerTypes
<1>2. \A u \in Timers : mTimer'[u] # 0 => mTimer'[u] \in 1..started'
  BY <1>20, <1>21, <1>22, <1>23, <1>24, <1>25, <1>26 DEF TimerTypes
<1>3. started' \in 0..MaxDelegates
  BY <1>20, <1>21, <1>22, <1>23, <1>24, <1>25, <1>26 DEF TimerTypes
<1>4. delegate' \in [Delegates -> [mClient: Timers \cup {"NULL"}, due: Times]]
  BY <1>20, <1>21, <1>22, <1>23, <1>24, <1>25, <1>26 DEF TimerTypes
<1>5. heap' \subseteq 1..started'
  BY <1>20, <1>21, <1>22, <1>23, <1>24, <1>25, <1>26 DEF TimerTypes
<1>6. timer_queue' \in Seq(TimerMessages')
  BY <1>20, <1>21, <1>22, <1>23, <1>24, <1>25, <1>26 DEF TimerTypes
<1>7. timer_task' \in TimerTasks
  BY <1>20, <1>24, <1>25, <1>27, <1>28, TaskForms DEF TimerTypes
<1>8. timer_task'.pc # "next" => timer_task'.timer \in 1..started'
  BY <1>20, <1>24, <1>25, <1>27, <1>28, TaskForms DEF TimerTypes
<1>9. poll_pc' \in {"wait", "disarm", "remove_poll", "send"}
  BY <1>20, <1>21, <1>22, <1>23, <1>24, <1>25, <1>26 DEF TimerTypes
<1>10. timerfd' \in [at: Times, polled: BOOLEAN]
  BY <1>20, <1>21, <1>22, <1>23, <1>24, <1>25, <1>26 DEF TimerTypes
<1>11. now' \in Times /\ now' # 0
  BY <1>20, <1>21, <1>22, <1>23, <1>24, <1>25, <1>26 DEF TimerTypes
<1>12. ended' \in [Delegates -> SUBSET {"stopped", "called"}]
  BY <1>20, <1>21, <1>22, <1>23, <1>24, <1>25, <1>26 DEF TimerTypes
<1>13. callbacks' \subseteq [at: Times, due: Times]
  BY <1>20, <1>21, <1>22, <1>23, <1>24, <1>25, <1>26 DEF TimerTypes
<1>14. \A e \in 1..started' : delegate'[e].due # 0
  BY <1>20, <1>21, <1>22, <1>23, <1>24, <1>25, <1>26 DEF TimerTypes
<1> QED
  BY <1>1, <1>2, <1>3, <1>4, <1>5, <1>6, <1>7, <1>8, <1>9, <1>10, <1>11, <1>12, <1>13, <1>14
  DEF TimerTypes

\* The task sets the kernel's timer.
LEMMA TimerSetsKernel_Types ==
    ASSUME TimerTypes, TimerSetsKernel
    PROVE  TimerTypes'
<1>20. 1..started \subseteq Delegates /\ 0 \in Times
  BY LocTimerAssumption DEF TimerTypes, Delegates, Times
<1>21. /\ timer_task \in TimerTasks /\ timer_task.pc # "next" /\ started' = started
       /\ \/ timer_task' = Idle \/ timer_task' = [timer_task EXCEPT !.pc = "set_time"]
  BY DEF TimerTypes, TimerSetsKernel
<1>22. timer_task.timer \in Delegates /\ timer_task.timer \in 1..started
  BY <1>20, <1>21 DEF TimerTypes
<1>1. mTimer' \in [Timers -> Nat]
  BY DEF TimerTypes, TimerSetsKernel
<1>2. \A u \in Timers : mTimer'[u] # 0 => mTimer'[u] \in 1..started'
  BY DEF TimerTypes, TimerSetsKernel
<1>3. started' \in 0..MaxDelegates
  BY DEF TimerTypes, TimerSetsKernel
<1>4. delegate' \in [Delegates -> [mClient: Timers \cup {"NULL"}, due: Times]]
  BY DEF TimerTypes, TimerSetsKernel
<1>5. heap' \subseteq 1..started'
  BY DEF TimerTypes, TimerSetsKernel
<1>6. timer_queue' \in Seq(TimerMessages')
  BY DEF TimerTypes, TimerSetsKernel, TimerMessages
<1>7. timer_task' \in TimerTasks
  BY <1>21, TaskForms DEF TimerTasks
<1>8. timer_task'.pc # "next" => timer_task'.timer \in 1..started'
  BY <1>21, <1>22, TaskForms DEF TimerTasks
<1>9. poll_pc' \in {"wait", "disarm", "remove_poll", "send"}
  BY DEF TimerTypes, TimerSetsKernel
<1>10. timerfd' \in [at: Times, polled: BOOLEAN]
  <2>1. delegate[timer_task.timer].due \in Times  BY <1>22 DEF TimerTypes
  <2>2. TRUE \in BOOLEAN /\ timerfd \in [at: Times, polled: BOOLEAN]  BY DEF TimerTypes
  <2>3. \/ timerfd' = [timerfd EXCEPT !.polled = TRUE]
        \/ timerfd' = [timerfd EXCEPT !.at = delegate[timer_task.timer].due]
    BY DEF TimerSetsKernel
  <2> QED  BY <2>1, <2>2, <2>3
<1>11. now' \in Times /\ now' # 0
  BY DEF TimerTypes, TimerSetsKernel
<1>12. ended' \in [Delegates -> SUBSET {"stopped", "called"}]
  BY DEF TimerTypes, TimerSetsKernel
<1>13. callbacks' \subseteq [at: Times, due: Times]
  BY DEF TimerTypes, TimerSetsKernel
<1>14. \A e \in 1..started' : delegate'[e].due # 0
  BY DEF TimerTypes, TimerSetsKernel
<1> QED
  BY <1>1, <1>2, <1>3, <1>4, <1>5, <1>6, <1>7, <1>8, <1>9, <1>10, <1>11, <1>12, <1>13, <1>14
  DEF TimerTypes

\* The task reads the client of the delegate that expires.
LEMMA ExpireReadsClient_Types ==
    ASSUME TimerTypes, ExpireReadsClient
    PROVE  TimerTypes'
<1>20. 1..started \subseteq Delegates
  BY LocTimerAssumption DEF TimerTypes, Delegates
<1>1. mTimer' \in [Timers -> Nat]
  BY <1>20 DEF TimerTypes, ExpireReadsClient, TimerMessages, TimerTasks
<1>2. \A u \in Timers : mTimer'[u] # 0 => mTimer'[u] \in 1..started'
  BY <1>20 DEF TimerTypes, ExpireReadsClient, TimerMessages, TimerTasks
<1>3. started' \in 0..MaxDelegates
  BY <1>20 DEF TimerTypes, ExpireReadsClient, TimerMessages, TimerTasks
<1>4. delegate' \in [Delegates -> [mClient: Timers \cup {"NULL"}, due: Times]]
  BY <1>20 DEF TimerTypes, ExpireReadsClient, TimerMessages, TimerTasks
<1>5. heap' \subseteq 1..started'
  BY <1>20 DEF TimerTypes, ExpireReadsClient, TimerMessages, TimerTasks
<1>6. timer_queue' \in Seq(TimerMessages')
  BY <1>20 DEF TimerTypes, ExpireReadsClient, TimerMessages, TimerTasks
<1>7. timer_task' \in TimerTasks
  BY <1>20 DEF TimerTypes, ExpireReadsClient, TimerMessages, TimerTasks
<1>8. timer_task'.pc # "next" => timer_task'.timer \in 1..started'
  BY <1>20 DEF TimerTypes, ExpireReadsClient, TimerMessages, TimerTasks
<1>9. poll_pc' \in {"wait", "disarm", "remove_poll", "send"}
  BY <1>20 DEF TimerTypes, ExpireReadsClient, TimerMessages, TimerTasks
<1>10. timerfd' \in [at: Times, polled: BOOLEAN]
  BY <1>20 DEF TimerTypes, ExpireReadsClient, TimerMessages, TimerTasks
<1>11. now' \in Times /\ now' # 0
  BY <1>20 DEF TimerTypes, ExpireReadsClient, TimerMessages, TimerTasks
<1>12. ended' \in [Delegates -> SUBSET {"stopped", "called"}]
  BY <1>20 DEF TimerTypes, ExpireReadsClient, TimerMessages, TimerTasks
<1>13. callbacks' \subseteq [at: Times, due: Times]
  BY <1>20 DEF TimerTypes, ExpireReadsClient, TimerMessages, TimerTasks
<1>14. \A e \in 1..started' : delegate'[e].due # 0
  BY <1>20 DEF TimerTypes, ExpireReadsClient, TimerMessages, TimerTasks
<1> QED
  BY <1>1, <1>2, <1>3, <1>4, <1>5, <1>6, <1>7, <1>8, <1>9, <1>10, <1>11, <1>12, <1>13, <1>14
  DEF TimerTypes

\* The task stops that client's timer and goes on.
LEMMA ExpireStopsClient_Types ==
    ASSUME TimerTypes, ExpireStopsClient
    PROVE  TimerTypes'
<1> DEFINE c == timer_task.client
           due == {d \in Tops(heap) : Second(delegate[d].due) <= Second(timer_task.now)}
<1>20. /\ timer_task.pc = "stop"
       /\ IF c # "NULL" /\ mTimer[c] # 0
          THEN /\ Stopped(c, "called")
               /\ callbacks' = callbacks \cup {[at |-> now, due |-> delegate[mTimer[c]].due]}
          ELSE UNCHANGED <<mTimer, delegate, timer_queue, ended, callbacks>>
       /\ IF due # {}
          THEN \E d \in due :
                  /\ heap' = heap \ {d}
                  /\ timer_task' = [timer_task EXCEPT !.pc = "expire", !.timer = d]
          ELSE /\ UNCHANGED heap
               /\ \/ heap = {} /\ timer_task' = Idle
                  \/ \E top \in Tops(heap) : timer_task' = Update(top)
       /\ UNCHANGED <<started, poll_pc, timerfd, now>>
  BY DEF ExpireStopsClient
<1>21. 1..started \subseteq Delegates /\ 1..started \subseteq Nat /\ 0 \in Times
  BY LocTimerAssumption DEF TimerTypes, Delegates, Times
<1>22. c \in Timers \cup {"NULL"}  BY DEF TimerTypes, TimerTasks
<1>23. due \subseteq heap  BY DEF Tops
<1> HIDE DEF c, due
<1> DEFINE How == "called"
<1>24. \/ c \in Timers /\ mTimer[c] # 0 /\ How \in {"stopped", "called"} /\ Stopped(c, How)
       \/ UNCHANGED <<mTimer, delegate, timer_queue, ended, callbacks>>
  BY <1>20, <1>22
<1>25. TimerMessages' = TimerMessages  BY <1>20 DEF TimerMessages
<1>26. heap' \subseteq heap  BY <1>20, <1>23
<1>27. \/ timer_task' = Idle
       \/ \E top \in heap : timer_task' = Update(top)
       \/ \E d \in heap : timer_task' = [timer_task EXCEPT !.pc = "expire", !.timer = d]
  BY <1>20, <1>23 DEF Tops
<1> HIDE DEF How
<1>28. timer_task \in TimerTasks  BY DEF TimerTypes
<1>29. \A d \in heap : LET task == [timer_task EXCEPT !.pc = "expire", !.timer = d]
                      IN  task \in TimerTasks /\ task.timer = d
  <2>1. \A d \in heap : d \in Nat  BY <1>21 DEF TimerTypes
  <2> QED  BY <1>28, <2>1 DEF TimerTasks
<1>30. heap \subseteq Nat /\ heap \subseteq 1..started'  BY <1>20, <1>21 DEF TimerTypes
<1>1. mTimer' \in [Timers -> Nat]
  BY <1>20, <1>21, <1>24, <1>25, <1>26, StoppedKeeps DEF TimerTypes
<1>2. \A u \in Timers : mTimer'[u] # 0 => mTimer'[u] \in 1..started'
  BY <1>20, <1>21, <1>24, <1>25, <1>26, StoppedKeeps DEF TimerTypes
<1>3. started' \in 0..MaxDelegates
  BY <1>20, <1>21, <1>24, <1>25, <1>26, StoppedKeeps DEF TimerTypes
<1>4. delegate' \in [Delegates -> [mClient: Timers \cup {"NULL"}, due: Times]]
  BY <1>20, <1>21, <1>24, <1>25, <1>26, StoppedKeeps DEF TimerTypes
<1>5. heap' \subseteq 1..started'
  BY <1>20, <1>21, <1>24, <1>25, <1>26, StoppedKeeps DEF TimerTypes
<1>6. timer_queue' \in Seq(TimerMessages')
  BY <1>20, <1>21, <1>24, <1>25, <1>26, StoppedKeeps DEF TimerTypes
<1>7. timer_task' \in TimerTasks
  BY ZenonT(40), <1>27, <1>29, <1>30, TaskForms
<1>8. timer_task'.pc # "next" => timer_task'.timer \in 1..started'
  <2>1. CASE timer_task' = Idle  BY <2>1, TaskForms
  <2>2. ASSUME NEW d \in heap, timer_task' = Update(d)
        PROVE  timer_task'.timer \in 1..started'
    <3>1. timer_task'.timer = d  BY <2>2, <1>30, TaskForms
    <3> QED  BY <3>1, <1>30
  <2>3. ASSUME NEW d \in heap,
               timer_task' = [timer_task EXCEPT !.pc = "expire", !.timer = d]
        PROVE  timer_task'.timer \in 1..started'
    <3>1. timer_task'.timer = d  BY <2>3, <1>29
    <3> QED  BY <3>1, <1>30
  <2> QED  BY <1>27, <2>1, <2>2, <2>3
<1>9. poll_pc' \in {"wait", "disarm", "remove_poll", "send"}
  BY <1>20, <1>21, <1>24, <1>25, <1>26, StoppedKeeps DEF TimerTypes
<1>10. timerfd' \in [at: Times, polled: BOOLEAN]
  BY <1>20, <1>21, <1>24, <1>25, <1>26, StoppedKeeps DEF TimerTypes
<1>11. now' \in Times /\ now' # 0
  BY <1>20, <1>21, <1>24, <1>25, <1>26, StoppedKeeps DEF TimerTypes
<1>12. ended' \in [Delegates -> SUBSET {"stopped", "called"}]
  BY <1>20, <1>21, <1>24, <1>25, <1>26, StoppedKeeps DEF TimerTypes
<1>13. callbacks' \subseteq [at: Times, due: Times]
  <2>1. \A d \in Delegates : delegate[d].due \in Times  BY DEF TimerTypes
  <2>2. \A t \in Timers : mTimer[t] # 0 => mTimer[t] \in Delegates  BY <1>21 DEF TimerTypes
  <2>3. now \in Times /\ callbacks \subseteq [at: Times, due: Times]  BY DEF TimerTypes
  <2>4. CASE c # "NULL" /\ mTimer[c] # 0
    <3>1. delegate[mTimer[c]].due \in Times  BY <1>22, <2>1, <2>2, <2>4
    <3> DEFINE x == delegate[mTimer[c]].due
    <3>2. callbacks' = callbacks \cup {[at |-> now, due |-> x]}  BY <1>20, <2>4
    <3> HIDE DEF x
    <3> QED  BY <2>3, <3>1, <3>2 DEF x
  <2> QED  BY <1>20, <2>3, <2>4
<1>14. \A e \in 1..started' : delegate'[e].due # 0
  BY <1>20, <1>21, <1>24, <1>25, <1>26, StoppedKeeps DEF TimerTypes
<1> QED
  BY <1>1, <1>2, <1>3, <1>4, <1>5, <1>6, <1>7, <1>8, <1>9, <1>10, <1>11, <1>12, <1>13, <1>14
  DEF TimerTypes

\* The timer fires.
LEMMA PollFires_Types ==
    ASSUME TimerTypes, PollFires
    PROVE  TimerTypes'
<1>1. mTimer' \in [Timers -> Nat]
  BY DEF TimerTypes, PollFires, TimerMessages
<1>2. \A u \in Timers : mTimer'[u] # 0 => mTimer'[u] \in 1..started'
  BY DEF TimerTypes, PollFires, TimerMessages
<1>3. started' \in 0..MaxDelegates
  BY DEF TimerTypes, PollFires, TimerMessages
<1>4. delegate' \in [Delegates -> [mClient: Timers \cup {"NULL"}, due: Times]]
  BY DEF TimerTypes, PollFires, TimerMessages
<1>5. heap' \subseteq 1..started'
  BY DEF TimerTypes, PollFires, TimerMessages
<1>6. timer_queue' \in Seq(TimerMessages')
  BY DEF TimerTypes, PollFires, TimerMessages
<1>7. timer_task' \in TimerTasks
  BY DEF TimerTypes, PollFires, TimerMessages
<1>8. timer_task'.pc # "next" => timer_task'.timer \in 1..started'
  BY DEF TimerTypes, PollFires, TimerMessages
<1>9. poll_pc' \in {"wait", "disarm", "remove_poll", "send"}
  BY DEF TimerTypes, PollFires, TimerMessages
<1>10. timerfd' \in [at: Times, polled: BOOLEAN]
  BY DEF TimerTypes, PollFires, TimerMessages
<1>11. now' \in Times /\ now' # 0
  BY DEF TimerTypes, PollFires, TimerMessages
<1>12. ended' \in [Delegates -> SUBSET {"stopped", "called"}]
  BY DEF TimerTypes, PollFires, TimerMessages
<1>13. callbacks' \subseteq [at: Times, due: Times]
  BY DEF TimerTypes, PollFires, TimerMessages
<1>14. \A e \in 1..started' : delegate'[e].due # 0
  BY DEF TimerTypes, PollFires, TimerMessages
<1> QED
  BY <1>1, <1>2, <1>3, <1>4, <1>5, <1>6, <1>7, <1>8, <1>9, <1>10, <1>11, <1>12, <1>13, <1>14
  DEF TimerTypes

\* The polling thread goes on.
LEMMA PollExpires_Types ==
    ASSUME TimerTypes, PollExpires
    PROVE  TimerTypes'
<1>20. 0 \in Times /\ [type |-> "Expire"] \in TimerMessages
  BY LocTimerAssumption DEF Times, TimerMessages
<1>1. mTimer' \in [Timers -> Nat]
  BY <1>20 DEF TimerTypes, PollExpires, TimerMessages
<1>2. \A u \in Timers : mTimer'[u] # 0 => mTimer'[u] \in 1..started'
  BY <1>20 DEF TimerTypes, PollExpires, TimerMessages
<1>3. started' \in 0..MaxDelegates
  BY <1>20 DEF TimerTypes, PollExpires, TimerMessages
<1>4. delegate' \in [Delegates -> [mClient: Timers \cup {"NULL"}, due: Times]]
  BY <1>20 DEF TimerTypes, PollExpires, TimerMessages
<1>5. heap' \subseteq 1..started'
  BY <1>20 DEF TimerTypes, PollExpires, TimerMessages
<1>6. timer_queue' \in Seq(TimerMessages')
  <2>1. timer_queue \in Seq(TimerMessages)  BY DEF TimerTypes
  <2>2. timer_queue' = timer_queue \/ timer_queue' = Append(timer_queue, [type |-> "Expire"])
    BY DEF PollExpires
  <2>3. TimerMessages' = TimerMessages  BY DEF PollExpires, TimerMessages
  <2> QED  BY <1>20, <2>1, <2>2, <2>3, TimerAppend
<1>7. timer_task' \in TimerTasks
  BY <1>20 DEF TimerTypes, PollExpires, TimerMessages
<1>8. timer_task'.pc # "next" => timer_task'.timer \in 1..started'
  BY <1>20 DEF TimerTypes, PollExpires, TimerMessages
<1>9. poll_pc' \in {"wait", "disarm", "remove_poll", "send"}
  BY <1>20 DEF TimerTypes, PollExpires, TimerMessages
<1>10. timerfd' \in [at: Times, polled: BOOLEAN]
  BY <1>20 DEF TimerTypes, PollExpires, TimerMessages
<1>11. now' \in Times /\ now' # 0
  BY <1>20 DEF TimerTypes, PollExpires, TimerMessages
<1>12. ended' \in [Delegates -> SUBSET {"stopped", "called"}]
  BY <1>20 DEF TimerTypes, PollExpires, TimerMessages
<1>13. callbacks' \subseteq [at: Times, due: Times]
  BY <1>20 DEF TimerTypes, PollExpires, TimerMessages
<1>14. \A e \in 1..started' : delegate'[e].due # 0
  BY <1>20 DEF TimerTypes, PollExpires, TimerMessages
<1> QED
  BY <1>1, <1>2, <1>3, <1>4, <1>5, <1>6, <1>7, <1>8, <1>9, <1>10, <1>11, <1>12, <1>13, <1>14
  DEF TimerTypes

\* Time passes.
LEMMA Tick_Types ==
    ASSUME TimerTypes, Tick
    PROVE  TimerTypes'
<1>1. mTimer' \in [Timers -> Nat]
  BY DEF TimerTypes, Tick, TimerMessages
<1>2. \A u \in Timers : mTimer'[u] # 0 => mTimer'[u] \in 1..started'
  BY DEF TimerTypes, Tick, TimerMessages
<1>3. started' \in 0..MaxDelegates
  BY DEF TimerTypes, Tick, TimerMessages
<1>4. delegate' \in [Delegates -> [mClient: Timers \cup {"NULL"}, due: Times]]
  BY DEF TimerTypes, Tick, TimerMessages
<1>5. heap' \subseteq 1..started'
  BY DEF TimerTypes, Tick, TimerMessages
<1>6. timer_queue' \in Seq(TimerMessages')
  BY DEF TimerTypes, Tick, TimerMessages
<1>7. timer_task' \in TimerTasks
  BY DEF TimerTypes, Tick, TimerMessages
<1>8. timer_task'.pc # "next" => timer_task'.timer \in 1..started'
  BY DEF TimerTypes, Tick, TimerMessages
<1>9. poll_pc' \in {"wait", "disarm", "remove_poll", "send"}
  BY DEF TimerTypes, Tick, TimerMessages
<1>10. timerfd' \in [at: Times, polled: BOOLEAN]
  BY DEF TimerTypes, Tick, TimerMessages
<1>11. now' \in Times /\ now' # 0
  BY LocTimerAssumption DEF TimerTypes, Tick, Times
<1>12. ended' \in [Delegates -> SUBSET {"stopped", "called"}]
  BY DEF TimerTypes, Tick, TimerMessages
<1>13. callbacks' \subseteq [at: Times, due: Times]
  BY DEF TimerTypes, Tick, TimerMessages
<1>14. \A e \in 1..started' : delegate'[e].due # 0
  BY DEF TimerTypes, Tick, TimerMessages
<1> QED
  BY <1>1, <1>2, <1>3, <1>4, <1>5, <1>6, <1>7, <1>8, <1>9, <1>10, <1>11, <1>12, <1>13, <1>14
  DEF TimerTypes

-----------------------------------------------------------------------------
(* Who sees to the soonest delegate, action by action.                     *)

\* The points in time are numbers, and so are their seconds.
LEMMA SecondsOfHeap ==
    ASSUME TimerTypes
    PROVE  /\ heap \subseteq Delegates
           /\ \A d \in Delegates : delegate[d].due \in Nat /\ Second(delegate[d].due) \in Nat
           /\ timerfd.at \in Nat /\ Second(timerfd.at) \in Nat
<1>1. Times \subseteq Nat  BY LocTimerAssumption DEF Times
<1>2. 1..started \subseteq Delegates  BY LocTimerAssumption DEF TimerTypes, Delegates
<1>3. heap \subseteq Delegates  BY <1>2 DEF TimerTypes
<1>4. \A d \in Delegates : delegate[d].due \in Nat  BY <1>1 DEF TimerTypes
<1>5. timerfd.at \in Nat  BY <1>1 DEF TimerTypes
<1> QED  BY <1>3, <1>4, <1>5, SecondIsNat

\* What has been found for the heap holds of what is left of it.
LEMMA LessInHeap ==
    ASSUME TimerTypes, NEW t \in Nat, NotLater(t), heap' \subseteq heap,
           \A d \in heap : delegate'[d].due = delegate[d].due
    PROVE  NotLater(t)'
BY DEF NotLater, Second

\* A start leaves the heap alone, and the times of the delegates in it.
LEMMA StartTimer_Seen ==
    ASSUME TimerTypes, TaskTop, SoonestSeenTo, NEW t \in Timers, NEW delay \in Delays,
           StartTimer(t, delay)
    PROVE  TaskTop' /\ SoonestSeenTo'
<1> DEFINE m == [type |-> "Push", timer |-> started + 1]
<1>1. /\ UNCHANGED <<heap, timer_task, poll_pc, timerfd>>
      /\ timer_queue' = Append(timer_queue, m)
      /\ delegate' = [delegate EXCEPT ![started + 1] = [mClient |-> t, due |-> now + delay]]
  BY DEF StartTimer
<1>2. started + 1 \notin 1..started /\ 1..started \subseteq Delegates
  BY LocTimerAssumption DEF TimerTypes, Delegates
<1>3. \A d \in 1..started : delegate'[d] = delegate[d]  BY <1>1, <1>2 DEF TimerTypes
<1>4. ExpireQueued => ExpireQueued'
  <2>1. /\ started \in Nat /\ started' \in Nat /\ started <= started'
        /\ m.timer \in 1..started' /\ m.type = "Push"
    BY LocTimerAssumption DEF StartTimer, TimerTypes
  <2>2. TimerMessages \subseteq TimerMessages' /\ m \in TimerMessages'
    BY <2>1, MoreStarted DEF TimerMessages
  <2>3. timer_queue \in Seq(TimerMessages')  BY <2>2 DEF TimerTypes
  <2> HIDE DEF m
  <2> QED  BY <1>1, <2>2, <2>3, TimerAppend DEF ExpireQueued
<1>5. \A d \in heap : delegate'[d] = delegate[d]  BY <1>3 DEF TimerTypes
<1>6. KernelSet => KernelSet'  BY <1>1, <1>5 DEF KernelSet, NotLater, Second
<1>7. timer_task.pc # "next" => delegate'[timer_task.timer] = delegate[timer_task.timer]
  BY <1>3 DEF TimerTypes
<1>8. TaskTop'  BY <1>1, <1>5, <1>7 DEF TaskTop, NotLater, Second
<1> QED  BY <1>1, <1>4, <1>6, <1>8 DEF SoonestSeenTo, TaskWillSet

\* A stop leaves the heap to the task.
LEMMA StopTimer_Seen ==
    ASSUME TimerTypes, TaskTop, SoonestSeenTo, NEW t \in Timers, StopTimer(t)
    PROVE  TaskTop' /\ SoonestSeenTo'
<1>1. /\ UNCHANGED <<started, heap, timer_task, poll_pc, timerfd>>
      /\ mTimer[t] # 0 /\ Stopped(t, "stopped")
  BY DEF StopTimer
<1> DEFINE How == "stopped"
<1>2. How \in {"stopped", "called"} /\ Stopped(t, How)  BY <1>1
<1> HIDE DEF How
<1>3. /\ \A d \in Delegates : delegate'[d].due = delegate[d].due
      /\ ExpireQueued => ExpireQueued'
  BY <1>1, <1>2, StoppedKeeps
<1>4. heap \subseteq Delegates /\ 1..started \subseteq Delegates
  BY SecondsOfHeap, LocTimerAssumption DEF TimerTypes, Delegates
<1>5. KernelSet => KernelSet'  BY <1>1, <1>3, <1>4 DEF KernelSet, NotLater, Second
<1>6. timer_task.pc # "next" =>
          delegate'[timer_task.timer].due = delegate[timer_task.timer].due
  BY <1>3, <1>4 DEF TimerTypes
<1>7. TaskTop'  BY <1>1, <1>3, <1>4, <1>6 DEF TaskTop, NotLater, Second
<1> QED  BY <1>1, <1>3, <1>5, <1>7 DEF SoonestSeenTo, TaskWillSet

\* A message that is handled leaves the kernel's timer right, or the task with a new top
\* to set it for, or with a delegate that expires.
LEMMA TimerHandle_Seen ==
    ASSUME TimerTypes, TaskTop, SoonestSeenTo, TimerHandle
    PROVE  TaskTop' /\ SoonestSeenTo'
<1> DEFINE m == Head(timer_queue)
<1>1. /\ timer_task.pc = "next"
      /\ timer_queue # << >> /\ timer_queue' = Tail(timer_queue)
      /\ \/ m.type = "Push" /\ HandlePush(m.timer)
         \/ m.type = "Remove" /\ HandleRemove(m.timer)
         \/ m.type = "Expire" /\ HandleExpire
      /\ UNCHANGED <<poll_pc, timerfd, started>>
  BY DEF TimerHandle
<1>2. m \in TimerMessages  BY <1>1, TimerTail DEF TimerTypes
<1>3. delegate' = delegate  BY <1>1 DEF HandlePush, HandleRemove, HandleExpire
<1>4. m.type # "Expire" => (ExpireQueued => ExpireQueued')
  <2>1. SUFFICES ASSUME m.type # "Expire", NEW i \in DOMAIN timer_queue,
                        timer_queue[i].type = "Expire"
                 PROVE  ExpireQueued'
    BY DEF ExpireQueued
  <2>2. i # 1 /\ timer_queue \in Seq(TimerMessages)  BY <1>1, <2>1 DEF TimerTypes
  <2>3. i - 1 \in DOMAIN Tail(timer_queue) /\ Tail(timer_queue)[i - 1] = timer_queue[i]
    BY <1>1, <2>2, TimerTail
  <2> QED  BY <1>1, <2>1, <2>3 DEF ExpireQueued
<1> HIDE DEF m
<1>5. \A d \in Nat : NotLater(delegate[d].due)' /\ timer_task' = Update(d)
          => TaskTop' /\ TaskWillSet'
  <2>1. SUFFICES ASSUME NEW d \in Nat, NotLater(delegate[d].due)', timer_task' = Update(d)
                 PROVE  TaskTop' /\ TaskWillSet'
    OBVIOUS
  <2>2. timer_task'.pc = "add_poll" /\ timer_task'.timer = d  BY <2>1, TaskForms
  <2> QED  BY <2>1, <2>2 DEF TaskTop, TaskWillSet
<1>6. heap \subseteq Nat  BY SecondsOfHeap DEF Delegates
<1>7. CASE m.type = "Push" /\ HandlePush(m.timer)
  <2>0. m.timer \in Delegates /\ m.timer \in Nat
    BY <1>2, <1>7, LocTimerAssumption DEF TimerMessages, Delegates, TimerTypes
  <2>2. PICK d \in Delegates : d = m.timer /\ d \in Nat  BY <2>0
  <2> DEFINE soonest == \A e \in heap : Second(delegate[d].due) < Second(delegate[e].due)
  <2>1. /\ heap' = heap \cup {d}
        /\ timer_task' = IF soonest THEN Update(d) ELSE Idle
    BY <1>7, <2>2 DEF HandlePush
  <2>5. \A e \in heap \cup {d} : Second(delegate[e].due) \in Nat
    BY <2>2, SecondsOfHeap
  <2>3. CASE soonest
    <3>1. NotLater(delegate[d].due)'
      <4>1. \A e \in heap \cup {d} : Second(delegate[d].due) <= Second(delegate[e].due)
        BY <2>3, <2>5
      <4> QED  BY <1>3, <2>1, <4>1 DEF NotLater, Second
    <3>2. TaskTop' /\ TaskWillSet'  BY <1>5, <2>1, <2>2, <2>3, <3>1
    <3> QED  BY <3>2 DEF SoonestSeenTo
  <2>4. CASE ~soonest
    <3>1. PICK e \in heap : ~(Second(delegate[d].due) < Second(delegate[e].due))  BY <2>4
    <3>2. Second(delegate[e].due) <= Second(delegate[d].due)
      BY <2>5, <3>1
    <3>3. KernelSet => KernelSet'
      <4>1. SUFFICES ASSUME KernelSet PROVE NotLater(timerfd.at)'  BY <1>1 DEF KernelSet
      <4>2. \A f \in heap : Second(timerfd.at) <= Second(delegate[f].due)
        BY <4>1 DEF KernelSet, NotLater
      <4>3. Second(timerfd.at) <= Second(delegate[d].due)
        BY <2>5, <3>1, <3>2, <4>2, SecondsOfHeap
      <4>4. Second(timerfd.at)' = Second(timerfd.at)  BY <1>1 DEF Second
      <4> QED  BY <1>1, <1>3, <2>1, <4>2, <4>3 DEF NotLater, Second
    <3>4. timer_task' = Idle /\ timer_task'.pc = "next"  BY <2>1, <2>4, TaskForms
    <3> QED  BY <1>1, <1>4, <1>7, <3>1, <3>3, <3>4 DEF SoonestSeenTo, TaskWillSet, TaskTop
  <2> QED  BY <2>3, <2>4
<1>8. CASE m.type = "Remove" /\ HandleRemove(m.timer)
  <2>1. heap' \subseteq heap  BY <1>8 DEF HandleRemove
  <2>2. KernelSet => KernelSet'
    BY <1>1, <1>3, <2>1 DEF KernelSet, NotLater, Second
  <2>3. CASE timer_task' = Idle
    BY <1>1, <1>4, <1>8, <2>1, <2>2, <2>3, TaskForms DEF SoonestSeenTo, TaskWillSet, TaskTop
  <2>4. ASSUME NEW top \in Tops(heap'), timer_task' = Update(top)
        PROVE  TaskTop' /\ SoonestSeenTo'
    <3>1. /\ top \in heap'
          /\ \A e \in heap' : Second(delegate[top].due) <= Second(delegate[e].due)
      BY TopIsSoonest
    <3>2. NotLater(delegate[top].due)'  BY <1>3, <3>1 DEF NotLater, Second
    <3>3. TaskTop' /\ TaskWillSet'  BY <1>5, <1>6, <2>1, <2>4, <3>1, <3>2
    <3> QED  BY <3>3 DEF SoonestSeenTo
  <2> QED  BY <1>8, <2>3, <2>4 DEF HandleRemove
<1>9. CASE m.type = "Expire" /\ HandleExpire
  BY <1>9, TaskForms DEF HandleExpire, SoonestSeenTo, TaskTop
<1> QED  BY <1>1, <1>7, <1>8, <1>9

\* The poll comes first, the time after it; then the timer is set for the top, unless the
\* polling thread has meanwhile begun to take it apart.
LEMMA TimerSetsKernel_Seen ==
    ASSUME TimerTypes, TaskTop, SoonestSeenTo, TimerSetsKernel
    PROVE  TaskTop' /\ SoonestSeenTo'
<1>1. UNCHANGED <<delegate, heap, timer_queue, poll_pc>>  BY DEF TimerSetsKernel
<1>2. ExpireQueued' = ExpireQueued  BY <1>1 DEF ExpireQueued
<1>3. timer_task \in TimerTasks /\ timerfd \in [at: Times, polled: BOOLEAN]  BY DEF TimerTypes
<1>4. CASE timer_task.pc = "add_poll"
  <2>1. timerfd'.polled  BY <1>3, <1>4 DEF TimerSetsKernel
  <2>2. timer_task'.pc = "set_time" /\ timer_task'.timer = timer_task.timer
    BY <1>3, <1>4 DEF TimerSetsKernel, TimerTasks
  <2>3. TaskTop'  BY <1>1, <1>4, <2>2 DEF TaskTop, NotLater, Second
  <2> QED  BY <2>1, <2>2, <2>3 DEF SoonestSeenTo, TaskWillSet
<1>5. CASE timer_task.pc = "set_time"
  <2>1. PICK d \in Nat : d = timer_task.timer  BY <1>3 DEF TimerTasks
  <2>2. timerfd'.at = delegate[d].due /\ timerfd'.polled = timerfd.polled
    BY <1>3, <1>5, <2>1 DEF TimerSetsKernel
  <2>3. delegate[d].due # 0  BY <1>5, <2>1 DEF TimerTypes
  <2>4. timer_task'.pc = "next"  BY <1>5, TaskForms DEF TimerSetsKernel
  <2>5. NotLater(timerfd.at)'
    BY <1>1, <1>5, <2>1, <2>2 DEF TaskTop, NotLater, Second
  <2>6. timerfd.polled => KernelSet'  BY <2>2, <2>3, <2>5 DEF KernelSet
  <2> QED  BY <1>1, <1>2, <1>5, <2>4, <2>6 DEF SoonestSeenTo, TaskWillSet, TaskTop
<1> QED  BY <1>4, <1>5 DEF TimerSetsKernel

\* A delegate that expires is out of the heap; what is left waits for the task.
LEMMA ExpireReadsClient_Seen ==
    ASSUME TimerTypes, TaskTop, SoonestSeenTo, ExpireReadsClient
    PROVE  TaskTop' /\ SoonestSeenTo'
<1>1. timer_task'.pc = "stop"  BY DEF ExpireReadsClient, TimerTypes, TimerTasks
<1> QED  BY <1>1 DEF SoonestSeenTo, TaskTop

\* When nothing is due any more the task has a new top, or the heap is empty.
LEMMA ExpireStopsClient_Seen ==
    ASSUME TimerTypes, TaskTop, SoonestSeenTo, ExpireStopsClient
    PROVE  TaskTop' /\ SoonestSeenTo'
<1> DEFINE due == {d \in Tops(heap) : Second(delegate[d].due) <= Second(timer_task.now)}
<1>1. \/ \E d \in due : timer_task' = [timer_task EXCEPT !.pc = "expire", !.timer = d]
      \/ heap' = {} /\ timer_task' = Idle
      \/ UNCHANGED heap /\ \E top \in Tops(heap) : timer_task' = Update(top)
  BY DEF ExpireStopsClient
<1>2. timer_task \in TimerTasks  BY DEF TimerTypes
<1>3. CASE \E d \in due : timer_task' = [timer_task EXCEPT !.pc = "expire", !.timer = d]
  <2>1. timer_task'.pc = "expire"  BY <1>2, <1>3 DEF TimerTasks
  <2> QED  BY <2>1 DEF SoonestSeenTo, TaskTop
<1>4. CASE heap' = {} /\ timer_task' = Idle
  BY <1>4, TaskForms DEF SoonestSeenTo, TaskTop
<1>5. ASSUME UNCHANGED heap, NEW top \in Tops(heap), timer_task' = Update(top)
      PROVE  TaskTop' /\ SoonestSeenTo'
  <2>1. /\ top \in heap
        /\ \A e \in heap : Second(delegate[top].due) <= Second(delegate[e].due)
    BY TopIsSoonest
  <2>2. heap \subseteq Delegates /\ heap \subseteq Nat  BY SecondsOfHeap DEF Delegates
  <2>3. timer_task'.pc = "add_poll" /\ timer_task'.timer = top
    BY <1>5, <2>1, <2>2, TaskForms
  <2>4. \A d \in Delegates : delegate'[d].due = delegate[d].due
    <3> DEFINE c == timer_task.client
               How == "called"
    <3>1. \/ c # "NULL" /\ mTimer[c] # 0 /\ Stopped(c, How)
          \/ delegate' = delegate
      BY DEF ExpireStopsClient
    <3>2. c \in Timers \cup {"NULL"} /\ How \in {"stopped", "called"} /\ started' = started
      BY <1>2 DEF TimerTasks, ExpireStopsClient
    <3> HIDE DEF c, How
    <3> QED  BY <3>1, <3>2, StoppedKeeps
  <2>5. NotLater(delegate[top].due)'  BY <1>5, <2>1, <2>2, <2>4 DEF NotLater, Second
  <2> QED  BY <2>3, <2>5 DEF TaskTop, SoonestSeenTo, TaskWillSet
<1> QED  BY <1>1, <1>3, <1>4, <1>5

\* The timer fires only for the polling thread to take over.
LEMMA PollFires_Seen ==
    ASSUME TimerTypes, TaskTop, SoonestSeenTo, PollFires
    PROVE  TaskTop' /\ SoonestSeenTo'
BY DEF PollFires, TaskTop, SoonestSeenTo, NotLater, Second

\* The polling thread gives up the heap only to a message for the task.
LEMMA PollExpires_Seen ==
    ASSUME TimerTypes, TaskTop, SoonestSeenTo, PollExpires
    PROVE  TaskTop' /\ SoonestSeenTo'
<1>1. UNCHANGED <<delegate, heap, timer_task>>  BY DEF PollExpires
<1>2. TaskTop'  BY <1>1 DEF TaskTop, NotLater, Second
<1>3. CASE poll_pc' # "wait"  BY <1>2, <1>3 DEF SoonestSeenTo
<1>4. CASE poll_pc' = "wait"
  <2>1. timer_queue' = Append(timer_queue, [type |-> "Expire"])
    BY <1>4 DEF PollExpires
  <2>2. timer_queue \in Seq(TimerMessages) /\ [type |-> "Expire"] \in TimerMessages
    BY DEF TimerTypes, TimerMessages
  <2>3. Len(timer_queue) + 1 \in DOMAIN timer_queue'
        /\ timer_queue'[Len(timer_queue) + 1] = [type |-> "Expire"]
    BY <2>1, <2>2, TimerAppend
  <2>4. ExpireQueued'  BY <2>3 DEF ExpireQueued
  <2> QED  BY <1>2, <2>4 DEF SoonestSeenTo
<1> QED  BY <1>3, <1>4

-----------------------------------------------------------------------------

\* The time begins without a delegate.
LEMMA TimerInit_Inv == TimerInit => TimerInv
<1> SUFFICES ASSUME TimerInit PROVE TimerInv  OBVIOUS
<1>1. 0 \in Times /\ 0 \in 0..MaxDelegates  BY LocTimerAssumption DEF Times
<1>2. 1..0 = {} /\ << >> \in Seq(TimerMessages)  OBVIOUS
<1>3. FALSE \in BOOLEAN  OBVIOUS
<1>4. TimerTypes
  <2>1. /\ mTimer \in [Timers -> Nat]
        /\ \A t \in Timers : mTimer[t] # 0 => mTimer[t] \in 1..started
        /\ started \in 0..MaxDelegates
    BY <1>1 DEF TimerInit
  <2>2. delegate \in [Delegates -> [mClient: Timers \cup {"NULL"}, due: Times]]
    BY <1>1 DEF TimerInit
  <2>3. heap \subseteq 1..started /\ timer_queue \in Seq(TimerMessages)
    BY <1>2 DEF TimerInit
  <2>4. timer_task \in TimerTasks /\ timer_task.pc = "next"
    BY TaskForms DEF TimerInit
  <2>5. poll_pc \in {"wait", "disarm", "remove_poll", "send"}  BY DEF TimerInit
  <2>6. timerfd \in [at: Times, polled: BOOLEAN]  BY <1>1, <1>3 DEF TimerInit
  <2>7. now \in Times /\ now # 0  BY LocTimerAssumption DEF TimerInit, Times
  <2>8. ended \in [Delegates -> SUBSET {"stopped", "called"}]  BY DEF TimerInit
  <2>9. callbacks \subseteq [at: Times, due: Times]  BY DEF TimerInit
  <2>10. \A d \in 1..started : delegate[d].due # 0  BY <1>2 DEF TimerInit
  <2> QED  BY <2>1, <2>2, <2>3, <2>4, <2>5, <2>6, <2>7, <2>8, <2>9, <2>10 DEF TimerTypes
<1>5. TaskTop /\ SoonestSeenTo  BY TaskForms DEF TimerInit, TaskTop, SoonestSeenTo
<1> QED  BY <1>4, <1>5 DEF TimerInv

\* Every step keeps the invariant.
LEMMA TimerNext_Inv == TimerInv /\ [TimerNext]_timerVars => TimerInv'
<1> SUFFICES ASSUME TimerTypes, TaskTop, SoonestSeenTo, [TimerNext]_timerVars
             PROVE  TimerTypes' /\ TaskTop' /\ SoonestSeenTo'
  BY DEF TimerInv
<1>1. ASSUME NEW t \in Timers, StopTimer(t)
      PROVE  TimerTypes' /\ TaskTop' /\ SoonestSeenTo'
  BY <1>1, StopTimer_Types, StopTimer_Seen
<1>2. ASSUME NEW t \in Timers, NEW delay \in Delays, StartTimer(t, delay)
      PROVE  TimerTypes' /\ TaskTop' /\ SoonestSeenTo'
  BY <1>2, StartTimer_Types, StartTimer_Seen
<1>3. CASE TimerHandle  BY <1>3, TimerHandle_Types, TimerHandle_Seen
<1>4. CASE TimerSetsKernel  BY <1>4, TimerSetsKernel_Types, TimerSetsKernel_Seen
<1>5. CASE ExpireReadsClient  BY <1>5, ExpireReadsClient_Types, ExpireReadsClient_Seen
<1>6. CASE ExpireStopsClient  BY <1>6, ExpireStopsClient_Types, ExpireStopsClient_Seen
<1>7. CASE PollFires  BY <1>7, PollFires_Types, PollFires_Seen
<1>8. CASE PollExpires  BY <1>8, PollExpires_Types, PollExpires_Seen
<1>9. CASE Tick
  <2>1. TaskTop' /\ SoonestSeenTo'
    BY <1>9 DEF Tick, TaskTop, SoonestSeenTo, TaskWillSet, KernelSet, ExpireQueued, NotLater,
                Second
  <2> QED  BY <1>9, <2>1, Tick_Types
<1>10. CASE UNCHANGED timerVars
  <2>1. TimerTypes'  BY <1>10 DEF timerVars, TimerTypes, TimerMessages
  <2>2. TaskTop' /\ SoonestSeenTo'
    BY <1>10 DEF timerVars, TaskTop, SoonestSeenTo, TaskWillSet, KernelSet, ExpireQueued,
                 NotLater, Second
  <2> QED  BY <2>1, <2>2
<1> QED  BY <1>1, <1>2, <1>3, <1>4, <1>5, <1>6, <1>7, <1>8, <1>9, <1>10
         DEF TimerNext, TimerTaskStep

\* Of the timers: the types, what the task is about to set, and who sees to the soonest
\* delegate, for any number of timers, delegates and any delays.
THEOREM TimerInvariant == TimerSpec => []TimerInv
<1> QED  BY TimerInit_Inv, TimerNext_Inv, PTL DEF TimerSpec

\* With nothing under way the kernel's timer is set for the second of the soonest delegate
\* (updateSoonestTime), however starts, stops and expiries crossed.
THEOREM TimerCorrect == TimerSpec => []KernelSetForSoonest
<1>1. TimerInv => KernelSetForSoonest
  BY DEF TimerInv, SoonestSeenTo, TaskWillSet, KernelSet, ExpireQueued, NotLater,
         KernelSetForSoonest
<1> QED  BY <1>1, TimerInvariant, PTL

-----------------------------------------------------------------------------
(***************************************************************************)
(* Data connections.  While no request has been made before the answer to  *)
(* the last one was handled, each interface has at most one request or one *)
(* answer under way, but for a connection that is lost behind the answer   *)
(* that granted it.  From what is under way and from the network follows   *)
(* what the interface believes.                                            *)
(***************************************************************************)

\* A sequence, of whatever elements.
IsSeq(q) == \E S : q \in Seq(S)

Asking == {"RequestATL", "RequestSuplEs", "ReleaseATL", "RequestWifi", "ReleaseWifi", "EngineUp"}
NoAnswers(q) == \A i \in DOMAIN q : q[i].type \in Asking

\* Each message is a request or an answer for some interface.
Messages(q) ==
    /\ IsSeq(q)
    /\ \A i \in DOMAIN q : \/ q[i].type \in Asking
                           \/ q[i].type \in Events /\ q[i].nif \in Nifs

\* An answer e of the framework for interface n is in the queue.
Has(q, n, e) == \E i \in DOMAIN q : q[i].type = e /\ q[i].nif = n
Quiet(q, n) == \A e \in Events : ~Has(q, n, e)

\* Of two answers the first grants the connection and the second takes it away.
InOrder(q, n) ==
    \A i, j \in DOMAIN q :
        i < j /\ q[i].type \in Events /\ q[j].type \in Events
              /\ q[i].nif = n /\ q[j].nif = n
            => q[i].type = "GRANTED" /\ q[j].type = "RELEASED"

\* What interface n believes, s, fits what it was promised, w, and the answers in q.
Fits(s, w, q, n) ==
    /\ InOrder(q, n)
    /\ w.todo # << >> =>
           /\ Quiet(q, n)
           /\ \/ w.todo = <<"REQUEST">> /\ s = "PENDING" /\ ~w.up
              \/ w.todo = <<"RELEASE">> /\ s # "ACQUIRED"
    /\ Has(q, n, "DENIED") => ~w.up /\ s # "ACQUIRED"
    /\ Has(q, n, "RELEASED") => ~w.up
    /\ Has(q, n, "GRANTED") => s = "PENDING" /\ (~Has(q, n, "RELEASED") => w.up)
    /\ Quiet(q, n) /\ w.todo = << >> => (s = "ACQUIRED" <=> w.up)

AgpsTypes ==
    /\ mState \in [Nifs -> States]
    /\ network \in [Nifs -> [todo: Seq({"REQUEST", "RELEASE"}), up: BOOLEAN]]
    /\ Messages(agps_queue)
    /\ mSubscribers = [n \in Nifs |-> mSubscribers[n]]
    /\ \A n \in Nifs : IsSeq(mSubscribers[n])
    /\ overlap \in BOOLEAN

NifsFit ==
    overlap \/ \A n \in Nifs : Fits(mState[n], network[n], agps_queue, n)

AgpsInv == AgpsTypes /\ via \in Routes /\ NifsFit

-----------------------------------------------------------------------------
(* Lemmas about queues and what they hold.                                 *)

\* The same answers for n are in both queues, and in order.
SameAnswers(q, q2, n) ==
    /\ \A e \in Events : Has(q2, n, e) <=> Has(q, n, e)
    /\ InOrder(q, n) => InOrder(q2, n)

\* Putting what is no answer behind a queue.
LEMMA AnswersConcat ==
    ASSUME NEW q, NEW x, IsSeq(q), IsSeq(x), NoAnswers(x), NEW n
    PROVE  IsSeq(q \o x) /\ SameAnswers(q, q \o x, n)
<1>1. PICK S : q \in Seq(S)  BY DEF IsSeq
<1>2. PICK T : x \in Seq(T)  BY DEF IsSeq
<1>3. q \in Seq(S \cup T) /\ x \in Seq(S \cup T)  BY <1>1, <1>2
<1> DEFINE r == q \o x
<1>4. /\ r \in Seq(S \cup T)
      /\ DOMAIN r = 1..(Len(q) + Len(x)) /\ DOMAIN q = 1..Len(q) /\ DOMAIN x = 1..Len(x)
      /\ Len(q) \in Nat /\ Len(x) \in Nat
      /\ \A i \in DOMAIN q : r[i] = q[i]
      /\ \A i \in DOMAIN r : i \notin DOMAIN q => i - Len(q) \in DOMAIN x
                                                  /\ r[i] = x[i - Len(q)]
  BY <1>3
<1> HIDE DEF r
<1>5. \A i \in DOMAIN r : r[i].type \in Events => i \in DOMAIN q /\ r[i] = q[i]
  BY <1>4 DEF NoAnswers, Asking, Events
<1>6. DOMAIN q \subseteq DOMAIN r  BY <1>4
<1>7. \A e \in Events : Has(r, n, e) <=> Has(q, n, e)  BY <1>4, <1>5, <1>6 DEF Has
<1>8. InOrder(q, n) => InOrder(r, n)  BY <1>5 DEF InOrder
<1>9. IsSeq(r)  BY <1>4 DEF IsSeq
<1> QED  BY <1>7, <1>8, <1>9 DEF SameAnswers, r

\* Nothing, and one message, as sequences.
LEMMA ShortQueues ==
    /\ IsSeq(<< >>) /\ NoAnswers(<< >>)
    /\ \A m : m.type \in Asking => IsSeq(<<m>>) /\ NoAnswers(<<m>>)
    /\ \A q : IsSeq(q) => q \o << >> = q /\ \A m : Append(q, m) = q \o <<m>>
<1>1. << >> \in Seq({})  OBVIOUS
<1>2. \A m : <<m>> \in Seq({m}) /\ \A i \in DOMAIN <<m>> : <<m>>[i] = m  OBVIOUS
<1>3. ASSUME NEW q, IsSeq(q)
      PROVE  q \o << >> = q /\ \A m : Append(q, m) = q \o <<m>>
  <2>1. PICK S : q \in Seq(S)  BY <1>3 DEF IsSeq
  <2>2. q \o << >> = q  BY <2>1
  <2>3. ASSUME NEW m PROVE Append(q, m) = q \o <<m>>
    <3>1. q \in Seq(S \cup {m}) /\ m \in S \cup {m}  BY <2>1
    <3> QED  BY <3>1
  <2> QED  BY <2>2, <2>3
<1>4. IsSeq(<< >>) /\ NoAnswers(<< >>)  BY <1>1 DEF IsSeq, NoAnswers
<1>5. ASSUME NEW m, m.type \in Asking
      PROVE  IsSeq(<<m>>) /\ NoAnswers(<<m>>)
  <2>1. IsSeq(<<m>>)  BY <1>2 DEF IsSeq
  <2>2. NoAnswers(<<m>>)  BY <1>2, <1>5 DEF NoAnswers
  <2> QED  BY <2>1, <2>2
<1> QED  BY <1>3, <1>4, <1>5

\* Taking a message that is no answer for n.
LEMMA AnswersTail ==
    ASSUME NEW q, IsSeq(q), q # << >>, NEW n,
           ~(Head(q).type \in Events /\ Head(q).nif = n)
    PROVE  SameAnswers(q, Tail(q), n)
<1>1. PICK S : q \in Seq(S)  BY DEF IsSeq
<1> DEFINE r == Tail(q)
<1>2. /\ r \in Seq(S) /\ DOMAIN q = 1..Len(q) /\ DOMAIN r = 1..(Len(q) - 1)
      /\ Len(q) \in Nat /\ Len(q) > 0
      /\ \A i \in DOMAIN r : r[i] = q[i + 1] /\ i + 1 \in DOMAIN q
      /\ \A i \in DOMAIN q : i # 1 => i - 1 \in DOMAIN r /\ r[i - 1] = q[i]
      /\ Head(q) = q[1]
  BY <1>1
<1> HIDE DEF r
<1>3. \A e \in Events : Has(r, n, e) => Has(q, n, e)  BY <1>2 DEF Has
<1>4. \A e \in Events : Has(q, n, e) => Has(r, n, e)  BY <1>2 DEF Has
<1>5. InOrder(q, n) => InOrder(r, n)
  <2>1. \A i, j \in DOMAIN r : i < j => i + 1 < j + 1  BY <1>2
  <2> QED  BY <1>2, <2>1 DEF InOrder
<1> QED  BY <1>3, <1>4, <1>5 DEF SameAnswers, r

\* What is left when an answer for n is taken: at most the loss of what it granted.
LEMMA AnswerTaken ==
    ASSUME NEW q, IsSeq(q), q # << >>, NEW n, Head(q).type \in Events, Head(q).nif = n,
           InOrder(q, n)
    PROVE  /\ IsSeq(Tail(q)) /\ InOrder(Tail(q), n)
           /\ Has(q, n, Head(q).type)
           /\ \A e \in Events : Has(Tail(q), n, e) =>
                  Has(q, n, e) /\ e = "RELEASED" /\ Head(q).type = "GRANTED"
           /\ Head(q).type # "RELEASED" /\ Has(q, n, "RELEASED") => Has(Tail(q), n, "RELEASED")
<1>1. PICK S : q \in Seq(S)  BY DEF IsSeq
<1> DEFINE r == Tail(q)
<1>2. /\ r \in Seq(S) /\ DOMAIN q = 1..Len(q) /\ DOMAIN r = 1..(Len(q) - 1)
      /\ Len(q) \in Nat /\ Len(q) > 0
      /\ \A i \in DOMAIN r : r[i] = q[i + 1] /\ i + 1 \in DOMAIN q
      /\ \A i \in DOMAIN q : i # 1 => i - 1 \in DOMAIN r /\ r[i - 1] = q[i]
      /\ Head(q) = q[1] /\ 1 \in DOMAIN q
  BY <1>1
<1>3. \A i \in DOMAIN r : 1 < i + 1 /\ i \in Nat  BY <1>2
<1> HIDE DEF r
<1>4. IsSeq(r)  BY <1>2 DEF IsSeq
<1>5. InOrder(r, n)
  <2>1. \A i, j \in DOMAIN r : i < j => i + 1 < j + 1  BY <1>2
  <2> QED  BY <1>2, <2>1 DEF InOrder
<1>6. Has(q, n, Head(q).type)  BY <1>2 DEF Has
<1>7. ASSUME NEW e \in Events, Has(r, n, e)
      PROVE  Has(q, n, e) /\ e = "RELEASED" /\ Head(q).type = "GRANTED"
  <2>1. PICK i \in DOMAIN r : r[i].type = e /\ r[i].nif = n  BY <1>7 DEF Has
  <2>2. i + 1 \in DOMAIN q /\ q[i + 1].type = e /\ q[i + 1].nif = n /\ 1 < i + 1
    BY <1>2, <1>3, <2>1
  <2>3. Has(q, n, e)  BY <2>2 DEF Has
  <2> QED  BY <1>2, <2>2, <2>3 DEF InOrder
<1>8. Head(q).type # "RELEASED" /\ Has(q, n, "RELEASED") => Has(r, n, "RELEASED")
  BY <1>2 DEF Has
<1> QED  BY <1>4, <1>5, <1>6, <1>7, <1>8 DEF r

\* Putting an answer for n behind a queue that has no answer for n, or only the granting
\* of what it takes away.
LEMMA AnswerAppended ==
    ASSUME NEW q, IsSeq(q), NEW m, NEW n, m.type \in Events, m.nif = n, InOrder(q, n),
           \A e \in Events : Has(q, n, e) => e = "GRANTED" /\ m.type = "RELEASED"
    PROVE  /\ InOrder(Append(q, m), n)
           /\ \A e \in Events : Has(Append(q, m), n, e) <=> Has(q, n, e) \/ e = m.type
<1>1. PICK S : q \in Seq(S)  BY DEF IsSeq
<1> DEFINE r == Append(q, m)
<1>2. q \in Seq(S \cup {m}) /\ m \in S \cup {m}  BY <1>1
<1>3. /\ DOMAIN q = 1..Len(q) /\ DOMAIN r = 1..(Len(q) + 1) /\ Len(q) \in Nat
      /\ \A i \in DOMAIN q : r[i] = q[i]
      /\ r[Len(q) + 1] = m
  BY <1>2
<1> HIDE DEF r
<1>4. \A i \in DOMAIN r : i \in DOMAIN q \/ i = Len(q) + 1  BY <1>3
<1>5. \A i, j \in DOMAIN r : i < j => i \in DOMAIN q  BY <1>3
<1>6. DOMAIN q \subseteq DOMAIN r /\ Len(q) + 1 \in DOMAIN r  BY <1>3
<1>7. \A e \in Events : Has(r, n, e) <=> Has(q, n, e) \/ e = m.type
  BY <1>3, <1>4, <1>6 DEF Has
<1>8. \A i \in DOMAIN q : q[i].type \in Events /\ q[i].nif = n =>
          q[i].type = "GRANTED" /\ m.type = "RELEASED"
  BY DEF Has
<1>9. InOrder(r, n)  BY <1>3, <1>4, <1>5, <1>8 DEF InOrder
<1> QED  BY <1>7, <1>9 DEF r

\* Putting an answer for another interface behind it.
LEMMA OthersAnswer ==
    ASSUME NEW q, IsSeq(q), NEW m, NEW n, m.nif # n
    PROVE  SameAnswers(q, Append(q, m), n)
<1>1. PICK S : q \in Seq(S)  BY DEF IsSeq
<1> DEFINE r == Append(q, m)
<1>2. q \in Seq(S \cup {m}) /\ m \in S \cup {m}  BY <1>1
<1>3. /\ DOMAIN q = 1..Len(q) /\ DOMAIN r = 1..(Len(q) + 1) /\ Len(q) \in Nat
      /\ \A i \in DOMAIN q : r[i] = q[i]
      /\ r[Len(q) + 1] = m
  BY <1>2
<1> HIDE DEF r
<1>4. \A i \in DOMAIN r : i \in DOMAIN q \/ i = Len(q) + 1  BY <1>3
<1>5. DOMAIN q \subseteq DOMAIN r  BY <1>3
<1>6. \A e \in Events : Has(r, n, e) <=> Has(q, n, e)  BY <1>3, <1>4, <1>5 DEF Has
<1>7. InOrder(q, n) => InOrder(r, n)  BY <1>3, <1>4, <1>5 DEF InOrder
<1> QED  BY <1>6, <1>7 DEF SameAnswers, r

-----------------------------------------------------------------------------
(* Lemmas about what an interface believes.                                *)

\* What messages of those who want a connection, and the end of one, do to an interface
\* while no request is made before the last answer is handled: nothing; without a request
\* while it has no connection; or with one, to the framework that has answered all others.
Moves(s, w, s2, w2, q, n) ==
    \/ s2 = s /\ w2 = w
    \/ s \in {"RELEASED", "RELEASING"} /\ s2 # "ACQUIRED" /\ w2 = w
    \/ /\ Quiet(q, n) /\ w.todo = << >> /\ w2.up = w.up
       /\ \/ s \in {"RELEASED", "RELEASING"} /\ s2 = "PENDING" /\ w2.todo = <<"REQUEST">>
          \/ s \in {"PENDING", "ACQUIRED"} /\ s2 # "ACQUIRED" /\ w2.todo = <<"RELEASE">>

\* The same answers support the same belief.
LEMMA SameAnswersFit ==
    ASSUME NEW s, NEW w, NEW q, NEW q2, NEW n, Fits(s, w, q, n), SameAnswers(q, q2, n)
    PROVE  Fits(s, w, q2, n)
<1>1. /\ "GRANTED" \in Events /\ "RELEASED" \in Events /\ "DENIED" \in Events
  BY DEF Events
<1>2. Quiet(q2, n) <=> Quiet(q, n)  BY DEF Quiet, SameAnswers
<1> QED  BY <1>1, <1>2 DEF Fits, SameAnswers

\* A move keeps the belief right.
LEMMA MovesFit ==
    ASSUME NEW s, NEW w, NEW s2, NEW w2, NEW q, NEW n, Fits(s, w, q, n),
           Moves(s, w, s2, w2, q, n)
    PROVE  Fits(s2, w2, q, n)
<1>1. /\ "GRANTED" \in Events /\ "RELEASED" \in Events /\ "DENIED" \in Events
  BY DEF Events
<1>2. <<"REQUEST">> # << >> /\ <<"RELEASE">> # << >> /\ <<"REQUEST">> # <<"RELEASE">>
  OBVIOUS
<1>3. CASE s2 = s /\ w2 = w  BY <1>3
<1>4. CASE s \in {"RELEASED", "RELEASING"} /\ s2 # "ACQUIRED" /\ w2 = w
  BY <1>4 DEF Fits
<1>5. CASE /\ Quiet(q, n) /\ w.todo = << >> /\ w2.up = w.up
           /\ \/ s \in {"RELEASED", "RELEASING"} /\ s2 = "PENDING" /\ w2.todo = <<"REQUEST">>
              \/ s \in {"PENDING", "ACQUIRED"} /\ s2 # "ACQUIRED" /\ w2.todo = <<"RELEASE">>
  BY <1>1, <1>2, <1>5 DEF Fits, Quiet
<1> QED  BY <1>3, <1>4, <1>5 DEF Moves

\* The answer an interface takes says what it may believe from then on.
LEMMA AnswerFits ==
    ASSUME NEW s, NEW w, NEW q, NEW n, NEW s2, IsSeq(q), q # << >>,
           Head(q).type \in Events, Head(q).nif = n, Fits(s, w, q, n),
           s2 = "ACQUIRED" <=> Head(q).type = "GRANTED"
    PROVE  Fits(s2, w, Tail(q), n)
<1>1. /\ InOrder(Tail(q), n) /\ Has(q, n, Head(q).type)
      /\ \A e \in Events : Has(Tail(q), n, e) =>
             Has(q, n, e) /\ e = "RELEASED" /\ Head(q).type = "GRANTED"
      /\ Head(q).type # "RELEASED" /\ Has(q, n, "RELEASED") => Has(Tail(q), n, "RELEASED")
  BY AnswerTaken DEF Fits
<1>2. /\ "GRANTED" \in Events /\ "RELEASED" \in Events /\ "DENIED" \in Events
      /\ Events = {"GRANTED", "RELEASED", "DENIED"}
  BY DEF Events
<1>3. w.todo = << >>  BY <1>1 DEF Fits, Quiet
<1>4. CASE Head(q).type = "GRANTED"
  <2>1. Quiet(Tail(q), n) <=> ~Has(Tail(q), n, "RELEASED")
    BY <1>1, <1>2 DEF Quiet
  <2>2. Has(Tail(q), n, "RELEASED") => ~w.up  BY <1>1, <1>2 DEF Fits
  <2>3. Quiet(Tail(q), n) => w.up
    BY <1>1, <1>2, <1>4, <2>1 DEF Fits
  <2> QED  BY <1>1, <1>2, <1>3, <1>4, <2>2, <2>3 DEF Fits
<1>5. CASE Head(q).type # "GRANTED"
  <2>1. \A e \in Events : ~Has(Tail(q), n, e)  BY <1>1, <1>5
  <2>2. ~w.up  BY <1>1, <1>2, <1>5 DEF Fits
  <2> QED  BY <1>1, <1>2, <1>3, <1>5, <2>1, <2>2 DEF Fits
<1> QED  BY <1>4, <1>5

\* Messages stay messages when the first is taken, or requests come behind them.
LEMMA MessagesKept ==
    ASSUME NEW q, Messages(q)
    PROVE  /\ q # << >> =>
                  /\ Messages(Tail(q))
                  /\ \/ Head(q).type \in Asking
                     \/ Head(q).type \in Events /\ Head(q).nif \in Nifs
           /\ \A x : IsSeq(x) /\ NoAnswers(x) => Messages(q \o x)
           /\ \A m : m.type \in Events /\ m.nif \in Nifs => Messages(Append(q, m))
<1>1. PICK S : q \in Seq(S)  BY DEF Messages, IsSeq
<1>2. ASSUME q # << >>
      PROVE  /\ Messages(Tail(q))
             /\ \/ Head(q).type \in Asking
                \/ Head(q).type \in Events /\ Head(q).nif \in Nifs
  <2> DEFINE r == Tail(q)
  <2>1. /\ r \in Seq(S) /\ Head(q) = q[1] /\ 1 \in DOMAIN q
        /\ \A i \in DOMAIN r : r[i] = q[i + 1] /\ i + 1 \in DOMAIN q
    BY <1>1, <1>2
  <2> HIDE DEF r
  <2>2. Messages(r)  BY <2>1 DEF Messages, IsSeq
  <2> QED  BY <2>1, <2>2 DEF Messages, r
<1>3. ASSUME NEW x, IsSeq(x), NoAnswers(x) PROVE Messages(q \o x)
  <2>1. PICK T : x \in Seq(T)  BY <1>3 DEF IsSeq
  <2>2. q \in Seq(S \cup T) /\ x \in Seq(S \cup T)  BY <1>1, <2>1
  <2> DEFINE r == q \o x
  <2>3. /\ r \in Seq(S \cup T)
        /\ \A i \in DOMAIN r : \/ i \in DOMAIN q /\ r[i] = q[i]
                               \/ i - Len(q) \in DOMAIN x /\ r[i] = x[i - Len(q)]
    BY <2>2
  <2> HIDE DEF r
  <2>4. \A i \in DOMAIN r : \/ r[i].type \in Asking
                            \/ r[i].type \in Events /\ r[i].nif \in Nifs
    BY <1>3, <2>3 DEF Messages, NoAnswers
  <2> QED  BY <2>3, <2>4 DEF Messages, IsSeq, r
<1>4. ASSUME NEW m, m.type \in Events, m.nif \in Nifs PROVE Messages(Append(q, m))
  <2>1. q \in Seq(S \cup {m}) /\ m \in S \cup {m}  BY <1>1
  <2> DEFINE r == Append(q, m)
  <2>2. /\ r \in Seq(S \cup {m})
        /\ \A i \in DOMAIN r : (i \in DOMAIN q /\ r[i] = q[i]) \/ r[i] = m
    BY <2>1
  <2> HIDE DEF r
  <2>3. \A i \in DOMAIN r : \/ r[i].type \in Asking
                            \/ r[i].type \in Events /\ r[i].nif \in Nifs
    BY <1>4, <2>2 DEF Messages
  <2> QED  BY <2>2, <2>3 DEF Messages, IsSeq, r
<1> QED  BY <1>2, <1>3, <1>4

\* The subscribers at some places of a list are a list, and an empty list has no active ones.
LEMMA ListsOfSubscribers ==
    ASSUME NEW subs, IsSeq(subs)
    PROVE  /\ \A places \in SUBSET DOMAIN subs : IsSeq(At(subs, places))
           /\ IsSeq(Active(subs)) /\ IsSeq(At(subs, Inactive(subs)))
           /\ subs = << >> => Active(subs) = << >>
           /\ \A c : IsSeq(Added(subs, c)) /\ IsSeq(Deactivated(subs, c))
           /\ \A ids : IsSeq(Removed(subs, ids))
<1>1. PICK S : subs \in Seq(S)  BY DEF IsSeq
<1>2. IsFiniteSet(DOMAIN subs)
  <2>1. DOMAIN subs = 1..Len(subs) /\ Len(subs) \in Nat  BY <1>1
  <2> QED  BY <2>1, FS_Interval
<1>3. ASSUME NEW places \in SUBSET DOMAIN subs
      PROVE  Cardinality(places) \in Nat /\ IsSeq(At(subs, places))
  <2>1. Cardinality(places) \in Nat  BY <1>2, FS_Subset, FS_CardinalityType
  <2> DEFINE k == Cardinality(places)
             T == {subs[Nth(places, i)] : i \in 1..k}
  <2>2. \A i \in 1..k : subs[Nth(places, i)] \in T  OBVIOUS
  <2> HIDE DEF T
  <2>3. [i \in 1..k |-> subs[Nth(places, i)]] \in [1..k -> T]  BY <2>2
  <2> HIDE DEF k
  <2>4. \A f \in [1..k -> T] : f \in Seq(T)  BY <2>1 DEF k
  <2>5. At(subs, places) \in Seq(T)  BY <2>3, <2>4 DEF At, k
  <2> QED  BY <2>1, <2>5 DEF IsSeq
<1>4. Inactive(subs) \in SUBSET DOMAIN subs  BY DEF Inactive
<1>5. IsSeq(Active(subs)) /\ IsSeq(At(subs, Inactive(subs)))  BY <1>3, <1>4 DEF Active
<1>6. ASSUME subs = << >> PROVE Active(subs) = << >>
  <2>1. DOMAIN subs \ Inactive(subs) = {}  BY <1>6
  <2>2. Cardinality({}) = 0  BY FS_EmptySet
  <2>3. Active(subs) = [i \in 1..0 |-> subs[Nth({}, i)]]  BY <2>1, <2>2 DEF Active, At
  <2>4. 1..0 = {}  OBVIOUS
  <2> QED  BY <2>3, <2>4
<1>7. ASSUME NEW c PROVE IsSeq(Added(subs, c)) /\ IsSeq(Deactivated(subs, c))
  <2> DEFINE s == [id |-> c, inactive |-> FALSE]
  <2>1. <<s>> \in Seq(S \cup {s}) /\ subs \in Seq(S \cup {s})  BY <1>1
  <2>2. <<s>> \o subs \in Seq(S \cup {s})  BY <2>1
  <2>3. IsSeq(Added(subs, c))  BY <1>1, <2>2 DEF Added, IsSeq
  <2> DEFINE f == Deactivated(subs, c)
             T == {f[i] : i \in DOMAIN subs}
  <2>4. DOMAIN f = DOMAIN subs /\ \A i \in DOMAIN subs : f[i] \in T  BY DEF Deactivated
  <2>5. f = [i \in DOMAIN subs |-> f[i]]  BY DEF Deactivated
  <2>6. DOMAIN subs = 1..Len(subs) /\ Len(subs) \in Nat  BY <1>1
  <2> HIDE DEF f, T
  <2>7. f \in [1..Len(subs) -> T]  BY <2>4, <2>5, <2>6
  <2>8. f \in Seq(T)  BY <2>6, <2>7
  <2> QED  BY <2>3, <2>8 DEF IsSeq, f
<1>8. \A ids : IsSeq(Removed(subs, ids))
  <2>1. \A ids : {i \in DOMAIN subs : subs[i].id \notin ids} \in SUBSET DOMAIN subs  OBVIOUS
  <2> QED  BY <1>3, <2>1 DEF Removed
<1> QED  BY <1>3, <1>5, <1>6, <1>7, <1>8

\* The requests that follow a denial are requests.
LEMMA FallbackAsks ==
    ASSUME NEW n, NEW subs, IsSeq(subs), NEW status
    PROVE  IsSeq(Fallback(n, subs, status)) /\ NoAnswers(Fallback(n, subs, status))
<1> DEFINE f == [i \in DOMAIN subs |-> [type |-> "RequestATL", id |-> subs[i].id]]
           T == {f[i] : i \in DOMAIN subs}
<1>1. DOMAIN f = DOMAIN subs
      /\ \A i \in DOMAIN subs : f[i] \in T /\ f[i].type = "RequestATL"
  OBVIOUS
<1>2. PICK S : subs \in Seq(S)  BY DEF IsSeq
<1>3. DOMAIN subs = 1..Len(subs) /\ Len(subs) \in Nat  BY <1>2
<1>4. f = [i \in DOMAIN subs |-> f[i]]  OBVIOUS
<1> HIDE DEF f, T
<1>5. f \in [1..Len(subs) -> T]  BY <1>1, <1>3, <1>4
<1>6. f \in Seq(T)  BY <1>3, <1>5
<1>7. IsSeq(f) /\ NoAnswers(f)  BY <1>1, <1>6 DEF IsSeq, NoAnswers, Asking
<1> QED  BY <1>7, ShortQueues DEF Fallback, f

-----------------------------------------------------------------------------
(* What handling a message does to an interface.                           *)

StateTypes == mState \in [Nifs -> States]
ListTypes == /\ mSubscribers = [n \in Nifs |-> mSubscribers[n]]
             /\ \A n \in Nifs : IsSeq(mSubscribers[n])
NetworkTypes == network \in [Nifs -> [todo: Seq({"REQUEST", "RELEASE"}), up: BOOLEAN]]

\* The other interfaces are left alone, and the message is replaced by requests at most.
OthersLeftAlone(n) ==
    \A m \in Nifs \ {n} : mState'[m] = mState[m] /\ network'[m] = network[m]
QueueServed ==
    \E x : IsSeq(x) /\ NoAnswers(x) /\ agps_queue' = Tail(agps_queue) \o x

\* What interface n makes of a message that leaves it in state s.
Serves(n, s) ==
    /\ StateTypes' /\ ListTypes' /\ NetworkTypes' /\ overlap' \in BOOLEAN
    /\ QueueServed /\ OthersLeftAlone(n)
    /\ overlap => overlap'
    /\ overlap' \/ Moves(s, network[n], mState'[n], network'[n], Tail(agps_queue), n)

\* Entering a state.
LEMMA EnterTypes ==
    ASSUME AgpsTypes, NEW n \in Nifs, NEW s \in States, NEW subs, IsSeq(subs),
           Enter(n, s, subs)
    PROVE  /\ StateTypes' /\ ListTypes' /\ mState'[n] = s
           /\ \A m \in Nifs \ {n} : mState'[m] = mState[m]
<1>1. mState \in [Nifs -> States] /\ mState' = [mState EXCEPT ![n] = s]
  BY DEF AgpsTypes, Enter
<1>2. /\ mSubscribers = [m \in Nifs |-> mSubscribers[m]]
      /\ \A m \in Nifs : IsSeq(mSubscribers[m])
      /\ mSubscribers' = [mSubscribers EXCEPT ![n] = subs]
  BY DEF AgpsTypes, Enter
<1>3. mSubscribers' = [m \in Nifs |-> mSubscribers'[m]]  BY <1>2
<1>4. \A m \in Nifs : mSubscribers'[m] = IF m = n THEN subs ELSE mSubscribers[m]  BY <1>2
<1> QED  BY <1>1, <1>2, <1>3, <1>4 DEF StateTypes, ListTypes

\* A message that is taken without another, or with a request behind the rest.
LEMMA QueueForms ==
    ASSUME AgpsTypes, agps_queue # << >>
    PROVE  /\ IsSeq(Tail(agps_queue))
           /\ agps_queue' = Tail(agps_queue) => QueueServed
           /\ \A m : m.type \in Asking /\ agps_queue' = Append(Tail(agps_queue), m)
                         => QueueServed
<1>1. IsSeq(Tail(agps_queue))  BY MessagesKept DEF AgpsTypes, Messages
<1> DEFINE rest == Tail(agps_queue)
<1> HIDE DEF rest
<1>2. rest = rest \o << >> /\ \A m : Append(rest, m) = rest \o <<m>>
  BY <1>1, ShortQueues DEF rest
<1>3. agps_queue' = rest => QueueServed  BY <1>2, ShortQueues DEF QueueServed, rest
<1>4. ASSUME NEW m, m.type \in Asking, agps_queue' = Append(rest, m)
      PROVE  QueueServed
  <2>1. IsSeq(<<m>>) /\ NoAnswers(<<m>>)  BY <1>4, ShortQueues
  <2>2. agps_queue' = rest \o <<m>>  BY <1>2, <1>4
  <2> QED  BY <2>1, <2>2 DEF QueueServed, rest
<1> QED  BY <1>1, <1>3, <1>4 DEF rest

\* The framework is asked for a connection, or to end one.
LEMMA AskEffect ==
    ASSUME AgpsTypes, agps_queue # << >>, NEW n \in Nifs,
           NEW action \in {"REQUEST", "RELEASE"}, Ask(n, action)
    PROVE  /\ NetworkTypes' /\ overlap' \in BOOLEAN /\ (overlap => overlap')
           /\ \A m \in Nifs \ {n} : network'[m] = network[m]
           /\ overlap' \/ /\ network[n].todo = << >> /\ Quiet(Tail(agps_queue), n)
                          /\ network'[n].todo = <<action>>
                          /\ network'[n].up = network[n].up
<1>1. /\ network' = [network EXCEPT ![n].todo = Append(@, action)]
      /\ overlap' = (\/ overlap \/ network[n].todo # << >>
                     \/ \E m \in Range(Tail(agps_queue)) : m.type \in Events /\ m.nif = n)
  BY DEF Ask
<1>2. network \in [Nifs -> [todo: Seq({"REQUEST", "RELEASE"}), up: BOOLEAN]]
  BY DEF AgpsTypes
<1>3. network[n].todo \in Seq({"REQUEST", "RELEASE"})  BY <1>2
<1>4. Append(network[n].todo, action) \in Seq({"REQUEST", "RELEASE"})  BY <1>3
<1>5. NetworkTypes'  BY <1>1, <1>2, <1>4 DEF NetworkTypes
<1>6. \A m \in Nifs \ {n} : network'[m] = network[m]  BY <1>1, <1>2
<1>7. network'[n].todo = Append(network[n].todo, action) /\ network'[n].up = network[n].up
  BY <1>1, <1>2
<1>8. overlap' \in BOOLEAN /\ (overlap => overlap')  BY <1>1
<1>9. ~overlap' => network[n].todo = << >> /\ Quiet(Tail(agps_queue), n)
  BY <1>1 DEF Quiet, Has, Range
<1>10. Append(<< >>, action) = <<action>>  OBVIOUS
<1> QED  BY <1>5, <1>6, <1>7, <1>8, <1>9, <1>10

\* A data call of ds_nif: it is asked for, or not and a request may follow.
LEMMA StartCallEffect ==
    ASSUME AgpsTypes, agps_queue # << >>, NEW subs, NEW x, IsSeq(x), NoAnswers(x),
           NEW ok \in BOOLEAN, StartCall(subs, Tail(agps_queue) \o x, ok)
    PROVE  /\ QueueServed
           /\ IF ok THEN Ask("ds", "REQUEST") ELSE UNCHANGED <<network, overlap>>
<1>1. IsSeq(Tail(agps_queue))  BY QueueForms
<1> DEFINE rest == Tail(agps_queue) \o x
           m == [type |-> "RequestATL", id |-> Head(Active(subs)).id]
<1>2. /\ agps_queue' = rest \/ agps_queue' = Append(rest, m)
      /\ IF ok THEN Ask("ds", "REQUEST") ELSE UNCHANGED <<network, overlap>>
  BY DEF StartCall
<1>3. m.type \in Asking  BY DEF Asking
<1> HIDE DEF m
<1>4. IsSeq(<<m>>) /\ NoAnswers(<<m>>)  BY <1>3, ShortQueues
<1>5. IsSeq(rest)  BY <1>1, AnswersConcat
<1>6. Append(rest, m) = Tail(agps_queue) \o (x \o <<m>>)
  <2>1. Append(rest, m) = rest \o <<m>>  BY <1>5, ShortQueues
  <2>2. PICK S : Tail(agps_queue) \in Seq(S)  BY <1>1 DEF IsSeq
  <2>3. PICK T : x \in Seq(T)  BY DEF IsSeq
  <2>4. /\ Tail(agps_queue) \in Seq(S \cup T \cup {m}) /\ x \in Seq(S \cup T \cup {m})
        /\ <<m>> \in Seq(S \cup T \cup {m})
    BY <2>2, <2>3
  <2>5. rest \o <<m>> = Tail(agps_queue) \o (x \o <<m>>)  BY <2>4
  <2> QED  BY <2>1, <2>5
<1>7. IsSeq(x \o <<m>>) /\ NoAnswers(x \o <<m>>)
  <2>1. IsSeq(x \o <<m>>)  BY <1>4, AnswersConcat
  <2>2. PICK T : x \in Seq(T)  BY DEF IsSeq
  <2>3. x \in Seq(T \cup {m}) /\ <<m>> \in Seq(T \cup {m})  BY <2>2
  <2> DEFINE r == x \o <<m>>
  <2>4. \A i \in DOMAIN r : (i \in DOMAIN x /\ r[i] = x[i]) \/ r[i] = m  BY <2>3
  <2> HIDE DEF r
  <2>5. NoAnswers(r)  BY <1>3, <2>4 DEF NoAnswers
  <2> QED  BY <2>1, <2>5 DEF r
<1> HIDE DEF rest
<1>8. agps_queue' = Append(rest, m) => QueueServed  BY <1>6, <1>7 DEF QueueServed
<1>9. agps_queue' = rest => QueueServed  BY DEF QueueServed, rest
<1> QED  BY <1>2, <1>8, <1>9

\* subscribeRsrc.
LEMMA SubscribeEffect ==
    ASSUME AgpsTypes, agps_queue # << >>, NEW n \in Nifs, NEW c,
           Subscribe(n, c, Tail(agps_queue))
    PROVE  Serves(n, mState[n])
<1> DEFINE subs == Added(mSubscribers[n], c)
           w == network[n]
<1>1. mState[n] \in States /\ IsSeq(subs)  BY ListsOfSubscribers DEF AgpsTypes
<1>2. "PENDING" \in States /\ "RELEASED" \in States /\ "ACQUIRED" \in States
  BY DEF States
<1>3. StateTypes /\ ListTypes /\ NetworkTypes /\ overlap \in BOOLEAN
  BY DEF AgpsTypes, StateTypes, ListTypes, NetworkTypes
<1>4. IsSeq(Tail(agps_queue)) /\ (agps_queue' = Tail(agps_queue) => QueueServed)
  BY QueueForms
<1> HIDE DEF subs
<1>5. ASSUME NEW s \in States, Enter(n, s, subs), agps_queue' = Tail(agps_queue),
             UNCHANGED <<network, overlap>>,
             \/ s = mState[n]
             \/ (mState[n] \in {"RELEASED", "RELEASING"} /\ s # "ACQUIRED")
      PROVE  Serves(n, mState[n])
  <2>1. /\ StateTypes' /\ ListTypes' /\ mState'[n] = s
        /\ \A m \in Nifs \ {n} : mState'[m] = mState[m]
    BY <1>1, <1>5, EnterTypes
  <2>2. NetworkTypes' /\ overlap' \in BOOLEAN  BY <1>3, <1>5 DEF NetworkTypes
  <2> QED  BY <1>4, <1>5, <2>1, <2>2 DEF Serves, OthersLeftAlone, Moves
<1>6. ASSUME Enter(n, "PENDING", subs), Ask(n, "REQUEST"), QueueServed,
             mState[n] \in {"RELEASED", "RELEASING"}
      PROVE  Serves(n, mState[n])
  <2> DEFINE st == "PENDING"
  <2>1. /\ StateTypes' /\ ListTypes' /\ mState'[n] = st
        /\ \A m \in Nifs \ {n} : mState'[m] = mState[m]
    BY <1>1, <1>2, <1>6, EnterTypes
  <2> DEFINE action == "REQUEST"
  <2>2. action \in {"REQUEST", "RELEASE"} /\ Ask(n, action)  BY <1>6
  <2> HIDE DEF action
  <2>3. /\ NetworkTypes' /\ overlap' \in BOOLEAN /\ (overlap => overlap')
        /\ \A m \in Nifs \ {n} : network'[m] = network[m]
        /\ overlap' \/ /\ network[n].todo = << >> /\ Quiet(Tail(agps_queue), n)
                       /\ network'[n].todo = <<action>>
                       /\ network'[n].up = network[n].up
    BY <2>2, AskEffect
  <2> QED  BY <1>6, <2>1, <2>3 DEF Serves, OthersLeftAlone, Moves, action
<1>7. CASE n = "wifi" /\ mSubscribers[n] # << >>
  <2>1. agps_queue' = Tail(agps_queue) /\ UNCHANGED <<mState, mSubscribers, network, overlap>>
    BY <1>7 DEF Subscribe
  <2>2. StateTypes' /\ ListTypes' /\ NetworkTypes' /\ overlap' \in BOOLEAN
    BY <1>3, <2>1 DEF StateTypes, ListTypes, NetworkTypes
  <2> QED  BY <1>4, <2>1, <2>2 DEF Serves, OthersLeftAlone, Moves
<1>8. CASE ~(n = "wifi" /\ mSubscribers[n] # << >>) /\ mState[n] = "RELEASED" /\ n # "ds"
  <2>1. /\ Enter(n, "PENDING", subs) /\ AskIfDue(n, subs, "REQUEST")
        /\ agps_queue' = Tail(agps_queue)
    BY <1>8 DEF Subscribe, subs
  <2>2. \/ Ask(n, "REQUEST")
        \/ UNCHANGED <<network, overlap>>
    BY <2>1 DEF AskIfDue
  <2> QED  BY <1>2, <1>4, <1>5, <1>6, <1>8, <2>1, <2>2
<1>9. CASE ~(n = "wifi" /\ mSubscribers[n] # << >>) /\ mState[n] = "RELEASED" /\ n = "ds"
  <2>1. PICK ok \in BOOLEAN : /\ StartCall(subs, Tail(agps_queue), ok)
                              /\ Enter(n, IF ok THEN "PENDING" ELSE "RELEASED", subs)
    BY <1>9 DEF Subscribe, subs
  <2>2. Tail(agps_queue) = Tail(agps_queue) \o << >> /\ IsSeq(<< >>) /\ NoAnswers(<< >>)
    BY <1>4, ShortQueues
  <2>3. StartCall(subs, Tail(agps_queue) \o << >>, ok)  BY <2>1, <2>2
  <2>4. /\ QueueServed
        /\ IF ok THEN Ask("ds", "REQUEST") ELSE UNCHANGED <<network, overlap>>
    BY <2>2, <2>3, StartCallEffect
  <2>5. CASE ok  BY <1>6, <1>9, <2>1, <2>4, <2>5
  <2>6. CASE ~ok
    <3>1. Enter(n, "RELEASED", subs) /\ UNCHANGED <<network, overlap>>
      BY <2>1, <2>4, <2>6
    <3> DEFINE st == "RELEASED"
    <3>2. /\ StateTypes' /\ ListTypes' /\ mState'[n] = st
          /\ \A m \in Nifs \ {n} : mState'[m] = mState[m]
      BY <1>1, <1>2, <3>1, EnterTypes
    <3>3. NetworkTypes' /\ overlap' \in BOOLEAN  BY <1>3, <3>1 DEF NetworkTypes
    <3> QED  BY <1>9, <2>4, <3>1, <3>2, <3>3 DEF Serves, OthersLeftAlone, Moves
  <2> QED  BY <2>5, <2>6
<1>10. CASE ~(n = "wifi" /\ mSubscribers[n] # << >>) /\ mState[n] = "ACQUIRED"
  <2>1. /\ Enter(n, "ACQUIRED", subs) /\ agps_queue' = Tail(agps_queue)
        /\ UNCHANGED <<network, overlap>>
    BY <1>10 DEF Subscribe, subs
  <2> DEFINE st == "ACQUIRED"
  <2>2. st \in States /\ Enter(n, st, subs) /\ st = mState[n]  BY <1>2, <1>10, <2>1
  <2> HIDE DEF st
  <2> QED  BY <1>5, <2>1, <2>2
<1>11. CASE ~(n = "wifi" /\ mSubscribers[n] # << >>) /\ mState[n] \in {"PENDING", "RELEASING"}
  <2>1. /\ Enter(n, mState[n], subs) /\ agps_queue' = Tail(agps_queue)
        /\ UNCHANGED <<network, overlap>>
    BY <1>11 DEF Subscribe, subs
  <2>2. PICK st \in States : st = mState[n]  BY <1>1
  <2>3. Enter(n, st, subs)  BY <2>1, <2>2 DEF Enter
  <2> QED  BY <1>5, <2>1, <2>2, <2>3
<1> QED  BY <1>1, <1>7, <1>8, <1>9, <1>10, <1>11 DEF States

\* unsubscribeRsrc.  The last active subscriber of a connection that is asked for or there
\* has it ended.
LEMMA UnsubscribeEffect ==
    ASSUME AgpsTypes, agps_queue # << >>, NEW n \in Nifs, NEW c,
           Unsubscribe(n, c, Tail(agps_queue))
    PROVE  Serves(n, mState[n])
<1> DEFINE subs == IF WaitsForClose(n) THEN Deactivated(mSubscribers[n], c)
                   ELSE Removed(mSubscribers[n], {c})
           st == CASE subs = << >> -> "RELEASED"
                   [] mState[n] # "RELEASING" /\ subs # << >>
                        /\ Active(subs) = << >> -> "RELEASING"
                   [] OTHER -> mState[n]
<1>1. mState[n] \in States /\ IsSeq(subs)  BY ListsOfSubscribers DEF AgpsTypes
<1>2. subs = << >> => Active(subs) = << >>  BY <1>1, ListsOfSubscribers
<1>3. StateTypes /\ ListTypes /\ NetworkTypes /\ overlap \in BOOLEAN
  BY DEF AgpsTypes, StateTypes, ListTypes, NetworkTypes
<1>4. agps_queue' = Tail(agps_queue)  BY DEF Unsubscribe
<1>5. QueueServed  BY <1>4, QueueForms
<1>6. /\ IF mState[n] = "RELEASED" THEN UNCHANGED <<mState, mSubscribers>>
                                   ELSE Enter(n, st, subs)
      /\ IF mState[n] \in {"PENDING", "ACQUIRED"} /\ Active(subs) = << >>
         THEN Ask(n, "RELEASE") ELSE UNCHANGED <<network, overlap>>
  BY DEF Unsubscribe
<1> HIDE DEF subs
<1>7. /\ st \in States
      /\ Active(subs) # << >> => st = mState[n]
      /\ Active(subs) = << >> => st \in {"RELEASED", "RELEASING"}
  BY <1>1, <1>2 DEF States
<1> HIDE DEF st
<1>8. CASE mState[n] = "RELEASED"
  <2>1. UNCHANGED <<mState, mSubscribers, network, overlap>>  BY <1>6, <1>8
  <2>2. StateTypes' /\ ListTypes' /\ NetworkTypes' /\ overlap' \in BOOLEAN
    BY <1>3, <2>1 DEF StateTypes, ListTypes, NetworkTypes
  <2> QED  BY <1>5, <2>1, <2>2 DEF Serves, OthersLeftAlone, Moves
<1>9. CASE mState[n] # "RELEASED"
  <2>1. /\ StateTypes' /\ ListTypes' /\ mState'[n] = st
        /\ \A m \in Nifs \ {n} : mState'[m] = mState[m]
    BY <1>1, <1>6, <1>7, <1>9, EnterTypes
  <2>2. CASE mState[n] \in {"PENDING", "ACQUIRED"} /\ Active(subs) = << >>
    <3> DEFINE action == "RELEASE"
    <3>1. action \in {"REQUEST", "RELEASE"} /\ Ask(n, action)  BY <1>6, <2>2
    <3> HIDE DEF action
    <3>2. /\ NetworkTypes' /\ overlap' \in BOOLEAN /\ (overlap => overlap')
          /\ \A m \in Nifs \ {n} : network'[m] = network[m]
          /\ overlap' \/ /\ network[n].todo = << >> /\ Quiet(Tail(agps_queue), n)
                         /\ network'[n].todo = <<action>>
                         /\ network'[n].up = network[n].up
      BY <3>1, AskEffect
    <3>3. st # "ACQUIRED"  BY <1>7, <2>2
    <3> QED  BY <1>5, <2>1, <2>2, <3>2, <3>3 DEF Serves, OthersLeftAlone, Moves, action
  <2>3. CASE ~(mState[n] \in {"PENDING", "ACQUIRED"} /\ Active(subs) = << >>)
    <3>1. UNCHANGED <<network, overlap>>  BY <1>6, <2>3
    <3>2. NetworkTypes' /\ overlap' \in BOOLEAN  BY <1>3, <3>1 DEF NetworkTypes
    <3>3. \/ st = mState[n]
          \/ mState[n] \in {"RELEASED", "RELEASING"} /\ st # "ACQUIRED"
      BY <1>1, <1>7, <2>3 DEF States
    <3> QED  BY <1>5, <2>1, <3>1, <3>2, <3>3 DEF Serves, OthersLeftAlone, Moves
  <2> QED  BY <2>2, <2>3
<1> QED  BY <1>8, <1>9

\* Answers.  What the interface makes of one is as if it first believed the answer.
LEMMA ReleasedEffect ==
    ASSUME AgpsTypes, agps_queue # << >>, NEW n \in Nifs, NEW event,
           mState[n] = "RELEASING", Released(n, event, Tail(agps_queue))
    PROVE  Serves(n, mState[n])
<1> DEFINE leaving == At(mSubscribers[n], Inactive(mSubscribers[n]))
           left == Removed(mSubscribers[n], Ids(leaving))
           x == Fallback(n, leaving, event)
           out == Tail(agps_queue) \o x
<1>1. /\ Enter(n, IF left = << >> THEN "RELEASED" ELSE "PENDING", left)
      /\ IF left = << >>
         THEN agps_queue' = out /\ UNCHANGED <<network, overlap>>
         ELSE IF n = "ds" THEN \E ok \in BOOLEAN : StartCall(left, out, ok)
              ELSE Ask(n, "REQUEST") /\ agps_queue' = out
  BY DEF Released
<1>2. IsSeq(leaving) /\ IsSeq(left)
  BY ListsOfSubscribers DEF AgpsTypes
<1>3. IsSeq(x) /\ NoAnswers(x)  BY <1>2, FallbackAsks
<1> HIDE DEF leaving, left, x
<1>4. agps_queue' = out => QueueServed  BY <1>3 DEF QueueServed
<1>5. NetworkTypes /\ overlap \in BOOLEAN  BY DEF AgpsTypes, NetworkTypes
<1>6. CASE left = << >>
  <2> DEFINE st == "RELEASED"
  <2>1. Enter(n, st, left) /\ agps_queue' = out /\ UNCHANGED <<network, overlap>>
    BY <1>1, <1>6
  <2>2. st \in States  BY DEF States
  <2>3. /\ StateTypes' /\ ListTypes' /\ mState'[n] = st
        /\ \A m \in Nifs \ {n} : mState'[m] = mState[m]
    BY <1>2, <2>1, <2>2, EnterTypes
  <2>4. NetworkTypes' /\ overlap' \in BOOLEAN  BY <1>5, <2>1 DEF NetworkTypes
  <2> QED  BY <1>4, <2>1, <2>3, <2>4 DEF Serves, OthersLeftAlone, Moves
<1>7. CASE left # << >>
  <2> DEFINE st == "PENDING"
  <2>1. Enter(n, st, left)  BY <1>1, <1>7
  <2>2. st \in States  BY DEF States
  <2>3. /\ StateTypes' /\ ListTypes' /\ mState'[n] = st
        /\ \A m \in Nifs \ {n} : mState'[m] = mState[m]
    BY <1>2, <2>1, <2>2, EnterTypes
  <2>4. QueueServed /\ (Ask(n, "REQUEST") \/ UNCHANGED <<network, overlap>>)
    <3>1. CASE n = "ds"
      <4>1. PICK ok \in BOOLEAN : StartCall(left, out, ok)  BY <1>1, <1>7, <3>1
      <4>2. /\ QueueServed
            /\ IF ok THEN Ask("ds", "REQUEST") ELSE UNCHANGED <<network, overlap>>
        BY <1>3, <4>1, StartCallEffect
      <4> QED  BY <3>1, <4>2
    <3>2. CASE n # "ds"  BY <1>1, <1>4, <1>7, <3>2
    <3> QED  BY <3>1, <3>2
  <2>5. CASE Ask(n, "REQUEST")
    <3> DEFINE action == "REQUEST"
    <3>1. action \in {"REQUEST", "RELEASE"} /\ Ask(n, action)  BY <2>5
    <3> HIDE DEF action
    <3>2. /\ NetworkTypes' /\ overlap' \in BOOLEAN /\ (overlap => overlap')
          /\ \A m \in Nifs \ {n} : network'[m] = network[m]
          /\ overlap' \/ /\ network[n].todo = << >> /\ Quiet(Tail(agps_queue), n)
                         /\ network'[n].todo = <<action>>
                         /\ network'[n].up = network[n].up
      BY <3>1, AskEffect
    <3> QED  BY <2>3, <2>4, <3>2 DEF Serves, OthersLeftAlone, Moves, action
  <2>6. CASE UNCHANGED <<network, overlap>>
    <3>1. NetworkTypes' /\ overlap' \in BOOLEAN  BY <1>5, <2>6 DEF NetworkTypes
    <3> QED  BY <2>3, <2>4, <2>6, <3>1 DEF Serves, OthersLeftAlone, Moves
  <2> QED  BY <2>4, <2>5, <2>6
<1> QED  BY <1>6, <1>7

\* onRsrcEvent, for an answer that fits what the interface believes.
LEMMA OnRsrcEventEffect ==
    ASSUME AgpsTypes, agps_queue # << >>, NEW n \in Nifs, NEW e \in Events,
           Head(agps_queue).type = e, Head(agps_queue).nif = n,
           overlap \/ Fits(mState[n], network[n], agps_queue, n),
           OnRsrcEvent(n, e, Tail(agps_queue))
    PROVE  \E s : /\ Serves(n, s)
                  /\ overlap \/ (s = "ACQUIRED" <=> e = "GRANTED")
<1> DEFINE event == IF n = "ds" /\ e = "RELEASED" /\ mState[n] = "PENDING"
                    THEN "DENIED" ELSE e
<1>1. e \in {"GRANTED", "RELEASED", "DENIED"}  BY DEF Events
<1>2. mState[n] \in States /\ IsSeq(mSubscribers[n])  BY DEF AgpsTypes
<1>3. StateTypes /\ ListTypes /\ NetworkTypes /\ overlap \in BOOLEAN
  BY DEF AgpsTypes, StateTypes, ListTypes, NetworkTypes
<1>4. agps_queue' = Tail(agps_queue) => QueueServed  BY QueueForms
<1>5. overlap \/ /\ e = "GRANTED" => mState[n] = "PENDING"
                 /\ e = "DENIED" => mState[n] # "ACQUIRED"
  <2>1. SUFFICES ASSUME ~overlap
                 PROVE  /\ e = "GRANTED" => mState[n] = "PENDING"
                        /\ e = "DENIED" => mState[n] # "ACQUIRED"
    OBVIOUS
  <2>2. Fits(mState[n], network[n], agps_queue, n)  BY <2>1
  <2>3. IsSeq(agps_queue)  BY DEF AgpsTypes, Messages
  <2>4. Has(agps_queue, n, e)  BY <2>2, <2>3, AnswerTaken DEF Fits
  <2> QED  BY <2>2, <2>4 DEF Fits
\* A new state, and nothing asked of the framework.
<1>6. ASSUME NEW s \in States, NEW subs, IsSeq(subs), Enter(n, s, subs), QueueServed,
             UNCHANGED <<network, overlap>>
      PROVE  Serves(n, s)
  <2>1. /\ StateTypes' /\ ListTypes' /\ mState'[n] = s
        /\ \A m \in Nifs \ {n} : mState'[m] = mState[m]
    BY <1>6, EnterTypes
  <2>2. NetworkTypes' /\ overlap' \in BOOLEAN  BY <1>3, <1>6 DEF NetworkTypes
  <2> QED  BY <1>6, <2>1, <2>2 DEF Serves, OthersLeftAlone, Moves
<1>7. ASSUME TellAll(n, event, Tail(agps_queue)) PROVE Serves(n, "RELEASED")
  <2> DEFINE x == Fallback(n, mSubscribers[n], event)
             st == "RELEASED"
  <2>1. Enter(n, st, << >>) /\ UNCHANGED <<network, overlap>>
        /\ agps_queue' = Tail(agps_queue) \o x
    BY <1>7 DEF TellAll
  <2>2. IsSeq(x) /\ NoAnswers(x)  BY <1>2, FallbackAsks
  <2> HIDE DEF x
  <2>3. QueueServed  BY <2>1, <2>2 DEF QueueServed
  <2>4. st \in States /\ IsSeq(<< >>)  BY ShortQueues DEF States
  <2> HIDE DEF st
  <2>5. Serves(n, st)  BY <1>6, <2>1, <2>3, <2>4
  <2> QED  BY <2>5 DEF st
<1> HIDE DEF event
<1>8. CASE mState[n] = "PENDING" /\ event = "GRANTED"
  <2>1. e = "GRANTED"  BY <1>8 DEF event
  <2> DEFINE st == "ACQUIRED"
  <2>2. Enter(n, st, mSubscribers[n]) /\ UNCHANGED <<network, overlap>>
        /\ agps_queue' = Tail(agps_queue)
    BY <1>8 DEF OnRsrcEvent, event
  <2>3. st \in States /\ IsSeq(mSubscribers[n])  BY <1>2 DEF States
  <2>4. PICK subs : subs = mSubscribers[n]  OBVIOUS
  <2>5. Enter(n, st, subs) /\ IsSeq(subs)  BY <2>2, <2>3, <2>4 DEF Enter
  <2> HIDE DEF st
  <2>6. Serves(n, st)  BY <1>4, <1>6, <2>2, <2>3, <2>5
  <2> QED  BY <2>1, <2>6 DEF st
<1>9. CASE \/ mState[n] = "PENDING" /\ event = "DENIED"
           \/ mState[n] = "ACQUIRED" /\ event = "RELEASED"
  <2>1. TellAll(n, event, Tail(agps_queue)) /\ e # "GRANTED"
    BY <1>9 DEF OnRsrcEvent, event
  <2> QED  BY <1>7, <2>1
<1>10. CASE mState[n] = "RELEASING" /\ event \in {"RELEASED", "DENIED"}
  <2>1. Released(n, event, Tail(agps_queue)) /\ e # "GRANTED"
    BY <1>10 DEF OnRsrcEvent, event
  <2>2. Serves(n, mState[n])  BY <1>10, <2>1, ReleasedEffect
  <2> QED  BY <1>10, <2>1, <2>2
<1>11. CASE ~ \/ mState[n] = "PENDING" /\ event \in {"GRANTED", "DENIED"}
              \/ mState[n] = "ACQUIRED" /\ event = "RELEASED"
              \/ mState[n] = "RELEASING" /\ event \in {"RELEASED", "DENIED"}
  <2>1. /\ agps_queue' = Tail(agps_queue)
        /\ UNCHANGED <<mState, mSubscribers, network, overlap>>
    BY <1>11 DEF OnRsrcEvent, event
  <2>2. StateTypes' /\ ListTypes' /\ NetworkTypes' /\ overlap' \in BOOLEAN
    BY <1>3, <2>1 DEF StateTypes, ListTypes, NetworkTypes
  <2>3. Serves(n, mState[n])  BY <1>4, <2>1, <2>2 DEF Serves, OthersLeftAlone, Moves
  <2>4. overlap \/ (mState[n] = "ACQUIRED" <=> e = "GRANTED")
    BY <1>1, <1>2, <1>5, <1>11 DEF event, States
  <2> QED  BY <2>3, <2>4
<1> QED  BY <1>1, <1>2, <1>8, <1>9, <1>10, <1>11 DEF States, event

\* The queue keeps its form, and an interface that serves a message that fits what it
\* believes goes on to believe what is so; the others see the answers they saw.
LEMMA ServedFit ==
    ASSUME AgpsTypes, NifsFit, agps_queue # << >>, NEW n \in Nifs, NEW s, Serves(n, s),
           overlap \/ Fits(s, network[n], Tail(agps_queue), n),
           \A m \in Nifs \ {n} : ~(Head(agps_queue).type \in Events
                                   /\ Head(agps_queue).nif = m)
    PROVE  AgpsTypes' /\ NifsFit'
<1> DEFINE rest == Tail(agps_queue)
<1>1. PICK x : IsSeq(x) /\ NoAnswers(x) /\ agps_queue' = rest \o x
  BY DEF Serves, QueueServed
<1>2. IsSeq(agps_queue) /\ Messages(agps_queue) /\ Messages(rest) /\ IsSeq(rest)
  BY MessagesKept DEF AgpsTypes, Messages
<1>3. Messages(rest \o x)  BY <1>1, <1>2, MessagesKept
<1>4. AgpsTypes'
  BY <1>1, <1>3 DEF Serves, AgpsTypes, StateTypes, ListTypes, NetworkTypes, Messages, IsSeq
<1>5. \A m : SameAnswers(rest, rest \o x, m)  BY <1>1, <1>2, AnswersConcat
<1>6. SUFFICES ASSUME ~overlap', NEW m \in Nifs
               PROVE  Fits(mState'[m], network'[m], agps_queue', m)
  BY <1>4 DEF NifsFit
<1>7. ~overlap /\ Fits(mState[m], network[m], agps_queue, m)
  BY <1>6 DEF Serves, NifsFit
<1>8. CASE m = n
  <2>1. Fits(s, network[n], rest, n)  BY <1>7
  <2>2. Moves(s, network[n], mState'[n], network'[n], rest, n)  BY <1>6 DEF Serves
  <2> HIDE DEF rest
  <2>3. Fits(mState'[n], network'[n], rest, n)  BY <2>1, <2>2, MovesFit
  <2>4. SameAnswers(rest, rest \o x, n)  BY <1>5
  <2> QED  BY <1>1, <1>8, <2>3, <2>4, SameAnswersFit
<1>9. CASE m # n
  <2>1. mState'[m] = mState[m] /\ network'[m] = network[m]
    BY <1>9 DEF Serves, OthersLeftAlone
  <2>2. ~(Head(agps_queue).type \in Events /\ Head(agps_queue).nif = m)  BY <1>9
  <2>3. SameAnswers(agps_queue, rest, m)  BY <1>2, <2>2, AnswersTail
  <2> HIDE DEF rest
  <2>4. Fits(mState[m], network[m], rest, m)  BY <1>7, <2>3, SameAnswersFit
  <2>5. SameAnswers(rest, rest \o x, m)  BY <1>5
  <2>6. Fits(mState[m], network[m], rest \o x, m)  BY <2>4, <2>5, SameAnswersFit
  <2> QED  BY <1>1, <2>1, <2>6
<1> QED  BY <1>8, <1>9

\* A message of those who want a connection, or of the modem, concerns one interface.
LEMMA RequestEffect ==
    ASSUME AgpsTypes, agps_queue # << >>, Head(agps_queue).type \in Asking, AgpsHandle
    PROVE  \E n \in Nifs : Serves(n, mState[n])
<1> DEFINE m == Head(agps_queue)
           rest == Tail(agps_queue)
<1>1. "agnss" \in Nifs /\ "wifi" \in Nifs /\ "ds" \in Nifs  BY DEF Nifs
<1>2. agps_queue' = rest => QueueServed  BY QueueForms
\* Nothing but the queue changes.
<1>3. ASSUME agps_queue' = rest, UNCHANGED <<mState, mSubscribers, network, overlap>>
      PROVE  \E n \in Nifs : Serves(n, mState[n])
  <2>1. StateTypes' /\ ListTypes' /\ NetworkTypes' /\ overlap' \in BOOLEAN
    BY <1>3 DEF AgpsTypes, StateTypes, ListTypes, NetworkTypes
  <2>2. Serves("ds", mState["ds"])
    BY <1>2, <1>3, <2>1 DEF Serves, OthersLeftAlone, Moves
  <2> QED  BY <1>1, <2>2
<1> HIDE DEF rest
<1>4. CASE m.type = "RequestATL"
  <2>1. Subscribe("agnss", m.id, rest)  BY <1>4 DEF AgpsHandle, Events, rest
  <2> QED  BY <1>1, <2>1, SubscribeEffect DEF rest
<1>5. CASE m.type = "RequestSuplEs"
  <2>1. Subscribe("ds", m.id, rest)  BY <1>5 DEF AgpsHandle, Events, rest
  <2> QED  BY <1>1, <2>1, SubscribeEffect DEF rest
<1>6. CASE m.type = "RequestWifi"
  <2>1. Subscribe("wifi", m.id, rest)  BY <1>6 DEF AgpsHandle, Events, rest
  <2> QED  BY <1>1, <2>1, SubscribeEffect DEF rest
<1>7. CASE m.type = "ReleaseATL"
  <2>1. Release(m.id, rest)  BY <1>7 DEF AgpsHandle, Events, rest
  <2>2. \/ Unsubscribe("agnss", m.id, rest)
        \/ Unsubscribe("ds", m.id, rest)
        \/ agps_queue' = rest /\ UNCHANGED <<mState, mSubscribers, network, overlap>>
    BY <2>1 DEF Release
  <2> QED  BY <1>1, <1>3, <2>2, UnsubscribeEffect DEF rest
<1>8. CASE m.type = "ReleaseWifi"
  <2>1. ReleaseWifi(m.id, rest)  BY <1>8 DEF AgpsHandle, Events, rest
  <2>2. \/ Unsubscribe("wifi", m.id, rest)
        \/ agps_queue' = rest /\ UNCHANGED <<mState, mSubscribers, network, overlap>>
    BY <2>1 DEF ReleaseWifi
  <2> QED  BY <1>1, <1>3, <2>2, UnsubscribeEffect DEF rest
<1>9. CASE m.type = "EngineUp"
  <2>1. /\ mSubscribers' = [mSubscribers EXCEPT !["agnss"] = << >>]
        /\ agps_queue' = rest
        /\ UNCHANGED <<mState, network, overlap>>
    BY <1>9 DEF AgpsHandle, EngineUp, Events, rest
  <2>2. ListTypes'
    <3>1. IsSeq(<< >>)  BY ShortQueues
    <3>2. /\ mSubscribers = [n \in Nifs |-> mSubscribers[n]]
          /\ \A n \in Nifs : IsSeq(mSubscribers[n])
      BY DEF AgpsTypes
    <3>3. \A n \in Nifs : mSubscribers'[n] = IF n = "agnss" THEN << >> ELSE mSubscribers[n]
      BY <2>1, <3>2
    <3>4. mSubscribers' = [n \in Nifs |-> mSubscribers'[n]]  BY <2>1, <3>2
    <3> QED  BY <3>1, <3>2, <3>3, <3>4 DEF ListTypes
  <2>3. StateTypes' /\ NetworkTypes' /\ overlap' \in BOOLEAN
    BY <2>1 DEF AgpsTypes, StateTypes, NetworkTypes
  <2>4. Serves("ds", mState["ds"])
    BY <1>2, <2>1, <2>2, <2>3 DEF Serves, OthersLeftAlone, Moves
  <2> QED  BY <1>1, <2>4
<1> QED  BY <1>4, <1>5, <1>6, <1>7, <1>8, <1>9 DEF Asking

\* Whatever message is handled, every interface believes what is so.
LEMMA AgpsHandle_Inv ==
    ASSUME AgpsTypes, NifsFit, AgpsHandle
    PROVE  AgpsTypes' /\ NifsFit'
<1> DEFINE m == Head(agps_queue)
<1>1. agps_queue # << >>  BY DEF AgpsHandle
<1>2. m.type \in Asking \/ (m.type \in Events /\ m.nif \in Nifs)
  BY <1>1, MessagesKept DEF AgpsTypes
<1>3. IsSeq(agps_queue)  BY DEF AgpsTypes, Messages
<1>4. CASE m.type \in Asking
  <2>1. PICK n \in Nifs : Serves(n, mState[n])  BY <1>1, <1>4, RequestEffect
  <2>2. m.type \notin Events  BY <1>4 DEF Asking, Events
  <2>3. SameAnswers(agps_queue, Tail(agps_queue), n)  BY <1>1, <1>3, <2>2, AnswersTail
  <2>4. overlap \/ Fits(mState[n], network[n], Tail(agps_queue), n)
    BY <2>3, SameAnswersFit DEF NifsFit
  <2> QED  BY <1>1, <2>1, <2>2, <2>4, ServedFit
<1>5. CASE m.type \in Events /\ m.nif \in Nifs
  <2>1. PICK n \in Nifs, e \in Events : n = m.nif /\ e = m.type  BY <1>5
  <2>2. OnRsrcEvent(m.nif, m.type, Tail(agps_queue))
    BY <1>5 DEF AgpsHandle, Events
  <2>3. OnRsrcEvent(n, e, Tail(agps_queue))
    BY <2>1, <2>2
  <2>4. PICK s : Serves(n, s) /\ (overlap \/ (s = "ACQUIRED" <=> e = "GRANTED"))
    BY <1>1, <2>1, <2>3, OnRsrcEventEffect DEF NifsFit
  <2>5. overlap \/ Fits(s, network[n], Tail(agps_queue), n)
    BY <1>1, <1>3, <1>5, <2>1, <2>4, AnswerFits DEF NifsFit
  <2> QED  BY <1>1, <2>1, <2>4, <2>5, ServedFit
<1> QED  BY <1>2, <1>4, <1>5

-----------------------------------------------------------------------------
(* What the modem, the framework and the network do.                       *)

\* A request behind the queue, or nothing, leaves every interface where it was.
LEMMA RequestBehind ==
    ASSUME AgpsTypes, NifsFit, UNCHANGED <<mState, mSubscribers, network, overlap>>,
           \/ agps_queue' = agps_queue
           \/ \E m : m.type \in Asking /\ agps_queue' = Append(agps_queue, m)
    PROVE  AgpsTypes' /\ NifsFit'
<1>1. IsSeq(agps_queue) /\ Messages(agps_queue)  BY DEF AgpsTypes, Messages
<1>2. PICK x : IsSeq(x) /\ NoAnswers(x) /\ agps_queue' = agps_queue \o x
  <2>1. CASE agps_queue' = agps_queue
    <3>1. agps_queue' = agps_queue \o << >>  BY <1>1, <2>1, ShortQueues
    <3> QED  BY <3>1, ShortQueues
  <2>2. ASSUME NEW m, m.type \in Asking, agps_queue' = Append(agps_queue, m)
        PROVE  \E x : IsSeq(x) /\ NoAnswers(x) /\ agps_queue' = agps_queue \o x
    <3>1. IsSeq(<<m>>) /\ NoAnswers(<<m>>)  BY <2>2, ShortQueues
    <3>2. agps_queue' = agps_queue \o <<m>>  BY <1>1, <2>2, ShortQueues
    <3> QED  BY <3>1, <3>2
  <2> QED  BY <2>1, <2>2
<1>3. Messages(agps_queue')  BY <1>1, <1>2, MessagesKept
<1>4. AgpsTypes'  BY <1>3 DEF AgpsTypes, Messages, IsSeq
<1>5. ASSUME NEW n \in Nifs, Fits(mState[n], network[n], agps_queue, n)
      PROVE  Fits(mState'[n], network'[n], agps_queue', n)
  <2>1. SameAnswers(agps_queue, agps_queue \o x, n)  BY <1>1, <1>2, AnswersConcat
  <2>2. Fits(mState[n], network[n], agps_queue \o x, n)  BY <1>5, <2>1, SameAnswersFit
  <2> QED  BY <1>2, <2>2
<1> QED  BY <1>4, <1>5 DEF NifsFit

\* An answer of the framework, or the end of a connection, behind the queue: for the
\* others nothing changes.
LEMMA AnswerBehind ==
    ASSUME AgpsTypes, NifsFit, NEW n \in Nifs, NEW e \in Events, NEW w,
           w \in [todo: Seq({"REQUEST", "RELEASE"}), up: BOOLEAN],
           network' = [network EXCEPT ![n] = w], Outside([type |-> e, nif |-> n]),
           Fits(mState[n], network[n], agps_queue, n)
               => Fits(mState[n], w, Append(agps_queue, [type |-> e, nif |-> n]), n)
    PROVE  AgpsTypes' /\ NifsFit'
<1> DEFINE m == [type |-> e, nif |-> n]
<1>1. m.type \in Events /\ m.nif = n /\ m.nif \in Nifs  OBVIOUS
<1>2. IsSeq(agps_queue) /\ Messages(agps_queue)  BY DEF AgpsTypes, Messages
<1>3. /\ agps_queue' = Append(agps_queue, m)
      /\ UNCHANGED <<mState, mSubscribers, overlap>>
  BY DEF Outside
<1> HIDE DEF m
<1>4. Messages(agps_queue')  BY <1>1, <1>2, <1>3, MessagesKept
<1>5. network' \in [Nifs -> [todo: Seq({"REQUEST", "RELEASE"}), up: BOOLEAN]]
      /\ network'[n] = w /\ \A k \in Nifs \ {n} : network'[k] = network[k]
  BY DEF AgpsTypes
<1>6. AgpsTypes'  BY <1>3, <1>4, <1>5 DEF AgpsTypes, Messages, IsSeq
<1>7. ASSUME NEW k \in Nifs, k # n, Fits(mState[k], network[k], agps_queue, k)
      PROVE  Fits(mState'[k], network'[k], agps_queue', k)
  <2>1. SameAnswers(agps_queue, Append(agps_queue, m), k)  BY <1>1, <1>2, <1>7, OthersAnswer
  <2>2. Fits(mState[k], network[k], Append(agps_queue, m), k)  BY <1>7, <2>1, SameAnswersFit
  <2> QED  BY <1>3, <1>5, <1>7, <2>2
<1>8. ASSUME Fits(mState[n], network[n], agps_queue, n)
      PROVE  Fits(mState'[n], network'[n], agps_queue', n)
  BY <1>3, <1>5, <1>8 DEF m
<1> QED  BY <1>3, <1>6, <1>7, <1>8 DEF NifsFit

\* The answer to the only request, with nothing else for n under way.
LEMMA RequestAnswered ==
    ASSUME NEW s, NEW w, NEW w2, NEW q, NEW n, NEW m, IsSeq(q), w.todo # << >>,
           Fits(s, w, q, n), w2.todo = Tail(w.todo), m.type \in Events, m.nif = n,
           m.type = "GRANTED" <=> w2.up, Head(w.todo) = "RELEASE" => m.type # "GRANTED"
    PROVE  Fits(s, w2, Append(q, m), n)
<1>1. /\ InOrder(q, n) /\ Quiet(q, n)
      /\ \/ w.todo = <<"REQUEST">> /\ s = "PENDING"
         \/ w.todo = <<"RELEASE">> /\ s # "ACQUIRED"
  BY DEF Fits
<1>2. w2.todo = << >> /\ (s # "PENDING" => Head(w.todo) = "RELEASE") /\ s # "ACQUIRED"
  <2>1. Tail(<<"REQUEST">>) = << >> /\ Tail(<<"RELEASE">>) = << >>
        /\ Head(<<"RELEASE">>) = "RELEASE"
    OBVIOUS
  <2> QED  BY <1>1, <2>1
<1>3. \A e \in Events : ~Has(q, n, e)  BY <1>1 DEF Quiet
<1>4. /\ InOrder(Append(q, m), n)
      /\ \A e \in Events : Has(Append(q, m), n, e) <=> e = m.type
  <2>1. /\ InOrder(Append(q, m), n)
        /\ \A e \in Events : Has(Append(q, m), n, e) <=> Has(q, n, e) \/ e = m.type
    BY <1>1, <1>3, AnswerAppended
  <2> QED  BY <1>3, <2>1
<1>5. Events = {"GRANTED", "RELEASED", "DENIED"}  BY DEF Events
<1>6. ~Quiet(Append(q, m), n)  BY <1>4 DEF Quiet
<1>7. Has(Append(q, m), n, "GRANTED") <=> m.type = "GRANTED"  BY <1>4, <1>5
<1>8. Has(Append(q, m), n, "RELEASED") <=> m.type = "RELEASED"  BY <1>4, <1>5
<1>9. Has(Append(q, m), n, "DENIED") <=> m.type = "DENIED"  BY <1>4, <1>5
<1> HIDE DEF Has, Quiet, InOrder
<1> QED  BY <1>2, <1>4, <1>6, <1>7, <1>8, <1>9 DEF Fits

\* A connection that ends on its own ends behind the answer that granted it, at most.
LEMMA LostBehind ==
    ASSUME NEW s, NEW w, NEW w2, NEW q, NEW n, NEW m, IsSeq(q), w.todo = << >>, w.up,
           Fits(s, w, q, n), w2.todo = << >>, ~w2.up, m.type = "RELEASED", m.nif = n
    PROVE  Fits(s, w2, Append(q, m), n)
<1>1. Events = {"GRANTED", "RELEASED", "DENIED"} /\ m.type \in Events  BY DEF Events
<1>2. \A e \in Events : Has(q, n, e) => e = "GRANTED" /\ m.type = "RELEASED"
  BY <1>1 DEF Fits
<1>3. /\ InOrder(Append(q, m), n)
      /\ \A e \in Events : Has(Append(q, m), n, e) <=> Has(q, n, e) \/ e = m.type
  BY <1>1, <1>2, AnswerAppended DEF Fits
<1>4. Has(Append(q, m), n, "RELEASED")  BY <1>1, <1>3
<1>5. ~Has(Append(q, m), n, "DENIED")
  <2>1. ~Has(q, n, "DENIED")  BY <1>1, <1>2
  <2> QED  BY <1>1, <1>3, <2>1
<1>6. Has(Append(q, m), n, "GRANTED") => s = "PENDING"
  <2>1. Has(Append(q, m), n, "GRANTED") => Has(q, n, "GRANTED")  BY <1>1, <1>3
  <2> QED  BY <2>1 DEF Fits
<1>7. ~Quiet(Append(q, m), n)  BY <1>1, <1>4 DEF Quiet
<1> QED  BY <1>3, <1>4, <1>5, <1>6, <1>7 DEF Fits

\* The framework answers the oldest request.
LEMMA NetworkAnswers_Inv ==
    ASSUME AgpsTypes, NifsFit, NEW n \in Nifs, NetworkAnswers(n)
    PROVE  AgpsTypes' /\ NifsFit'
<1>1. PICK up \in BOOLEAN :
          /\ Head(network[n].todo) = "RELEASE" => ~up
          /\ network' = [network EXCEPT ![n] = [todo |-> Tail(network[n].todo), up |-> up]]
          /\ Outside([type |-> CASE up -> "GRANTED"
                                 [] ~up /\ n # "ds"
                                      /\ Head(network[n].todo) = "REQUEST" -> "DENIED"
                                 [] OTHER -> "RELEASED", nif |-> n])
  BY DEF NetworkAnswers, AgpsTypes
<1> DEFINE w == [todo |-> Tail(network[n].todo), up |-> up]
           e == CASE up -> "GRANTED"
                  [] ~up /\ n # "ds" /\ Head(network[n].todo) = "REQUEST" -> "DENIED"
                  [] OTHER -> "RELEASED"
           m == [type |-> e, nif |-> n]
<1>2. e \in Events /\ (e = "GRANTED" <=> up)  BY DEF Events
<1>3. network[n].todo # << >> /\ network[n].todo \in Seq({"REQUEST", "RELEASE"})
  BY DEF NetworkAnswers, AgpsTypes
<1>4. w \in [todo: Seq({"REQUEST", "RELEASE"}), up: BOOLEAN] /\ w.todo = Tail(network[n].todo)
      /\ w.up = up
  BY <1>3
<1>5. network' = [network EXCEPT ![n] = w]  BY <1>1
<1>6. Outside(m)  BY <1>1
<1>7. Head(network[n].todo) = "RELEASE" => ~up  BY <1>1
<1> HIDE DEF w, e
<1>8. m.type \in Events /\ m.nif = n /\ (m.type = "GRANTED" <=> w.up)
      /\ (Head(network[n].todo) = "RELEASE" => m.type # "GRANTED")
  BY <1>2, <1>4, <1>7
<1>9. IsSeq(agps_queue)  BY DEF AgpsTypes, Messages
<1>10. Fits(mState[n], network[n], agps_queue, n) => Fits(mState[n], w, Append(agps_queue, m), n)
  <2> HIDE DEF m
  <2> QED  BY <1>3, <1>4, <1>8, <1>9, RequestAnswered
<1> QED  BY <1>2, <1>4, <1>5, <1>6, <1>10, AnswerBehind

\* A connection ends on its own.
LEMMA NetworkLost_Inv ==
    ASSUME AgpsTypes, NifsFit, NEW n \in Nifs, NetworkLost(n)
    PROVE  AgpsTypes' /\ NifsFit'
<1> DEFINE w == [network[n] EXCEPT !.up = FALSE]
           e == "RELEASED"
           m == [type |-> e, nif |-> n]
<1>1. network[n] \in [todo: Seq({"REQUEST", "RELEASE"}), up: BOOLEAN]  BY DEF AgpsTypes
<1>2. w \in [todo: Seq({"REQUEST", "RELEASE"}), up: BOOLEAN] /\ ~w.up /\ w.todo = network[n].todo
  BY <1>1
<1>3. network' = [network EXCEPT ![n] = w] /\ Outside(m) /\ network[n].up
      /\ network[n].todo = << >>
  BY DEF NetworkLost, AgpsTypes
<1>4. m.type = "RELEASED" /\ m.nif = n /\ e \in Events  BY DEF Events
<1>5. IsSeq(agps_queue)  BY DEF AgpsTypes, Messages
<1> HIDE DEF w, e
<1>6. Fits(mState[n], network[n], agps_queue, n) => Fits(mState[n], w, Append(agps_queue, m), n)
  <2> HIDE DEF m
  <2> QED  BY <1>2, <1>3, <1>4, <1>5, LostBehind
<1> QED  BY <1>2, <1>3, <1>4, <1>6, AnswerBehind

\* A delay ends, the modem restarts, or an owner asks for or returns a connection.
LEMMA Asking_Inv ==
    ASSUME AgpsTypes, via \in Routes, NifsFit,
           \/ RetryCallback \/ ModemRestarts
           \/ \E c \in Conns : OwnerRequests(c) \/ OwnerReleases(c)
    PROVE  AgpsTypes' /\ NifsFit'
<1>1. CASE RetryCallback
  <2> DEFINE m == [type |-> "RequestSuplEs", id |-> Head(Active(mSubscribers["ds"])).id]
  <2>1. m.type \in Asking  BY DEF Asking
  <2>2. /\ UNCHANGED <<mState, mSubscribers, network, overlap>>
        /\ agps_queue' = agps_queue \/ agps_queue' = Append(agps_queue, m)
    BY <1>1 DEF RetryCallback
  <2> HIDE DEF m
  <2> QED  BY <2>1, <2>2, RequestBehind
<1>2. CASE ModemRestarts
  <2> DEFINE m == [type |-> "EngineUp"]
  <2>1. m.type \in Asking  BY DEF Asking
  <2>2. /\ UNCHANGED <<mState, mSubscribers, network, overlap>>
        /\ agps_queue' = Append(agps_queue, m)
    BY <1>2 DEF ModemRestarts, Outside
  <2> HIDE DEF m
  <2> QED  BY <2>1, <2>2, RequestBehind
<1>3. ASSUME NEW c \in Conns, OwnerRequests(c) PROVE AgpsTypes' /\ NifsFit'
  <2> DEFINE m == [type |-> CASE via[c] = "agnss" -> "RequestATL"
                              [] via[c] = "ds" -> "RequestSuplEs"
                              [] via[c] = "wifi" -> "RequestWifi", id |-> c]
  <2>1. via[c] \in Nifs  BY LocEngAgpsAssumption
  <2>2. m.type \in Asking  BY <2>1 DEF Asking, Nifs
  <2>3. /\ UNCHANGED <<mState, mSubscribers, network, overlap>>
        /\ agps_queue' = Append(agps_queue, m)
    BY <1>3 DEF OwnerRequests, Outside
  <2> HIDE DEF m
  <2> QED  BY <2>2, <2>3, RequestBehind
<1>4. ASSUME NEW c \in Conns, OwnerReleases(c) PROVE AgpsTypes' /\ NifsFit'
  <2> DEFINE m == [type |-> IF via[c] = "wifi" THEN "ReleaseWifi" ELSE "ReleaseATL", id |-> c]
  <2>1. m.type \in Asking  BY DEF Asking
  <2>2. /\ UNCHANGED <<mState, mSubscribers, network, overlap>>
        /\ agps_queue' = Append(agps_queue, m)
    BY <1>4 DEF OwnerReleases, Outside, countVars
  <2> HIDE DEF m
  <2> QED  BY <2>1, <2>2, RequestBehind
<1> QED  BY <1>1, <1>2, <1>3, <1>4

-----------------------------------------------------------------------------

\* Before anybody asks, nothing is up and nothing is believed to be.
LEMMA AgpsInit_Inv == AgpsInit => AgpsInv
<1> SUFFICES ASSUME AgpsInit PROVE AgpsInv  OBVIOUS
<1>1. Messages(agps_queue)
  <2>1. IsSeq(<< >>)  BY ShortQueues
  <2> QED  BY <2>1 DEF Messages, AgpsInit
<1>2. \A n, e : ~Has(agps_queue, n, e)  BY DEF Has, AgpsInit
<1>3. mState \in [Nifs -> States]  BY DEF AgpsInit, States
<1>4. /\ << >> \in Seq({"REQUEST", "RELEASE"})
      /\ FALSE \in BOOLEAN
  OBVIOUS
<1>5. /\ network \in [Nifs -> [todo: Seq({"REQUEST", "RELEASE"}), up: BOOLEAN]]
      /\ \A n \in Nifs : network[n].todo = << >> /\ ~network[n].up
  BY <1>4 DEF AgpsInit
<1>6. mSubscribers = [n \in Nifs |-> mSubscribers[n]] /\ \A n \in Nifs : IsSeq(mSubscribers[n])
  BY ShortQueues DEF AgpsInit
<1>7. AgpsTypes  BY <1>1, <1>3, <1>5, <1>6 DEF AgpsTypes, AgpsInit
<1>8. ASSUME NEW n \in Nifs PROVE Fits(mState[n], network[n], agps_queue, n)
  <2>1. InOrder(agps_queue, n)  BY DEF InOrder, AgpsInit
  <2>2. mState[n] # "ACQUIRED"  BY DEF AgpsInit
  <2> QED  BY <1>2, <1>5, <2>1, <2>2 DEF Fits
<1> QED  BY <1>7, <1>8 DEF AgpsInv, NifsFit, AgpsInit

\* Every step keeps the invariant.
LEMMA AgpsNext_Inv == AgpsInv /\ [AgpsNext]_agpsVars => AgpsInv'
<1> SUFFICES ASSUME AgpsTypes, via \in Routes, NifsFit, [AgpsNext]_agpsVars
             PROVE  AgpsTypes' /\ via' \in Routes /\ NifsFit'
  BY DEF AgpsInv
<1>1. via' = via
  BY DEF AgpsNext, agpsVars, countVars, AgpsHandle, RetryCallback, ModemRestarts, OwnerRequests,
         OwnerReleases, NetworkAnswers, NetworkLost
<1>2. CASE AgpsHandle  BY <1>1, <1>2, AgpsHandle_Inv
<1>3. CASE \/ RetryCallback \/ ModemRestarts
           \/ \E c \in Conns : OwnerRequests(c) \/ OwnerReleases(c)
  BY <1>1, <1>3, Asking_Inv
<1>4. ASSUME NEW n \in Nifs, NetworkAnswers(n) PROVE AgpsTypes' /\ NifsFit'
  BY <1>4, NetworkAnswers_Inv
<1>5. ASSUME NEW n \in Nifs, NetworkLost(n) PROVE AgpsTypes' /\ NifsFit'
  BY <1>5, NetworkLost_Inv
<1>6. CASE UNCHANGED agpsVars
  <2>1. UNCHANGED <<mState, mSubscribers, network, overlap>> /\ agps_queue' = agps_queue
    BY <1>6 DEF agpsVars
  <2> QED  BY <1>1, <2>1, RequestBehind
<1> QED  BY <1>1, <1>2, <1>3, <1>4, <1>5, <1>6 DEF AgpsNext

\* Of the data connections: what every interface believes fits what the framework was
\* asked and the answers still to be handled, for any number of connections, requests,
\* retries, restarts of the modem and losses.
THEOREM AgpsInvariant == AgpsSpec => []AgpsInv
<1> QED  BY AgpsInit_Inv, AgpsNext_Inv, PTL DEF AgpsSpec

\* With nothing under way an interface believes it has the connection exactly if it has
\* (onRsrcEvent), as long as every answer was handled before the next request.
THEOREM NetworkCorrect == AgpsSpec => []StateMatchesNetwork
<1>1. AgpsInv => StateMatchesNetwork
  <2> SUFFICES ASSUME AgpsInv, ~overlap, NEW n \in Nifs, AgpsQuiet(n)
               PROVE  mState[n] = "ACQUIRED" <=> network[n].up
    BY DEF StateMatchesNetwork
  <2>1. Fits(mState[n], network[n], agps_queue, n)  BY DEF AgpsInv, NifsFit
  <2>2. Quiet(agps_queue, n)  BY DEF AgpsQuiet, Quiet, Has
  <2> QED  BY <2>1, <2>2 DEF AgpsQuiet, Fits
<1> QED  BY <1>1, AgpsInvariant, PTL

-----------------------------------------------------------------------------
(* Requests of the network.                                                *)

\* The thread has an answer for the modem, and the request it is for.
Holds(t) == ni_thread[t].pc \in {"clear", "send"} /\ ni_thread[t].msg # "none"
Carries(t) == Holds(t) /\ ni_thread[t].payload # 0

\* The thread is between its look at the request and its use, with tLock.
Builds(t) == ni_thread[t].pc = "build"

\* Numbers beyond the counter are new.
Numbered ==
    /\ ni_task.pc \in {"number", "notify"} => reqIDCounter \in Requests
    /\ \A k \in Kinds : session[k].rawRequest <= reqIDCounter
    /\ \A t \in Requests : ni_thread[t].payload <= reqIDCounter
    /\ \A r \in Requests : r > reqIDCounter => informed[r] = << >>

\* A thread has no answer before it has built one, and none to send but that.
MessageKept ==
    \A t \in Requests :
        /\ ni_thread[t].pc \in {"start", "wait", "build"} => ni_thread[t].msg = "none"
        /\ ni_thread[t].pc = "send" => ni_thread[t].msg # "none"

OneBuilder ==
    \A t, u \in Requests :
        Builds(t) /\ Builds(u) /\ ni_thread[t].kind = ni_thread[u].kind => t = u

\* Only a restart takes the request away from a thread that has seen it.
OnlyRestarts ==
    \/ ni_restarts > 0
    \/ /\ ni_task.pc \in {"idle", "number", "notify"}
       /\ \A t \in Requests : /\ Builds(t) => InSession(ni_thread[t].kind)
                              /\ Holds(t) => Carries(t)
       /\ informed[0] = << >>

InOnePlace ==
    /\ \A k, l \in Kinds :
           session[k].rawRequest = session[l].rawRequest /\ k # l
               => session[k].rawRequest = 0
    /\ \A k \in Kinds, t \in Requests :
           Carries(t) => ni_thread[t].payload # session[k].rawRequest
    /\ \A t, u \in Requests :
           Carries(t) /\ Carries(u) /\ t # u
               => ni_thread[t].payload # ni_thread[u].payload

InformedOnce ==
    /\ \A k \in Kinds : InSession(k) => informed[session[k].rawRequest] = << >>
    /\ \A t \in Requests : Carries(t) => informed[ni_thread[t].payload] = << >>
    /\ \A r \in Requests : Len(informed[r]) <= 1

\* The user is asked once about a request.
AskedOnce ==
    /\ \A n \in notified : said[n.request] = "nothing" /\ n.request <= reqIDCounter
    /\ \A r \in Requests : r > reqIDCounter => said[r] = "nothing"
    /\ ni_task.pc \in {"number", "notify"} =>
           /\ said[reqIDCounter] = "nothing"
           /\ \A n \in notified : n.request # reqIDCounter
    /\ \A m, n \in notified : m.request = n.request => m = n
    /\ ni_user.pc # "idle" => /\ ni_user.request \in Requests
                              /\ ni_user.resp = said[ni_user.request]

\* Answers lie beside the requests they are for.
OwnAnswers ==
    \/ crossed
    \/ /\ \A k \in Kinds : InSession(k) /\ session[k].respRecvd =>
              session[k].resp \in {"IGNORE", said[session[k].rawRequest]}
       /\ \A t \in Requests : Builds(t) /\ InSession(ni_thread[t].kind) =>
              session[ni_thread[t].kind].resp \in
                  {"NORESP", said[session[ni_thread[t].kind].rawRequest]}
       /\ \A t \in Requests : Carries(t) =>
              ni_thread[t].msg \in {"NORESP", said[ni_thread[t].payload]}
       /\ \A r \in Requests : \A i \in DOMAIN informed[r] :
              informed[r][i] \in {"NORESP", said[r]}

\* A restart wakes the thread when the request is gone.
Restarted == ni_task.pc = "signal" => ~InSession(ni_task.kind)

NiInv == /\ NiTypeOK /\ Numbered /\ MessageKept /\ OneBuilder /\ OnlyRestarts
         /\ InOnePlace /\ InformedOnce /\ AskedOnce /\ OwnAnswers /\ Restarted

-----------------------------------------------------------------------------
(* Types.                                                                  *)

ThreadType == [pc: {"none", "start", "wait", "build", "clear", "send", "exit"},
               kind: Kinds, msg: Responses \cup {"unset", "none"},
               payload: Requests \cup {0}]
UserType == [pc: {"idle", "accepted", "ignore", "store"}, kind: Kinds, id: Requests \cup {0},
             request: Requests \cup {0}, resp: Responses]

LEMMA NiInitType == NiInit => NiTypeOK
<1> SUFFICES ASSUME NiInit PROVE NiTypeOK
  OBVIOUS
<1>1. session \in [Kinds -> Session]
  BY DEF NiInit, Session, Kinds, Requests, Responses
<1>2. ni_thread \in [Requests -> ThreadType]
  BY DEF NiInit, ThreadType, Kinds, Requests
<1>3. ni_task \in [pc: {"idle", "number", "notify", "restart", "free", "null", "signal"},
             kind: Kinds]
  BY DEF NiInit, IdleTask, Kinds
<1>4. ni_user \in UserType
  BY DEF NiInit, IdleUser, UserType, Kinds, Responses
<1>5. ni_restarts \in 0..MaxRestarts
  BY LocEngNiAssumption DEF NiInit
<1> QED
  <2>1. informed \in [Payloads -> Seq(Responses \cup {"unset"})]
    BY DEF NiInit
  <2>2. said \in [Requests -> Responses \cup {"nothing"}]
    BY DEF NiInit
  <2>3. reqIDCounter \in Nat /\ notified = {} /\ crossed = FALSE
    BY DEF NiInit
  <2> QED
    BY <1>1, <1>2, <1>3, <1>4, <1>5, <2>1, <2>2, <2>3 DEF NiTypeOK, ThreadType, UserType

-----------------------------------------------------------------------------
(* Steps.  What a step leaves where it is: no session gets a request, no    *)
(* thread an answer, and no thread begins to build one.                    *)

TaskType == [pc: {"idle", "number", "notify", "restart", "free", "null", "signal"},
             kind: Kinds]

FewerRequests ==
    \A k \in Kinds : session'[k].rawRequest \in {session[k].rawRequest, 0}

FewerAnswers ==
    \A t \in Requests : Carries(t)' =>
        /\ Carries(t) /\ ni_thread'[t].payload = ni_thread[t].payload
        /\ ni_thread'[t].msg = ni_thread[t].msg

FewerBuilders ==
    \A t \in Requests : Builds(t)' => Builds(t) /\ ni_thread'[t].kind = ni_thread[t].kind

LEMMA SessionType ==
  ASSUME NiTypeOK, NEW k \in Kinds, NEW s \in Session
  PROVE [session EXCEPT ![k] = s] \in [Kinds -> Session]
BY DEF NiTypeOK

LEMMA ThreadsType ==
  ASSUME NiTypeOK, NEW t \in Requests, NEW h \in ThreadType
  PROVE [ni_thread EXCEPT ![t] = h] \in [Requests -> ThreadType]
BY DEF NiTypeOK, ThreadType

LEMMA StayInPlace ==
  ASSUME NiInv, FewerRequests, FewerAnswers, UNCHANGED informed
  PROVE InOnePlace' /\ InformedOnce'
<1> USE DEF NiInv, FewerRequests, FewerAnswers
<1>1. \A k \in Kinds : session[k].rawRequest \in Requests \cup {0}
  BY DEF NiTypeOK, Session
<1>2. \A t \in Requests : Carries(t) => ni_thread[t].payload # 0
  BY DEF Carries
<1>3. InOnePlace'
  BY <1>1, <1>2 DEF InOnePlace, Kinds
<1>4. InformedOnce'
  BY <1>1, <1>2 DEF InformedOnce, InSession
<1> QED
  BY <1>3, <1>4

\* The request of a session that is built from stays in it unless a restart takes it.
LEMMA StayRestarts ==
  ASSUME NiInv, FewerBuilders, UNCHANGED informed, ni_restarts' >= ni_restarts,
         ni_restarts' \in Nat,
         ni_restarts' > 0 \/ ni_task'.pc \in {"idle", "number", "notify"},
         \A t \in Requests : Holds(t)' => (Holds(t) /\ (Carries(t) => Carries(t)')),
         \A t \in Requests : Builds(t)' /\ InSession(ni_thread[t].kind) =>
             ni_restarts' > 0 \/ session'[ni_thread[t].kind].rawRequest # 0
  PROVE OneBuilder' /\ OnlyRestarts'
<1>1. OneBuilder'
  BY DEF NiInv, OneBuilder, FewerBuilders
<1>2. OnlyRestarts'
  <2> SUFFICES ASSUME ~(ni_restarts' > 0) PROVE OnlyRestarts'
    BY DEF OnlyRestarts
  <2>1. ~(ni_restarts > 0)
    <3>1. ni_restarts \in Int
      BY LocEngNiAssumption DEF NiInv, NiTypeOK
    <3> QED
      BY <3>1
  <2>2. \A t \in Requests : Builds(t)' => session'[ni_thread'[t].kind].rawRequest # 0
    BY <2>1 DEF NiInv, OnlyRestarts, FewerBuilders, InSession
  <2>3. \A t \in Requests : Holds(t)' => Carries(t)'
    BY <2>1 DEF NiInv, OnlyRestarts
  <2> QED
    BY <2>1, <2>2, <2>3 DEF NiInv, OnlyRestarts, InSession
<1> QED
  BY <1>1, <1>2

LEMMA StayOwn ==
  ASSUME NiInv, FewerRequests, FewerAnswers, FewerBuilders, UNCHANGED <<informed, said>>,
         crossed => crossed',
         \A k \in Kinds : InSession(k)' /\ session'[k].respRecvd =>
             \/ crossed'
             \/ session[k].respRecvd /\ session'[k].resp = session[k].resp
             \/ session'[k].resp \in {"IGNORE", said[session'[k].rawRequest]},
         \A t \in Requests : Builds(t)' =>
             session'[ni_thread[t].kind].resp = session[ni_thread[t].kind].resp
  PROVE OwnAnswers'
<1> SUFFICES ASSUME ~crossed' PROVE OwnAnswers'
  BY DEF OwnAnswers
<1>1. ~crossed
  OBVIOUS
<1>2. ASSUME NEW k \in Kinds, InSession(k)', session'[k].respRecvd
      PROVE session'[k].resp \in {"IGNORE", said'[session'[k].rawRequest]}
  BY <1>1, <1>2 DEF NiInv, OwnAnswers, InSession, FewerRequests
<1>3. ASSUME NEW t \in Requests, Carries(t)'
      PROVE ni_thread'[t].msg \in {"NORESP", said'[ni_thread'[t].payload]}
  BY <1>1, <1>3 DEF NiInv, OwnAnswers, FewerAnswers
<1>4. \A r \in Requests : \A i \in DOMAIN informed'[r] : informed'[r][i] \in {"NORESP", said'[r]}
  BY <1>1 DEF NiInv, OwnAnswers
<1>5. ASSUME NEW t \in Requests, Builds(t)', session'[ni_thread'[t].kind].rawRequest # 0
      PROVE session'[ni_thread'[t].kind].resp \in
                {"NORESP", said'[session'[ni_thread'[t].kind].rawRequest]}
  <2>1. Builds(t) /\ ni_thread'[t].kind = ni_thread[t].kind /\ ni_thread[t].kind \in Kinds
    BY <1>5 DEF FewerBuilders, NiInv, NiTypeOK
  <2>2. session'[ni_thread[t].kind].rawRequest = session[ni_thread[t].kind].rawRequest
    BY <1>5, <2>1 DEF FewerRequests
  <2> QED
    BY <1>1, <1>5, <2>1, <2>2 DEF NiInv, OwnAnswers, InSession
<1> QED
  BY <1>2, <1>3, <1>4, <1>5 DEF OwnAnswers, InSession

\* A request is accepted.
LEMMA AcceptInv ==
  ASSUME NiInv, NEW k \in Kinds, NiAccept(k)
  PROVE NiInv'
<1> DEFINE c == reqIDCounter + 1
           s == [session[k] EXCEPT !.rawRequest = c]
<1>1. c \in Requests /\ reqIDCounter \in Nat /\ c > reqIDCounter
  BY LocEngNiAssumption DEF NiInv, NiTypeOK, NiAccept, Requests
<1>2. NiTypeOK'
  <2>0. session[k] \in Session
    BY DEF NiInv, NiTypeOK
  <2>1. s \in Session
    BY <1>1, <2>0 DEF Session
  <2>2. session' = [session EXCEPT ![k] = s]
    BY DEF NiAccept, NiInv, NiTypeOK
  <2>3. session' \in [Kinds -> Session]
    BY <2>1, <2>2, SessionType DEF NiInv
  <2>4. ni_task' \in TaskType /\ reqIDCounter' \in Nat /\ crossed' \in BOOLEAN
    BY <1>1 DEF NiAccept, NiInv, NiTypeOK, TaskType
  <2> QED
    BY <2>3, <2>4 DEF NiAccept, NiInv, NiTypeOK, TaskType
<1>3. /\ session'[k].rawRequest = c /\ session[k].rawRequest = 0
      /\ session'[k].respRecvd = session[k].respRecvd
      /\ \A l \in Kinds \ {k} : session'[l] = session[l]
      /\ \A l \in Kinds : session[l].rawRequest \in Requests \cup {0}
      /\ reqIDCounter' = c /\ ni_task'.pc = "number"
      /\ UNCHANGED <<ni_thread, informed, said, notified, ni_user, ni_restarts>>
  BY DEF NiAccept, InSession, NiInv, NiTypeOK, Session, Kinds
<1>4. \A t \in Requests : /\ Holds(t)' <=> Holds(t)
                          /\ Carries(t)' <=> Carries(t)
                          /\ Builds(t)' <=> Builds(t)
  BY <1>3 DEF Holds, Carries, Builds
<1>5. /\ \A l \in Kinds : session[l].rawRequest <= reqIDCounter /\ session[l].rawRequest # c
      /\ \A t \in Requests : ni_thread[t].payload <= reqIDCounter /\ ni_thread[t].payload # c
      /\ \A r \in Requests : r > reqIDCounter => informed[r] = << >> /\ said[r] = "nothing"
  BY <1>1, <1>3 DEF NiInv, Numbered, AskedOnce, NiTypeOK
<1>6. Numbered'
  <2>1. \A l \in Kinds : session'[l].rawRequest <= c
    <3>1. \A l \in Kinds : session[l].rawRequest \in Int
      BY <1>3, LocEngNiAssumption DEF Requests
    <3> QED
      BY <1>1, <1>3, <1>5, <3>1
  <2>2. \A t \in Requests : ni_thread[t].payload <= c
    BY <1>1, <1>5 DEF NiInv, NiTypeOK, Requests
  <2> QED
    BY <1>1, <1>3, <1>5, <2>1, <2>2 DEF Numbered, Requests
<1>7. MessageKept' /\ OneBuilder' /\ OnlyRestarts'
  <2>1. MessageKept' /\ OneBuilder'
    BY <1>3, <1>4 DEF MessageKept, OneBuilder, NiInv
  <2>2. \A t \in Requests : InSession(ni_thread[t].kind) =>
            session'[ni_thread[t].kind].rawRequest # 0
    <3>1. \A t \in Requests : ni_thread[t].kind \in Kinds
      BY DEF NiInv, NiTypeOK
    <3>2. \A l \in Kinds : InSession(l) => l # k
      BY <1>3 DEF InSession
    <3> QED
      BY <1>3, <3>1, <3>2 DEF InSession
  <2> QED
    BY <1>3, <1>4, <2>1, <2>2 DEF OnlyRestarts, InSession, NiInv
<1>8. InOnePlace'
  BY <1>1, <1>3, <1>4, <1>5 DEF InOnePlace, NiInv
<1>9. InformedOnce'
  BY <1>1, <1>3, <1>4, <1>5 DEF InformedOnce, InSession, NiInv
<1>10. AskedOnce'
  BY <1>1, <1>3, <1>5 DEF AskedOnce, NiInv, NiTypeOK, Requests
<1>11. OwnAnswers'
  <2>1. ~crossed' => /\ ~crossed /\ ~session[k].respRecvd
                     /\ \A t \in Requests : Builds(t) => ni_thread[t].kind # k
    BY DEF NiAccept, Builds
  <2>2. \A t \in Requests : ni_thread[t].kind \in Kinds
    BY DEF NiInv, NiTypeOK
  <2> QED
    BY <1>3, <1>4, <2>1, <2>2 DEF OwnAnswers, InSession, NiInv
<1>12. Restarted'
  BY <1>3 DEF Restarted
<1> QED
  BY <1>2, <1>6, <1>7, <1>8, <1>9, <1>10, <1>11, <1>12 DEF NiInv

\* The request gets its number.
LEMMA NumberInv ==
  ASSUME NiInv, NiNumber
  PROVE NiInv'
<1> DEFINE k == ni_task.kind
           s == [session[k] EXCEPT !.reqID = reqIDCounter]
<1>1. reqIDCounter \in Requests /\ k \in Kinds /\ session[k] \in Session
  BY DEF NiInv, Numbered, NiNumber, NiTypeOK
<1>2. s \in Session /\ session' = [session EXCEPT ![k] = s]
  BY <1>1 DEF NiNumber, Session
<1>3. UNCHANGED <<reqIDCounter, ni_thread, ni_user, notified, informed, ni_restarts, said,
                  crossed>> /\ ni_task' = [ni_task EXCEPT !.pc = "notify"]
  BY DEF NiNumber
<1>4. NiTypeOK'
  BY <1>1, <1>2, <1>3, SessionType DEF NiInv, NiTypeOK
<1>5. \A l \in Kinds : /\ session'[l].rawRequest = session[l].rawRequest
                       /\ session'[l].respRecvd = session[l].respRecvd
                       /\ session'[l].resp = session[l].resp
  BY <1>1, <1>2 DEF NiInv, NiTypeOK, Session
<1>6. FewerRequests /\ FewerAnswers /\ FewerBuilders
  BY <1>3, <1>5 DEF FewerRequests, FewerAnswers, FewerBuilders, Holds, Carries, Builds
<1>7. InOnePlace' /\ InformedOnce'
  BY <1>3, <1>6, StayInPlace
<1>8. OwnAnswers'
  BY <1>3, <1>5, <1>6, StayOwn DEF InSession, NiInv, NiTypeOK
<1>9. OneBuilder' /\ OnlyRestarts'
  BY <1>3, <1>5, <1>6, StayRestarts DEF InSession, Holds, Carries, NiInv, NiTypeOK
<1>10. Numbered' /\ MessageKept' /\ AskedOnce' /\ Restarted'
  <2>1. ni_task.pc = "number" /\ ni_task'.pc = "notify"
    BY <1>3 DEF NiNumber, NiInv, NiTypeOK
  <2> QED
    BY <1>1, <1>3, <1>5, <2>1 DEF NiInv, Numbered, MessageKept, AskedOnce, Restarted
<1> QED
  BY <1>4, <1>7, <1>8, <1>9, <1>10 DEF NiInv

\* The user is notified and the request's thread starts.
LEMMA NotifyInv ==
  ASSUME NiInv, NiNotify
  PROVE NiInv'
<1> DEFINE k == ni_task.kind
           n == [id |-> session[k].reqID, request |-> reqIDCounter]
           s == [session[k] EXCEPT !.respTimeLeft = TRUE]
           h == [pc |-> "start", kind |-> k, msg |-> "none", payload |-> 0]
<1>1. reqIDCounter \in Requests /\ k \in Kinds
  BY DEF NiInv, Numbered, NiNotify, NiTypeOK
<1>2. s \in Session /\ h \in ThreadType
  <2>1. session[k] \in Session
    BY <1>1 DEF NiInv, NiTypeOK
  <2>2. s \in Session
    BY <2>1 DEF Session
  <2> QED
    BY <1>1, <2>1, <2>2 DEF ThreadType
<1>3. session' = [session EXCEPT ![k] = s] /\ ni_thread' = [ni_thread EXCEPT ![reqIDCounter] = h]
  <2>1. session' = [session EXCEPT ![k] = s]
    BY DEF NiNotify, NiInv, NiTypeOK
  <2>2. ni_thread' = [ni_thread EXCEPT ![reqIDCounter] = h]
    BY <1>1 DEF NiNotify, NiInv, NiTypeOK
  <2> QED
    BY <2>1, <2>2
<1>4. NiTypeOK'
  <2>1. session' \in [Kinds -> Session] /\ ni_thread' \in [Requests -> ThreadType]
    BY <1>1, <1>2, <1>3, SessionType, ThreadsType DEF NiInv
  <2>2. n \in [id: Requests \cup {0}, request: Requests]
    BY <1>1 DEF NiInv, NiTypeOK, Session
  <2>3. ni_task' \in TaskType
    BY DEF NiNotify, IdleTask, TaskType, Kinds
  <2> QED
    BY <2>1, <2>2, <2>3 DEF NiNotify, NiInv, NiTypeOK, ThreadType, TaskType
<1>5. \A l \in Kinds : /\ session'[l].rawRequest = session[l].rawRequest
                       /\ session'[l].respRecvd = session[l].respRecvd
                       /\ session'[l].resp = session[l].resp
  BY <1>1, <1>3 DEF NiInv, NiTypeOK, Session
<1>6. \A t \in Requests : \/ ni_thread'[t] = ni_thread[t]
                          \/ ni_thread'[t] = h
  BY <1>1, <1>3 DEF NiInv, NiTypeOK
<1>7. FewerRequests /\ FewerAnswers /\ FewerBuilders
  BY <1>5, <1>6 DEF FewerRequests, FewerAnswers, FewerBuilders, Holds, Carries, Builds
<1>8. InOnePlace' /\ InformedOnce'
  BY <1>7, StayInPlace DEF NiNotify
<1>9. OwnAnswers'
  BY <1>5, <1>7, StayOwn DEF NiNotify, InSession, FewerBuilders, NiInv, NiTypeOK
<1>10. Numbered' /\ MessageKept'
  <2>1. ni_task'.pc = "idle" /\ UNCHANGED <<reqIDCounter, informed>>
    BY DEF NiNotify, IdleTask
  <2>2. \A t \in Requests : ni_thread'[t].payload <= reqIDCounter
    <3>1. 0 <= reqIDCounter
      BY DEF NiInv, NiTypeOK
    <3> QED
      BY <1>6, <3>1 DEF NiInv, Numbered
  <2>3. MessageKept'
    BY <1>6 DEF NiInv, MessageKept
  <2> QED
    BY <1>5, <2>1, <2>2, <2>3 DEF NiInv, Numbered
<1>11. AskedOnce'
  BY <1>1 DEF NiNotify, NiInv, NiTypeOK, Numbered, AskedOnce, IdleTask
<1>12. Restarted'
  BY DEF Restarted, NiNotify, IdleTask
<1>13. OneBuilder' /\ OnlyRestarts'
  <2>1. ni_task'.pc = "idle" /\ UNCHANGED <<informed, ni_restarts>>
    BY DEF NiNotify, IdleTask
  <2>2. \A t \in Requests : Holds(t)' => (Holds(t) /\ (Carries(t) => Carries(t)'))
    BY <1>6 DEF Holds, Carries
  <2>3. \A t \in Requests : Builds(t)' /\ InSession(ni_thread[t].kind) =>
            session'[ni_thread[t].kind].rawRequest # 0
    BY <1>5 DEF InSession, NiInv, NiTypeOK
  <2> QED
    BY <1>7, <2>1, <2>2, <2>3, StayRestarts DEF NiInv, NiTypeOK
<1> QED
  BY <1>13, <1>4, <1>8, <1>9, <1>10, <1>11, <1>12 DEF NiInv

LEMMA RestartInv ==
  ASSUME NiInv, NiRestart
  PROVE NiInv'
<1>1. NiTypeOK'
  BY LocEngNiAssumption DEF NiRestart, NiInv, NiTypeOK, Kinds
<1>2. FewerRequests /\ FewerAnswers /\ FewerBuilders
  BY DEF NiRestart, FewerRequests, FewerAnswers, FewerBuilders, Holds, Carries, Builds
<1>3. InOnePlace' /\ InformedOnce'
  BY <1>2, StayInPlace DEF NiRestart
<1>4. OwnAnswers'
  BY <1>2, StayOwn DEF NiRestart, InSession
<1>5. Numbered' /\ MessageKept' /\ AskedOnce' /\ OneBuilder' /\ OnlyRestarts'
  <2>1. ni_restarts' > 0
    BY DEF NiRestart, NiInv, NiTypeOK
  <2> QED
    BY <2>1 DEF NiRestart, NiInv, Numbered, MessageKept, AskedOnce, OneBuilder, Builds,
                OnlyRestarts
<1>6. Restarted'
  BY DEF Restarted, NiRestart
<1> QED
  BY <1>1, <1>3, <1>4, <1>5, <1>6 DEF NiInv

\* A restart of the modem takes the request out of a session.
LEMMA ResetInv ==
  ASSUME NiInv, NiReset
  PROVE NiInv'
<1> DEFINE k == ni_task.kind
<1>1. k \in Kinds /\ session[k] \in Session
  BY DEF NiInv, NiTypeOK
<1>2. \E s \in Session :
          /\ session' = [session EXCEPT ![k] = s]
          /\ s.rawRequest \in {session[k].rawRequest, 0}
          /\ s.resp = session[k].resp
          /\ s.respRecvd # session[k].respRecvd => ni_task.pc = "signal"
  <2> DEFINE Null == [session[k] EXCEPT !.rawRequest = 0]
             Answered == [session[k] EXCEPT !.respRecvd = TRUE]
  <2>1. Null \in Session /\ Answered \in Session
    BY <1>1 DEF Session
  <2>2. CASE UNCHANGED session /\ ni_task.pc # "signal"
    <3>1. session' = [session EXCEPT ![k] = session[k]]
      BY <1>1, <2>2 DEF NiInv, NiTypeOK
    <3> QED
      BY <1>1, <3>1
  <2>3. CASE session' = [session EXCEPT ![k].rawRequest = 0]
    <3>1. session' = [session EXCEPT ![k] = Null]
      BY <2>3
    <3> QED
      BY <1>1, <2>1, <3>1 DEF Session
  <2>4. CASE session' = [session EXCEPT ![k].respRecvd = TRUE] /\ ni_task.pc = "signal"
    <3>1. session' = [session EXCEPT ![k] = Answered]
      BY <2>4
    <3> QED
      BY <1>1, <2>1, <2>4, <3>1 DEF Session
  <2> QED
    BY <2>2, <2>3, <2>4 DEF NiReset
<1>3. ni_task' \in TaskType /\ ni_task'.pc \notin {"number", "notify"}
  BY DEF NiReset, NextKind, IdleTask, TaskType, Kinds, NiInv, NiTypeOK
<1>4. PICK s \in Session :
          /\ session' = [session EXCEPT ![k] = s]
          /\ s.rawRequest \in {session[k].rawRequest, 0}
          /\ s.resp = session[k].resp
          /\ s.respRecvd # session[k].respRecvd => ni_task.pc = "signal"
  BY <1>2
<1>5. NiTypeOK'
  <2>1. session' \in [Kinds -> Session]
    BY <1>1, <1>4, SessionType DEF NiInv
  <2> QED
    BY <2>1, <1>3 DEF NiReset, NiInv, NiTypeOK, TaskType
<1>6. \A l \in Kinds : session'[l] = IF l = k THEN s ELSE session[l]
  BY <1>1, <1>4 DEF NiInv, NiTypeOK
<1>7. FewerRequests /\ FewerAnswers /\ FewerBuilders
  BY <1>4, <1>6 DEF NiReset, FewerRequests, FewerAnswers, FewerBuilders, Holds, Carries, Builds
<1>8. InOnePlace' /\ InformedOnce'
  BY <1>7, StayInPlace DEF NiReset
<1>9. OwnAnswers'
  <2>1. ASSUME NEW l \in Kinds, InSession(l)', session'[l].respRecvd
        PROVE session[l].respRecvd /\ session'[l].resp = session[l].resp
    <3>1. InSession(l)
      BY <1>7, <2>1 DEF InSession, FewerRequests
    <3>2. l = k => s.respRecvd = session[k].respRecvd
      BY <1>4, <3>1 DEF NiInv, Restarted
    <3> QED
      BY <1>4, <1>6, <2>1, <3>2
  <2>2. \A l \in Kinds : session'[l].resp = session[l].resp
    BY <1>4, <1>6
  <2> QED
    BY <1>7, <2>1, <2>2, StayOwn DEF NiReset, NiInv, NiTypeOK
<1>10. Numbered' /\ MessageKept'
  <2>1. \A l \in Kinds : session'[l].rawRequest <= reqIDCounter
    BY <1>7 DEF FewerRequests, NiInv, Numbered, NiTypeOK
  <2> QED
    BY <1>3, <2>1 DEF NiReset, NiInv, Numbered, MessageKept
<1>11. AskedOnce'
  BY <1>3 DEF NiReset, NiInv, AskedOnce
<1>12. Restarted'
  <2>1. ASSUME ni_task'.pc = "signal"
        PROVE ni_task.pc = "null" /\ ni_task'.kind = k /\ session' = [session EXCEPT ![k].rawRequest = 0]
    BY <2>1 DEF NiReset, NextKind, IdleTask, NiInv, NiTypeOK
  <2> QED
    BY <1>1, <2>1 DEF Restarted, InSession, NiInv, NiTypeOK, Session
<1>13. OneBuilder' /\ OnlyRestarts'
  <2>1. ni_restarts > 0 /\ UNCHANGED <<ni_thread, ni_restarts>>
    BY DEF NiReset, NiInv, OnlyRestarts
  <2> QED
    BY <2>1 DEF NiInv, OneBuilder, Builds, OnlyRestarts
<1> QED
  BY <1>13, <1>5, <1>8, <1>9, <1>10, <1>11, <1>12 DEF NiInv

\* The wait is over: the thread leaves, or has tLock and the request to answer.
LEMMA LeaveInv ==
  ASSUME NiInv, NEW r \in Requests, NEW resp \in Responses \cup {"unset"}, Leave(r, resp),
         ni_thread[r].pc \in {"start", "wait"}, ~Locked(ni_thread[r].kind),
         \/ resp = "NORESP"
         \/ /\ session[ni_thread[r].kind].respRecvd
            /\ resp = session[ni_thread[r].kind].resp
  PROVE NiInv'
<1> DEFINE k == ni_thread[r].kind
           answers == InSession(k) /\ resp # "IGNORE"
           raw == IF answers THEN session[k].rawRequest ELSE 0
           s == [session[k] EXCEPT !.resp = resp, !.respRecvd = FALSE, !.rawRequest = raw]
           h == [ni_thread[r] EXCEPT !.pc = IF answers THEN "build" ELSE "clear"]
<1>1. k \in Kinds /\ session[k] \in Session /\ ni_thread[r] \in ThreadType
  BY DEF NiInv, NiTypeOK, ThreadType
<1>2. s \in Session /\ h \in ThreadType
  BY <1>1 DEF Session, ThreadType
<1>3. session' = [session EXCEPT ![k] = s]
  BY <1>1 DEF Leave, NiInv, NiTypeOK
<1>4. ni_thread' = [ni_thread EXCEPT ![r] = h]
  BY <1>1 DEF Leave, NiInv, NiTypeOK
<1>5. NiTypeOK'
  <2>1. session' \in [Kinds -> Session] /\ ni_thread' \in [Requests -> ThreadType]
    BY <1>1, <1>2, <1>3, <1>4, SessionType, ThreadsType DEF NiInv
  <2> QED
    BY <2>1 DEF Leave, NiInv, NiTypeOK, ThreadType
<1>6. /\ session'[k].rawRequest = raw /\ ~session'[k].respRecvd /\ session'[k].resp = resp
      /\ \A l \in Kinds \ {k} : session'[l] = session[l]
      /\ raw \in {session[k].rawRequest, 0}
  BY <1>1, <1>3 DEF NiInv, NiTypeOK, Session
<1>7. /\ ni_thread'[r].pc = IF answers THEN "build" ELSE "clear"
      /\ ni_thread'[r].payload = ni_thread[r].payload /\ ni_thread'[r].msg = "none"
      /\ ni_thread'[r].kind = k
      /\ \A t \in Requests \ {r} : ni_thread'[t] = ni_thread[t]
  BY <1>1, <1>4 DEF NiInv, NiTypeOK, ThreadType, MessageKept
<1>8. /\ ~Holds(r)' /\ ~Carries(r)' /\ (Builds(r)' <=> answers)
      /\ \A t \in Requests \ {r} : /\ Holds(t)' <=> Holds(t)
                                   /\ Carries(t)' <=> Carries(t)
                                   /\ Builds(t)' <=> Builds(t)
      /\ \A t \in Requests : Builds(t) => ni_thread[t].kind # k
  BY <1>7 DEF Holds, Carries, Builds, Locked
<1>9. UNCHANGED <<reqIDCounter, ni_task, ni_user, notified, informed, said, crossed,
                  ni_restarts>>
  BY DEF Leave
<1>10. Numbered'
  <2>0. 0 <= reqIDCounter
    BY DEF NiInv, NiTypeOK
  <2>1. \A l \in Kinds : session'[l].rawRequest <= reqIDCounter
    BY <1>1, <1>6, <2>0 DEF NiInv, Numbered
  <2> QED
    BY <1>7, <1>9, <2>1 DEF NiInv, Numbered
<1>11. MessageKept' /\ OneBuilder'
  BY <1>7, <1>8 DEF NiInv, MessageKept, OneBuilder
<1>12. FewerRequests /\ FewerAnswers
  BY <1>6, <1>7, <1>8 DEF FewerRequests, FewerAnswers
<1>13. InOnePlace' /\ InformedOnce'
  BY <1>9, <1>12, StayInPlace
<1>14. OnlyRestarts'
  <2> SUFFICES ASSUME ~(ni_restarts > 0) PROVE OnlyRestarts'
    BY <1>9 DEF OnlyRestarts
  <2>1. \A t \in Requests \ {r} : Builds(t) =>
            ni_thread[t].kind \in Kinds \ {k} /\ InSession(ni_thread[t].kind)
    BY <1>8 DEF NiInv, NiTypeOK, OnlyRestarts
  <2>2. \A t \in Requests : Builds(t)' => session'[ni_thread'[t].kind].rawRequest # 0
    BY <1>6, <1>7, <1>8, <2>1 DEF InSession
  <2>3. \A t \in Requests : Holds(t)' => Carries(t)'
    BY <1>8 DEF NiInv, OnlyRestarts
  <2> QED
    BY <1>9, <2>2, <2>3 DEF NiInv, OnlyRestarts, InSession
<1>15. OwnAnswers'
  <2> SUFFICES ASSUME ~crossed PROVE OwnAnswers'
    BY <1>9 DEF OwnAnswers
  <2>1. \A l \in Kinds : session'[l].rawRequest # 0 /\ session'[l].respRecvd =>
            session'[l].resp \in {"IGNORE", said[session'[l].rawRequest]}
    BY <1>6 DEF NiInv, OwnAnswers, InSession
  <2>2. \A t \in Requests : Carries(t)' =>
            ni_thread'[t].msg \in {"NORESP", said[ni_thread'[t].payload]}
    BY <1>7, <1>8 DEF NiInv, OwnAnswers
  <2>3. answers => resp \in {"NORESP", said[raw]}
    BY <1>1 DEF NiInv, OwnAnswers, InSession
  <2>4. ASSUME NEW t \in Requests, Builds(t)', session'[ni_thread'[t].kind].rawRequest # 0
        PROVE session'[ni_thread'[t].kind].resp \in
                  {"NORESP", said[session'[ni_thread'[t].kind].rawRequest]}
    <3>1. CASE t = r
      BY <1>6, <1>7, <1>8, <2>3, <2>4, <3>1
    <3>2. CASE t # r
      <4>1. Builds(t) /\ ni_thread'[t] = ni_thread[t] /\ ni_thread[t].kind \in Kinds \ {k}
        BY <1>7, <1>8, <2>4, <3>2 DEF NiInv, NiTypeOK
      <4> QED
        BY <1>6, <2>4, <4>1 DEF NiInv, OwnAnswers, InSession
    <3> QED
      BY <3>1, <3>2
  <2> QED
    BY <1>9, <2>1, <2>2, <2>4 DEF NiInv, OwnAnswers, InSession
<1>16. AskedOnce' /\ Restarted'
  BY <1>6, <1>9 DEF NiInv, AskedOnce, Restarted, InSession, NiTypeOK
<1> QED
  BY <1>5, <1>10, <1>11, <1>13, <1>14, <1>15, <1>16 DEF NiInv

\* The answer is built, from the request or from what a restart left of it.
LEMMA BuildsInv ==
  ASSUME NiInv, NEW r \in Requests, NiThreadBuilds(r)
  PROVE NiInv'
<1> DEFINE k == ni_thread[r].kind
           raw == session[k].rawRequest
           s == [session[k] EXCEPT !.rawRequest = 0]
           h == [ni_thread[r] EXCEPT !.pc = "clear", !.msg = session[k].resp, !.payload = raw]
<1>1. k \in Kinds /\ session[k] \in Session /\ ni_thread[r] \in ThreadType
  BY DEF NiInv, NiTypeOK, ThreadType
<1>2. s \in Session /\ h \in ThreadType
  BY <1>1 DEF Session, ThreadType
<1>3. session' = [session EXCEPT ![k] = s] /\ ni_thread' = [ni_thread EXCEPT ![r] = h]
  <2>1. session' = [session EXCEPT ![k] = s]
    BY <1>1 DEF NiThreadBuilds, NiInv, NiTypeOK
  <2>2. ni_thread' = [ni_thread EXCEPT ![r] = h]
    BY <1>1 DEF NiThreadBuilds, NiInv, NiTypeOK
  <2> QED
    BY <2>1, <2>2
<1>4. UNCHANGED <<reqIDCounter, ni_task, ni_user, notified, informed, ni_restarts, said,
                  crossed>> /\ Builds(r)
  BY DEF NiThreadBuilds, Builds
<1>5. NiTypeOK'
  <2>1. session' \in [Kinds -> Session] /\ ni_thread' \in [Requests -> ThreadType]
    BY <1>1, <1>2, <1>3, SessionType, ThreadsType DEF NiInv
  <2> QED
    BY <1>4, <2>1 DEF NiInv, NiTypeOK, ThreadType
<1>6. /\ session'[k].rawRequest = 0
      /\ session'[k].respRecvd = session[k].respRecvd /\ session'[k].resp = session[k].resp
      /\ \A l \in Kinds \ {k} : session'[l] = session[l]
  BY <1>1, <1>3 DEF NiInv, NiTypeOK, Session
<1>7. /\ ni_thread'[r].pc = "clear" /\ ni_thread'[r].payload = raw
      /\ ni_thread'[r].msg = session[k].resp /\ session[k].resp # "none"
      /\ \A t \in Requests \ {r} : ni_thread'[t] = ni_thread[t]
  BY <1>1, <1>3 DEF NiInv, NiTypeOK, ThreadType, Session, Responses
<1>8. /\ Holds(r)' /\ ~Builds(r)' /\ (Carries(r)' <=> raw # 0)
      /\ \A t \in Requests \ {r} : /\ Holds(t)' <=> Holds(t)
                                   /\ Carries(t)' <=> Carries(t)
                                   /\ Builds(t)' <=> Builds(t)
      /\ \A t \in Requests \ {r} : Builds(t) => ni_thread[t].kind # k
  BY <1>4, <1>7 DEF Holds, Carries, Builds, NiInv, OneBuilder
<1>9. Numbered' /\ MessageKept'
  <2>1. raw <= reqIDCounter
    BY <1>1 DEF NiInv, Numbered
  <2>0. 0 <= reqIDCounter
    BY DEF NiInv, NiTypeOK
  <2>2. \A l \in Kinds : session'[l].rawRequest <= reqIDCounter
    BY <1>6, <2>0 DEF NiInv, Numbered
  <2> QED
    BY <1>4, <1>7, <2>1, <2>2 DEF NiInv, Numbered, MessageKept
<1>10. OneBuilder'
  BY <1>7, <1>8 DEF NiInv, OneBuilder
<1>11. OnlyRestarts'
  <2> SUFFICES ASSUME ~(ni_restarts > 0) PROVE OnlyRestarts'
    BY <1>4 DEF OnlyRestarts
  <2>1. raw # 0
    BY <1>4 DEF NiInv, OnlyRestarts, InSession
  <2>2. \A t \in Requests : Builds(t)' => session'[ni_thread'[t].kind].rawRequest # 0
    BY <1>6, <1>7, <1>8 DEF NiInv, NiTypeOK, OnlyRestarts, InSession
  <2>3. \A t \in Requests : Holds(t)' => Carries(t)'
    BY <1>8, <2>1 DEF NiInv, OnlyRestarts
  <2> QED
    BY <1>4, <2>2, <2>3 DEF NiInv, OnlyRestarts, InSession
<1>12. InOnePlace'
  <2>1. \A t \in Requests \ {r} : Carries(t) => ni_thread[t].payload # raw
    BY <1>1 DEF NiInv, InOnePlace
  <2>2. \A l \in Kinds \ {k} : session[l].rawRequest = raw => raw = 0
    BY <1>1 DEF NiInv, InOnePlace
  <2>3. \A t \in Requests : Carries(t) => ni_thread[t].payload # 0
    BY DEF Carries
  <2> QED
    BY <1>6, <1>7, <1>8, <2>1, <2>2, <2>3 DEF NiInv, InOnePlace
<1>13. InformedOnce'
  BY <1>1, <1>4, <1>6, <1>7, <1>8 DEF NiInv, InformedOnce, InSession
<1>14. OwnAnswers'
  <2> SUFFICES ASSUME ~crossed PROVE OwnAnswers'
    BY <1>4 DEF OwnAnswers
  <2>1. raw # 0 => session[k].resp \in {"NORESP", said[raw]}
    BY <1>4 DEF NiInv, OwnAnswers, InSession
  <2>2. \A t \in Requests : Carries(t)' =>
            ni_thread'[t].msg \in {"NORESP", said[ni_thread'[t].payload]}
    BY <1>7, <1>8, <2>1 DEF NiInv, OwnAnswers
  <2>3. \A l \in Kinds : session'[l].rawRequest # 0 /\ session'[l].respRecvd =>
            session'[l].resp \in {"IGNORE", said[session'[l].rawRequest]}
    BY <1>6 DEF NiInv, OwnAnswers, InSession
  <2>4. \A t \in Requests : Builds(t)' /\ session'[ni_thread'[t].kind].rawRequest # 0 =>
            session'[ni_thread'[t].kind].resp \in
                {"NORESP", said[session'[ni_thread'[t].kind].rawRequest]}
    <3>1. \A t \in Requests \ {r} : Builds(t) => ni_thread[t].kind \in Kinds \ {k}
      BY <1>8 DEF NiInv, NiTypeOK
    <3> QED
      BY <1>6, <1>7, <1>8, <3>1 DEF NiInv, OwnAnswers, InSession
  <2> QED
    BY <1>4, <2>2, <2>3, <2>4 DEF NiInv, OwnAnswers, InSession
<1>15. AskedOnce' /\ Restarted'
  BY <1>4, <1>6 DEF NiInv, AskedOnce, Restarted, InSession, NiTypeOK
<1> QED
  BY <1>5, <1>9, <1>10, <1>11, <1>12, <1>13, <1>14, <1>15 DEF NiInv

\* The other steps of the thread.
LEMMA WaitsInv ==
  ASSUME NiInv, NEW r \in Requests, NiThreadWaits(r)
  PROVE NiInv'
<1> DEFINE h == [ni_thread[r] EXCEPT !.pc = "wait"]
<1>1. ni_thread[r] \in ThreadType /\ h \in ThreadType
  BY DEF NiInv, NiTypeOK, ThreadType
<1>2. ni_thread' = [ni_thread EXCEPT ![r] = h]
  BY DEF NiThreadWaits
<1>3. UNCHANGED <<session, reqIDCounter, ni_task, ni_user, notified, informed, ni_restarts,
                  said, crossed>>
  BY DEF NiThreadWaits
<1>4. NiTypeOK'
  BY <1>1, <1>2, <1>3, ThreadsType DEF NiInv, NiTypeOK, ThreadType
<1>5. \A t \in Requests : /\ ni_thread'[t].payload = ni_thread[t].payload
                          /\ ni_thread'[t].msg = ni_thread[t].msg
                          /\ ni_thread'[t].pc \in {ni_thread[t].pc, "wait"}
  BY <1>1, <1>2 DEF NiInv, NiTypeOK, ThreadType
<1>6. FewerRequests /\ FewerAnswers /\ FewerBuilders
  BY <1>1, <1>2, <1>3, <1>5
  DEF FewerRequests, FewerAnswers, FewerBuilders, Holds, Carries, Builds, NiInv, NiTypeOK
<1>7. InOnePlace' /\ InformedOnce' /\ OwnAnswers'
  BY <1>3, <1>6, StayInPlace, StayOwn DEF InSession, NiInv, NiTypeOK
<1>8. Numbered' /\ AskedOnce' /\ Restarted'
  BY <1>3, <1>5 DEF NiInv, Numbered, AskedOnce, Restarted, InSession
<1>9. MessageKept'
  <2>1. ni_thread[r].pc = "start"
    BY DEF NiThreadWaits
  <2> QED
    BY <1>1, <1>2, <2>1 DEF NiInv, NiTypeOK, MessageKept
<1>10. OneBuilder' /\ OnlyRestarts'
  <2>1. \A t \in Requests : Holds(t)' => (Holds(t) /\ (Carries(t) => Carries(t)'))
    BY <1>5 DEF Holds, Carries
  <2>2. ni_restarts \in Nat
    BY LocEngNiAssumption DEF NiInv, NiTypeOK
  <2> QED
    BY <1>3, <1>6, <2>1, <2>2, StayRestarts DEF NiInv, InSession, OnlyRestarts
<1> QED
  BY <1>4, <1>7, <1>8, <1>9, <1>10 DEF NiInv

LEMMA ClearsInv ==
  ASSUME NiInv, NEW r \in Requests, NiThreadClears(r)
  PROVE NiInv'
<1> DEFINE k == ni_thread[r].kind
           s == [session[k] EXCEPT !.respTimeLeft = FALSE, !.reqID = 0]
           h == [ni_thread[r] EXCEPT !.pc = IF ni_thread[r].msg # "none" THEN "send" ELSE "exit"]
<1>1. k \in Kinds /\ session[k] \in Session /\ ni_thread[r] \in ThreadType
  BY DEF NiInv, NiTypeOK, ThreadType
<1>2. s \in Session /\ h \in ThreadType
  <2>1. s \in Session
    BY <1>1 DEF Session
  <2> QED
    BY <1>1, <2>1 DEF ThreadType
<1>3. session' = [session EXCEPT ![k] = s] /\ ni_thread' = [ni_thread EXCEPT ![r] = h]
  <2>1. session' = [session EXCEPT ![k] = s]
    BY <1>1 DEF NiThreadClears, NiInv, NiTypeOK
  <2>2. ni_thread' = [ni_thread EXCEPT ![r] = h]
    BY <1>1 DEF NiThreadClears, NiInv, NiTypeOK
  <2> QED
    BY <2>1, <2>2
<1>4. UNCHANGED <<reqIDCounter, ni_task, ni_user, notified, informed, ni_restarts, said, crossed>>
  BY DEF NiThreadClears
<1>5. NiTypeOK'
  <2>1. session' \in [Kinds -> Session] /\ ni_thread' \in [Requests -> ThreadType]
    BY <1>1, <1>2, <1>3, SessionType, ThreadsType DEF NiInv
  <2> QED
    BY <1>4, <2>1 DEF NiInv, NiTypeOK, ThreadType
<1>6. \A l \in Kinds : /\ session'[l].rawRequest = session[l].rawRequest
                       /\ session'[l].respRecvd = session[l].respRecvd
                       /\ session'[l].resp = session[l].resp
  BY <1>1, <1>3 DEF NiInv, NiTypeOK, Session
<1>7. \A t \in Requests : /\ ni_thread'[t].payload = ni_thread[t].payload
                          /\ ni_thread'[t].msg = ni_thread[t].msg
                          /\ Holds(t)' <=> Holds(t)
                          /\ Carries(t)' <=> Carries(t)
                          /\ Builds(t)' <=> Builds(t)
                          /\ ni_thread'[t].kind = ni_thread[t].kind
                          /\ ni_thread'[t].pc \in {ni_thread[t].pc, "send", "exit"}
                          /\ ni_thread'[t].pc = "send" /\ t = r => ni_thread[t].msg # "none"
                          /\ t # r => ni_thread'[t] = ni_thread[t]
  <2>1. ni_thread[r].pc = "clear"
    BY DEF NiThreadClears
  <2> QED
    BY <1>1, <1>3, <2>1 DEF NiInv, NiTypeOK, ThreadType, Holds, Carries, Builds
<1>8. FewerRequests /\ FewerAnswers /\ FewerBuilders
  BY <1>6, <1>7 DEF FewerRequests, FewerAnswers, FewerBuilders
<1>9. InOnePlace' /\ InformedOnce' /\ OwnAnswers'
  BY <1>4, <1>6, <1>8, StayInPlace, StayOwn DEF InSession, NiInv, NiTypeOK
<1>10. MessageKept' /\ OneBuilder' /\ OnlyRestarts'
  <2>1. MessageKept'
    BY <1>7 DEF NiInv, MessageKept
  <2>2. \A t \in Requests :
            session'[ni_thread[t].kind].rawRequest = session[ni_thread[t].kind].rawRequest
    BY <1>6 DEF NiInv, NiTypeOK
  <2> QED
    BY <1>4, <1>7, <1>8, <2>1, <2>2, StayRestarts DEF NiInv, NiTypeOK, OnlyRestarts, InSession
<1>11. Numbered' /\ AskedOnce' /\ Restarted'
  BY <1>4, <1>6, <1>7 DEF NiInv, NiTypeOK, Numbered, AskedOnce, Restarted, InSession
<1> QED
  BY <1>5, <1>9, <1>10, <1>11 DEF NiInv

LEMMA SendsInv ==
  ASSUME NiInv, NEW r \in Requests, NiThreadSends(r)
  PROVE NiInv'
<1> DEFINE p == ni_thread[r].payload
           h == [ni_thread[r] EXCEPT !.pc = "exit"]
<1>1. Holds(r) /\ p \in Payloads /\ ni_thread[r] \in ThreadType
  BY DEF NiThreadSends, NiInv, MessageKept, Holds, NiTypeOK, ThreadType, Payloads
<1>2. 0 \notin Requests /\ (p # 0 => Carries(r) /\ p \in Requests /\ informed[p] = << >>)
  BY <1>1 DEF NiInv, InformedOnce, Carries, Payloads, Requests
<1>3. /\ informed'[p] = Append(informed[p], ni_thread[r].msg)
      /\ \A q \in Payloads \ {p} : informed'[q] = informed[q]
  BY <1>1 DEF NiThreadSends, NiInv, NiTypeOK
<1>4. UNCHANGED <<session, reqIDCounter, ni_task, ni_user, notified, ni_restarts, said, crossed>>
  BY DEF NiThreadSends
<1>5. NiTypeOK'
  <2>1. h \in ThreadType
    BY <1>1 DEF ThreadType
  <2>2. ni_thread' \in [Requests -> ThreadType]
    BY <2>1, ThreadsType DEF NiThreadSends, NiInv
  <2>3. ni_thread[r].msg \in Responses \cup {"unset"}
    BY <1>1 DEF ThreadType, Holds
  <2>4. informed' \in [Payloads -> Seq(Responses \cup {"unset"})]
    BY <1>1, <2>3 DEF NiThreadSends, NiInv, NiTypeOK
  <2> QED
    BY <1>4, <2>2, <2>4 DEF NiInv, NiTypeOK, ThreadType
<1>6. /\ ~Holds(r)' /\ ~Carries(r)' /\ ~Builds(r)'
      /\ ni_thread'[r].payload = p /\ ni_thread'[r].pc = "exit"
      /\ \A t \in Requests \ {r} : /\ ni_thread'[t] = ni_thread[t]
                                   /\ Holds(t)' <=> Holds(t)
                                   /\ Carries(t)' <=> Carries(t)
                                   /\ Builds(t)' <=> Builds(t)
  BY <1>1 DEF NiThreadSends, NiInv, NiTypeOK, ThreadType, Holds, Carries, Builds
<1>7. Numbered' /\ MessageKept' /\ OneBuilder' /\ OnlyRestarts'
  <2>1. p <= reqIDCounter
    BY DEF NiInv, Numbered
  <2>2. p \in Nat /\ reqIDCounter \in Nat /\ Requests \subseteq Nat
    BY <1>1 DEF Requests, Payloads, NiInv, NiTypeOK
  <2>3. \A q \in Requests : q > reqIDCounter => informed'[q] = << >>
    BY <1>3, <2>1, <2>2 DEF NiInv, Numbered, Payloads
  <2>4. \A t \in Requests : ni_thread'[t].payload = ni_thread[t].payload
    BY <1>6
  <2>5. Numbered'
    BY <1>4, <2>3, <2>4 DEF NiInv, Numbered
  <2>6. MessageKept' /\ OneBuilder'
    BY <1>6 DEF NiInv, MessageKept, OneBuilder
  <2>7. OnlyRestarts'
    <3>1. ~(ni_restarts > 0) => p # 0
      BY <1>1 DEF NiInv, OnlyRestarts, Carries
    <3> QED
      BY <1>2, <1>3, <1>4, <1>6, <3>1 DEF NiInv, OnlyRestarts, InSession, Payloads
  <2> QED
    BY <2>5, <2>6, <2>7
<1>8. InOnePlace'
  BY <1>4, <1>6 DEF NiInv, InOnePlace
<1>9. InformedOnce'
  <2>1. p # 0 => \A k \in Kinds : session[k].rawRequest # p
    BY <1>2 DEF NiInv, InOnePlace
  <2>2. p # 0 => \A t \in Requests \ {r} : Carries(t) => ni_thread[t].payload # p
    BY <1>2 DEF NiInv, InOnePlace
  <2>3. \A t \in Requests : Carries(t) => ni_thread[t].payload \in Requests
    BY DEF NiInv, Carries, NiTypeOK
  <2>4. \A k \in Kinds : InSession(k) => session[k].rawRequest \in Requests
    BY DEF NiInv, NiTypeOK, Session, InSession
  <2>5. \A q \in Requests : Len(informed'[q]) <= 1
    <3>1. ASSUME p # 0 PROVE Len(informed'[p]) = 1
      <4>1. Append(<< >>, ni_thread[r].msg) = <<ni_thread[r].msg>>
        OBVIOUS
      <4> QED
        BY <1>2, <1>3, <3>1, <4>1
    <3> QED
      BY <1>2, <1>3, <3>1 DEF NiInv, InformedOnce, Payloads
  <2>6. /\ \A k \in Kinds : InSession(k)' => informed'[session'[k].rawRequest] = << >>
        /\ \A t \in Requests : Carries(t)' => informed'[ni_thread'[t].payload] = << >>
    BY <1>2, <1>3, <1>4, <1>6, <2>1, <2>2, <2>3, <2>4
    DEF NiInv, InformedOnce, InSession, Payloads
  <2> QED
    BY <2>5, <2>6 DEF InformedOnce
<1>10. OwnAnswers'
  <2>1. ASSUME ~crossed, p # 0
        PROVE \A i \in DOMAIN informed'[p] : informed'[p][i] \in {"NORESP", said[p]}
    <3>1. ni_thread[r].msg \in {"NORESP", said[p]}
      BY <1>2, <2>1 DEF NiInv, OwnAnswers
    <3>2. informed'[p] = <<ni_thread[r].msg>>
      <4>1. Append(<< >>, ni_thread[r].msg) = <<ni_thread[r].msg>>
        OBVIOUS
      <4> QED
        BY <1>2, <1>3, <2>1, <4>1
    <3> QED
      BY <3>1, <3>2
  <2>2. ASSUME ~crossed
        PROVE \A q \in Requests : \A i \in DOMAIN informed'[q] :
                  informed'[q][i] \in {"NORESP", said[q]}
    <3>1. \A q \in Requests : q # p => informed'[q] = informed[q]
      BY <1>3 DEF Payloads
    <3>2. p # 0 \/ p \notin Requests
      BY <1>2
    <3> QED
      BY <2>1, <2>2, <3>1, <3>2 DEF NiInv, OwnAnswers
  <2>3. ASSUME ~crossed, NEW t \in Requests
        PROVE /\ Builds(t)' /\ InSession(ni_thread'[t].kind) =>
                     session[ni_thread'[t].kind].resp \in
                         {"NORESP", said[session[ni_thread'[t].kind].rawRequest]}
              /\ Carries(t)' => ni_thread'[t].msg \in {"NORESP", said[ni_thread'[t].payload]}
    BY <1>6, <2>3 DEF NiInv, OwnAnswers
  <2> QED
    BY <1>4, <2>2, <2>3 DEF NiInv, OwnAnswers, InSession
<1>11. AskedOnce' /\ Restarted'
  BY <1>4 DEF NiInv, AskedOnce, Restarted, InSession
<1> QED
  BY <1>5, <1>7, <1>8, <1>9, <1>10, <1>11 DEF NiInv

\* The user answers.
LEMMA RespondInv ==
  ASSUME NiInv, NEW n \in notified, NEW resp \in {"ACCEPT", "DENY"}, NiRespond(n, resp)
  PROVE NiInv'
<1> DEFINE q == n.request
<1>1. q \in Requests /\ n.id \in Requests \cup {0} /\ said[q] = "nothing"
      /\ q <= reqIDCounter
  BY DEF NiInv, NiTypeOK, AskedOnce
<1>2. /\ said'[q] = resp
      /\ \A r \in Requests \ {q} : said'[r] = said[r]
      /\ said' \in [Requests -> Responses \cup {"nothing"}]
  BY <1>1 DEF NiRespond, NiInv, NiTypeOK, Responses
<1>3. UNCHANGED <<session, reqIDCounter, ni_thread, ni_task, informed, ni_restarts, crossed>>
  BY DEF NiRespond
<1>4. /\ ni_user' \in UserType
      /\ ni_user'.pc # "idle" => ni_user'.request = q /\ ni_user'.resp = resp
  BY <1>1 DEF NiRespond, IdleUser, UserType, Kinds, Responses
<1>5. NiTypeOK'
  BY <1>2, <1>3, <1>4 DEF NiRespond, NiInv, NiTypeOK, UserType
<1>6. /\ Numbered' /\ MessageKept' /\ OneBuilder' /\ OnlyRestarts'
      /\ InOnePlace' /\ InformedOnce' /\ Restarted'
  BY <1>3 DEF NiInv, Numbered, MessageKept, OneBuilder, OnlyRestarts, InOnePlace,
              InformedOnce, Restarted, Holds, Carries, Builds, InSession
<1>7. AskedOnce'
  <2>1. \A m \in notified' : m \in notified /\ m.request # q
    BY DEF NiRespond, NiInv, AskedOnce
  <2>2. notified' \subseteq notified
    BY <2>1
  <2>3. \A m \in notified' : said'[m.request] = "nothing" /\ m.request <= reqIDCounter
    BY <1>2, <2>1 DEF NiInv, AskedOnce, NiTypeOK
  <2>4. \A r \in Requests : r > reqIDCounter => said'[r] = "nothing"
    BY <1>1, <1>2 DEF NiInv, AskedOnce, NiTypeOK, Requests
  <2>5. ni_task.pc \in {"number", "notify"} => said'[reqIDCounter] = "nothing"
    BY <1>2 DEF NiInv, AskedOnce, Numbered
  <2> QED
    BY <1>1, <1>2, <1>3, <1>4, <2>1, <2>2, <2>3, <2>4, <2>5 DEF NiInv, AskedOnce
<1>8. OwnAnswers'
  <2> SUFFICES ASSUME ~crossed' PROVE OwnAnswers'
    BY DEF OwnAnswers
  <2>1. \A k \in Kinds : session[k].resp # "nothing"
    BY DEF NiInv, NiTypeOK, Session, Responses
  <2>2. \A t \in Requests : ni_thread[t].msg # "nothing"
    BY DEF NiInv, NiTypeOK, Responses
  <2>3. \A r \in Requests : \A i \in DOMAIN informed[r] : informed[r][i] # "nothing"
    <3> SUFFICES ASSUME NEW r \in Requests, NEW i \in DOMAIN informed[r]
                 PROVE informed[r][i] # "nothing"
      OBVIOUS
    <3>1. informed[r] \in Seq(Responses \cup {"unset"})
      BY DEF NiInv, NiTypeOK, Payloads
    <3>2. informed[r][i] \in Responses \cup {"unset"}
      BY <3>1
    <3> QED
      BY <3>2 DEF Responses
  <2>4. \A k \in Kinds : InSession(k) => session[k].rawRequest \in Requests
    BY DEF NiInv, NiTypeOK, Session, InSession
  <2>5. \A t \in Requests : Carries(t) => ni_thread[t].payload \in Requests
    BY DEF NiInv, Carries, NiTypeOK
  <2>6. \A k \in Kinds : InSession(k) /\ session[k].respRecvd =>
            session[k].resp \in {"IGNORE", said'[session[k].rawRequest]}
    BY <1>1, <1>2, <1>3, <2>1, <2>4 DEF NiInv, OwnAnswers
  <2>7. \A t \in Requests : Carries(t) =>
            ni_thread[t].msg \in {"NORESP", said'[ni_thread[t].payload]}
    BY <1>1, <1>2, <1>3, <2>2, <2>5 DEF NiInv, OwnAnswers
  <2>8. \A r \in Requests : \A i \in DOMAIN informed[r] : informed[r][i] \in {"NORESP", said'[r]}
    BY <1>1, <1>2, <1>3, <2>3 DEF NiInv, OwnAnswers
  <2>9. \A t \in Requests : Builds(t) /\ InSession(ni_thread[t].kind) =>
            session[ni_thread[t].kind].resp \in
                {"NORESP", said'[session[ni_thread[t].kind].rawRequest]}
    <3>1. \A t \in Requests : ni_thread[t].kind \in Kinds
      BY DEF NiInv, NiTypeOK
    <3> QED
      BY <1>1, <1>2, <1>3, <2>1, <2>4, <3>1 DEF NiInv, OwnAnswers
  <2> QED
    BY <1>3, <2>6, <2>7, <2>8, <2>9 DEF OwnAnswers, InSession, Holds, Carries, Builds
<1> QED
  BY <1>5, <1>6, <1>7, <1>8 DEF NiInv

\* What both steps of loc_eng_ni_respond change: one session has an answer now.
LEMMA AnswerInv ==
  ASSUME NiInv, NEW k \in Kinds, NEW resp \in Responses, ~Locked(k),
         session' = [session EXCEPT ![k].resp = resp, ![k].respRecvd = TRUE],
         UNCHANGED <<reqIDCounter, ni_thread, ni_task, notified, informed, ni_restarts, said>>,
         crossed' \in BOOLEAN, crossed => crossed',
         crossed' \/ ~InSession(k) \/ resp \in {"IGNORE", said[session[k].rawRequest]},
         ni_user' \in UserType,
         ni_user'.pc # "idle" => /\ ni_user.pc # "idle" /\ ni_user'.request = ni_user.request
                                 /\ ni_user'.resp = ni_user.resp
  PROVE NiInv'
<1> DEFINE s == [session[k] EXCEPT !.resp = resp, !.respRecvd = TRUE]
<1>1. session[k] \in Session
  BY DEF NiInv, NiTypeOK
<1>2. s \in Session /\ session' = [session EXCEPT ![k] = s]
  BY <1>1 DEF Session
<1>3. NiTypeOK'
  <2>1. NiTypeOK /\ s \in Session
    BY <1>2 DEF NiInv
  <2>2. [session EXCEPT ![k] = s] \in [Kinds -> Session]
    BY ONLY <2>1, SessionType, k \in Kinds
  <2>3. session' \in [Kinds -> Session]
    BY <1>2, <2>2
  <2> QED
    BY <2>3 DEF NiInv, NiTypeOK, UserType
<1>4. /\ session'[k].resp = resp /\ session'[k].rawRequest = session[k].rawRequest
      /\ \A l \in Kinds \ {k} : session'[l] = session[l]
  BY <1>1, <1>2 DEF NiInv, NiTypeOK, Session
<1>5. FewerRequests /\ FewerAnswers /\ FewerBuilders
  BY <1>4 DEF FewerRequests, FewerAnswers, FewerBuilders, Holds, Carries, Builds
<1>6. InOnePlace' /\ InformedOnce'
  BY <1>5, StayInPlace
<1>7. OwnAnswers'
  <2>1. \A t \in Requests : Builds(t)' => ni_thread[t].kind \in Kinds \ {k}
    BY DEF Locked, Builds, NiInv, NiTypeOK
  <2> QED
    BY <1>4, <1>5, <2>1, StayOwn DEF InSession
<1>8. Numbered' /\ MessageKept' /\ Restarted'
  BY <1>4 DEF NiInv, NiTypeOK, Numbered, MessageKept, Restarted, InSession
<1>10. OneBuilder' /\ OnlyRestarts'
  <2>1. \A l \in Kinds : session'[l].rawRequest = session[l].rawRequest
    BY <1>4
  <2>2. \A t \in Requests : ni_thread[t].kind \in Kinds
    BY DEF NiInv, NiTypeOK
  <2>3. OneBuilder'
    BY DEF NiInv, OneBuilder, Builds
  <2>4. OnlyRestarts'
    BY <2>1, <2>2 DEF NiInv, OnlyRestarts, Builds, Holds, Carries, InSession
  <2> QED
    BY <2>3, <2>4
<1>9. AskedOnce'
  BY DEF NiInv, AskedOnce
<1> QED
  BY <1>3, <1>6, <1>7, <1>8, <1>9, <1>10 DEF NiInv

LEMMA LookAtOtherInv ==
  ASSUME NiInv, NiLookAtOther
  PROVE NiInv'
<1>1. /\ ni_user.pc = "accepted" /\ ni_user'.request = ni_user.request
      /\ ni_user'.resp = ni_user.resp /\ ni_user' \in UserType
  BY DEF NiLookAtOther, NiInv, NiTypeOK, UserType
<1>2. UNCHANGED <<session, reqIDCounter, ni_thread, ni_task, notified, informed,
                  ni_restarts, said, crossed>>
  BY DEF NiLookAtOther
<1>3. NiTypeOK'
  BY <1>1, <1>2 DEF NiInv, NiTypeOK, UserType
<1>4. Numbered' /\ MessageKept' /\ OneBuilder' /\ OnlyRestarts'
  BY <1>2 DEF NiInv, Numbered, MessageKept, OneBuilder, Builds, OnlyRestarts, Holds, Carries,
              InSession
<1>5. InOnePlace' /\ InformedOnce' /\ OwnAnswers' /\ Restarted'
  BY <1>2 DEF NiInv, InOnePlace, InformedOnce, OwnAnswers, Restarted, Builds, Holds, Carries,
              InSession
<1>6. AskedOnce'
  BY <1>1, <1>2 DEF NiInv, AskedOnce
<1> QED
  BY <1>3, <1>4, <1>5, <1>6 DEF NiInv

LEMMA IgnoreInv ==
  ASSUME NiInv, NiIgnoreOther
  PROVE NiInv'
<1>1. "NI" \in Kinds /\ "IGNORE" \in Responses /\ crossed \in BOOLEAN
  BY DEF Kinds, Responses, NiInv, NiTypeOK
<1>2. /\ ni_user \in UserType /\ ni_user.pc = "ignore"
      /\ ni_user' = [ni_user EXCEPT !.pc = "store"]
  BY DEF NiIgnoreOther, NiInv, NiTypeOK, UserType
<1>3. ni_user' \in UserType /\ ni_user'.request = ni_user.request /\ ni_user'.resp = ni_user.resp
  BY <1>2 DEF UserType
<1> QED
  BY <1>1, <1>2, <1>3, AnswerInv DEF NiIgnoreOther

LEMMA StoreInv ==
  ASSUME NiInv, NiStoreAnswer
  PROVE NiInv'
<1>1. ni_user.kind \in Kinds /\ ni_user.resp \in Responses /\ crossed' \in BOOLEAN
  BY DEF NiStoreAnswer, NiInv, NiTypeOK
<1>2. ni_user' \in UserType /\ ni_user'.pc = "idle"
  BY DEF NiStoreAnswer, IdleUser, UserType, Kinds, Responses
<1>3. crossed' \/ ni_user.resp = said[session[ni_user.kind].rawRequest]
  BY DEF NiStoreAnswer, NiInv, AskedOnce
<1> QED
  BY <1>1, <1>2, <1>3, AnswerInv DEF NiStoreAnswer

-----------------------------------------------------------------------------

LEMMA NiInitInv == NiInit => NiInv
<1> SUFFICES ASSUME NiInit PROVE NiInv
  OBVIOUS
<1>0. \A r \in Payloads : informed[r] = << >> /\ Len(informed[r]) = 0
  BY DEF NiInit
<1>1. Numbered /\ MessageKept /\ OneBuilder /\ OnlyRestarts /\ Restarted
  BY <1>0 DEF NiInit, Numbered, MessageKept, OneBuilder, OnlyRestarts, Builds, Holds, Requests,
              Payloads, IdleTask, Kinds, Restarted
<1>2. InOnePlace /\ InformedOnce
  BY <1>0 DEF NiInit, InOnePlace, InformedOnce, Carries, Holds, InSession, Requests, Payloads
<1>3. AskedOnce /\ OwnAnswers
  BY <1>0 DEF NiInit, AskedOnce, OwnAnswers, Holds, Carries, Builds, InSession, Requests,
              Payloads, IdleTask, IdleUser
<1> QED
  BY <1>1, <1>2, <1>3, NiInitType DEF NiInv

LEMMA NiNextInv == NiInv /\ [NiNext]_niVars => NiInv'
<1> SUFFICES ASSUME NiInv, [NiNext]_niVars PROVE NiInv'
  OBVIOUS
<1>1. CASE UNCHANGED niVars
  <2>1. NiTypeOK' /\ AskedOnce'
    BY <1>1 DEF niVars, NiInv, NiTypeOK, AskedOnce
  <2>2. Numbered' /\ MessageKept' /\ OneBuilder' /\ OnlyRestarts'
    BY <1>1 DEF niVars, NiInv, Numbered, MessageKept, OneBuilder, Builds, OnlyRestarts, Holds,
                Carries, InSession
  <2>3. InOnePlace' /\ InformedOnce' /\ OwnAnswers' /\ Restarted'
    BY <1>1 DEF niVars, NiInv, InOnePlace, InformedOnce, OwnAnswers, Restarted, Builds, Holds,
                Carries, InSession
  <2> QED
    BY <2>1, <2>2, <2>3 DEF NiInv
<1>2. ASSUME NEW k \in Kinds, NiAccept(k) PROVE NiInv'
  BY <1>2, AcceptInv
<1>3. CASE NiRestart \/ NiTaskStep
  BY <1>3, NumberInv, NotifyInv, RestartInv, ResetInv DEF NiTaskStep
<1>4. ASSUME NEW r \in Requests, NiThreadStep(r) PROVE NiInv'
  <2>1. CASE NiThreadAnswered(r)
    <3>1. session[ni_thread[r].kind].resp \in Responses \cup {"unset"}
      BY DEF NiInv, NiTypeOK, Session
    <3> QED
      BY <2>1, <3>1, LeaveInv DEF NiThreadAnswered
  <2>2. CASE NiThreadTimeout(r)
    BY <2>2, LeaveInv DEF NiThreadTimeout, Responses
  <2>3. CASE \/ NiThreadWaits(r) \/ NiThreadBuilds(r) \/ NiThreadClears(r)
             \/ NiThreadSends(r)
    BY <2>3, WaitsInv, BuildsInv, ClearsInv, SendsInv
  <2> QED
    BY <1>4, <2>1, <2>2, <2>3 DEF NiThreadStep
<1>5. ASSUME NEW n \in notified, NEW resp \in {"ACCEPT", "DENY"}, NiRespond(n, resp)
      PROVE NiInv'
  BY <1>5, RespondInv
<1>6. CASE NiUserStep
  BY <1>6, LookAtOtherInv, IgnoreInv, StoreInv DEF NiUserStep
<1> QED
  BY <1>1, <1>2, <1>3, <1>4, <1>5, <1>6 DEF NiNext

\* The invariant of loc_eng_ni.cpp: where a request is, and what lies beside it.
THEOREM NiInvariant == NiSpec => []NiInv
BY NiInitInv, NiNextInv, PTL DEF NiSpec

\* For a request one answer is sent at most (ni_thread_proc), and an answer to no request
\* only after the modem was restarted, for any number of requests and restarts, in any
\* order of timeouts, answers and restarts.
THEOREM OnceCorrect == NiSpec => []AnsweredOnce
<1>1. NiInv => AnsweredOnce
  BY DEF NiInv, InformedOnce, OnlyRestarts, AnsweredOnce
<1> QED
  BY NiInvariant, <1>1, PTL

\* What the modem is told (ni_thread_proc) is what the user said to that very request
\* (loc_eng_ni_respond) or that nobody answered, unless a session was used again while
\* something of its last request was still about.
THEOREM OwnCorrect == NiSpec => []AnswersOwnRequest
<1>1. NiInv => AnswersOwnRequest
  BY DEF NiInv, OwnAnswers, AnswersOwnRequest
<1> QED
  BY NiInvariant, <1>1, PTL

=============================================================================
