------------------------------ MODULE LocTimer ------------------------------
(***************************************************************************)
(* Timers of the GPS libraries.  A client starts and stops its timer on    *)
(* any thread; each start creates a delegate.  The thread of the message   *)
(* queue alone touches the heap of delegates and keeps the kernel's timer  *)
(* set to the soonest of them; another thread polls that timer and, when   *)
(* it fires, asks the first to expire what is due.                         *)
(*                                                                         *)
(* A delegate is due at a point in time, but the heap ranks delegates by   *)
(* the second they are due in.                                             *)
(***************************************************************************)
EXTENDS Integers, Sequences, FiniteSets

CONSTANTS
    Timers,         \* the clients' timers
    Delays,         \* how long they may be started for
    TicksPerSecond, \* points in time per second
    MaxDelegates,   \* bound on the starts
    MaxTime         \* bound on the time, which begins at 1

ASSUME LocTimerAssumption ==
    /\ Delays \subseteq Nat \ {0} /\ TicksPerSecond \in Nat \ {0}
    /\ MaxDelegates \in Nat /\ MaxTime \in Nat \ {0}

VARIABLES
    mTimer,         \* the delegate of each timer
    delegate,       \* the delegates: client and time
    started,        \* how many there have been
    heap,           \* those in the container
    timer_queue,    \* messages for the thread of the message queue
    timer_task,     \* what that thread is doing
    poll_pc,        \* what the polling thread is doing
    timerfd,        \* the kernel's timer: when it fires, 0 if it will not, and
                    \* whether it is polled
    now,
    ended,          \* history: how each start ended
    callbacks       \* history: when each callback was called, and for what time

timerVars == <<mTimer, delegate, started, heap, timer_queue, timer_task, poll_pc,
               timerfd, now, ended, callbacks>>

Delegates == 1..MaxDelegates        \* 0 is NULL
Times == 0..MaxTime
Second(t) == t \div TicksPerSecond

TimerTypeOK ==
    /\ mTimer \in [Timers -> Delegates \cup {0}]
    /\ delegate \in [Delegates -> [mClient: Timers \cup {"NULL"}, due: Times]]
    /\ started \in 0..MaxDelegates
    /\ heap \subseteq 1..started
    /\ \A i \in DOMAIN timer_queue :
           timer_queue[i] \in [type: {"Push", "Remove"}, timer: 1..started]
                              \cup [type: {"Expire"}]
    /\ timer_task \in [pc: {"next", "add_poll", "set_time", "expire", "stop"},
                       timer: Delegates \cup {0}, client: Timers \cup {"NULL"},
                       now: Times]
    /\ poll_pc \in {"wait", "disarm", "remove_poll", "send"}
    /\ timerfd \in [at: Times, polled: BOOLEAN]
    /\ now \in Times
    /\ ended \in [Delegates -> SUBSET {"stopped", "called"}]
    /\ callbacks \subseteq [at: Times, due: Times]

Idle == [pc |-> "next", timer |-> 0, client |-> "NULL", now |-> 0]

TimerInit ==
    /\ mTimer = [t \in Timers |-> 0]
    /\ delegate = [d \in Delegates |->
                       [mClient |-> "NULL", due |-> 0]]
    /\ started = 0 /\ heap = {} /\ timer_queue = << >>
    /\ timer_task = Idle /\ poll_pc = "wait"
    /\ timerfd = [at |-> 0, polled |-> FALSE]
    /\ now = 1
    /\ ended = [d \in Delegates |-> {}] /\ callbacks = {}

-----------------------------------------------------------------------------
(* Clients.  Both operations hold the timer's lock from beginning to end.  *)

StartTimer(t, delay) ==
    LET d == started + 1 IN
    /\ mTimer[t] = 0
    /\ started < MaxDelegates /\ now + delay <= MaxTime
    /\ started' = d
    /\ delegate' = [delegate EXCEPT ![d] =
           [mClient |-> t, due |-> now + delay]]
    /\ mTimer' = [mTimer EXCEPT ![t] = d]
    /\ timer_queue' = Append(timer_queue, [type |-> "Push", timer |-> d])
    /\ UNCHANGED <<heap, timer_task, poll_pc, timerfd, now, ended, callbacks>>

\* stop() and destroyLocked().
Stopped(t, how) ==
    LET d == mTimer[t] IN
    /\ mTimer' = [mTimer EXCEPT ![t] = 0]
    /\ delegate' = [delegate EXCEPT ![d].mClient = "NULL"]
    /\ timer_queue' = Append(timer_queue, [type |-> "Remove", timer |-> d])
    /\ ended' = [ended EXCEPT ![d] = @ \cup {how}]

StopTimer(t) ==
    /\ mTimer[t] # 0
    /\ Stopped(t, "stopped")
    /\ UNCHANGED <<started, heap, timer_task, poll_pc, timerfd, now, callbacks>>

-----------------------------------------------------------------------------
(* The thread of the message queue.                                        *)

\* The tops the heap may have: it does not sort those of one second.
Tops(h) == {d \in h : \A e \in h :
                Second(delegate[d].due) <= Second(delegate[e].due)}

\* updateSoonestTime, for a new top; the poll comes first.  No caller lets it
\* see that the heap has become empty ("we remove poll and disarm timer").
Update(top) == [Idle EXCEPT !.pc = "add_poll", !.timer = top]

\* Mutant: only the first delegate sets the kernel's timer.
HandlePushFirst(d) ==
    /\ heap' = heap \cup {d}
    /\ timer_task' = IF heap = {} THEN Update(d) ELSE Idle
    /\ UNCHANGED delegate

\* A delegate that outranks the top, or is the first, becomes the top.
HandlePush(d) ==
    LET soonest == \A e \in heap : Second(delegate[d].due) < Second(delegate[e].due)
    IN
    /\ heap' = heap \cup {d}
    /\ timer_task' = IF soonest THEN Update(d) ELSE Idle
    /\ UNCHANGED delegate

\* The kernel's timer is set again only if the top is removed, and then for
\* the next one.
HandleRemove(d) ==
    /\ heap' = heap \ {d}
    /\ UNCHANGED delegate
    /\ \/ Tops(heap) # {d} /\ timer_task' = Idle
       \/ heap = {d} /\ timer_task' = Idle
       \/ d \in Tops(heap) /\ \E top \in Tops(heap') : timer_task' = Update(top)

\* pop() takes the top whatever its time; with an empty heap there is nothing
\* to do ("check if top has changed").
HandleExpire ==
    /\ UNCHANGED delegate
    /\ IF heap = {} THEN UNCHANGED heap /\ timer_task' = Idle
       ELSE \E d \in Tops(heap) :
               /\ heap' = heap \ {d}
               /\ timer_task' = [pc |-> "expire", timer |-> d,
                                 client |-> "NULL", now |-> now]

TimerHandle ==
    /\ timer_task.pc = "next"
    /\ timer_queue # << >>
    /\ timer_queue' = Tail(timer_queue)
    /\ LET m == Head(timer_queue) IN
       \/ m.type = "Push" /\ HandlePush(m.timer)
       \/ m.type = "Remove" /\ HandleRemove(m.timer)
       \/ m.type = "Expire" /\ HandleExpire
    /\ UNCHANGED <<mTimer, started, poll_pc, timerfd, now, ended, callbacks>>

\* The calls to the kernel, in their order.
TimerSetsKernel ==
    /\ \/ /\ timer_task.pc = "add_poll"
          /\ timerfd' = [timerfd EXCEPT !.polled = TRUE]
          /\ timer_task' = [timer_task EXCEPT !.pc = "set_time"]
       \/ /\ timer_task.pc = "set_time"
          /\ timerfd' = [timerfd EXCEPT !.at = delegate[timer_task.timer].due]
          /\ timer_task' = Idle
    /\ UNCHANGED <<mTimer, delegate, started, heap, timer_queue, poll_pc, now,
                   ended, callbacks>>

\* LocTimerDelegate::expire, first without the client's lock ...
ExpireReadsClient ==
    /\ timer_task.pc = "expire"
    /\ timer_task' = [timer_task EXCEPT
                          !.pc = "stop", !.client = delegate[timer_task.timer].mClient]
    /\ UNCHANGED <<mTimer, delegate, started, heap, timer_queue, poll_pc, timerfd,
                   now, ended, callbacks>>

\* ... then with it: whatever the client's timer is by now is stopped, and its
\* callback called.  Everything of this second or an earlier one follows.
ExpireStopsClient ==
    LET c == timer_task.client  due == {d \in Tops(heap) :
                Second(delegate[d].due) <= Second(timer_task.now)} IN
    /\ timer_task.pc = "stop"
    /\ IF c # "NULL" /\ mTimer[c] # 0
       THEN /\ Stopped(c, "called")
            /\ callbacks' = callbacks \cup
                   {[at |-> now, due |-> delegate[mTimer[c]].due]}
       ELSE UNCHANGED <<mTimer, delegate, timer_queue, ended, callbacks>>
    /\ IF due # {}
       THEN \E d \in due :
               /\ heap' = heap \ {d}
               /\ timer_task' = [timer_task EXCEPT !.pc = "expire", !.timer = d]
       ELSE /\ UNCHANGED heap
            /\ \/ heap = {} /\ timer_task' = Idle
               \/ \E top \in Tops(heap) : timer_task' = Update(top)
    /\ UNCHANGED <<started, poll_pc, timerfd, now>>

-----------------------------------------------------------------------------
(* The polling thread, and the kernel.                                     *)

PollFires ==
    /\ poll_pc = "wait"
    /\ timerfd.polled /\ timerfd.at # 0 /\ timerfd.at <= now
    /\ poll_pc' = "disarm"
    /\ UNCHANGED <<mTimer, delegate, started, heap, timer_queue, timer_task,
                   timerfd, now, ended, callbacks>>

\* LocTimerContainer::expire.
PollExpires ==
    /\ \/ /\ poll_pc = "disarm"
          /\ timerfd' = [timerfd EXCEPT !.at = 0]
          /\ poll_pc' = "remove_poll"
          /\ UNCHANGED timer_queue
       \/ /\ poll_pc = "remove_poll"
          /\ timerfd' = [timerfd EXCEPT !.polled = FALSE]
          /\ poll_pc' = "send"
          /\ UNCHANGED timer_queue
       \/ /\ poll_pc = "send"
          /\ timer_queue' = Append(timer_queue, [type |-> "Expire"])
          /\ poll_pc' = "wait"
          /\ UNCHANGED timerfd
    /\ UNCHANGED <<mTimer, delegate, started, heap, timer_task, now, ended,
                   callbacks>>

Tick ==
    /\ now < MaxTime
    /\ now' = now + 1
    /\ UNCHANGED <<mTimer, delegate, started, heap, timer_queue, timer_task,
                   poll_pc, timerfd, ended, callbacks>>

TimerTaskStep == \/ TimerHandle \/ TimerSetsKernel
                 \/ ExpireReadsClient \/ ExpireStopsClient

TimerNext ==
    \/ \E t \in Timers : StopTimer(t) \/ \E delay \in Delays : StartTimer(t, delay)
    \/ TimerTaskStep \/ PollFires \/ PollExpires \/ Tick

\* Both threads run, and time passes.
TimerFairness ==
    /\ WF_timerVars(TimerTaskStep)
    /\ WF_timerVars(PollFires \/ PollExpires)
    /\ WF_timerVars(Tick)

TimerSpec == TimerInit /\ [][TimerNext]_timerVars /\ TimerFairness

-----------------------------------------------------------------------------

\* With nothing under way the kernel's timer is set for the second of the
\* soonest delegate, however starts, stops and expiries of both threads crossed.
KernelSetForSoonest ==
    /\ timer_queue = << >> /\ timer_task.pc = "next" /\ poll_pc = "wait"
    /\ heap # {}
    => /\ timerfd.polled /\ timerfd.at # 0
       /\ \A d \in heap : Second(timerfd.at) <= Second(delegate[d].due)

\* Every start ends.
TimerEnds == \A d \in Delegates : started >= d ~> ended[d] # {}

\* A callback is called when its time has come ("pop everything in the heap that
\* outRanks now, i.e. has time older than now and then call expire()").
NeverEarly == \A c \in callbacks : c.due <= c.at
=============================================================================
