------------------------------ MODULE LocEngNi ------------------------------
(***************************************************************************)
(* Requests the network initiates: someone asks where the phone is, the    *)
(* user is asked, and the answer goes back to the modem.  There is one     *)
(* session for emergency requests and one for the others.  Requests and    *)
(* modem restarts are handled by the thread of the message queue, answers  *)
(* come from the framework's thread, and every request has a thread of its *)
(* own that waits for the answer or gives up.                              *)
(*                                                                         *)
(* Only respRecvd and resp are guarded by tLock throughout.  rawRequest    *)
(* and reqID are read and written without it, so an access that another    *)
(* thread can get in front of, and that matters when it does, is a step of *)
(* its own.  tLock is held between two steps only where a thread builds    *)
(* its answer.                                                             *)
(***************************************************************************)
EXTENDS Integers, Sequences

CONSTANTS
    MaxRequests,    \* bound on the requests that are accepted
    MaxRestarts     \* bound on the restarts of the modem

ASSUME LocEngNiAssumption == MaxRequests \in Nat \ {0} /\ MaxRestarts \in Nat

VARIABLES
    session,        \* the two sessions
    reqIDCounter,
    ni_thread,      \* the thread that serves each request
    ni_task,        \* what the thread of the message queue is doing
    ni_user,        \* the call of loc_eng_ni_respond in progress
    notified,       \* notifications the user has not answered
    informed,       \* the answers sent for each request, in order; of 0: those that
                    \* were built from a NULL, which informNiResponse reads through
    ni_restarts,
    said,           \* history: what the user answered to each request
    crossed         \* history: a session was used again while a thread or an
                    \* answer of its last request was still about

niVars == <<session, reqIDCounter, ni_thread, ni_task, ni_user, notified,
            informed, ni_restarts, said, crossed>>

Kinds == {"ES", "NI"}
Requests == 1..MaxRequests      \* 0 is NULL, or no request
Payloads == Requests \cup {0}
Responses == {"ACCEPT", "DENY", "NORESP", "IGNORE"}

\* rawRequest is the number of the request it belongs to; respTimeLeft is
\* either the time the user has or 0.
Session == [rawRequest: Requests \cup {0}, reqID: Requests \cup {0},
            resp: Responses \cup {"unset"}, respRecvd: BOOLEAN,
            respTimeLeft: BOOLEAN]

NiTypeOK ==
    /\ session \in [Kinds -> Session]
    /\ reqIDCounter \in Nat
    /\ ni_thread \in [Requests ->
           [pc: {"none", "start", "wait", "build", "clear", "send", "exit"},
            kind: Kinds, msg: Responses \cup {"unset", "none"},
            payload: Requests \cup {0}]]
    /\ ni_task \in [pc: {"idle", "number", "notify", "restart", "free", "null",
                         "signal"}, kind: Kinds]
    /\ ni_user \in [pc: {"idle", "accepted", "ignore", "store"}, kind: Kinds,
                    id: Requests \cup {0}, request: Requests \cup {0},
                    resp: Responses]
    /\ notified \subseteq [id: Requests \cup {0}, request: Requests]
    /\ informed \in [Payloads -> Seq(Responses \cup {"unset"})]
    /\ ni_restarts \in 0..MaxRestarts
    /\ said \in [Requests -> Responses \cup {"nothing"}]
    /\ crossed \in BOOLEAN

IdleTask == [pc |-> "idle", kind |-> "NI"]
IdleUser == [pc |-> "idle", kind |-> "NI", id |-> 0, request |-> 0,
             resp |-> "DENY"]

\* loc_eng_ni_init.
NiInit ==
    /\ session = [k \in Kinds |->
           [rawRequest |-> 0, reqID |-> 0, resp |-> "unset",
            respRecvd |-> FALSE, respTimeLeft |-> FALSE]]
    /\ reqIDCounter = 0
    /\ ni_thread = [r \in Requests |-> [pc |-> "none", kind |-> "NI",
                                        msg |-> "none", payload |-> 0]]
    /\ ni_task = IdleTask
    /\ ni_user = IdleUser
    /\ notified = {}
    /\ informed = [r \in Payloads |-> << >>]
    /\ ni_restarts = 0
    /\ said = [r \in Requests |-> "nothing"]
    /\ crossed = FALSE

InSession(k) == session[k].rawRequest # 0

\* tLock of a session is held from one step to the next.
Locked(k) == \E r \in Requests : ni_thread[r].pc = "build" /\ ni_thread[r].kind = k

-----------------------------------------------------------------------------
(* The thread of the message queue.                                        *)

\* A request whose session is taken is dropped; an emergency also keeps other
\* requests out.  ("If a previous request is in session, it is ignored.")
NiAccept(k) ==
    /\ ni_task.pc = "idle"
    /\ reqIDCounter < MaxRequests
    /\ ~InSession("ES")
    /\ k = "NI" => ~InSession("NI")
    /\ reqIDCounter' = reqIDCounter + 1
    /\ session' = [session EXCEPT ![k].rawRequest = reqIDCounter + 1]
    /\ ni_task' = [pc |-> "number", kind |-> k]
    /\ crossed' = (\/ crossed
                   \/ session[k].respRecvd
                   \/ \E r \in Requests :
                          /\ ni_thread[r].kind = k
                          /\ ni_thread[r].pc \in {"start", "wait", "build", "clear"})
    /\ UNCHANGED <<ni_thread, ni_user, notified, informed, ni_restarts, said>>

NiNumber ==
    /\ ni_task.pc = "number"
    /\ session' = [session EXCEPT ![ni_task.kind].reqID = reqIDCounter]
    /\ ni_task' = [ni_task EXCEPT !.pc = "notify"]
    /\ UNCHANGED <<reqIDCounter, ni_thread, ni_user, notified, informed, ni_restarts,
                   said, crossed>>

\* The notification carries the number the session has by now.
NiNotify ==
    LET k == ni_task.kind  r == reqIDCounter IN
    /\ ni_task.pc = "notify"
    /\ session' = [session EXCEPT ![k].respTimeLeft = TRUE]
    /\ ni_thread' = [ni_thread EXCEPT ![r] = [pc |-> "start", kind |-> k, msg |-> "none",
                                              payload |-> 0]]
    /\ notified' = notified \cup {[id |-> session[k].reqID, request |-> r]}
    /\ ni_task' = IdleTask
    /\ UNCHANGED <<reqIDCounter, ni_user, informed, ni_restarts, said, crossed>>

NiRestart ==
    /\ ni_task.pc = "idle"
    /\ ni_restarts < MaxRestarts
    /\ ni_restarts' = ni_restarts + 1
    /\ ni_task' = [pc |-> "restart", kind |-> "ES"]
    /\ UNCHANGED <<session, reqIDCounter, ni_thread, ni_user, notified,
                   informed, said, crossed>>

\* After the emergency session comes the other one.
NextKind(k) == IF k = "ES" THEN [pc |-> "restart", kind |-> "NI"] ELSE IdleTask

\* loc_eng_ni_reset_on_engine_restart frees the request and forgets it, both
\* without the lock, and then wakes the thread.
NiReset ==
    LET k == ni_task.kind IN
    /\ \/ /\ ni_task.pc = "restart"
          /\ ni_task' = IF InSession(k) THEN [ni_task EXCEPT !.pc = "free"]
                                        ELSE NextKind(k)
          /\ UNCHANGED session
       \/ /\ ni_task.pc = "free"
          /\ ni_task' = [ni_task EXCEPT !.pc = "null"]
          /\ UNCHANGED session
       \/ /\ ni_task.pc = "null"
          /\ ni_task' = [ni_task EXCEPT !.pc = "signal"]
          /\ session' = [session EXCEPT ![k].rawRequest = 0]
       \/ /\ ni_task.pc = "signal"
          /\ ~Locked(k)
          /\ ni_task' = NextKind(k)
          /\ session' = [session EXCEPT ![k].respRecvd = TRUE]
    /\ UNCHANGED <<reqIDCounter, ni_thread, ni_user, notified, informed,
                   ni_restarts, said, crossed>>

-----------------------------------------------------------------------------
(* The thread of a request.                                                *)

\* The wait is over.  How the thread leaves the loop is its answer; it has tLock, and
\* looks whether there is a request to answer.
Leave(r, resp) ==
    LET k == ni_thread[r].kind  answers == InSession(k) /\ resp # "IGNORE" IN
    /\ session' = [session EXCEPT ![k].resp = resp, ![k].respRecvd = FALSE,
                                  ![k].rawRequest = IF answers THEN @ ELSE 0]
    /\ ni_thread' = [ni_thread EXCEPT ![r].pc = IF answers THEN "build" ELSE "clear"]
    /\ UNCHANGED <<reqIDCounter, ni_task, ni_user, notified, informed,
                   ni_restarts, said, crossed>>

\* Mutant: the request stays in the session.
BuildsAndKeeps(r) ==
    LET k == ni_thread[r].kind IN
    /\ ni_thread[r].pc = "build"
    /\ ni_thread' = [ni_thread EXCEPT ![r].pc = "clear", ![r].msg = session[k].resp,
                                      ![r].payload = session[k].rawRequest]
    /\ UNCHANGED <<session, reqIDCounter, ni_task, ni_user, notified, informed,
                   ni_restarts, said, crossed>>

\* The answer is built from the request that is in the session by now, or from the NULL
\* that a restart has put there, and the thread gives up tLock.
NiThreadBuilds(r) ==
    LET k == ni_thread[r].kind IN
    /\ ni_thread[r].pc = "build"
    /\ session' = [session EXCEPT ![k].rawRequest = 0]
    /\ ni_thread' = [ni_thread EXCEPT ![r].pc = "clear", ![r].msg = session[k].resp,
                                      ![r].payload = session[k].rawRequest]
    /\ UNCHANGED <<reqIDCounter, ni_task, ni_user, notified, informed,
                   ni_restarts, said, crossed>>

\* It starts, or is woken: with an answer it leaves.  (A wakeup without one
\* goes back to the wait.)
NiThreadAnswered(r) ==
    /\ ni_thread[r].pc \in {"start", "wait"} /\ ~Locked(ni_thread[r].kind)
    /\ session[ni_thread[r].kind].respRecvd
    /\ Leave(r, session[ni_thread[r].kind].resp)

NiThreadWaits(r) ==
    /\ ni_thread[r].pc = "start" /\ ~Locked(ni_thread[r].kind)
    /\ ~session[ni_thread[r].kind].respRecvd
    /\ ni_thread' = [ni_thread EXCEPT ![r].pc = "wait"]
    /\ UNCHANGED <<session, reqIDCounter, ni_task, ni_user, notified, informed,
                   ni_restarts, said, crossed>>

\* Mutant: a timeout sends whatever the session's last answer was.
NiThreadTimeoutStale(r) ==
    /\ ni_thread[r].pc = "wait" /\ ~Locked(ni_thread[r].kind)
    /\ Leave(r, session[ni_thread[r].kind].resp)

\* The time is up.  An answer that came while the thread was getting the lock
\* back is overwritten.
NiThreadTimeout(r) ==
    /\ ni_thread[r].pc = "wait" /\ ~Locked(ni_thread[r].kind)
    /\ Leave(r, "NORESP")

\* respTimeLeft and reqID are cleared without the lock: by now they may belong
\* to the next request.
NiThreadClears(r) ==
    LET k == ni_thread[r].kind IN
    /\ ni_thread[r].pc = "clear"
    /\ session' = [session EXCEPT ![k].respTimeLeft = FALSE, ![k].reqID = 0]
    /\ ni_thread' = [ni_thread EXCEPT ![r].pc =
                        IF ni_thread[r].msg # "none" THEN "send" ELSE "exit"]
    /\ UNCHANGED <<reqIDCounter, ni_task, ni_user, notified, informed,
                   ni_restarts, said, crossed>>

NiThreadSends(r) ==
    /\ ni_thread[r].pc = "send"
    /\ informed' = [informed EXCEPT
                        ![ni_thread[r].payload] = Append(@, ni_thread[r].msg)]
    /\ ni_thread' = [ni_thread EXCEPT ![r].pc = "exit"]
    /\ UNCHANGED <<session, reqIDCounter, ni_task, ni_user, notified,
                   ni_restarts, said, crossed>>

-----------------------------------------------------------------------------
(* loc_eng_ni_respond.                                                     *)

\* The session is looked up by number, without a lock.  The user may answer
\* each notification once.
NiRespond(n, resp) ==
    /\ ni_user.pc = "idle"
    /\ n \in notified
    /\ notified' = notified \ {n}
    /\ said' = [said EXCEPT ![n.request] = resp]
    /\ LET Is(k) == session[k].reqID = n.id /\ InSession(k)
           To(k, pc) == [pc |-> pc, kind |-> k, id |-> n.id,
                         request |-> n.request, resp |-> resp]
       IN ni_user' = CASE Is("ES") ->
                            To("ES", IF resp = "ACCEPT" THEN "accepted" ELSE "store")
                       [] ~Is("ES") /\ Is("NI") -> To("NI", "store")
                       [] OTHER -> IdleUser
    /\ UNCHANGED <<session, reqIDCounter, ni_thread, ni_task, informed,
                   ni_restarts, crossed>>

\* An accepted emergency makes the other session, if there is one, go away without an
\* answer.
NiLookAtOther ==
    /\ ni_user.pc = "accepted"
    /\ ni_user' = [ni_user EXCEPT !.pc = IF InSession("NI") THEN "ignore" ELSE "store"]
    /\ UNCHANGED <<session, reqIDCounter, ni_thread, ni_task, notified, informed,
                   ni_restarts, said, crossed>>

NiIgnoreOther ==
    /\ ni_user.pc = "ignore" /\ ~Locked("NI")
    /\ session' = [session EXCEPT !["NI"].resp = "IGNORE",
                                  !["NI"].respRecvd = TRUE]
    /\ ni_user' = [ni_user EXCEPT !.pc = "store"]
    /\ UNCHANGED <<reqIDCounter, ni_thread, ni_task, notified, informed,
                   ni_restarts, said, crossed>>

\* Mutant: the answer goes to the modem at once, too.
NiStoreAndSend ==
    LET k == ni_user.kind IN
    /\ ni_user.pc = "store" /\ ~Locked(k)
    /\ session' = [session EXCEPT ![k].resp = ni_user.resp,
                                  ![k].respRecvd = TRUE]
    /\ informed' = [informed EXCEPT ![ni_user.request] = Append(@, ni_user.resp)]
    /\ crossed' = (crossed \/ session[k].rawRequest # ni_user.request)
    /\ ni_user' = IdleUser
    /\ UNCHANGED <<reqIDCounter, ni_thread, ni_task, notified, ni_restarts, said>>

NiStoreAnswer ==
    LET k == ni_user.kind IN
    /\ ni_user.pc = "store" /\ ~Locked(k)
    /\ session' = [session EXCEPT ![k].resp = ni_user.resp,
                                  ![k].respRecvd = TRUE]
    /\ crossed' = (crossed \/ session[k].rawRequest # ni_user.request)
    /\ ni_user' = IdleUser
    /\ UNCHANGED <<reqIDCounter, ni_thread, ni_task, notified, informed,
                   ni_restarts, said>>

NiThreadStep(r) ==
    \/ NiThreadAnswered(r) \/ NiThreadWaits(r) \/ NiThreadTimeout(r)
    \/ NiThreadBuilds(r) \/ NiThreadClears(r) \/ NiThreadSends(r)

NiTaskStep == NiNumber \/ NiNotify \/ NiReset
NiUserStep == NiLookAtOther \/ NiIgnoreOther \/ NiStoreAnswer

NiNext ==
    \/ \E k \in Kinds : NiAccept(k)
    \/ NiRestart \/ NiTaskStep
    \/ \E r \in Requests : NiThreadStep(r)
    \/ \E n \in notified, resp \in {"ACCEPT", "DENY"} : NiRespond(n, resp)
    \/ NiUserStep

\* Threads run and timed waits end; users need not answer, modems need not ask.
NiFairness ==
    /\ WF_niVars(NiTaskStep)
    /\ WF_niVars(NiUserStep)
    /\ \A r \in Requests : WF_niVars(NiThreadStep(r))

NiSpec == NiInit /\ [][NiNext]_niVars /\ NiFairness

-----------------------------------------------------------------------------

\* For a request one answer is sent at most, be it the same one again, whatever crosses
\* whatever; and an answer to no request is sent only if the modem was restarted.
AnsweredOnce ==
    /\ \A r \in Requests : Len(informed[r]) <= 1
    /\ informed[0] # << >> => ni_restarts > 0

\* The user's answer reaches the modem for the request the user was asked
\* about and for no other, unless it crossed the end of that request's session
\* ("ID to check against response").  Above all, nobody is told where the phone
\* is because of an answer to somebody else.
AnswersOwnRequest ==
    \/ crossed
    \/ \A r \in Requests : \A i \in DOMAIN informed[r] :
           informed[r][i] \in {"NORESP", said[r]}

\* A session that has a request is free again in the end ("to clear up the
\* notification status"), whether or not the user answers.
SessionEnds ==
    \A k \in Kinds : session[k].rawRequest # 0 ~> session[k].rawRequest = 0
=============================================================================
