---------------------------- MODULE LocEngSession ----------------------------
(***************************************************************************)
(* A positioning session of the GPS engine.  The client starts and stops   *)
(* it, sets its mode and asks for aiding data to be deleted; the modem     *)
(* tells that its engine is on or off, reports positions, begins sessions  *)
(* for the network and may crash.  Everybody posts messages to one task,   *)
(* which keeps three records of the same session: the engine's             *)
(* (mNavigating), the adapter's (mInSession, mEngineOn) and the events for *)
(* which it is registered with the modem.                                  *)
(***************************************************************************)
EXTENDS Integers, Sequences, Functions

CONSTANTS
    AidingData,   \* what can be deleted
    MaxStarts,    \* bound: sessions the client starts
    MaxEvents,    \* bound: of each of Events
    MaxTogether,  \* bound: events that come together
    MaxWaiting    \* bound: messages that wait when somebody posts one

VARIABLES
    session_queue,          \* the messages of the task, first in first out
    session_task,           \* "next", or what the task still has to do of a message
    mNavigating,
    mFixCriteria,           \* mode and recurrence
    mInSession, mEngineOn,  \* of the adapter
    engine_status, aiding_data_for_deletion, mute_session_state,
    qmi,            \* the modem: up, session, engine, network, registered for its events
    client,         \* what the client wants: on, recurrence
    asked, deleted, \* aiding data
    starts,         \* start requests so far: the one a session or a report comes from
    happened,       \* how often the client started, and how many of each event there were
    excuses         \* history: which of the things excused below happened

adapterVars == <<mInSession, mEngineOn>>
engineVars == <<engine_status, aiding_data_for_deletion, mute_session_state, deleted>>
clientVars == <<client, asked>>
ghostVars == <<happened, excuses>>
sessionVars == <<session_queue, session_task, mNavigating, mFixCriteria, adapterVars,
                 engineVars, qmi, clientVars, starts, ghostVars>>

Recurrences == {"periodic", "single"}
NoSession == [mode |-> "none"]
\* Beside starts and stops: the client sets a mode during a session, or has data deleted;
\* the modem refuses a request, begins a session of the network (of which the client must
\* not hear), or crashes.
Events == {"mode", "delete", "refusal", "network", "crash"}
Starts == 0..MaxStarts + MaxTogether
Criteria == [mode: {"invalid", "ms_based"}, recurrence: Recurrences]
Messages ==
    [type: {"StartFix", "StopFix", "LocEngDown", "LocSsr", "LocEngUp", "RequestNi"}]
    \cup [type: {"PositionMode"}, recurrence: Recurrences]
    \cup [type: {"DelAidData"}, data: AidingData]
    \cup [type: {"UpdateEngineState"}, on: BOOLEAN]
    \cup [type: {"ReportStatus"},
          status: {"ENGINE_ON", "ENGINE_OFF", "SESSION_BEGIN", "SESSION_END"}]
    \cup [type: {"ReportPosition"}, final: BOOLEAN, start: Starts]
Excuses == {"overwritten", "revived", "stale", "late"}

SessionTypeOK ==
    /\ \A i \in DOMAIN session_queue : session_queue[i] \in Messages
    /\ session_task \in {"next", "start", "restart", "stop"}
    /\ mFixCriteria \in Criteria /\ {mNavigating, mInSession, mEngineOn} \subseteq BOOLEAN
    /\ engine_status \in {"NONE", "ENGINE_ON", "ENGINE_OFF"}
    /\ mute_session_state \in {"NONE", "WAIT", "IN_SESSION"}
    /\ aiding_data_for_deletion \subseteq AidingData
    /\ qmi \in [up: BOOLEAN, registered: BOOLEAN, engine: BOOLEAN, network: BOOLEAN,
                  session: Criteria \cup {NoSession}]
    /\ client \in [on: BOOLEAN, recurrence: Recurrences]
    /\ asked \subseteq AidingData /\ deleted \subseteq asked
    /\ starts \in Starts /\ happened \in [Events \cup {"start"} -> Nat]
    /\ excuses \subseteq Excuses

SessionInit ==
    /\ session_queue = << >> /\ session_task = "next" /\ starts = 0
    /\ mNavigating = FALSE /\ mInSession = FALSE /\ mEngineOn = FALSE
    /\ mFixCriteria = [mode |-> "invalid", recurrence |-> "periodic"]
    /\ engine_status = "NONE" /\ mute_session_state = "NONE"
    /\ aiding_data_for_deletion = {} /\ asked = {} /\ deleted = {}
    /\ qmi = [up |-> TRUE, registered |-> FALSE, engine |-> FALSE, network |-> FALSE,
                session |-> NoSession]
    /\ client = [on |-> FALSE, recurrence |-> "periodic"]
    /\ happened = [k \in Events \cup {"start"} |-> 0] /\ excuses = {}

Count(e) ==
    /\ happened[e] < IF e = "start" THEN MaxStarts ELSE MaxEvents
    /\ e # "start" => SumFunctionOnSet(happened, Events) < MaxTogether
    /\ happened' = [happened EXCEPT ![e] = @ + 1]
ExcuseIf(e, when) == excuses' = IF when THEN excuses \cup {e} ELSE excuses
Queued(Test(_)) == \E i \in DOMAIN session_queue : Test(session_queue[i])
Waiting(types) == Queued(LAMBDA m : m.type \in types)
\* The task has yet to hear that the engine is off.
SaysOff(m) ==
    \/ m.type = "UpdateEngineState" /\ ~m.on
    \/ m.type = "ReportStatus" /\ m.status = "ENGINE_OFF"
    \/ m.type = "LocEngDown"
FromClient == {"StartFix", "StopFix", "PositionMode"}

-----------------------------------------------------------------------------
(* Requests to the modem.                                                  *)

\* registerEventMask(): the mask lacks the events of a session unless one runs.
Registered(inSession) == [qmi EXCEPT !.registered = inSession /\ qmi.up]

\* startFix() begins: the adapter is in a session before it has asked for one.
StartFix(then) ==
    /\ mInSession' = TRUE /\ session_task' = then /\ qmi' = Registered(TRUE)
    /\ UNCHANGED <<mEngineOn, starts>>

\* stopFix() begins: whatever the modem answers, the session is over.
StopFix ==
    /\ \/ qmi.up /\ qmi' = [qmi EXCEPT !.session = NoSession] /\ UNCHANGED happened
       \/ ~qmi.up /\ UNCHANGED <<qmi, happened>>
       \/ qmi.up /\ Count("refusal") /\ UNCHANGED qmi
    /\ mInSession' = FALSE /\ session_task' = "stop"
    /\ UNCHANGED <<mEngineOn, starts>>

\* setInSession().
SetInSession(on) ==
    /\ mNavigating' = on
    /\ mFixCriteria' = IF on THEN mFixCriteria ELSE [mFixCriteria EXCEPT !.mode = "invalid"]

NoRequest == UNCHANGED <<session_task, mNavigating, mFixCriteria, adapterVars, qmi, starts>>

\* startFix() ends: the request for a mode and the one to start.  A mode that is refused
\* counts as success though nothing was started, and so does whatever kept the requests
\* from reaching the modem: that session will start when the modem is up again.
SendStart ==
    LET Keep == IF session_task = "start" THEN SetInSession(TRUE)
                                          ELSE UNCHANGED <<mNavigating, mFixCriteria>>
        Drop == UNCHANGED <<mNavigating, mFixCriteria>>
    IN
    /\ session_task \in {"start", "restart"} /\ session_task' = "next"
    /\ starts' = starts + 1
    /\ \/ /\ qmi.up /\ qmi' = [qmi EXCEPT !.session = mFixCriteria]
          /\ Keep /\ UNCHANGED happened
       \/ ~qmi.up /\ Keep /\ UNCHANGED <<qmi, happened>>
       \/ qmi.up /\ Count("refusal") /\ (Keep \/ Drop) /\ UNCHANGED qmi
    /\ UNCHANGED <<session_queue, adapterVars, engineVars, clientVars, excuses>>

\* Mutant: the events are deregistered though the engine is on.
deregisterAtOnce ==
    /\ session_task = "stop" /\ session_task' = "next"
    /\ qmi' = Registered(FALSE) /\ SetInSession(FALSE)
    /\ UNCHANGED <<session_queue, adapterVars, engineVars, clientVars, starts, ghostVars>>

\* stopFix() ends: the events are deregistered unless the engine still has to go off; and
\* its caller gives up the session.
FinishStop ==
    /\ session_task = "stop" /\ session_task' = "next"
    /\ qmi' = IF mEngineOn THEN qmi ELSE Registered(FALSE)
    /\ SetInSession(FALSE)
    /\ UNCHANGED <<session_queue, adapterVars, engineVars, clientVars, starts, ghostVars>>

-----------------------------------------------------------------------------
(* Messages of the client.                                                 *)

IsNext(type) ==
    session_task = "next" /\ session_queue # << >> /\ Head(session_queue).type = type
Take(type) == IsNext(type) /\ session_queue' = Tail(session_queue)

loc_eng_start_handler ==
    /\ Take("StartFix")
    /\ IF mNavigating THEN NoRequest
                      ELSE StartFix("start") /\ UNCHANGED <<mNavigating, mFixCriteria>>
    /\ UNCHANGED <<engineVars, clientVars, ghostVars>>

loc_eng_stop_handler ==
    /\ Take("StopFix")
    /\ IF mNavigating THEN StopFix /\ UNCHANGED <<mNavigating, mFixCriteria>>
                      ELSE NoRequest /\ UNCHANGED happened
    /\ UNCHANGED <<engineVars, clientVars, excuses>>

\* "fix is in progress, send a restart".
setPositionMode ==
    /\ Take("PositionMode")
    /\ mFixCriteria' = [mode |-> "ms_based", recurrence |-> Head(session_queue).recurrence]
    /\ IF mNavigating THEN StartFix("restart")
                      ELSE UNCHANGED <<session_task, adapterVars, qmi, starts>>
    /\ UNCHANGED <<mNavigating, engineVars, clientVars, ghostVars>>

\* update_aiding_data_for_deletion(): data are deleted while the engine is not on, and a
\* modem that is down is not asked again.
UpdateAidingData(status, data) ==
    IF status # "ENGINE_ON"
    THEN /\ aiding_data_for_deletion' = {}
         /\ deleted' = IF qmi.up THEN deleted \cup data ELSE deleted
    ELSE aiding_data_for_deletion' = data /\ UNCHANGED deleted

LocEngDelAidData ==
    /\ Take("DelAidData")
    /\ UpdateAidingData(engine_status, {Head(session_queue).data})
    /\ ExcuseIf("overwritten", aiding_data_for_deletion # {} \/ ~qmi.up)
    /\ NoRequest /\ UNCHANGED <<engine_status, mute_session_state, clientVars, happened>>

-----------------------------------------------------------------------------
(* Messages of the modem.                                                  *)

\* MsgUpdateEngineState: "if EngineOn and not InSession, then we have already stopped the
\* fix, so do not send ENGINE_ON".
UpdateEngineState ==
    /\ IsNext("UpdateEngineState")
    /\ LET msg == Head(session_queue)
           report(s) == [type |-> "ReportStatus", status |-> s]
           told == IF ~msg.on THEN <<report("SESSION_END"), report("ENGINE_OFF")>>
                   ELSE IF mInSession THEN <<report("ENGINE_ON"), report("SESSION_BEGIN")>>
                   ELSE << >>
       IN
       /\ mEngineOn' = msg.on
       /\ session_queue' = Tail(session_queue) \o told
       /\ qmi' = IF mEngineOn /\ ~mInSession /\ ~msg.on THEN Registered(FALSE) ELSE qmi
    /\ UNCHANGED <<session_task, mNavigating, mFixCriteria, mInSession, engineVars,
                   clientVars, starts, ghostVars>>

\* loc_eng_report_status(), but for what the client is told.
ReportStatus(status) ==
    /\ mute_session_state' =
           IF status \in {"SESSION_BEGIN", "ENGINE_ON"}
           THEN IF mute_session_state = "WAIT" THEN "IN_SESSION" ELSE mute_session_state
           ELSE IF mute_session_state = "IN_SESSION" THEN "NONE" ELSE mute_session_state
    /\ engine_status' =
           IF status \in {"ENGINE_ON", "ENGINE_OFF"} THEN status ELSE engine_status

LocEngReportStatus ==
    /\ Take("ReportStatus") /\ ReportStatus(Head(session_queue).status)
    /\ UpdateAidingData(engine_status', aiding_data_for_deletion)
    /\ ExcuseIf("late", engine_status' = "ENGINE_ON" /\ ~(qmi.engine /\ qmi.registered)
                      /\ ~Queued(SaysOff))
    /\ NoRequest /\ UNCHANGED <<clientVars, happened>>

\* A position is reported to the client or not, depending on how it was found and how
\* accurate it is.  In a single shot session the first one that is reported is the last.
LocEngReportPosition ==
    /\ Take("ReportPosition")
    /\ \/ NoRequest /\ UNCHANGED <<client, ghostVars>>
       \/ /\ mute_session_state # "IN_SESSION" /\ mFixCriteria.recurrence = "single"
          /\ IF Head(session_queue).final
             THEN /\ SetInSession(FALSE)
                  /\ UNCHANGED <<session_task, adapterVars, qmi, starts, happened>>
             ELSE StopFix /\ UNCHANGED <<mNavigating, mFixCriteria>>
          /\ client' = [client EXCEPT !.on = @ /\ client.recurrence # "single"]
          /\ ExcuseIf("stale", Head(session_queue).start # starts \/ Waiting(FromClient))
    /\ UNCHANGED <<engineVars, asked>>

\* A request of the network with GPS_NI_PRIVACY_OVERRIDE mutes one session.
loc_eng_mute_one_session ==
    /\ Take("RequestNi") /\ mute_session_state' = "WAIT"
    /\ NoRequest
    /\ UNCHANGED <<engine_status, aiding_data_for_deletion, deleted, clientVars, ghostVars>>

loc_eng_handle_engine_down ==
    /\ Take("LocEngDown") /\ ReportStatus("ENGINE_OFF")
    /\ NoRequest /\ UNCHANGED <<aiding_data_for_deletion, deleted, clientVars, ghostVars>>

\* LocSsrMsg: the connection to the modem is opened anew, which waits for the modem.
LocSsrMsg ==
    /\ Take("LocSsr") /\ qmi' = [qmi EXCEPT !.up = TRUE, !.registered = FALSE]
    /\ UNCHANGED <<session_task, mNavigating, mFixCriteria, adapterVars, starts, engineVars,
                   clientVars, ghostVars>>

\* Mutant: the session is not given up before it is started again.
engineUpInSession ==
    /\ IsNext("LocEngUp")
    /\ session_queue' = Tail(session_queue)
                        \o (IF mNavigating THEN <<[type |-> "StartFix"]>> ELSE << >>)
    /\ NoRequest /\ UNCHANGED <<engineVars, clientVars, ghostVars>>

\* "If we crashed in the middle of navigating, we restart."
loc_eng_handle_engine_up ==
    /\ IsNext("LocEngUp")
    /\ IF mNavigating
       THEN /\ SetInSession(FALSE)
            /\ session_queue' = Append(Tail(session_queue), [type |-> "StartFix"])
       ELSE /\ session_queue' = Tail(session_queue)
            /\ UNCHANGED <<mNavigating, mFixCriteria>>
    /\ ExcuseIf("revived", mNavigating /\ Waiting({"StopFix"}))
    /\ UNCHANGED <<session_task, adapterVars, qmi, starts, engineVars, clientVars,
                   happened>>

-----------------------------------------------------------------------------
(* The client.                                                             *)

Unmoved == UNCHANGED <<session_task, mNavigating, mFixCriteria, adapterVars, engineVars,
                       starts, excuses>>
Post(msgs) ==
    /\ msgs # << >> => Len(session_queue) <= MaxWaiting
    /\ session_queue' = session_queue \o msgs
Mode(r) == [type |-> "PositionMode", recurrence |-> r]

ClientStarts(r) ==
    /\ ~client.on /\ Count("start") /\ client' = [on |-> TRUE, recurrence |-> r]
    /\ Post(<<Mode(r), [type |-> "StartFix"]>>)
    /\ Unmoved /\ UNCHANGED <<qmi, asked>>

ClientSetsMode(r) ==
    /\ client.on /\ Count("mode") /\ client' = [client EXCEPT !.recurrence = r]
    /\ Post(<<Mode(r)>>)
    /\ Unmoved /\ UNCHANGED <<qmi, asked>>

ClientStops ==
    /\ client.on /\ client' = [client EXCEPT !.on = FALSE] /\ Post(<<[type |-> "StopFix"]>>)
    /\ Unmoved /\ UNCHANGED <<qmi, asked, happened>>

ClientDeletes(d) ==
    /\ d \notin asked /\ Count("delete") /\ asked' = asked \cup {d}
    /\ Post(<<[type |-> "DelAidData", data |-> d]>>)
    /\ Unmoved /\ UNCHANGED <<qmi, client>>

-----------------------------------------------------------------------------
(* The modem.                                                              *)

Event(msg) == Post(IF qmi.registered THEN <<msg>> ELSE << >>)

EngineTurns(on) ==
    /\ qmi.up /\ qmi.engine # on /\ on = (qmi.session # NoSession \/ qmi.network)
    /\ qmi' = [qmi EXCEPT !.engine = on]
    /\ Event([type |-> "UpdateEngineState", on |-> on])
    /\ Unmoved /\ UNCHANGED <<clientVars, happened>>

\* One report is on its way at a time.
ModemFindsPosition(final) ==
    /\ qmi.engine /\ qmi.session # NoSession /\ ~Waiting({"ReportPosition"})
    /\ qmi' = IF final /\ qmi.session.recurrence = "single"
                THEN [qmi EXCEPT !.session = NoSession] ELSE qmi
    /\ Event([type |-> "ReportPosition", final |-> final, start |-> starts])
    /\ Unmoved /\ UNCHANGED <<clientVars, happened>>

NetworkBegins ==
    /\ qmi.up /\ ~qmi.network /\ Count("network")
    /\ qmi' = [qmi EXCEPT !.network = TRUE] /\ Post(<<[type |-> "RequestNi"]>>)
    /\ Unmoved /\ UNCHANGED clientVars

NetworkEnds ==
    /\ qmi.network /\ qmi' = [qmi EXCEPT !.network = FALSE]
    /\ Unmoved /\ UNCHANGED <<session_queue, clientVars, happened>>

\* errorCb() says at once that the modem is down and that it is up again.
ModemCrashes ==
    /\ qmi.up /\ Count("crash")
    /\ qmi' = [up |-> FALSE, registered |-> FALSE, engine |-> FALSE, network |-> FALSE,
                 session |-> NoSession]
    /\ Post(<<[type |-> "LocEngDown"], [type |-> "LocSsr"], [type |-> "LocEngUp"]>>)
    /\ Unmoved /\ UNCHANGED clientVars

-----------------------------------------------------------------------------

SessionTask ==
    \/ loc_eng_start_handler \/ loc_eng_stop_handler \/ setPositionMode \/ SendStart
    \/ FinishStop \/ LocEngDelAidData \/ UpdateEngineState \/ LocEngReportStatus
    \/ LocEngReportPosition \/ loc_eng_mute_one_session \/ loc_eng_handle_engine_down
    \/ LocSsrMsg \/ loc_eng_handle_engine_up

SessionNext ==
    \/ SessionTask
    \/ \E r \in Recurrences : ClientStarts(r) \/ ClientSetsMode(r)
    \/ ClientStops \/ \E d \in AidingData : ClientDeletes(d)
    \/ \E on \in BOOLEAN : EngineTurns(on) \/ ModemFindsPosition(on)
    \/ NetworkBegins \/ NetworkEnds \/ ModemCrashes

SessionSpec == SessionInit /\ [][SessionNext]_sessionVars

-----------------------------------------------------------------------------

Rest == session_queue = << >> /\ session_task = "next" /\ qmi.up

\* When every message has been handled the modem does what the client asked for last:
\* nothing, or a session with the criteria it set.  Excused are requests the modem refused;
\* a report of an earlier session that ended this one; and, after a crash, a session that
\* was stopped while the engine came up, and the mode, which the restart forgets.
EngineFollowsClient ==
    Rest /\ happened["refusal"] = 0 /\ "stale" \notin excuses =>
        /\ ~client.on => qmi.session = NoSession \/ "revived" \in excuses
        /\ client.on /\ client.recurrence = "periodic" =>
               /\ qmi.session # NoSession /\ qmi.session.recurrence = "periodic"
               /\ qmi.session.mode = "ms_based" \/ happened["crash"] > 0

\* When the engine is off and every message has been handled, nothing waits for it to go
\* off: aiding data are deleted, unless another request replaced theirs or the modem was
\* down, and a muted session is over.  Excused is the news that the engine is on when it
\* comes when nobody will tell that it is off: after a crash, or in a later session, since
\* no events are registered between sessions.
NothingWaitsForEngineOff ==
    Rest /\ ~qmi.engine /\ ~qmi.network /\ qmi.session = NoSession
         /\ "late" \notin excuses =>
        /\ engine_status # "ENGINE_ON" /\ mute_session_state # "IN_SESSION"
        /\ asked \subseteq deleted \/ "overwritten" \in excuses \/ happened["crash"] > 0
=============================================================================
