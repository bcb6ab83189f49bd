----------------------------- MODULE LocEngAgps -----------------------------
(***************************************************************************)
(* Data connections for assisted GPS.  The modem asks for a connection and *)
(* gives it back; a state machine per network interface collects those who *)
(* want it, asks the framework for the connection and passes its answers   *)
(* on.  Everything runs on the thread of the message queue; the requests,  *)
(* the releases and the answers are its messages, so each meets whatever   *)
(* state the ones before it left.                                          *)
(*                                                                         *)
(* Emergency calls (ds_nif) are started by the phone itself.  When that    *)
(* fails the state machine retries after a delay, on a timer's thread, and *)
(* falls back to an ordinary connection (agnss_nif).                       *)
(***************************************************************************)
EXTENDS Integers, Sequences, FiniteSets, SequencesExt, Sublists

CONSTANTS
    Conns,          \* connection handles of the modem, senders of the daemon
    Routes,         \* ways to assign them the interfaces they ask for
    MAX_START_DATA_CALL_RETRIES,
    MaxAsked,       \* bound on the requests
    MaxEngineUps,   \* bound on restarts of the modem
    MaxLosses       \* bound on connections that end on their own

Nifs == {"agnss", "wifi", "ds"}

ASSUME LocEngAgpsAssumption ==
    /\ Routes \subseteq [Conns -> Nifs]
    /\ {MAX_START_DATA_CALL_RETRIES, MaxAsked, MaxEngineUps, MaxLosses}
           \subseteq Nat

VARIABLES
    mState,         \* the state of each interface
    mSubscribers,   \* its subscribers, the latest first
    agps_queue,     \* messages for the thread of the message queue
    mRetries,
    retry_timer,    \* delays that have not ended
    network,        \* outside: what the framework was asked, and what is up
    via,            \* outside: the interface each connection is asked of
    conn,           \* what its owner waits for
    asked,          \* how often they have asked
    engine_ups, losses,
    overlap,        \* history: the framework was asked before its last answer
                    \* was handled
    unheard         \* history: whose subscription was lost

agpsVars == <<mState, mSubscribers, agps_queue, mRetries, retry_timer, network,
              via, conn, asked, engine_ups, losses, overlap, unheard>>
countVars == <<via, asked, engine_ups, losses>>

States == {"RELEASED", "PENDING", "ACQUIRED", "RELEASING"}
Events == {"GRANTED", "RELEASED", "DENIED"}

Message == [type: {"RequestATL", "RequestSuplEs", "ReleaseATL", "RequestWifi",
                   "ReleaseWifi"}, id: Conns]
           \cup [type: Events, nif: Nifs] \cup [type: {"EngineUp"}]

AgpsTypeOK ==
    /\ mState \in [Nifs -> States]
    /\ \A n \in Nifs : \A i \in DOMAIN mSubscribers[n] :
           mSubscribers[n][i] \in [id: Conns, inactive: BOOLEAN]
    /\ \A i \in DOMAIN agps_queue : agps_queue[i] \in Message
    /\ mRetries \in 0..MAX_START_DATA_CALL_RETRIES
    /\ retry_timer \in Nat
    /\ network \in [Nifs -> [todo: Seq({"REQUEST", "RELEASE"}), up: BOOLEAN]]
    /\ via \in Routes
    /\ conn \in [Conns -> {"idle", "opening", "open", "closing"}]
    /\ asked \in 0..MaxAsked
    /\ engine_ups \in 0..MaxEngineUps /\ losses \in 0..MaxLosses
    /\ overlap \in BOOLEAN /\ unheard \subseteq Conns

AgpsInit ==
    /\ mState = [n \in Nifs |-> "RELEASED"]
    /\ mSubscribers = [n \in Nifs |-> << >>]
    /\ agps_queue = << >>
    /\ mRetries = 0 /\ retry_timer = 0
    /\ network = [n \in Nifs |-> [todo |-> << >>, up |-> FALSE]]
    /\ via \in Routes
    /\ conn = [c \in Conns |-> "idle"]
    /\ asked = 0
    /\ engine_ups = 0 /\ losses = 0
    /\ overlap = FALSE /\ unheard = {}

-----------------------------------------------------------------------------
(* Subscribers.                                                            *)

Inactive(subs) == {i \in DOMAIN subs : subs[i].inactive}
Active(subs) == At(subs, DOMAIN subs \ Inactive(subs))
Ids(subs) == {subs[i].id : i \in DOMAIN subs}

\* A second subscription of somebody on the list is no subscription: it keeps
\* the first one, active or not.
Added(subs, c) == IF c \in Ids(subs) THEN subs
                  ELSE <<[id |-> c, inactive |-> FALSE]>> \o subs
Removed(subs, ids) == At(subs, {i \in DOMAIN subs : subs[i].id \notin ids})
Deactivated(subs, c) ==
    [i \in DOMAIN subs |-> [subs[i] EXCEPT !.inactive = @ \/ subs[i].id = c]]

\* waitForCloseComplete: these are told when the connection is down, the
\* others when they leave.
WaitsForClose(n) == n \in {"wifi", "ds"}

\* What the owner of a connection makes of a status.  One that has asked to
\* close it waits for the answer to that.
Told(c, status) ==
    CASE status = "GRANTED" -> IF conn[c] = "opening" THEN "open" ELSE conn[c]
      [] status = "DENIED" -> IF conn[c] = "opening" \/ via[c] = "wifi"
                              THEN "idle" ELSE conn[c]
      [] status = "RELEASED" -> IF conn[c] = "closing" /\ via[c] # "wifi"
                                THEN "closing" ELSE "idle"

\* notifySubscribers.  On ds_nif a denial is not the end: the connection is
\* asked for again as an ordinary one, and a release only closes the call.
Notify(n, ids, status) ==
    IF n = "ds" /\ status # "GRANTED"
    THEN UNCHANGED conn
    ELSE conn' = [c \in Conns |-> IF c \in ids THEN Told(c, status) ELSE conn[c]]

\* The requests for ordinary connections a denial leads to, in the order in
\* which the subscribers are found.
Fallback(n, subs, status) ==
    IF n = "ds" /\ status = "DENIED"
    THEN [i \in DOMAIN subs |-> [type |-> "RequestATL", id |-> subs[i].id]]
    ELSE << >>

\* sendRsrcRequest asks for a connection if somebody wants it and gives it back
\* if nobody does.
Ask(n, action) ==
    /\ network' = [network EXCEPT ![n].todo = Append(@, action)]
    /\ overlap' = (\/ overlap \/ network[n].todo # << >>
                   \/ \E m \in Range(Tail(agps_queue)) :
                          m.type \in Events /\ m.nif = n)

AskIfDue(n, subs, action) ==
    IF (Active(subs) = << >>) = (action = "RELEASE")
    THEN Ask(n, action) ELSE UNCHANGED <<network, overlap>>

\* Mutant: one retry too many.
OneRetryMore == mRetries <= MAX_START_DATA_CALL_RETRIES

RetryLeft == mRetries + 1 <= MAX_START_DATA_CALL_RETRIES

\* DSStateMachine::sendRsrcRequest, when it asks for the call.  ok says whether
\* the caller goes on to PENDING.
StartCall(subs, rest, ok) ==
    LET giveUp(tail) ==
            /\ agps_queue' = Append(tail,
                   [type |-> "RequestATL", id |-> Head(Active(subs)).id])
            /\ mRetries' = 0
    IN \/ /\ ok
          /\ Ask("ds", "REQUEST")
          /\ agps_queue' = rest
          /\ UNCHANGED <<mRetries, retry_timer>>
       \/ /\ ~ok                        \* LOC_API_ADAPTER_ERR_UNSUPPORTED
          /\ giveUp(rest)
          /\ UNCHANGED <<network, overlap, retry_timer>>
       \/ /\ ~ok                        \* LOC_API_ADAPTER_ERR_ENGINE_BUSY
          /\ IF RetryLeft
             THEN /\ mRetries' = mRetries + 1
                  /\ retry_timer' = retry_timer + 1
                  /\ agps_queue' = rest
             ELSE giveUp(rest) /\ UNCHANGED retry_timer
          /\ UNCHANGED <<network, overlap>>

-----------------------------------------------------------------------------
(* Messages of those who want a connection.  rest is what the queue holds  *)
(* after the message.                                                      *)

Enter(n, state, subs) ==
    /\ mState' = [mState EXCEPT ![n] = state]
    /\ mSubscribers' = [mSubscribers EXCEPT ![n] = subs]

\* A subscription that finds its predecessor still on the list, inactive.
Unheard(n, c) ==
    IF \E i \in DOMAIN mSubscribers[n] :
           mSubscribers[n][i] = [id |-> c, inactive |-> TRUE]
    THEN unheard \cup {c} ELSE unheard

\* subscribeRsrc.  wifi_nif serves one subscriber and denies a second one.
Subscribe(n, c, rest) ==
    LET subs == Added(mSubscribers[n], c) IN
    IF n = "wifi" /\ mSubscribers[n] # << >>
    THEN /\ Notify(n, {c}, "DENIED")
         /\ agps_queue' = rest
         /\ UNCHANGED <<mState, mSubscribers, network, overlap, mRetries, retry_timer>>
    ELSE CASE mState[n] = "RELEASED" /\ n # "ds" ->
                /\ Enter(n, "PENDING", subs)
                /\ AskIfDue(n, subs, "REQUEST")
                /\ agps_queue' = rest
                /\ UNCHANGED <<conn, mRetries, retry_timer>>
           [] mState[n] = "RELEASED" /\ n = "ds" ->
                \E ok \in BOOLEAN :
                   /\ StartCall(subs, rest, ok)
                   /\ Enter(n, IF ok THEN "PENDING" ELSE "RELEASED", subs)
                   /\ UNCHANGED <<conn>>
           [] mState[n] = "ACQUIRED" ->
                /\ Notify(n, {c}, "GRANTED")
                /\ Enter(n, "ACQUIRED", subs)
                /\ agps_queue' = rest
                /\ UNCHANGED <<network, overlap, mRetries, retry_timer>>
           [] mState[n] \in {"PENDING", "RELEASING"} ->
                /\ Enter(n, mState[n], subs)
                /\ agps_queue' = rest
                /\ UNCHANGED <<conn, network, overlap, mRetries, retry_timer>>

\* unsubscribeRsrc, for a subscriber on the list.  In RELEASED "the list should
\* really be empty", so nothing is removed from it there.
Unsubscribe(n, c, rest) ==
    LET subs == IF WaitsForClose(n) THEN Deactivated(mSubscribers[n], c)
                ELSE Removed(mSubscribers[n], {c})
        state == CASE subs = << >> -> "RELEASED"
                   [] mState[n] # "RELEASING" /\ subs # << >>
                        /\ Active(subs) = << >> -> "RELEASING"
                   [] OTHER -> mState[n]
    IN
    /\ IF mState[n] = "RELEASED" THEN UNCHANGED <<mState, mSubscribers>>
                                 ELSE Enter(n, state, subs)
    /\ IF mState[n] \in {"PENDING", "ACQUIRED"} /\ Active(subs) = << >>
       THEN Ask(n, "RELEASE") ELSE UNCHANGED <<network, overlap>>
    \* ds_nif tells the modem at once, wifi_nif when the connection is down
    /\ IF n = "wifi" THEN UNCHANGED conn
                     ELSE conn' = [conn EXCEPT ![c] = "idle"]
    /\ agps_queue' = rest
    /\ UNCHANGED <<mRetries, retry_timer>>

\* LocEngReleaseATL: the interfaces are tried in turn.  If none knows the
\* connection the modem is told that it is closed all the same.
Release(c, rest) ==
    CASE c \in Ids(mSubscribers["agnss"]) -> Unsubscribe("agnss", c, rest)
      [] c \notin Ids(mSubscribers["agnss"])
           /\ c \in Ids(mSubscribers["ds"]) -> Unsubscribe("ds", c, rest)
      [] OTHER ->
           /\ conn' = [conn EXCEPT ![c] = "idle"]
           /\ agps_queue' = rest
           /\ UNCHANGED <<mState, mSubscribers, network, overlap, mRetries, retry_timer>>

\* LocEngReqRelWifi; nobody is told when the subscriber is unknown.
ReleaseWifi(c, rest) ==
    IF c \in Ids(mSubscribers["wifi"]) THEN Unsubscribe("wifi", c, rest)
    ELSE /\ agps_queue' = rest
         /\ UNCHANGED <<mState, mSubscribers, network, overlap, mRetries, retry_timer,
                        conn>>

-----------------------------------------------------------------------------
(* Answers of the framework.                                               *)

\* RELEASED in RELEASING, and DENIED, which a race can bring: those who left
\* are told; if others came meanwhile the connection is asked for again.
Released(n, event, rest) ==
    LET leaving == At(mSubscribers[n], Inactive(mSubscribers[n]))
        gone == Ids(leaving)
        left == Removed(mSubscribers[n], gone)
        out == rest \o Fallback(n, leaving, event)
    IN
    /\ Notify(n, gone, event)
    /\ Enter(n, IF left = << >> THEN "RELEASED" ELSE "PENDING", left)
    /\ IF left = << >>
       THEN /\ agps_queue' = out
            /\ UNCHANGED <<network, overlap, mRetries, retry_timer>>
       ELSE IF n = "ds"
            THEN \E ok \in BOOLEAN : StartCall(left, out, ok)
            ELSE /\ Ask(n, "REQUEST")
                 /\ agps_queue' = out
                 /\ UNCHANGED <<mRetries, retry_timer>>

\* Mutant: everybody is told, but the state stays.
TellAllAndStay(n, event, rest) ==
    /\ Notify(n, Ids(mSubscribers[n]), event)
    /\ agps_queue' = rest \o Fallback(n, mSubscribers[n], event)
    /\ mRetries' = IF n = "ds" /\ event = "DENIED" THEN 0 ELSE mRetries
    /\ Enter(n, mState[n], << >>)
    /\ UNCHANGED <<network, overlap, retry_timer>>

\* Everybody on the list is told, and taken off it.
TellAll(n, event, rest) ==
    /\ Notify(n, Ids(mSubscribers[n]), event)
    /\ agps_queue' = rest \o Fallback(n, mSubscribers[n], event)
    /\ mRetries' = IF n = "ds" /\ event = "DENIED" THEN 0 ELSE mRetries
    /\ Enter(n, "RELEASED", << >>)
    /\ UNCHANGED <<network, overlap, retry_timer>>

\* onRsrcEvent.  ds_nif takes RELEASED for DENIED where RELEASED means nothing.
OnRsrcEvent(n, e, rest) ==
    LET event == IF n = "ds" /\ e = "RELEASED" /\ mState[n] = "PENDING"
                 THEN "DENIED" ELSE e
    IN
    CASE mState[n] = "PENDING" /\ event = "GRANTED" ->
           /\ Notify(n, Ids(Active(mSubscribers[n])), "GRANTED")
           /\ Enter(n, "ACQUIRED", mSubscribers[n])
           /\ agps_queue' = rest
           /\ UNCHANGED <<network, overlap, mRetries, retry_timer>>
      [] mState[n] = "PENDING" /\ event = "DENIED" -> TellAll(n, event, rest)
      [] mState[n] = "ACQUIRED" /\ event = "RELEASED" -> TellAll(n, event, rest)
      [] mState[n] = "RELEASING" /\ event \in {"RELEASED", "DENIED"} ->
           Released(n, event, rest)
      [] OTHER ->
           /\ agps_queue' = rest
           /\ UNCHANGED <<mState, mSubscribers, network, overlap, conn, mRetries,
                          retry_timer>>

\* loc_eng_handle_engine_up: agnss_nif forgets its subscribers, but not its
\* state; wifi_nif and ds_nif keep theirs.
EngineUp(rest) ==
    /\ mSubscribers' = [mSubscribers EXCEPT !["agnss"] = << >>]
    /\ agps_queue' = rest
    /\ UNCHANGED <<mState, network, overlap, conn, mRetries, retry_timer>>

\* The thread of the message queue handles the next message.
AgpsHandle ==
    /\ agps_queue # << >>
    /\ LET m == Head(agps_queue)  rest == Tail(agps_queue) IN
       CASE m.type = "RequestATL" -> Subscribe("agnss", m.id, rest)
         [] m.type = "RequestSuplEs" -> Subscribe("ds", m.id, rest)
         [] m.type = "RequestWifi" -> Subscribe("wifi", m.id, rest)
         [] m.type = "ReleaseATL" -> Release(m.id, rest)
         [] m.type = "ReleaseWifi" -> ReleaseWifi(m.id, rest)
         [] m.type = "EngineUp" -> EngineUp(rest)
         [] m.type \in Events -> OnRsrcEvent(m.nif, m.type, rest)
    /\ unheard' = IF Head(agps_queue).type = "RequestSuplEs"
                  THEN Unheard("ds", Head(agps_queue).id) ELSE unheard
    /\ UNCHANGED countVars

\* The delay is over.  The timer's thread looks at the list of ds_nif, which no
\* lock protects, and asks again for whoever it finds first.
RetryCallback ==
    /\ retry_timer > 0
    /\ retry_timer' = retry_timer - 1
    /\ LET subs == Active(mSubscribers["ds"]) IN
       IF subs = << >> THEN UNCHANGED agps_queue
       ELSE agps_queue' = Append(agps_queue,
                [type |-> "RequestSuplEs", id |-> Head(subs).id])
    /\ UNCHANGED <<mState, mSubscribers, mRetries, network, overlap, conn, countVars, unheard>>

-----------------------------------------------------------------------------
(* Outside: the modem, the framework and the network.                      *)

Outside(m) ==
    /\ agps_queue' = Append(agps_queue, m)
    /\ UNCHANGED <<mState, mSubscribers, mRetries, retry_timer, overlap,
                   unheard>>

OwnerRequests(c) ==
    /\ conn[c] = "idle" /\ asked < MaxAsked
    /\ conn' = [conn EXCEPT ![c] = "opening"]
    /\ asked' = asked + 1
    /\ Outside([type |-> CASE via[c] = "agnss" -> "RequestATL"
                           [] via[c] = "ds" -> "RequestSuplEs"
                           [] via[c] = "wifi" -> "RequestWifi", id |-> c])
    /\ UNCHANGED <<network, via, engine_ups, losses>>

OwnerReleases(c) ==
    /\ conn[c] \in {"opening", "open"}
    /\ conn' = [conn EXCEPT ![c] = "closing"]
    /\ Outside([type |-> IF via[c] = "wifi" THEN "ReleaseWifi"
                         ELSE "ReleaseATL", id |-> c])
    /\ UNCHANGED <<network, countVars>>

\* The modem restarts: its connections are no more.
ModemRestarts ==
    /\ engine_ups < MaxEngineUps
    /\ engine_ups' = engine_ups + 1
    /\ conn' = [c \in Conns |-> IF via[c] = "wifi" THEN conn[c] ELSE "idle"]
    /\ Outside([type |-> "EngineUp"])
    /\ UNCHANGED <<network, via, asked, losses>>

\* Requests are answered in order, with success or not; a release succeeds.
NetworkAnswers(n) ==
    /\ network[n].todo # << >>
    /\ \E up \in BOOLEAN :
          /\ Head(network[n].todo) = "RELEASE" => ~up
          /\ network' = [network EXCEPT ![n] = [todo |-> Tail(@.todo), up |-> up]]
          /\ Outside([type |-> CASE up -> "GRANTED"
                                 [] ~up /\ n # "ds"
                                      /\ Head(network[n].todo) = "REQUEST" -> "DENIED"
                                 [] OTHER -> "RELEASED", nif |-> n])
    /\ UNCHANGED <<conn, countVars>>

NetworkLost(n) ==
    /\ network[n].up /\ network[n].todo = << >>
    /\ losses < MaxLosses
    /\ losses' = losses + 1
    /\ network' = [network EXCEPT ![n].up = FALSE]
    /\ Outside([type |-> "RELEASED", nif |-> n])
    /\ UNCHANGED <<via, conn, asked, engine_ups>>

AgpsNext ==
    \/ AgpsHandle \/ RetryCallback \/ ModemRestarts
    \/ \E c \in Conns : OwnerRequests(c) \/ OwnerReleases(c)
    \/ \E n \in Nifs : NetworkAnswers(n) \/ NetworkLost(n)

\* Messages are handled, delays end, and the framework answers.
AgpsFairness ==
    /\ WF_agpsVars(AgpsHandle) /\ WF_agpsVars(RetryCallback)
    /\ \A n \in Nifs : WF_agpsVars(NetworkAnswers(n))

AgpsSpec == AgpsInit /\ [][AgpsNext]_agpsVars /\ AgpsFairness

-----------------------------------------------------------------------------

\* With nothing under way, an interface believes it has the connection exactly
\* if it has.  Answers do not say which request they answer, so this needs
\* every answer to be handled before the next request ("may like break our
\* state machine in race conditions").
AgpsQuiet(n) == agps_queue = << >> /\ network[n].todo = << >>
StateMatchesNetwork ==
    \/ overlap
    \/ \A n \in Nifs :
           AgpsQuiet(n) => (mState[n] = "ACQUIRED" <=> network[n].up)

\* Whoever asks for a connection hears about it, unless it asks again while ds_nif
\* is still waiting for the end of its first call.
RequestEnds ==
    \A c \in Conns :
        conn[c] = "opening" ~> conn[c] # "opening" \/ c \in unheard
=============================================================================
