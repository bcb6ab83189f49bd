----------------------------- MODULE MCGpsEngine -----------------------------
(***************************************************************************)
(* The parts of the GPS engine for model checking.  They share no state,   *)
(* so a run explores the behaviours of each while the others stay in their *)
(* initial states, and not their product.                                  *)
(***************************************************************************)
EXTENDS LocEngNi, LocEngAgps, LocTimer, LocHeap, TLC

CONSTANTS c1, c2, t1, t2, nothing

MCConns == {c1, c2}
MCTimers == {t1, t2}

\* Two SUPL connections, two connections by Wi-Fi, and one connection that needs
\* a data call of its own beside one that does not.
MCRoutes == {(c1 :> a @@ c2 :> b) :
                 <<a, b>> \in {<<"agnss", "agnss">>, <<"wifi", "wifi">>, <<"agnss", "ds">>}}

\* Two timers share a rank.
MCRank == [i \in 1..5 |-> i \div 2]

VARIABLE part

Parts == {"ni", "agps", "timer", "heap"}
gpsVars == <<part, niVars, agpsVars, timerVars, heapVars>>

GpsInit ==
    /\ part \in Parts /\ NiInit /\ AgpsInit /\ TimerInit /\ HeapInit
    /\ part # "agps" => via = CHOOSE r \in Routes : TRUE

GpsNext ==
    \/ part = "ni" /\ NiNext /\ UNCHANGED <<part, agpsVars, timerVars, heapVars>>
    \/ part = "agps" /\ AgpsNext /\ UNCHANGED <<part, niVars, timerVars, heapVars>>
    \/ part = "timer" /\ TimerNext /\ UNCHANGED <<part, niVars, agpsVars, heapVars>>
    \/ part = "heap" /\ HeapNext /\ UNCHANGED <<part, niVars, agpsVars, timerVars>>

\* NiFairness, AgpsFairness and TimerFairness, of the part that is explored.
Of(p, A) == part = p /\ A
GpsFairness ==
    /\ WF_niVars(Of("ni", NiTaskStep)) /\ WF_niVars(Of("ni", NiUserStep))
    /\ \A r \in Requests : WF_niVars(Of("ni", NiThreadStep(r)))
    /\ WF_agpsVars(Of("agps", AgpsHandle)) /\ WF_agpsVars(Of("agps", RetryCallback))
    /\ \A n \in Nifs : WF_agpsVars(Of("agps", NetworkAnswers(n)))
    /\ WF_timerVars(Of("timer", TimerTaskStep)) /\ WF_timerVars(Of("timer", Tick))
    /\ WF_timerVars(Of("timer", PollFires \/ PollExpires))

GpsSpec == GpsInit /\ [][GpsNext]_gpsVars /\ GpsFairness

\* The types of the engine's state.
GpsTypeOK == NiTypeOK /\ AgpsTypeOK /\ TimerTypeOK

\* What the engine is asked comes to an end: a session for the network's request, with or
\* without an answer of the user, a connection that was asked for, and a timer.
WhatBeginsEnds == SessionEnds /\ RequestEnds /\ TimerEnds
=============================================================================
