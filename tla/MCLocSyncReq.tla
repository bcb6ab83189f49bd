---------------------------- MODULE MCLocSyncReq ----------------------------
(***************************************************************************)
(* What the GPS modem client does for model checking: synchronous          *)
(* requests, and the session for which most of them are made.  A session   *)
(* takes a request for answered or refused, so the two share no state and  *)
(* a run explores one at a time.                                           *)
(***************************************************************************)
EXTENDS LocSyncReq, LocEngSession, TLC

CONSTANTS c1, c2, c3, mode, time

\* Two callers that make the same request and one that makes another.
TwoAlike == c1 :> {mode} @@ c2 :> {mode} @@ c3 :> {time}

VARIABLE part

modemVars == <<part, vars, sessionVars>>

ModemInit == part \in {"requests", "session"} /\ loc_sync_req_init /\ SessionInit

ModemNext ==
    \/ part = "requests" /\ Next /\ UNCHANGED <<part, sessionVars>>
    \/ part = "session" /\ SessionNext /\ UNCHANGED <<part, vars>>

\* The fairness of LocSyncReq; of a session nothing is said to happen.
ModemSpec ==
    /\ ModemInit /\ [][ModemNext]_modemVars
    /\ \A c \in Callers : WF_vars(part = "requests" /\ proceed(c))
    /\ WF_vars(part = "requests" /\ lookAtSlot)
=============================================================================
