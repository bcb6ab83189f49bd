---------------------------- MODULE MCStateMachine ----------------------------
(* Parameter sets for model checking QCameraStateMachine. *)
EXTENDS QCameraStateMachine

\* Every mode and picture format.
Modes == {p \in ParamSet : ~p.bad /\ ~p.restart}

\* Every mode, sets that a setter rejects, and one change of something else
\* that needs a restart.
TroubledModes ==
    {p \in ParamSet : ~p.raw /\ ~p.restart} \cup
    {[zsl |-> FALSE, hint |-> FALSE, raw |-> FALSE, restart |-> TRUE,
      bad |-> FALSE]}

\* reply is an output: no step depends on it.
WithoutReply == <<m_state, hw>>
=============================================================================
