------------------------------- MODULE ApiCall -------------------------------
(***************************************************************************)
(* What a blocking camera call promises its caller: it is answered once,   *)
(* after it was made, and it returns with that answer, never before it and *)
(* never with the answer to somebody else's call.                          *)
(***************************************************************************)
CONSTANT Threads

VARIABLE phase \* of each caller's call

Phases == {"idle", "requested", "answered"}

Init == phase = [t \in Threads |-> "idle"]

Move(t, from, to) == phase[t] = from /\ phase' = [phase EXCEPT ![t] = to]

Call(t) == Move(t, "idle", "requested")
Answer(t) == Move(t, "requested", "answered")
Return(t) == Move(t, "answered", "idle")

\* take_picture goes on with its second call when the first returns.
CallAgain(t) == Move(t, "answered", "requested")

Next == \E t \in Threads : Call(t) \/ Answer(t) \/ Return(t) \/ CallAgain(t)

\* Every call is answered and returns.
Liveness == \A t \in Threads : phase[t] # "idle" ~> phase[t] = "idle"

Spec == Init /\ [][Next]_phase /\ Liveness
=============================================================================
