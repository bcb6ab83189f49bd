------------------------------ MODULE MCCapture ------------------------------
(***************************************************************************)
(* A capture for model checking: how frames of a started channel's streams *)
(* are matched and given to the hardware interface (MmSuperbuf), how the   *)
(* state machine conducts it (QCameraStateMachine), and how the callback   *)
(* notifier sees it end (QCameraCbNotifier).  What the last needs of the   *)
(* other two, threads that start and stop streams and captures, bring      *)
(* pictures and answer SNAPSHOT_DONE, it models itself; they share no      *)
(* state.  A run explores one part at a time.                              *)
(***************************************************************************)
EXTENDS MCStateMachine, QCameraCbNotifier, MmSuperbuf

\* The channels the hardware interface sets up: zero shutter lag, a capture, and a
\* live snapshot, whose metadata come from another channel.
Zsl == [streams |-> <<"metadata", "preview">>, linked |-> {}, callbacks |-> {"preview"},
        burst |-> TRUE, water_mark |-> 1, look_back |-> 0, post_frame_skip |-> 1,
        max_unmatched_frames |-> 0]
Capture == [streams |-> <<"metadata", "snapshot">>, linked |-> {},
            callbacks |-> {"metadata"}, burst |-> FALSE, water_mark |-> 0,
            look_back |-> 0, post_frame_skip |-> 0, max_unmatched_frames |-> 0]
LiveSnapshot == [Capture EXCEPT !.streams = <<"snapshot">>, !.linked = {"metadata"}]

\* The metadata say one thing at a time, or two together.
MCReports == {NoMetadata, [NoMetadata EXCEPT !.is_meta_valid = FALSE],
              [NoMetadata EXCEPT !.prep = "need_future"], [NoMetadata EXCEPT !.prep = "done"],
              [NoMetadata EXCEPT !.crop1x = TRUE],
              [NoMetadata EXCEPT !.prep = "done", !.range = <<1, 2>>]}

\* What changes anything as a first command.
MCRequests == {[type |-> "REQ", num |-> 2], [type |-> "FLUSH", frame |-> 2],
               [type |-> "BRACKETING", start |-> TRUE],
               [type |-> "FLASH_BRACKETING", start |-> TRUE],
               [type |-> "ZOOM_1X", start |-> TRUE], [type |-> "START_ZSL"]}

MCSetups == {Zsl, Capture, LiveSnapshot}

VARIABLE part

captureVars == <<part, vars, notifierVars, superbufVars>>

\* The part that is not explored has one initial state.
CaptureInit ==
    /\ part \in {"stateMachine", "notifier", "superbufs"}
    /\ Init /\ NotifierInit /\ SuperbufInit
    /\ part # "superbufs" => ch = Zsl

Notifier(A) == part = "notifier" /\ A /\ UNCHANGED <<part, vars, superbufVars>>

CaptureNext ==
    \/ part = "stateMachine" /\ Next /\ UNCHANGED <<part, notifierVars, superbufVars>>
    \/ part = "superbufs" /\ SuperbufNext /\ UNCHANGED <<part, vars, notifierVars>>
    \/ Notifier(NotifierNext)

\* NotifierFairness, while the notifier is explored.
CaptureSpec ==
    /\ CaptureInit /\ [][CaptureNext]_captureVars
    /\ WF_captureVars(Notifier(CbNotifyRoutine)) /\ WF_captureVars(Notifier(GoOn))
    /\ \A p \in Producers : /\ WF_captureVars(Notifier(Enqueue(p)))
                            /\ WF_captureVars(Notifier(SendNext(p)))
=============================================================================
