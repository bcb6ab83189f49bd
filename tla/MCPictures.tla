----------------------------- MODULE MCPictures -----------------------------
(***************************************************************************)
(* Pictures for model checking: how channels are put together and the      *)
(* postprocessor is started by deferred work (DeferredWork), and what the  *)
(* postprocessor does with the frames it is given (QCameraPostProc).  They *)
(* share no state: the first knows only whether the postprocessor runs,    *)
(* the second takes frames while it does.  A run explores one part at a    *)
(* time.                                                                   *)
(***************************************************************************)
EXTENDS QCameraPostProc, MCDeferredWork

\* A burst of ZSL pictures, a picture that is reprocessed, a longshot, and raw pictures.
Plain == [reproc |-> FALSE, raw |-> FALSE, zsl |-> FALSE, regular |-> FALSE,
          longshot |-> FALSE, burst |-> FALSE]

MCCaptures == {[Plain EXCEPT !.zsl = TRUE, !.burst = TRUE],
               [Plain EXCEPT !.reproc = TRUE, !.regular = TRUE],
               [Plain EXCEPT !.reproc = TRUE, !.zsl = TRUE, !.longshot = TRUE],
               [Plain EXCEPT !.raw = TRUE, !.zsl = TRUE]}

VARIABLE part

picturesVars == <<part, postprocVars, vars>>

\* The part that is not explored has one initial state.
PicturesInit ==
    /\ part \in {"deferred", "postproc"}
    /\ Init /\ PostProcInit
    /\ part # "postproc" => fault = "none" /\ capture = CHOOSE c \in Captures : TRUE

Deferred(A) == part = "deferred" /\ A /\ UNCHANGED <<part, postprocVars>>
Process(A) == part = "postproc" /\ A /\ UNCHANGED <<part, vars>>

PicturesNext == Deferred(Next) \/ Process(PostProcNext)

\* The fairness of DeferredWork and QCameraPostProc, while each is explored.
PicturesSpec ==
    /\ PicturesInit /\ [][PicturesNext]_picturesVars
    /\ WF_picturesVars(Deferred(defferedWorkRoutine))
    /\ WF_picturesVars(Deferred(goOn)) /\ WF_picturesVars(Deferred(deliver))
    /\ WF_picturesVars(Process(DataThread)) /\ WF_picturesVars(Process(HandleJpegEvt))
    /\ WF_picturesVars(Process(ReprocessDone))
    /\ WF_picturesVars(Process(Close /\ ctrl # "stopped"))
    /\ \A b \in Buffers : WF_picturesVars(Process(RawGiven(b)))
    /\ WF_picturesVars(Process(MgrStep /\ UNCHANGED ppVars))
    /\ WF_picturesVars(Process(AbortStep /\ UNCHANGED ppVars))
    /\ \A h \in Encoders :
           /\ WF_picturesVars(Process(FillBufferDone(h) /\ UNCHANGED ppVars))
           /\ WF_picturesVars(Process(IdleEvent(h) /\ UNCHANGED ppVars))
=============================================================================
