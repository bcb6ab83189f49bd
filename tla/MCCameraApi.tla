----------------------------- MODULE MCCameraApi -----------------------------
(* Callers for model checking CameraApi. *)
EXTENDS CameraApi

CONSTANTS app, recorder

\* The application's thread, and the recorder's, which returns video frames
\* from a thread of its own.
Callers == {app, recorder}

QuietCalls ==
    app :> {"START_NODISPLAY_PREVIEW", "STOP_PREVIEW", "START_RECORDING",
            "TAKE_PICTURE"}
    @@ recorder :> {"RELEASE_RECORDING_FRAME"}

\* An application that cancels live snapshots, as the hardware interface does
\* itself when one fails.
CancellingCalls ==
    app :> {"START_NODISPLAY_PREVIEW", "START_RECORDING", "TAKE_PICTURE",
            "CANCEL_PICTURE"}
    @@ recorder :> {}

\* An application that takes one picture after another.
PictureCalls ==
    app :> {"START_NODISPLAY_PREVIEW", "STOP_PREVIEW", "TAKE_PICTURE"}
    @@ recorder :> {}
=============================================================================
