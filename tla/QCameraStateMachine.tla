------------------------- MODULE QCameraStateMachine -------------------------
(***************************************************************************)
(* The camera state machine: what one event does in each of its states.    *)
(* Next lets any event the program can raise arrive at any time, in any    *)
(* order; module CameraApi adds the threads and queues that deliver them.  *)
(***************************************************************************)
EXTENDS CameraHwi

CONSTANTS
    Commands,   \* the commands the application sends
    BusyParams  \* TRUE: the application may change modes during a capture
                \* or a recording

ASSUME StateMachineAssumption ==
    /\ Commands \subseteq {"LONGSHOT_ON", "LONGSHOT_OFF", "OTHER"}
    /\ BusyParams \in BOOLEAN

VARIABLES
    m_state,
    hw,     \* the hardware interface
    reply   \* what the last event made the state machine signal

vars == <<m_state, hw, reply>>

\* API events that leave the modelled state alone wherever they are accepted.
Neutral == {"SET_CALLBACKS", "ENABLE_MSG_TYPE", "DISABLE_MSG_TYPE",
            "MSG_TYPE_ENABLED", "GET_PARAMS", "PUT_PARAMS",
            "STORE_METADATA_IN_BUFS", "DUMP", "START_AUTO_FOCUS",
            "STOP_AUTO_FOCUS", "REG_FACE_IMAGE"}

ApiEvents == Neutral \cup
    {"SET_PREVIEW_WINDOW", "SET_PARAMS", "START_PREVIEW",
     "START_NODISPLAY_PREVIEW", "STOP_PREVIEW", "PREVIEW_ENABLED",
     "START_RECORDING", "STOP_RECORDING", "RECORDING_ENABLED",
     "RELEASE_RECORDING_FRAME", "PREPARE_SNAPSHOT", "TAKE_PICTURE",
     "CANCEL_PICTURE", "SEND_COMMAND", "RELEASE"}

\* EVT_INTERNAL is split by what it carries: the end of PREPARE_SNAPSHOT, or
\* focus, face, histogram, crop, scene and white balance data.
InternalEvents == {"PREP_SNAPSHOT_DONE", "EVT_INTERNAL", "EVT_NOTIFY",
                   "JPEG_EVT_NOTIFY", "SNAPSHOT_DONE", "THERMAL_NOTIFY",
                   "STOP_CAPTURE_CHANNEL"}

Events == ApiEvents \cup InternalEvents

\* to: who is answered.  "api" is signalAPIResult, "evt" is signalEvtResult.
Replies == [to: {"api", "evt", "nobody"}, evt: Events \cup {"none"},
            status: {"ok", "error", "yes", "no"}]

Silence == [to |-> "nobody", evt |-> "none", status |-> "ok"]

Status(o) == IF o.ok THEN "ok" ELSE "error"

-----------------------------------------------------------------------------
(* How a handler ends *)

Become(st, h) == m_state' = st /\ hw' = h

Api(evt, status) == reply' = [to |-> "api", evt |-> evt, status |-> status]

Answer(evt, status, st, h) == Become(st, h) /\ Api(evt, status)

\* The handler answers with the outcome o of a call and ends in st.
Report(evt, o, st) == Answer(evt, Status(o), st, o.hw)

Stay(h) == Become(m_state, h)

Ignore(h) == Stay(h) /\ reply' = Silence

EvtDone(st, h, status) ==
    Become(st, h) /\ reply' = [to |-> "evt", evt |-> "SNAPSHOT_DONE",
                               status |-> status]

\* INVALID_OPERATION.
Reject(evt, h) == Stay(h) /\ Api(evt, "error")

NoOp(evt, h) == Stay(h) /\ Api(evt, "ok")

Neutrally(evt, h) == Stay(h) /\ \E s \in {"ok", "error"} : Api(evt, s)

\* A client that leaves modes alone while it captures or records.
Keeps(h, p) == /\ p.zsl = h.zslNew /\ p.hint = h.hintKey
               /\ p.raw = h.raw /\ ~p.restart

Payload(h) ==
    IF BusyParams \/ ~(isCaptureRunning(m_state) \/ m_state = "RECORDING")
      THEN Params ELSE {p \in Params : Keeps(h, p)}

\* SET_PARAMS in a state that commits whatever the parameters are.
CommitParams(evt, h) ==
    \E p \in Payload(h) :
      LET u == updateParameters(h, p) IN
      IF p.bad THEN Reject(evt, u)
      ELSE \E o \in commitParameterChanges(u) : Report(evt, o, m_state)

\* SET_PARAMS in a state where a change that needs a restart rebuilds the
\* preview; `down' tears it down and `up' builds it, or it ends in
\* `failed'.
RestartParams(evt, h, down(_), up(_, _), failed) ==
    \E p \in Payload(h) :
      LET u == updateParameters(h, p) IN
      IF p.bad THEN Reject(evt, u)
      ELSE IF ~needRestart(h, p)
        THEN \E o \in commitParameterChanges(u) : Report(evt, o, m_state)
        ELSE \E c \in commitParameterChanges(down(u)) :
             \E o \in up(m_state, c.hw) :
               Report(evt, o, IF o.ok THEN m_state ELSE failed)

\* SET_PARAMS while recording.
RecordingParams(evt, h) ==
    \E p \in Payload(h) :
      LET u == updateParameters(h, p) IN
      IF p.bad \/ needRestart(h, p) THEN Reject(evt, u)
      ELSE \E o \in commitParameterChanges(u) : Report(evt, o, m_state)

-----------------------------------------------------------------------------
(* sendCommand.  LONGSHOT_ON asks for a preview restart when the ZSL channel *)
(* has too few buffers; only the PREVIEWING handler listens.                 *)

longshotOn(h) ==
    IF isCaptureRunning(m_state) THEN {Fail(h)}
    ELSE Try([h EXCEPT !.longshot = TRUE], [h EXCEPT !.longshot = TRUE])

mayNeedRestart(h) ==
    /\ ~isCaptureRunning(m_state) /\ isPreviewRunning(m_state)
    /\ h.zsl /\ h.ch["ZSL"] # "none"

sendCommand(h, cmd) ==
    CASE cmd = "LONGSHOT_ON"  -> longshotOn(h)
      [] cmd = "LONGSHOT_OFF" ->
             LET g == longshotOff(m_state, h) IN Try(g, g)
      [] cmd = "OTHER"        -> Try(h, h)

Command(evt, h) ==
    \E cmd \in Commands : \E o \in sendCommand(h, cmd) : Report(evt, o, m_state)

\* The two capturing states fall back to PREVIEWING on LONGSHOT_OFF.
CaptureCommand(evt, h) ==
    \E cmd \in Commands : \E o \in sendCommand(h, cmd) :
      Report(evt, o, IF cmd = "LONGSHOT_OFF" THEN "PREVIEWING" ELSE m_state)

\* LONGSHOT_ON in PREVIEWING may restart the preview; whatever comes of that,
\* the state stays.
PreviewingCommand(evt, h) ==
    \/ Command(evt, h)
    \/ /\ "LONGSHOT_ON" \in Commands
       /\ mayNeedRestart(h)
       /\ \E o \in longshotOn(h) :
          \E s \in prepareAndStart(m_state, stopPreview(o.hw)) :
            Report(evt, s, m_state)

-----------------------------------------------------------------------------
(* The handlers, one per state.  h is hw with nothing posted yet. *)

h0 == [hw EXCEPT !.out = {}]

Query(evt, yes) == Stay(h0) /\ Api(evt, IF yes THEN "yes" ELSE "no")

\* A prepared preview that cannot start is unprepared again.
StartPreviewFrom(evt, outcomes, ready) ==
    \E o \in outcomes : Report(evt, o, IF o.ok THEN ready ELSE "PREVIEW_STOPPED")

procEvtPreviewStoppedState(evt) ==
    \/ evt = "SET_PREVIEW_WINDOW"
       /\ \E w \in BOOLEAN : NoOp(evt, [h0 EXCEPT !.window = w])
    \/ evt \in Neutral /\ Neutrally(evt, h0)
    \/ evt = "SET_PARAMS" /\ CommitParams(evt, h0)
    \/ evt = "START_PREVIEW" /\ ~hw.window
       /\ StartPreviewFrom(evt, preparePreview(m_state, h0), "PREVIEW_READY")
    \/ evt = "START_PREVIEW" /\ hw.window
       /\ StartPreviewFrom(evt, prepareAndStart(m_state, h0), "PREVIEWING")
    \/ evt = "START_NODISPLAY_PREVIEW"
       /\ StartPreviewFrom(evt, prepareAndStart(m_state, h0), "PREVIEWING")
    \/ evt \in {"STOP_PREVIEW", "CANCEL_PICTURE"} /\ NoOp(evt, h0)
    \/ evt \in {"PREVIEW_ENABLED", "RECORDING_ENABLED"} /\ Query(evt, FALSE)
    \/ evt = "RELEASE" /\ NoOp(evt, release(h0))
    \/ evt = "SEND_COMMAND" /\ Command(evt, h0)
    \/ evt \in {"RELEASE_RECORDING_FRAME", "START_RECORDING", "STOP_RECORDING",
                "PREPARE_SNAPSHOT", "TAKE_PICTURE"} /\ Reject(evt, h0)
    \/ evt = "SNAPSHOT_DONE" /\ EvtDone(m_state, h0, "ok")
    \/ evt \in InternalEvents \ {"SNAPSHOT_DONE"} /\ Ignore(h0)

procEvtPreviewReadyState(evt) ==
    \/ evt = "SET_PREVIEW_WINDOW"
       /\ NoOp(evt, [h0 EXCEPT !.window = FALSE])
    \/ evt = "SET_PREVIEW_WINDOW"
       /\ \E s \in startPreview([h0 EXCEPT !.window = TRUE]) :
            IF s.ok THEN Report(evt, s, "PREVIEWING")
            ELSE Answer(evt, "error", "PREVIEW_STOPPED", unpreparePreview(s.hw))
    \/ evt \in Neutral /\ Neutrally(evt, h0)
    \/ evt = "SET_PARAMS"
       /\ RestartParams(evt, h0, unpreparePreview, preparePreview,
                        "PREVIEW_STOPPED")
    \/ evt = "START_PREVIEW" /\ NoOp(evt, h0)
    \/ evt = "STOP_PREVIEW"
       /\ Answer(evt, "ok", "PREVIEW_STOPPED", unpreparePreview(h0))
    \/ evt = "PREVIEW_ENABLED" /\ Query(evt, TRUE)
    \/ evt = "RECORDING_ENABLED" /\ Query(evt, FALSE)
    \/ evt = "SEND_COMMAND" /\ Command(evt, h0)
    \/ evt \in {"RELEASE_RECORDING_FRAME", "START_NODISPLAY_PREVIEW",
                "START_RECORDING", "STOP_RECORDING", "PREPARE_SNAPSHOT",
                "TAKE_PICTURE", "CANCEL_PICTURE", "RELEASE"} /\ Reject(evt, h0)
    \/ evt = "SNAPSHOT_DONE" /\ EvtDone(m_state, h0, "ok")
    \/ evt \in InternalEvents \ {"SNAPSHOT_DONE"} /\ Ignore(h0)

\* TAKE_PICTURE leaves camcorder mode first; what comes of rebuilding the
\* preview is overwritten by the result of takePicture.
cameraMode(h) ==
    IF ~h.hint THEN {h}
    ELSE UNION {{o.hw : o \in prepareAndStart("PREVIEWING", u.hw)}
                  : u \in updateRecordingHintValue(stopPreview(h), FALSE)}

TakePicture(evt) ==
    \E h \in cameraMode(h0) : \E o \in takePicture(h) :
      Report(evt, o, CASE h.zsl \/ h.longshot ->
                            IF o.ok THEN "PREVIEW_PIC_TAKING" ELSE "PREVIEWING"
                       [] OTHER ->
                            IF o.ok THEN "PIC_TAKING" ELSE "PREVIEW_STOPPED")

procEvtPreviewingState(evt) ==
    \/ evt \in Neutral /\ Neutrally(evt, h0)
    \/ evt = "SET_PARAMS"
       /\ RestartParams(evt, h0, stopPreview, prepareAndStart,
                        "PREVIEW_STOPPED")
    \/ evt \in {"START_PREVIEW", "START_NODISPLAY_PREVIEW"} /\ NoOp(evt, h0)
    \/ evt = "STOP_PREVIEW"
       /\ Answer(evt, "ok", "PREVIEW_STOPPED", stopPreview(h0))
    \/ evt = "PREVIEW_ENABLED" /\ Query(evt, TRUE)
    \/ evt = "RECORDING_ENABLED" /\ Query(evt, FALSE)
    \/ evt = "START_RECORDING"
       /\ \E o \in startRecording(m_state, h0) :
            Report(evt, o, IF o.ok THEN "RECORDING" ELSE m_state)
    \/ evt = "PREPARE_SNAPSHOT"
       /\ \E o \in Try(h0, h0) :
            IF o.ok THEN Become("PREPARE_SNAPSHOT", h0) /\ reply' = Silence
                    ELSE Reject(evt, h0)
    \/ evt = "TAKE_PICTURE" /\ TakePicture(evt)
    \/ evt = "SEND_COMMAND" /\ PreviewingCommand(evt, h0)
    \/ evt \in {"SET_PREVIEW_WINDOW", "RELEASE_RECORDING_FRAME",
                "CANCEL_PICTURE", "STOP_RECORDING", "RELEASE"} /\ Reject(evt, h0)
    \/ evt = "SNAPSHOT_DONE" /\ EvtDone(m_state, h0, "ok")
    \/ evt \in InternalEvents \ {"SNAPSHOT_DONE"} /\ Ignore(h0)

\* PREPARE_SNAPSHOT is answered when the backend reports it done.
\* REG_FACE_IMAGE has no case, so nobody answers it.
procEvtPrepareSnapshotState(evt) ==
    \/ evt \in ApiEvents \ {"REG_FACE_IMAGE"} /\ Reject(evt, h0)
    \/ evt = "REG_FACE_IMAGE" /\ Ignore(h0)
    \/ evt = "PREP_SNAPSHOT_DONE"
       /\ Answer("PREPARE_SNAPSHOT", "ok", "PREVIEWING", h0)
    \/ evt = "SNAPSHOT_DONE" /\ EvtDone(m_state, h0, "ok")
    \/ evt \in InternalEvents \ {"SNAPSHOT_DONE", "PREP_SNAPSHOT_DONE"}
       /\ Ignore(h0)

\* STOP_CAPTURE_CHANNEL: with early restart the preview comes back while the
\* capture is still being processed.
EarlyRestartPreview(h) ==
    UNION {IF p.ok THEN startPreview(p.hw) ELSE {p}
             : p \in preparePreview(m_state, h)}

procEvtPicTakingState(evt) ==
    \/ evt \in Neutral /\ Neutrally(evt, h0)
    \/ evt = "SET_PARAMS" /\ CommitParams(evt, h0)
    \/ evt \in {"STOP_PREVIEW", "CANCEL_PICTURE"}
       /\ Answer(evt, "ok", "PREVIEW_STOPPED", cancelPicture(h0))
    \/ evt \in {"PREVIEW_ENABLED", "RECORDING_ENABLED"} /\ Query(evt, FALSE)
    \/ evt = "SEND_COMMAND" /\ CaptureCommand(evt, h0)
    \/ evt = "TAKE_PICTURE" /\ hw.longshot
       /\ \E o \in longShot(h0) : Report(evt, o, m_state)
    \/ evt = "TAKE_PICTURE" /\ ~hw.longshot /\ Reject(evt, h0)
    \/ evt \in {"SET_PREVIEW_WINDOW", "PREPARE_SNAPSHOT", "START_RECORDING",
                "STOP_RECORDING", "RELEASE_RECORDING_FRAME", "START_PREVIEW",
                "START_NODISPLAY_PREVIEW", "RELEASE"} /\ Reject(evt, h0)
    \/ evt = "STOP_CAPTURE_CHANNEL" /\ ~EarlyRestart
       /\ Ignore(stopCaptureChannel(h0, FALSE))
    \/ evt = "STOP_CAPTURE_CHANNEL" /\ EarlyRestart
       /\ \E o \in EarlyRestartPreview(stopCaptureChannel(h0, TRUE)) :
            Ignore(o.hw)
    \/ evt = "SNAPSHOT_DONE"
       /\ EvtDone(IF EarlyRestart THEN "PREVIEWING" ELSE "PREVIEW_STOPPED",
                  cancelPicture(h0), "ok")
    \/ evt \in InternalEvents \ {"SNAPSHOT_DONE", "STOP_CAPTURE_CHANNEL"}
       /\ Ignore(h0)

procEvtRecordingState(evt) ==
    \/ evt \in {"START_PREVIEW", "SET_PREVIEW_WINDOW", "START_RECORDING",
                "RELEASE_RECORDING_FRAME", "PREPARE_SNAPSHOT"} /\ NoOp(evt, h0)
    \/ evt \in Neutral /\ Neutrally(evt, h0)
    \/ evt = "SET_PARAMS" /\ RecordingParams(evt, h0)
    \/ evt = "PREVIEW_ENABLED" /\ Query(evt, FALSE)
    \/ evt = "RECORDING_ENABLED" /\ Query(evt, TRUE)
    \/ evt = "SEND_COMMAND" /\ Command(evt, h0)
    \/ evt = "TAKE_PICTURE"
       /\ \E o \in takeLiveSnapshot(h0) :
            Report(evt, o, IF o.ok THEN "VIDEO_PIC_TAKING" ELSE m_state)
    \/ evt = "STOP_RECORDING"
       /\ \E o \in stopRecording(h0) : Report(evt, o, "PREVIEWING")
    \/ evt = "STOP_PREVIEW"
       /\ \E o \in stopRecording(h0) :
            Answer(evt, "ok", "PREVIEW_STOPPED", stopPreview(o.hw))
    \/ evt \in {"CANCEL_PICTURE", "START_NODISPLAY_PREVIEW", "RELEASE"}
       /\ Reject(evt, h0)
    \/ evt = "SNAPSHOT_DONE" /\ EvtDone(m_state, h0, "ok")
    \/ evt \in InternalEvents \ {"SNAPSHOT_DONE"} /\ Ignore(h0)

procEvtVideoPicTakingState(evt) ==
    \/ evt \in Neutral /\ Neutrally(evt, h0)
    \/ evt = "SET_PARAMS" /\ RecordingParams(evt, h0)
    \/ evt \in {"PREVIEW_ENABLED", "RECORDING_ENABLED"} /\ Query(evt, TRUE)
    \/ evt = "SEND_COMMAND" /\ Command(evt, h0)
    \/ evt = "STOP_RECORDING"
       /\ \E c \in cancelLiveSnapshot(h0) : \E o \in stopRecording(c.hw) :
            Report(evt, o, "PREVIEWING")
    \/ evt = "RELEASE_RECORDING_FRAME" /\ NoOp(evt, h0)
    \/ evt = "CANCEL_PICTURE"
       /\ \E o \in cancelLiveSnapshot(h0) : Report(evt, o, "RECORDING")
    \/ evt = "STOP_PREVIEW"
       /\ \E c \in cancelLiveSnapshot(h0) : \E o \in stopRecording(c.hw) :
            Answer(evt, "ok", "PREVIEW_STOPPED", stopPreview(o.hw))
    \/ evt \in {"SET_PREVIEW_WINDOW", "START_RECORDING", "START_PREVIEW",
                "START_NODISPLAY_PREVIEW", "PREPARE_SNAPSHOT", "TAKE_PICTURE",
                "RELEASE"} /\ Reject(evt, h0)
    \/ evt = "SNAPSHOT_DONE"
       /\ \E o \in cancelLiveSnapshot(h0) : EvtDone("RECORDING", o.hw, Status(o))
    \/ evt \in InternalEvents \ {"SNAPSHOT_DONE"} /\ Ignore(h0)

\* The picture taken while previewing is a ZSL or longshot one, or a live
\* snapshot.
cancelPreviewPicture(h) ==
    IF h.zsl \/ h.longshot THEN {Ok(cancelPicture(h))} ELSE cancelLiveSnapshot(h)

\* STOP_PREVIEW stops the channel the preview runs on, deletes the channels,
\* and answers with the result of cancelling the picture.
stopPreviewPicture(h) ==
    {[ok |-> o.ok, hw |-> unpreparePreview(o.hw)] : o \in cancelPreviewPicture(h)}

procEvtPreviewPicTakingState(evt) ==
    \/ evt \in Neutral /\ Neutrally(evt, h0)
    \/ evt = "SET_PARAMS"
       /\ RestartParams(evt, h0, stopPreview, prepareAndStart, "PIC_TAKING")
    \/ evt = "PREVIEW_ENABLED" /\ Query(evt, TRUE)
    \/ evt = "RECORDING_ENABLED" /\ Query(evt, FALSE)
    \/ evt = "SEND_COMMAND" /\ CaptureCommand(evt, h0)
    \/ evt = "RELEASE_RECORDING_FRAME" /\ NoOp(evt, h0)
    \/ evt = "CANCEL_PICTURE"
       /\ \E o \in cancelPreviewPicture(h0) : Report(evt, o, "PREVIEWING")
    \/ evt = "STOP_PREVIEW"
       /\ \E o \in stopPreviewPicture(h0) : Report(evt, o, "PREVIEW_STOPPED")
    \/ evt = "START_RECORDING" /\ (hw.zsl \/ hw.longshot) /\ Reject(evt, h0)
    \/ evt = "START_RECORDING" /\ ~(hw.zsl \/ hw.longshot)
       /\ \E o \in startRecording(m_state, h0) :
            Report(evt, o, IF o.ok THEN "VIDEO_PIC_TAKING" ELSE m_state)
    \/ evt = "TAKE_PICTURE" /\ hw.longshot
       /\ \E o \in longShot(h0) : Report(evt, o, m_state)
    \/ evt = "TAKE_PICTURE" /\ ~hw.longshot /\ Reject(evt, h0)
    \/ evt \in {"PREPARE_SNAPSHOT", "STOP_RECORDING", "START_PREVIEW",
                "START_NODISPLAY_PREVIEW", "SET_PREVIEW_WINDOW", "RELEASE"}
       /\ Reject(evt, h0)
    \/ evt = "SNAPSHOT_DONE"
       /\ \E o \in cancelPreviewPicture(h0) :
            EvtDone("PREVIEWING", o.hw, Status(o))
    \/ evt \in InternalEvents \ {"SNAPSHOT_DONE"} /\ Ignore(h0)

-----------------------------------------------------------------------------
(* The machine *)

stateMachine(evt) ==
    \/ m_state = "PREVIEW_STOPPED"    /\ procEvtPreviewStoppedState(evt)
    \/ m_state = "PREVIEW_READY"      /\ procEvtPreviewReadyState(evt)
    \/ m_state = "PREVIEWING"         /\ procEvtPreviewingState(evt)
    \/ m_state = "PREPARE_SNAPSHOT"   /\ procEvtPrepareSnapshotState(evt)
    \/ m_state = "PIC_TAKING"         /\ procEvtPicTakingState(evt)
    \/ m_state = "RECORDING"          /\ procEvtRecordingState(evt)
    \/ m_state = "VIDEO_PIC_TAKING"   /\ procEvtVideoPicTakingState(evt)
    \/ m_state = "PREVIEW_PIC_TAKING" /\ procEvtPreviewPicTakingState(evt)

\* The live snapshot thread runs beside the state machine's.
Live_Snapshot_thread ==
    /\ hw.live = "running"
    /\ \E o \in takeLiveSnapshot_internal(h0) : hw' = o.hw
    /\ UNCHANGED <<m_state, reply>>

Init ==
    /\ m_state = "PREVIEW_STOPPED"
    /\ hw = HwInit
    /\ reply = Silence

Next == (\E evt \in Events : stateMachine(evt)) \/ Live_Snapshot_thread

Spec == Init /\ [][Next]_vars

TypeOK ==
    /\ m_state \in States
    /\ hw \in Hw
    /\ reply \in Replies

-----------------------------------------------------------------------------
(* What always holds, whatever fails *)

\* The video stream runs exactly while the machine says it is recording: no
\* path out of a recording, and no failed start of one, leaves it streaming.
VideoIffRecording ==
    (hw.ch["VIDEO"] = "started") <=> m_state \in {"RECORDING", "VIDEO_PIC_TAKING"}

\* A live snapshot's thread and its stream never outlive VIDEO_PIC_TAKING: the
\* thread is joined, and its handle free for the next snapshot, in every other
\* state.
LiveSnapshotOwned ==
    hw.live # "none" \/ hw.ch["SNAPSHOT"] = "started"
        => m_state = "VIDEO_PIC_TAKING"

-----------------------------------------------------------------------------
(* What holds while no call fails, the application changes modes only when  *)
(* it neither captures nor records, and neither longshot nor early restart   *)
(* is used.                                                                  *)

previewChannel == IF hw.zsl /\ ~hw.hint THEN "ZSL" ELSE "PREVIEW"
captureChannel == IF hw.raw THEN "RAW" ELSE "CAPTURE"

Existing == {c \in Channels : hw.ch[c] # "none"}
Streaming == {c \in Channels : hw.ch[c] = "started"}

\* The state says which streams run: the application never sees a preview that
\* does not run, nor a stopped one whose channels linger.
StreamsMatchState ==
    CASE m_state = "PREVIEW_STOPPED" -> Existing = {}
      [] m_state = "PREVIEW_READY" ->
             Streaming = {} /\ previewChannel \in Existing
      [] m_state \in {"PREVIEWING", "PREPARE_SNAPSHOT", "PREVIEW_PIC_TAKING"} ->
             Streaming = {previewChannel}
      [] m_state = "PIC_TAKING" ->
             Existing = {captureChannel} /\ ~hw.zsl
      [] m_state \in {"RECORDING", "VIDEO_PIC_TAKING"} ->
             /\ {"PREVIEW", "VIDEO"} \subseteq Streaming
             /\ hw.hint

\* The postprocessor runs during captures only: every way a capture ends stops
\* it.
PostprocessorOnlyCaptures == hw.pp => isCaptureRunning(m_state)

\* Whatever order events come in, the state tells what the hardware does: no stream
\* or postprocessor outlives its state, and none that it needs is missing.
HardwareMatchesState == StreamsMatchState /\ PostprocessorOnlyCaptures

-----------------------------------------------------------------------------
(* What the header promises and early restart breaks *)

\* "preview is stopped" (QCameraStateMachine.h): in PREVIEW_STOPPED no channel
\* streams a preview.
StoppedMeansStopped ==
    m_state = "PREVIEW_STOPPED" => {"ZSL", "PREVIEW"} \cap Streaming = {}
=============================================================================
