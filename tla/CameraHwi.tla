------------------------------ MODULE CameraHwi ------------------------------
(***************************************************************************)
(* The operations of QCamera2HardwareInterface that the camera state       *)
(* machine calls, as functions of the hardware interface's state.  An      *)
(* operation that reaches the backend maps a state to the SET of its       *)
(* outcomes, records [ok, hw]; one that cannot fail maps it to one state.  *)
(* `ok' is rc = NO_ERROR.                                                  *)
(***************************************************************************)
EXTENDS Naturals

CONSTANTS
    MayFail,      \* TRUE: any call into the camera backend may fail
    EarlyRestart, \* the property persist.camera.feature.restart
    Params        \* the parameter sets the application may pass

Channels == {"ZSL", "CAPTURE", "PREVIEW", "VIDEO", "SNAPSHOT", "RAW"}

\* "hollow": deleteChannel() ran, the object is still in m_channels.
ChannelStates == {"none", "created", "started", "hollow"}

ParamSet == [zsl: BOOLEAN, hint: BOOLEAN, raw: BOOLEAN,
             restart: BOOLEAN,  \* changes something else that needs a restart
             bad: BOOLEAN]      \* carries a value some setter rejects

ASSUME HwiAssumption ==
    /\ MayFail \in BOOLEAN
    /\ EarlyRestart \in BOOLEAN
    /\ Params \subseteq ParamSet

States == {"PREVIEW_STOPPED", "PREVIEW_READY", "PREVIEWING",
           "PREPARE_SNAPSHOT", "PIC_TAKING", "RECORDING",
           "VIDEO_PIC_TAKING", "PREVIEW_PIC_TAKING"}

isPreviewRunning(st) ==
    st \in {"PREVIEWING", "RECORDING", "VIDEO_PIC_TAKING",
            "PREVIEW_PIC_TAKING", "PREPARE_SNAPSHOT", "PREVIEW_READY"}

isCaptureRunning(st) ==
    st \in {"PIC_TAKING", "VIDEO_PIC_TAKING", "PREVIEW_PIC_TAKING"}

(***************************************************************************)
(* ch       m_channels                                                     *)
(* window   mPreviewWindow is not NULL                                     *)
(* zsl, zslNew    m_bZslMode and m_bZslMode_new; KEY_QC_ZSL always names   *)
(*          the latter                                                     *)
(* hint, hintNew  m_bRecordingHint and m_bRecordingHint_new                *)
(* hintKey  the committed string of KEY_RECORDING_HINT; hintTmp holds the  *)
(*          uncommitted one of m_tempMap, if any                           *)
(* raw      mPictureFormat is neither JPEG nor NV16/NV21                   *)
(* longshot mLongshotEnabled                                               *)
(* pp       the postprocessor has been started and not stopped             *)
(* live     the live snapshot thread: none, running, or done and unjoined  *)
(* out      events this handler has posted to the state machine's queues   *)
(***************************************************************************)
Hw == [ch: [Channels -> ChannelStates], window: BOOLEAN,
       zsl: BOOLEAN, zslNew: BOOLEAN,
       hint: BOOLEAN, hintNew: BOOLEAN, hintKey: BOOLEAN,
       hintTmp: {{}, {TRUE}, {FALSE}},
       raw: BOOLEAN, longshot: BOOLEAN, pp: BOOLEAN,
       live: {"none", "running", "done"},
       out: SUBSET {"SNAPSHOT_DONE", "CANCEL_PICTURE"}]

HwInit == [ch |-> [c \in Channels |-> "none"], window |-> FALSE,
           zsl |-> FALSE, zslNew |-> FALSE,
           hint |-> FALSE, hintNew |-> FALSE, hintKey |-> FALSE,
           hintTmp |-> {}, raw |-> FALSE, longshot |-> FALSE,
           pp |-> FALSE, live |-> "none", out |-> {}]

Outcomes == [ok: BOOLEAN, hw: Hw]

Ok(h) == [ok |-> TRUE, hw |-> h]
Fail(h) == [ok |-> FALSE, hw |-> h]

\* The outcomes of a backend call that leaves h behind when it succeeds and
\* f when it fails.
Try(h, f) == {Ok(h)} \cup (IF MayFail THEN {Fail(f)} ELSE {})

-----------------------------------------------------------------------------
(* Channels *)

SetCh(h, c, s) == [h EXCEPT !.ch[c] = s]

\* delChannel(type, true).
delChannel(h, c) == SetCh(h, c, "none")

\* stopChannel.  QCameraChannel::stop() clears m_bIsActive whatever it returns.
Stopped(h, c) == IF h.ch[c] = "started" THEN SetCh(h, c, "created") ELSE h

\* Mutant: a channel that cannot be stopped is left as it was.
stopChannelIfItStops(h, c) ==
    IF h.ch[c] = "none" THEN {Fail(h)} ELSE Try(Stopped(h, c), h)

stopChannel(h, c) ==
    IF h.ch[c] = "none" THEN {Fail(h)} ELSE Try(Stopped(h, c), Stopped(h, c))

\* A preview channel already there is kept (the torch workaround); a ZSL
\* channel replaces a preview one; every other channel replaces its own.
addChannel(h, c) ==
    IF c = "PREVIEW" /\ h.ch["PREVIEW"] # "none"
      THEN {Ok(h)}
      ELSE LET g == IF c = "ZSL" THEN delChannel(h, "PREVIEW") ELSE h
           IN  Try(SetCh(g, c, "created"), delChannel(g, c))

\* config() and start().  The backend may refuse to start a channel that
\* already streams; it refuses one whose handle is gone.
startChannel(h, c) ==
    CASE h.ch[c] = "created" -> Try(SetCh(h, c, "started"), h)
      [] h.ch[c] = "started" -> {Ok(h), Fail(h)}
      [] OTHER               -> {Fail(h)}

unpreparePreview(h) ==
    [h EXCEPT !.ch = [c \in Channels |->
        IF c \in {"ZSL", "PREVIEW", "VIDEO", "SNAPSHOT"} THEN "none"
                                                         ELSE h.ch[c]]]

\* stopPreview: stops the two preview channels and deletes all four.
stopPreview(h) ==
    unpreparePreview(Stopped(Stopped(h, "ZSL"), "PREVIEW"))

release(h) == [h EXCEPT !.ch = [c \in Channels |-> "none"]]

-----------------------------------------------------------------------------
(* Parameters *)

\* updateParameters stages the ZSL mode and the hint, but changes the picture
\* format at once.  The hint counts as changed against its committed string.
updateParameters(h, p) ==
    LET changed == p.hint # h.hintKey IN
    [h EXCEPT !.raw = p.raw, !.zslNew = p.zsl,
              !.hintTmp = IF changed THEN {p.hint} ELSE @,
              !.hintNew = IF changed THEN p.hint ELSE @]

needRestart(h, p) ==
    \/ p.zsl # h.zslNew
    \/ p.hint # h.hintKey /\ p.hint # h.hint
    \/ p.restart

\* commitParamChanges: everything staged takes effect.
commitParamChanges(h) ==
    [h EXCEPT !.zsl = h.zslNew, !.hint = h.hintNew, !.hintTmp = {},
              !.hintKey = IF h.hintTmp = {} THEN @
                                            ELSE CHOOSE v \in h.hintTmp : TRUE]

commitParameterChanges(h) == Try(commitParamChanges(h), h)

updateRecordingHintValue(h, v) ==
    commitParameterChanges([h EXCEPT !.hintNew = v])

-----------------------------------------------------------------------------
(* Capture *)

\* In ZSL mode the channel that also feeds the preview stays.
cancelPicture(h) ==
    LET g == [h EXCEPT !.pp = FALSE] IN
    CASE g.zsl            -> g
      [] ~g.zsl /\ ~g.raw -> delChannel(g, "CAPTURE")
      [] ~g.zsl /\ g.raw  -> delChannel(g, "RAW")

stopCaptureChannel(h, destroy) ==
    LET g == Stopped(h, "CAPTURE") IN
    CASE h.raw -> h
      [] ~h.raw /\ destroy /\ g.ch["CAPTURE"] # "none" ->
             SetCh(g, "CAPTURE", "hollow")
      [] OTHER -> g

longShot(h) ==
    IF h.ch[IF h.zsl THEN "ZSL" ELSE "CAPTURE"] = "none"
      THEN {Fail(h)} ELSE Try(h, h)

\* The postprocessor starts, then the advanced capture, then the request for
\* buffers; only a failed request stops the postprocessor again.
takeZslPicture(h) ==
    IF h.ch["ZSL"] = "none"
      THEN {Fail(h)}
      ELSE {Ok([h EXCEPT !.pp = TRUE])} \cup
           (IF MayFail THEN {Fail(h), Fail([h EXCEPT !.pp = TRUE]),
                             Fail([h EXCEPT !.pp = FALSE])}
                       ELSE {})

\* The preview channel goes first.  Starting the postprocessor is deferred
\* work: it is not taken back when the channel does not start, and when it
\* fails itself it deletes the channel behind takePicture's back.  A capture
\* channel that cannot be added is not an outcome, it hangs the caller: see
\* module DeferredWork.
takeJpegPicture(h) ==
    LET bare    == delChannel(delChannel(h, "PREVIEW"), "CAPTURE")
        pp      == [bare EXCEPT !.pp = TRUE]
        started == SetCh(pp, "CAPTURE", "started")
    IN  {Ok(started)} \cup
        (IF MayFail THEN {Fail(bare), Fail(SetCh(bare, "CAPTURE", "created")),
                          Fail(pp), Fail(started), Ok(bare)}
                    ELSE {})

takeRawPicture(h) ==
    LET bare == delChannel(delChannel(h, "PREVIEW"), "RAW")
        pp   == [bare EXCEPT !.pp = TRUE]
    IN  {Ok(SetCh(pp, "RAW", "started"))} \cup
        (IF MayFail THEN {Fail(bare), Fail([bare EXCEPT !.pp = FALSE])}
                    ELSE {})

takePicture(h) ==
    CASE h.zsl            -> takeZslPicture(h)
      [] ~h.zsl /\ ~h.raw -> takeJpegPicture(h)
      [] ~h.zsl /\ h.raw  -> takeRawPicture(h)

-----------------------------------------------------------------------------
(* Live snapshot: a thread of its own, joined by cancelLiveSnapshot. *)

takeLiveSnapshot(h) == Try([h EXCEPT !.live = "running"], h)

\* takeLiveSnapshot_internal, the body of that thread.  When it fails it asks
\* the state machine to cancel the picture.
takeLiveSnapshot_internal(h) ==
    LET done == [h EXCEPT !.live = "done"]
        pp   == [done EXCEPT !.pp = TRUE]
        Cancel(g) == Fail([g EXCEPT !.out = @ \cup {"CANCEL_PICTURE"}])
    IN  IF h.ch["SNAPSHOT"] = "none"
          THEN {Cancel(pp)} \cup (IF MayFail THEN {Cancel(done)} ELSE {})
          ELSE {Ok(SetCh(pp, "SNAPSHOT", "started"))} \cup
               (IF MayFail THEN {Cancel(done), Cancel(pp)} ELSE {})

\* Mutant: the postprocessor is not stopped.
cancelButProcess(h) ==
    LET joined == IF h.live = "running" THEN takeLiveSnapshot_internal(h)
                                        ELSE {Ok(h)}
    IN  UNION {stopChannel([o.hw EXCEPT !.live = "none"], "SNAPSHOT")
                 : o \in joined}

\* Mutant: the thread is not joined.
cancelWithoutJoin(h) == stopChannel([h EXCEPT !.pp = FALSE], "SNAPSHOT")

\* Joins the thread, so what it had left to do happens first.
cancelLiveSnapshot(h) ==
    LET joined == IF h.live = "running" THEN takeLiveSnapshot_internal(h)
                                        ELSE {Ok(h)}
    IN  UNION {stopChannel([o.hw EXCEPT !.live = "none", !.pp = FALSE],
                           "SNAPSHOT") : o \in joined}

-----------------------------------------------------------------------------
(* Commands, preview and recording *)

\* CAMERA_CMD_LONGSHOT_OFF.  The cancelled capture is reported by an event.
longshotOff(st, h) ==
    LET g == IF h.longshot /\ isCaptureRunning(st)
               THEN [cancelPicture(h) EXCEPT !.out = @ \cup {"SNAPSHOT_DONE"}]
               ELSE h
    IN  [g EXCEPT !.longshot = FALSE]

\* addChannel for the camcorder: no snapshot channel beside 4k2k video, and
\* what was added goes again when a later channel cannot be added.
addRecordingChannels(h) ==
    UNION {UNION {
      IF ~s.ok THEN {s}
      ELSE UNION {
        IF ~v.ok THEN {Fail(delChannel(v.hw, "SNAPSHOT"))}
        ELSE {IF p.ok THEN p
              ELSE Fail(delChannel(delChannel(p.hw, "SNAPSHOT"), "VIDEO"))
                : p \in addChannel(v.hw, "PREVIEW")}
          : v \in addChannel(s.hw, "VIDEO")}
        : s \in IF is4k2k THEN {Ok(h)} ELSE addChannel(h, "SNAPSHOT")}
      : is4k2k \in BOOLEAN}

preparePreview(st, h) ==
    CASE h.zsl /\ ~h.hint  -> addChannel(h, "ZSL")
      [] h.hint            -> addRecordingChannels(
                                IF h.longshot THEN longshotOff(st, h) ELSE h)
      [] ~h.zsl /\ ~h.hint -> addChannel(h, "PREVIEW")

startPreview(h) ==
    startChannel(h, IF h.zsl /\ ~h.hint THEN "ZSL" ELSE "PREVIEW")

\* preparePreview, startPreview, and unpreparePreview when the latter fails.
prepareAndStart(st, h) ==
    UNION {IF ~p.ok THEN {p}
           ELSE {IF s.ok THEN s ELSE Fail(unpreparePreview(s.hw))
                   : s \in startPreview(p.hw)}
             : p \in preparePreview(st, h)}

\* Without the recording hint the preview is rebuilt first; a failure leaves
\* it as it is then.
startRecording(st, h) ==
    LET rebuilt ==
          UNION {UNION {IF p.ok THEN startChannel(p.hw, "PREVIEW") ELSE {p}
                          : p \in preparePreview(st, u.hw)}
                   : u \in updateRecordingHintValue(stopPreview(h), TRUE)}
    IN  UNION {IF o.ok THEN startChannel(o.hw, "VIDEO") ELSE {o}
                 : o \in IF h.hint THEN {Ok(h)} ELSE rebuilt}

stopRecording(h) == stopChannel(h, "VIDEO")
=============================================================================
