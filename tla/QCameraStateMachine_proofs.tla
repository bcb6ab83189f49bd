---------------------- MODULE QCameraStateMachine_proofs ----------------------
(***************************************************************************)
(* Proofs about QCameraStateMachine, for every choice of its constants:    *)
(* which calls fail, whether early restart is on, which parameters and     *)
(* commands the application sends, and when.                               *)
(*                                                                         *)
(* The argument follows three sets of hardware states, one for each kind   *)
(* of camera state.  First every operation of CameraHwi is shown to keep   *)
(* within them, then every handler, then Next.                             *)
(*                                                                         *)
(* The second part takes the constants under which no call fails and the   *)
(* application is orderly, and follows one set of hardware states for each *)
(* camera state, along the same three stages.                              *)
(***************************************************************************)
EXTENDS QCameraStateMachine, TLAPS

\* No video, no live snapshot.
Quiet == {h \in Hw : /\ h.ch["VIDEO"] # "started"
                     /\ h.ch["SNAPSHOT"] # "started"
                     /\ h.live = "none"}

\* Video, but no live snapshot.
Rolling == {h \in Hw : /\ h.ch["VIDEO"] = "started"
                       /\ h.ch["SNAPSHOT"] # "started"
                       /\ h.live = "none"}

\* Video, and perhaps a live snapshot.
Filming == {h \in Hw : h.ch["VIDEO"] = "started"}

HwOf(st) == CASE st = "RECORDING"        -> Rolling
              [] st = "VIDEO_PIC_TAKING" -> Filming
              [] OTHER                   -> Quiet

\* Outcomes that leave the hardware in S.
To(S) == [ok: BOOLEAN, hw: S]

\* g differs from h neither in the streams of a recording nor in its live
\* snapshot.
Alike(h, g) ==
    /\ g \in Hw
    /\ g.live = h.live
    /\ g.ch["VIDEO"] = h.ch["VIDEO"]
    /\ g.ch["SNAPSHOT"] = h.ch["SNAPSHOT"]

-----------------------------------------------------------------------------
(* Sets of outcomes *)

\* What keeps the recording streams stays in the same of the three sets.
LEMMA AlikeStays ==
    ASSUME NEW h, NEW g, Alike(h, g)
    PROVE  /\ h \in Quiet => g \in Quiet
           /\ h \in Rolling => g \in Rolling
           /\ h \in Filming => g \in Filming
BY DEF Alike, Quiet, Rolling, Filming

\* Both outcomes that carry h lead to any set h is in.
LEMMA OutcomeTo ==
    ASSUME NEW S, NEW h \in S
    PROVE  Ok(h) \in To(S) /\ Fail(h) \in To(S)
BY DEF Ok, Fail, To

\* Try leads to S when both its states are in S.
LEMMA TryTo ==
    ASSUME NEW S, NEW h \in S, NEW f \in S
    PROVE  Try(h, f) \subseteq To(S)
BY OutcomeTo DEF Try

\* The fields of an outcome that leads to S.
LEMMA OutcomeFields ==
    ASSUME NEW S, NEW o \in To(S)
    PROVE  o.ok \in BOOLEAN /\ o.hw \in S /\ Status(o) \in {"ok", "error"}
BY DEF To, Status

\* What Ok and Fail carry.
LEMMA FailFields ==
    ASSUME NEW h
    PROVE  /\ Fail(h).hw = h /\ ~Fail(h).ok
           /\ Ok(h).hw = h /\ Ok(h).ok
BY DEF Fail, Ok

\* The fields of either outcome that carries h.
LEMMA OutcomeOf ==
    ASSUME NEW h, NEW o \in {Ok(h), Fail(h)}
    PROVE  o.ok \in BOOLEAN /\ o.hw = h
<1>1. CASE o = Ok(h)
  BY <1>1 DEF Ok
<1>2. CASE o = Fail(h)
  BY <1>2 DEF Fail
<1> QED
  BY <1>1, <1>2

-----------------------------------------------------------------------------
(* Channels *)

\* SetCh changes one channel and nothing else.
LEMMA SetChType ==
    ASSUME NEW h \in Hw, NEW c \in Channels, NEW s \in ChannelStates
    PROVE  /\ SetCh(h, c, s) \in Hw
           /\ SetCh(h, c, s).live = h.live
           /\ SetCh(h, c, s).ch = [h.ch EXCEPT ![c] = s]
BY DEF SetCh, Hw

\* Any change of a channel but starting the video or the snapshot is quiet.
LEMMA SetChQuiet ==
    ASSUME NEW h \in Quiet, NEW c \in Channels, NEW s \in ChannelStates,
           s = "started" => c \notin {"VIDEO", "SNAPSHOT"}
    PROVE  SetCh(h, c, s) \in Quiet
<1>1. h \in Hw /\ h.ch \in [Channels -> ChannelStates]
  BY DEF Quiet, Hw
<1> DEFINE g == SetCh(h, c, s)
<1>2. g \in Hw /\ g.live = h.live /\ g.ch = [h.ch EXCEPT ![c] = s]
  BY <1>1, SetChType
<1>3. g.live = "none" /\ \A x \in Channels : x # c => g.ch[x] = h.ch[x]
  BY <1>1, <1>2 DEF Quiet
<1>4. g.ch[c] = s
  BY <1>1, <1>2
<1>5. g.ch["VIDEO"] # "started" /\ g.ch["SNAPSHOT"] # "started"
  BY <1>3, <1>4 DEF Quiet, Channels
<1> QED
  BY <1>2, <1>3, <1>5 DEF Quiet

\* Deleting a channel starts none.
LEMMA delChannelQuiet ==
    ASSUME NEW h \in Quiet, NEW c \in Channels
    PROVE  delChannel(h, c) \in Quiet
BY SetChQuiet DEF delChannel, ChannelStates

\* Stopping a channel starts none.
LEMMA StoppedQuiet ==
    ASSUME NEW h \in Quiet, NEW c \in Channels
    PROVE  Stopped(h, c) \in Quiet
BY SetChQuiet DEF Stopped, ChannelStates

\* A channel that was added does not stream yet.
LEMMA addChannelQuiet ==
    ASSUME NEW h \in Quiet, NEW c \in Channels
    PROVE  addChannel(h, c) \subseteq To(Quiet)
<1> DEFINE g == IF c = "ZSL" THEN delChannel(h, "PREVIEW") ELSE h
<1>1. g \in Quiet
  BY delChannelQuiet DEF Channels
<1>2. SetCh(g, c, "created") \in Quiet /\ delChannel(g, c) \in Quiet
  BY <1>1, SetChQuiet, delChannelQuiet DEF ChannelStates
<1>3. Try(SetCh(g, c, "created"), delChannel(g, c)) \subseteq To(Quiet)
  BY <1>2, TryTo
<1> QED
  BY <1>3, OutcomeTo DEF addChannel

\* Starting any other channel leaves video and snapshot alone.
LEMMA startChannelQuiet ==
    ASSUME NEW h \in Quiet, NEW c \in Channels \ {"VIDEO", "SNAPSHOT"}
    PROVE  startChannel(h, c) \subseteq To(Quiet)
<1>1. SetCh(h, c, "started") \in Quiet
  BY SetChQuiet DEF ChannelStates
<1>2. Try(SetCh(h, c, "started"), h) \subseteq To(Quiet)
  BY <1>1, TryTo
<1> QED
  BY <1>2, OutcomeTo DEF startChannel

\* The video stream starts only when it was created, and then it runs.
LEMMA startVideo ==
    ASSUME NEW h \in Quiet, NEW o \in startChannel(h, "VIDEO")
    PROVE  o \in To(Hw) /\ o.hw \in (IF o.ok THEN Rolling ELSE Quiet)
<1> DEFINE g == SetCh(h, "VIDEO", "started")
<1>1. h \in Hw /\ h.ch \in [Channels -> ChannelStates]
  BY DEF Quiet, Hw
<1>a. g \in Hw /\ g.live = h.live /\ g.ch = [h.ch EXCEPT !["VIDEO"] = "started"]
  BY <1>1, SetChType DEF Channels, ChannelStates
<1>b. g.ch["VIDEO"] = "started" /\ g.ch["SNAPSHOT"] = h.ch["SNAPSHOT"]
  BY <1>1, <1>a DEF Channels
<1>2. g \in Hw /\ g \in Rolling
  BY <1>a, <1>b DEF Quiet, Rolling
<1>3. h.ch["VIDEO"] # "started"
  BY DEF Quiet
<1>4. o \in {Ok(g), Fail(h)}
  BY <1>3 DEF startChannel, Try
<1> QED
  BY <1>1, <1>2, <1>4, OutcomeTo, FailFields

\* Unpreparing the preview deletes the video and the snapshot channel.
LEMMA unpreparePreviewQuiet ==
    ASSUME NEW h \in Hw, h.live = "none"
    PROVE  unpreparePreview(h) \in Quiet
BY DEF unpreparePreview, Quiet, Hw, Channels, ChannelStates

\* So does stopping it.
LEMMA stopPreviewQuiet ==
    ASSUME NEW h \in Quiet
    PROVE  stopPreview(h) \in Quiet
<1>1. Stopped(Stopped(h, "ZSL"), "PREVIEW") \in Quiet
  BY StoppedQuiet DEF Channels
<1> QED
  BY <1>1, unpreparePreviewQuiet DEF stopPreview, Quiet

\* release deletes every channel.
LEMMA releaseQuiet ==
    ASSUME NEW h \in Quiet
    PROVE  release(h) \in Quiet
BY DEF release, Quiet, Hw, Channels, ChannelStates

-----------------------------------------------------------------------------
(* Parameters *)

\* Parameters are staged without touching a channel.
LEMMA updateParametersAlike ==
    ASSUME NEW h \in Hw, NEW p \in Params
    PROVE  Alike(h, updateParameters(h, p))
BY HwiAssumption DEF Alike, updateParameters, Hw, ParamSet

\* They take effect without touching one, either.
LEMMA commitParamChangesAlike ==
    ASSUME NEW h \in Hw
    PROVE  Alike(h, commitParamChanges(h))
<1> DEFINE key == IF h.hintTmp = {} THEN h.hintKey
                                    ELSE CHOOSE v \in h.hintTmp : TRUE
           g   == [h EXCEPT !.zsl = h.zslNew, !.hint = h.hintNew,
                            !.hintTmp = {}, !.hintKey = key]
<1>1. key \in BOOLEAN
  <2>1. h.hintKey \in BOOLEAN /\ h.hintTmp \in {{}, {TRUE}, {FALSE}}
    BY DEF Hw
  <2> QED
    BY <2>1
<1>2. commitParamChanges(h) = g
  BY DEF commitParamChanges
<1> HIDE DEF key
<1>3. Alike(h, g)
  BY <1>1 DEF Alike, Hw
<1> QED
  BY <1>2, <1>3

\* The same when the backend refuses them.
LEMMA commitAlike ==
    ASSUME NEW h \in Hw, NEW o \in commitParameterChanges(h)
    PROVE  o.ok \in BOOLEAN /\ Alike(h, o.hw)
<1>1. Alike(h, commitParamChanges(h)) /\ Alike(h, h)
  BY commitParamChangesAlike DEF Alike
<1>2. o \in {Ok(commitParamChanges(h)), Fail(h)}
  BY DEF commitParameterChanges, Try
<1>3. \/ o.ok = TRUE /\ o.hw = commitParamChanges(h)
      \/ o.ok = FALSE /\ o.hw = h
  BY <1>2 DEF Ok, Fail
<1> QED
  BY <1>1, <1>3

\* The form of commitAlike for sets of outcomes.
LEMMA commitQuiet ==
    ASSUME NEW h \in Quiet
    PROVE  commitParameterChanges(h) \subseteq To(Quiet)
<1>1. commitParamChanges(h) \in Quiet
  BY commitParamChangesAlike, AlikeStays DEF Quiet
<1> QED
  BY <1>1, TryTo DEF commitParameterChanges

\* Changing the recording hint starts nothing by itself.
LEMMA updateRecordingHintQuiet ==
    ASSUME NEW h \in Quiet, NEW v \in BOOLEAN
    PROVE  updateRecordingHintValue(h, v) \subseteq To(Quiet)
<1>1. [h EXCEPT !.hintNew = v] \in Quiet
  BY DEF Quiet, Hw
<1> QED
  BY <1>1, commitQuiet DEF updateRecordingHintValue

-----------------------------------------------------------------------------
(* Capture *)

\* The postprocessor is none of the three.
LEMMA WithPpQuiet ==
    ASSUME NEW h \in Quiet, NEW v \in BOOLEAN
    PROVE  [h EXCEPT !.pp = v] \in Quiet
BY DEF Quiet, Hw

\* cancelPicture deletes a capture channel at most.
LEMMA cancelPictureAlike ==
    ASSUME NEW h \in Hw
    PROVE  Alike(h, cancelPicture(h))
<1> DEFINE g == [h EXCEPT !.pp = FALSE]
<1>1. g \in Hw /\ Alike(h, g)
  BY DEF Alike, Hw
<1>3. cancelPicture(h) \in {g, delChannel(g, "CAPTURE"), delChannel(g, "RAW")}
  BY <1>1 DEF cancelPicture, Hw
<1> HIDE DEF g
<1>2. ASSUME NEW c \in {"CAPTURE", "RAW"}
      PROVE  Alike(h, delChannel(g, c))
  <2>0. c \in Channels /\ "none" \in ChannelStates
    BY DEF Channels, ChannelStates
  <2>1. /\ delChannel(g, c) \in Hw
        /\ delChannel(g, c).live = g.live
        /\ delChannel(g, c).ch = [g.ch EXCEPT ![c] = "none"]
    BY <1>1, <2>0, SetChType DEF delChannel
  <2>2. g.ch \in [Channels -> ChannelStates]
    BY <1>1 DEF Hw
  <2> QED
    BY <1>1, <2>1, <2>2 DEF Alike, Channels
<1> QED
  BY <1>1, <1>2, <1>3

\* stopCaptureChannel stops the capture channel at most.
LEMMA stopCaptureChannelQuiet ==
    ASSUME NEW h \in Quiet, NEW d \in BOOLEAN
    PROVE  stopCaptureChannel(h, d) \in Quiet
<1>1. Stopped(h, "CAPTURE") \in Quiet
  BY StoppedQuiet DEF Channels
<1>2. SetCh(Stopped(h, "CAPTURE"), "CAPTURE", "hollow") \in Quiet
  BY <1>1, SetChQuiet DEF Channels, ChannelStates
<1>3. h.raw \in BOOLEAN
  BY DEF Quiet, Hw
<1> QED
  BY <1>1, <1>2, <1>3 DEF stopCaptureChannel

\* A longshot frame is requested from a running channel.
LEMMA longShotQuiet ==
    ASSUME NEW h \in Quiet
    PROVE  longShot(h) \subseteq To(Quiet)
BY OutcomeTo, TryTo DEF longShot

\* A ZSL picture starts the postprocessor only.
LEMMA takeZslPictureQuiet ==
    ASSUME NEW h \in Quiet
    PROVE  takeZslPicture(h) \subseteq To(Quiet)
<1>1. \A v \in BOOLEAN : /\ Ok([h EXCEPT !.pp = v]) \in To(Quiet)
                         /\ Fail([h EXCEPT !.pp = v]) \in To(Quiet)
  BY WithPpQuiet, OutcomeTo
<1> QED
  BY <1>1, OutcomeTo DEF takeZslPicture

\* A JPEG picture trades the preview channel for the capture channel.
LEMMA takeJpegPictureQuiet ==
    ASSUME NEW h \in Quiet
    PROVE  takeJpegPicture(h) \subseteq To(Quiet)
<1> DEFINE bare    == delChannel(delChannel(h, "PREVIEW"), "CAPTURE")
           pp      == [bare EXCEPT !.pp = TRUE]
           created == SetCh(bare, "CAPTURE", "created")
           started == SetCh(pp, "CAPTURE", "started")
<1>1. bare \in Quiet
  BY delChannelQuiet DEF Channels
<1>2. pp \in Quiet
  BY <1>1, WithPpQuiet
<1>3. created \in Quiet /\ started \in Quiet
  <2> HIDE DEF bare, pp
  <2> QED
    BY <1>1, <1>2, SetChQuiet DEF Channels, ChannelStates
<1>4. \A g \in {bare, pp, created, started} :
         Ok(g) \in To(Quiet) /\ Fail(g) \in To(Quiet)
  BY <1>1, <1>2, <1>3, OutcomeTo
<1>5. takeJpegPicture(h) \subseteq
        {Ok(started), Ok(bare), Fail(bare), Fail(created), Fail(pp),
         Fail(started)}
  BY DEF takeJpegPicture
<1> QED
  BY <1>4, <1>5

\* A raw picture trades it for the raw channel.
LEMMA takeRawPictureQuiet ==
    ASSUME NEW h \in Quiet
    PROVE  takeRawPicture(h) \subseteq To(Quiet)
<1> DEFINE bare    == delChannel(delChannel(h, "PREVIEW"), "RAW")
           pp      == [bare EXCEPT !.pp = TRUE]
           stopped == [bare EXCEPT !.pp = FALSE]
           started == SetCh(pp, "RAW", "started")
<1>1. bare \in Quiet
  BY delChannelQuiet DEF Channels
<1>2. pp \in Quiet /\ stopped \in Quiet
  BY <1>1, WithPpQuiet
<1>3. started \in Quiet
  <2> HIDE DEF pp
  <2> QED
    BY <1>2, SetChQuiet DEF Channels, ChannelStates
<1>4. \A g \in {bare, stopped, started} :
         Ok(g) \in To(Quiet) /\ Fail(g) \in To(Quiet)
  BY <1>1, <1>2, <1>3, OutcomeTo
<1>5. takeRawPicture(h) \subseteq {Ok(started), Fail(bare), Fail(stopped)}
  BY DEF takeRawPicture
<1> QED
  BY <1>4, <1>5

\* No kind of picture touches the streams of a recording.
LEMMA takePictureQuiet ==
    ASSUME NEW h \in Quiet
    PROVE  takePicture(h) \subseteq To(Quiet)
<1>1. h.zsl \in BOOLEAN /\ h.raw \in BOOLEAN
  BY DEF Quiet, Hw
<1> QED
  BY <1>1, takeZslPictureQuiet, takeJpegPictureQuiet, takeRawPictureQuiet
     DEF takePicture

-----------------------------------------------------------------------------
(* Live snapshot *)

\* A live snapshot adds a thread to the recording, or fails without a trace.
LEMMA takeLiveSnapshotTo ==
    ASSUME NEW h \in Rolling, NEW o \in takeLiveSnapshot(h)
    PROVE  /\ o.ok \in BOOLEAN
           /\ o.ok => o.hw \in Filming
           /\ ~o.ok => o.hw = h
<1>1. [h EXCEPT !.live = "running"] \in Filming
  BY DEF Rolling, Filming, Hw
<1>2. o \in {Ok([h EXCEPT !.live = "running"]), Fail(h)}
  BY DEF takeLiveSnapshot, Try
<1>3. \/ o.ok = TRUE /\ o.hw = [h EXCEPT !.live = "running"]
      \/ o.ok = FALSE /\ o.hw = h
  BY <1>2 DEF Ok, Fail
<1> QED
  BY <1>1, <1>3

\* Two states with the same video stream.
SameVideo(h, g) == g \in Hw /\ g.ch["VIDEO"] = h.ch["VIDEO"]

\* The live snapshot thread leaves the video as it is.
LEMMA liveSnapshotVideo ==
    ASSUME NEW h \in Hw, NEW o \in takeLiveSnapshot_internal(h)
    PROVE  SameVideo(h, o.hw)
<1> DEFINE done == [h EXCEPT !.live = "done"]
           pp   == [done EXCEPT !.pp = TRUE]
           Asks(g) == [g EXCEPT !.out = @ \cup {"CANCEL_PICTURE"}]
           shot == SetCh(pp, "SNAPSHOT", "started")
<1>1. SameVideo(h, done) /\ SameVideo(h, pp)
  BY DEF SameVideo, Hw
<1>2. SameVideo(h, Asks(done)) /\ SameVideo(h, Asks(pp))
  BY <1>1 DEF SameVideo, Hw
<1>3. SameVideo(h, shot)
  <2> HIDE DEF pp
  <2>1. "SNAPSHOT" \in Channels /\ "started" \in ChannelStates
    BY DEF Channels, ChannelStates
  <2>2. shot \in Hw /\ shot.ch = [pp.ch EXCEPT !["SNAPSHOT"] = "started"]
    BY <1>1, <2>1, SetChType DEF SameVideo
  <2>3. pp.ch \in [Channels -> ChannelStates]
    BY <1>1 DEF SameVideo, Hw
  <2> QED
    BY <1>1, <2>2, <2>3 DEF SameVideo, Channels
<1>4. o \in {Ok(shot), Fail(Asks(done)), Fail(Asks(pp))}
  BY DEF takeLiveSnapshot_internal
<1>5. o.hw \in {shot, Asks(done), Asks(pp)}
  BY <1>4, FailFields
<1> QED
  BY <1>2, <1>3, <1>5

\* Whatever the thread did before it was joined, no live snapshot is left and
\* the video is what it was.
LEMMA cancelLiveSnapshotTo ==
    ASSUME NEW h \in Hw, NEW o \in cancelLiveSnapshot(h)
    PROVE  /\ o.ok \in BOOLEAN
           /\ SameVideo(h, o.hw)
           /\ o.hw.live = "none" /\ o.hw.ch["SNAPSHOT"] # "started"
<1> DEFINE joined == IF h.live = "running" THEN takeLiveSnapshot_internal(h)
                                           ELSE {Ok(h)}
           Ended(j) == [j.hw EXCEPT !.live = "none", !.pp = FALSE]
<1>1. PICK j \in joined : o \in stopChannel(Ended(j), "SNAPSHOT")
  BY DEF cancelLiveSnapshot
<1>2. SameVideo(h, j.hw)
  <2>1. CASE h.live = "running"
    BY <2>1, liveSnapshotVideo
  <2>2. CASE h.live # "running"
    BY <2>2, FailFields DEF SameVideo
  <2> QED
    BY <2>1, <2>2
<1> DEFINE g == Ended(j)
<1>3. SameVideo(h, g) /\ g.live = "none"
  BY <1>2 DEF SameVideo, Hw
<1>o. o \in stopChannel(g, "SNAPSHOT")
  BY <1>1
<1> HIDE DEF g
<1> DEFINE stopped == SetCh(g, "SNAPSHOT", "created")
<1>4. /\ SameVideo(h, stopped) /\ stopped.live = "none"
      /\ stopped.ch["SNAPSHOT"] = "created"
  <2>1. "SNAPSHOT" \in Channels /\ "created" \in ChannelStates
    BY DEF Channels, ChannelStates
  <2>2. /\ stopped \in Hw /\ stopped.live = g.live
        /\ stopped.ch = [g.ch EXCEPT !["SNAPSHOT"] = "created"]
    BY <1>3, <2>1, SetChType DEF SameVideo
  <2>3. g.ch \in [Channels -> ChannelStates]
    BY <1>3 DEF SameVideo, Hw
  <2> QED
    BY <1>3, <2>2, <2>3 DEF SameVideo, Channels
<1> HIDE DEF stopped
<1>5. CASE g.ch["SNAPSHOT"] = "started"
  <2>1. Stopped(g, "SNAPSHOT") = stopped
    BY <1>5 DEF Stopped, stopped
  <2>2. o \in {Ok(stopped), Fail(stopped)}
    BY <1>o, <1>5, <2>1 DEF stopChannel, Try
  <2>3. o.ok \in BOOLEAN /\ o.hw = stopped
    BY <2>2, OutcomeOf
  <2> QED
    BY <1>4, <2>3
<1>6. CASE g.ch["SNAPSHOT"] # "started"
  <2>1. Stopped(g, "SNAPSHOT") = g
    BY <1>6 DEF Stopped
  <2>2. o \in {Ok(g), Fail(g)}
    BY <1>o, <2>1 DEF stopChannel, Try
  <2>3. o.ok \in BOOLEAN /\ o.hw = g
    BY <2>2, OutcomeOf
  <2> QED
    BY <1>3, <1>6, <2>3
<1> QED
  BY <1>5, <1>6

\* Cancelling a live snapshot that does not exist starts no video.
LEMMA cancelLiveSnapshotQuiet ==
    ASSUME NEW h \in Quiet, NEW o \in cancelLiveSnapshot(h)
    PROVE  o.ok \in BOOLEAN /\ o.hw \in Quiet
<1>1. h \in Hw /\ h.ch["VIDEO"] # "started"
  BY DEF Quiet
<1> QED
  BY <1>1, cancelLiveSnapshotTo DEF SameVideo, Quiet

\* Cancelling one that does leaves the video running, alone.
LEMMA cancelLiveSnapshotRolling ==
    ASSUME NEW h \in Filming, NEW o \in cancelLiveSnapshot(h)
    PROVE  o.ok \in BOOLEAN /\ o.hw \in Rolling
<1>1. h \in Hw /\ h.ch["VIDEO"] = "started"
  BY DEF Filming
<1> QED
  BY <1>1, cancelLiveSnapshotTo DEF SameVideo, Rolling

-----------------------------------------------------------------------------
(* Commands, preview and recording *)

QuietOutcome(o) == o.ok \in BOOLEAN /\ o.hw \in Quiet
AllQuiet(S) == \A o \in S : QuietOutcome(o)

\* The two ways to say that outcomes are quiet agree.
LEMMA ToAllQuiet ==
    ASSUME NEW S, S \subseteq To(Quiet)
    PROVE  AllQuiet(S)
BY OutcomeFields DEF AllQuiet, QuietOutcome

\* Both outcomes of a quiet state are quiet.
LEMMA QuietOkFail ==
    ASSUME NEW h \in Quiet
    PROVE  QuietOutcome(Ok(h)) /\ QuietOutcome(Fail(h))
BY OutcomeOf DEF QuietOutcome

\* LONGSHOT_OFF cancels a picture at most.
LEMMA longshotOffAlike ==
    ASSUME NEW st, NEW h \in Hw
    PROVE  Alike(h, longshotOff(st, h))
<1> DEFINE posted(g) == [g EXCEPT !.out = @ \cup {"SNAPSHOT_DONE"}]
           off(g) == [g EXCEPT !.longshot = FALSE]
<1>1. Alike(h, cancelPicture(h)) /\ Alike(h, h)
  BY cancelPictureAlike DEF Alike
<1>2. ASSUME NEW g, Alike(h, g) PROVE Alike(h, posted(g)) /\ Alike(h, off(g))
  BY <1>2 DEF Alike, Hw
<1>3. longshotOff(st, h) \in {off(h), off(posted(cancelPicture(h)))}
  BY DEF longshotOff
<1> QED
  BY <1>1, <1>2, <1>3

\* LONGSHOT_ON sets a flag.
LEMMA longshotOnAlike ==
    ASSUME NEW h \in Hw, NEW o \in longshotOn(h)
    PROVE  o.ok \in BOOLEAN /\ Alike(h, o.hw)
<1> DEFINE on == [h EXCEPT !.longshot = TRUE]
<1>1. Alike(h, h) /\ Alike(h, on)
  BY DEF Alike, Hw
<1>2. o \in {Ok(on), Fail(on)} \/ o \in {Ok(h), Fail(h)}
  BY DEF longshotOn, Try
<1> QED
  BY <1>1, <1>2, OutcomeOf

\* No command touches the streams of a recording.
LEMMA sendCommandAlike ==
    ASSUME NEW h \in Hw, NEW cmd \in Commands, NEW o \in sendCommand(h, cmd)
    PROVE  o.ok \in BOOLEAN /\ Alike(h, o.hw)
<1> DEFINE g == longshotOff(m_state, h)
<1>1. Alike(h, g) /\ Alike(h, h)
  BY longshotOffAlike DEF Alike
<1>2. cmd \in {"LONGSHOT_ON", "LONGSHOT_OFF", "OTHER"}
  BY StateMachineAssumption
<1>3. CASE cmd = "LONGSHOT_ON"
  <2>1. o \in longshotOn(h)
    BY <1>3 DEF sendCommand
  <2> QED
    BY <2>1, longshotOnAlike
<1>4. CASE cmd = "LONGSHOT_OFF"
  <2>1. o \in {Ok(g), Fail(g)}
    BY <1>4 DEF sendCommand, Try
  <2> QED
    BY <1>1, <2>1, OutcomeOf
<1>5. CASE cmd = "OTHER"
  <2>1. o \in {Ok(h), Fail(h)}
    BY <1>5 DEF sendCommand, Try
  <2> QED
    BY <1>1, <2>1, OutcomeOf
<1> QED
  BY <1>2, <1>3, <1>4, <1>5

\* addChannelQuiet for one outcome.
LEMMA addQuiet ==
    ASSUME NEW h \in Quiet, NEW c \in Channels, NEW o \in addChannel(h, c)
    PROVE  QuietOutcome(o)
BY addChannelQuiet, ToAllQuiet DEF AllQuiet

\* A channel deleted after a failure leaves a quiet state.
LEMMA delFails ==
    ASSUME NEW h \in Quiet, NEW c \in Channels
    PROVE  QuietOutcome(Fail(delChannel(h, c)))
BY delChannelQuiet, QuietOkFail

\* The camcorder channels are added one by one, and none of them streams yet.
LEMMA addRecordingChannelsQuiet ==
    ASSUME NEW h \in Quiet, NEW o \in addRecordingChannels(h)
    PROVE  QuietOutcome(o)
<1> DEFINE Previews(v) ==
             {IF p.ok THEN p
              ELSE Fail(delChannel(delChannel(p.hw, "SNAPSHOT"), "VIDEO"))
                : p \in addChannel(v.hw, "PREVIEW")}
           Videos(s) ==
             UNION {IF ~v.ok THEN {Fail(delChannel(v.hw, "SNAPSHOT"))}
                    ELSE Previews(v) : v \in addChannel(s.hw, "VIDEO")}
           Snapshots(is4k2k) ==
             IF is4k2k THEN {Ok(h)} ELSE addChannel(h, "SNAPSHOT")
<1>0. {"SNAPSHOT", "VIDEO", "PREVIEW"} \subseteq Channels
  BY DEF Channels
<1>1. PICK is4k2k \in BOOLEAN :
        o \in UNION {IF ~s.ok THEN {s} ELSE Videos(s) : s \in Snapshots(is4k2k)}
  BY DEF addRecordingChannels
<1>2. PICK s \in Snapshots(is4k2k) : o \in IF ~s.ok THEN {s} ELSE Videos(s)
  BY <1>1
<1>3. QuietOutcome(s)
  BY <1>0, addQuiet, QuietOkFail
<1>4. ASSUME NEW v, QuietOutcome(v), o \in Previews(v)
      PROVE  QuietOutcome(o)
  <2>1. PICK p \in addChannel(v.hw, "PREVIEW") :
          o = IF p.ok THEN p
              ELSE Fail(delChannel(delChannel(p.hw, "SNAPSHOT"), "VIDEO"))
    BY <1>4
  <2>2. QuietOutcome(p)
    BY <1>0, <1>4, addQuiet DEF QuietOutcome
  <2>3. QuietOutcome(Fail(delChannel(delChannel(p.hw, "SNAPSHOT"), "VIDEO")))
    BY <1>0, <2>2, delChannelQuiet, delFails DEF QuietOutcome
  <2> QED
    BY <2>1, <2>2, <2>3
<1>5. ASSUME o \in Videos(s)
      PROVE  QuietOutcome(o)
  <2>1. PICK v \in addChannel(s.hw, "VIDEO") :
          o \in IF ~v.ok THEN {Fail(delChannel(v.hw, "SNAPSHOT"))}
                        ELSE Previews(v)
    BY <1>5
  <2>2. QuietOutcome(v)
    BY <1>0, <1>3, addQuiet DEF QuietOutcome
  <2>3. QuietOutcome(Fail(delChannel(v.hw, "SNAPSHOT")))
    BY <1>0, <2>2, delFails DEF QuietOutcome
  <2> QED
    BY <1>4, <2>1, <2>2, <2>3
<1> QED
  BY <1>2, <1>3, <1>5

\* A prepared preview streams nothing.
LEMMA preparePreviewQuiet ==
    ASSUME NEW st, NEW h \in Quiet, NEW o \in preparePreview(st, h)
    PROVE  QuietOutcome(o)
<1>1. h.zsl \in BOOLEAN /\ h.hint \in BOOLEAN /\ h \in Hw
  BY DEF Quiet, Hw
<1>2. longshotOff(st, h) \in Quiet
  BY <1>1, longshotOffAlike, AlikeStays
<1>3. \/ o \in addChannel(h, "ZSL")
      \/ o \in addRecordingChannels(IF h.longshot THEN longshotOff(st, h) ELSE h)
      \/ o \in addChannel(h, "PREVIEW")
  BY <1>1 DEF preparePreview
<1>4. (IF h.longshot THEN longshotOff(st, h) ELSE h) \in Quiet
  BY <1>2
<1> QED
  BY <1>3, <1>4, addQuiet, addRecordingChannelsQuiet DEF Channels

\* A started preview streams the preview only.
LEMMA startPreviewQuiet ==
    ASSUME NEW h \in Quiet, NEW o \in startPreview(h)
    PROVE  QuietOutcome(o)
<1> DEFINE c == IF h.zsl /\ ~h.hint THEN "ZSL" ELSE "PREVIEW"
<1>1. c \in Channels \ {"VIDEO", "SNAPSHOT"}
  BY DEF Channels
<1>2. AllQuiet(startChannel(h, c))
  BY <1>1, startChannelQuiet, ToAllQuiet
<1> QED
  BY <1>2 DEF startPreview, AllQuiet

\* Unpreparing after a failed start is quiet.
LEMMA unprepareFails ==
    ASSUME NEW h \in Quiet
    PROVE  unpreparePreview(h) \in Quiet /\ QuietOutcome(Fail(unpreparePreview(h)))
BY unpreparePreviewQuiet, QuietOkFail DEF Quiet

\* Preparing, starting and cleaning up are quiet together.
LEMMA prepareAndStartQuiet ==
    ASSUME NEW st, NEW h \in Quiet, NEW o \in prepareAndStart(st, h)
    PROVE  QuietOutcome(o)
<1> DEFINE Starts(p) == {IF s.ok THEN s ELSE Fail(unpreparePreview(s.hw))
                           : s \in startPreview(p.hw)}
<1>1. PICK p \in preparePreview(st, h) : o \in IF ~p.ok THEN {p} ELSE Starts(p)
  BY DEF prepareAndStart
<1>2. QuietOutcome(p)
  BY preparePreviewQuiet
<1>3. ASSUME o \in Starts(p)
      PROVE  QuietOutcome(o)
  <2>1. PICK s \in startPreview(p.hw) :
          o = IF s.ok THEN s ELSE Fail(unpreparePreview(s.hw))
    BY <1>3
  <2>2. QuietOutcome(s)
    BY <1>2, startPreviewQuiet DEF QuietOutcome
  <2>3. QuietOutcome(Fail(unpreparePreview(s.hw)))
    BY <2>2, unprepareFails DEF QuietOutcome
  <2> QED
    BY <2>1, <2>2, <2>3
<1> QED
  BY <1>1, <1>2, <1>3

\* startRecording ends with the video running exactly when it succeeds.
LEMMA startRecordingTo ==
    ASSUME NEW st, NEW h \in Quiet, NEW o \in startRecording(st, h)
    PROVE  o.ok \in BOOLEAN /\ o.hw \in (IF o.ok THEN Rolling ELSE Quiet)
<1> DEFINE Previews(u) ==
             UNION {IF p.ok THEN startChannel(p.hw, "PREVIEW") ELSE {p}
                      : p \in preparePreview(st, u.hw)}
           rebuilt ==
             UNION {Previews(u) : u \in updateRecordingHintValue(stopPreview(h), TRUE)}
<1>1. ASSUME NEW r \in rebuilt
      PROVE  QuietOutcome(r)
  <2>1. PICK u \in updateRecordingHintValue(stopPreview(h), TRUE) : r \in Previews(u)
    OBVIOUS
  <2>2. u.hw \in Quiet
    BY stopPreviewQuiet, updateRecordingHintQuiet, OutcomeFields
  <2>3. PICK p \in preparePreview(st, u.hw) :
          r \in IF p.ok THEN startChannel(p.hw, "PREVIEW") ELSE {p}
    BY <2>1
  <2>4. QuietOutcome(p)
    BY <2>2, preparePreviewQuiet
  <2>5. AllQuiet(startChannel(p.hw, "PREVIEW"))
    BY <2>4, startChannelQuiet, ToAllQuiet DEF QuietOutcome, Channels
  <2> QED
    BY <2>3, <2>4, <2>5 DEF AllQuiet
<1>2. PICK r \in (IF h.hint THEN {Ok(h)} ELSE rebuilt) :
        o \in IF r.ok THEN startChannel(r.hw, "VIDEO") ELSE {r}
  BY DEF startRecording
<1>3. QuietOutcome(r)
  BY <1>1, <1>2, QuietOkFail
<1>4. CASE r.ok
  <2>1. o \in To(Hw) /\ o.hw \in (IF o.ok THEN Rolling ELSE Quiet)
    BY <1>2, <1>3, <1>4, startVideo DEF QuietOutcome
  <2> QED
    BY <2>1, OutcomeFields
<1>5. CASE ~r.ok
  BY <1>2, <1>3, <1>5 DEF QuietOutcome
<1> QED
  BY <1>4, <1>5

\* stopRecording stops the video even when the backend fails.
LEMMA stopRecordingQuiet ==
    ASSUME NEW h \in Rolling, NEW o \in stopRecording(h)
    PROVE  QuietOutcome(o)
<1> DEFINE g == SetCh(h, "VIDEO", "created")
<1>1. h \in Hw /\ h.ch \in [Channels -> ChannelStates] /\ h.ch["VIDEO"] = "started"
  BY DEF Rolling, Hw
<1>2. "VIDEO" \in Channels /\ "created" \in ChannelStates
  BY DEF Channels, ChannelStates
<1>3. g \in Hw /\ g.live = h.live /\ g.ch = [h.ch EXCEPT !["VIDEO"] = "created"]
  BY <1>1, <1>2, SetChType
<1>4. g \in Quiet
  BY <1>1, <1>2, <1>3 DEF Quiet, Rolling, Channels
<1>5. o \in {Ok(g), Fail(g)}
  BY <1>1 DEF stopRecording, stopChannel, Stopped, Try
<1> QED
  BY <1>4, <1>5, QuietOkFail

\* Leaving camcorder mode for a picture is quiet.
LEMMA cameraModeQuiet ==
    ASSUME NEW h \in Quiet, NEW g \in cameraMode(h)
    PROVE  g \in Quiet
<1>1. CASE ~h.hint
  BY <1>1 DEF cameraMode
<1>2. CASE h.hint
  <2>1. PICK u \in updateRecordingHintValue(stopPreview(h), FALSE) :
          g \in {o.hw : o \in prepareAndStart("PREVIEWING", u.hw)}
    BY <1>2 DEF cameraMode
  <2>2. u.hw \in Quiet
    BY stopPreviewQuiet, updateRecordingHintQuiet, OutcomeFields
  <2>3. PICK o \in prepareAndStart("PREVIEWING", u.hw) : g = o.hw
    BY <2>1
  <2> QED
    BY <2>2, <2>3, prepareAndStartQuiet DEF QuietOutcome
<1> QED
  BY <1>1, <1>2

\* Cancelling a picture taken while previewing is quiet.
LEMMA cancelPreviewPictureQuiet ==
    ASSUME NEW h \in Quiet, NEW o \in cancelPreviewPicture(h)
    PROVE  QuietOutcome(o)
<1>1. cancelPicture(h) \in Quiet
  BY cancelPictureAlike, AlikeStays DEF Quiet
<1> QED
  BY <1>1, QuietOkFail, cancelLiveSnapshotQuiet
     DEF cancelPreviewPicture, QuietOutcome

-----------------------------------------------------------------------------
(* The inductive invariant.  It says no more than the three invariants it    *)
(* stands for, in the form the handlers are proved in.                       *)

IInv == /\ m_state \in States
        /\ hw \in HwOf(m_state)
        /\ reply \in Replies

\* The inductive invariant says what the three invariants say.
LEMMA IInvMeans == IInv <=> TypeOK /\ VideoIffRecording /\ LiveSnapshotOwned
<1>1. CASE m_state = "RECORDING"
  BY <1>1 DEF IInv, TypeOK, VideoIffRecording, LiveSnapshotOwned, HwOf, Rolling
<1>2. CASE m_state = "VIDEO_PIC_TAKING"
  BY <1>2 DEF IInv, TypeOK, VideoIffRecording, LiveSnapshotOwned, HwOf, Filming
<1>3. CASE m_state \notin {"RECORDING", "VIDEO_PIC_TAKING"}
  BY <1>3 DEF IInv, TypeOK, VideoIffRecording, LiveSnapshotOwned, HwOf, Quiet
<1> QED
  BY <1>1, <1>2, <1>3

QuietStates == States \ {"RECORDING", "VIDEO_PIC_TAKING"}

\* HwOf, state by state.
LEMMA HwOfStates ==
    /\ \A st \in QuietStates : st \in States /\ HwOf(st) = Quiet
    /\ HwOf("RECORDING") = Rolling /\ HwOf("VIDEO_PIC_TAKING") = Filming
    /\ Rolling \subseteq Filming /\ Filming \subseteq Hw /\ Quiet \subseteq Hw
BY DEF HwOf, QuietStates, Rolling, Filming, Quiet

\* Forgetting what was posted keeps the invariant.
LEMMA h0Same == ASSUME IInv PROVE h0 \in HwOf(m_state)
<1>1. hw \in Hw
  BY HwOfStates DEF IInv, QuietStates
<1>2. Alike(hw, h0)
  BY <1>1 DEF Alike, h0, Hw
<1> QED
  BY <1>2, AlikeStays DEF IInv, HwOf

-----------------------------------------------------------------------------
(* How a handler ends *)

\* A handler that answers and ends in a state fit for h keeps the invariant.
LEMMA AnswerInv ==
    ASSUME NEW evt \in Events, NEW status \in {"ok", "error", "yes", "no"},
           NEW st \in States, NEW h \in HwOf(st), Answer(evt, status, st, h)
    PROVE  IInv'
BY DEF Answer, Become, Api, IInv, Replies, HwOf

\* The same when it reports an outcome.
LEMMA ReportInv ==
    ASSUME NEW evt \in Events, NEW o, NEW st \in States, o.hw \in HwOf(st),
           Report(evt, o, st)
    PROVE  IInv'
BY AnswerInv DEF Report, Status

\* The same when it stays where it is.
LEMMA StayInv ==
    ASSUME IInv, NEW h \in HwOf(m_state), NEW evt \in Events,
           \/ Reject(evt, h) \/ NoOp(evt, h) \/ Neutrally(evt, h) \/ Ignore(h)
    PROVE  IInv'
BY DEF Reject, NoOp, Neutrally, Ignore, Stay, Become, Api, Silence, IInv,
       Replies, HwOf

\* The same when it answers a question.
LEMMA QueryInv ==
    ASSUME IInv, NEW evt \in Events, NEW yes, Query(evt, yes)
    PROVE  IInv'
BY h0Same DEF Query, Stay, Become, Api, IInv, Replies, HwOf

\* The same when it answers the notifier.
LEMMA EvtDoneInv ==
    ASSUME NEW st \in States, NEW h \in HwOf(st), NEW status \in {"ok", "error"},
           EvtDone(st, h, status)
    PROVE  IInv'
BY DEF EvtDone, Become, IInv, Replies, HwOf, Events, InternalEvents

-----------------------------------------------------------------------------
(* Handlers of parameters and commands *)

\* AlikeStays for the set of a camera state.
LEMMA AlikeHwOf ==
    ASSUME NEW st \in States, NEW h \in HwOf(st), NEW g, Alike(h, g)
    PROVE  h \in Hw /\ g \in HwOf(st)
<1>1. h \in Hw
  BY DEF HwOf, Quiet, Rolling, Filming
<1> QED
  BY <1>1, AlikeStays DEF HwOf

\* Reporting an outcome that left the recording streams alone, in the same
\* state.
LEMMA ReportAlike ==
    ASSUME IInv, NEW evt \in Events, NEW h \in HwOf(m_state), NEW o,
           Alike(h, o.hw), Report(evt, o, m_state)
    PROVE  IInv'
BY AlikeHwOf, ReportInv DEF IInv

\* The same for a rejected event.
LEMMA RejectAlike ==
    ASSUME IInv, NEW evt \in Events, NEW h \in HwOf(m_state), NEW g,
           Alike(h, g), Reject(evt, g)
    PROVE  IInv'
BY AlikeHwOf, StayInv DEF IInv

\* Alike is transitive.
LEMMA AlikeTransitive ==
    ASSUME NEW h, NEW g, NEW f, Alike(h, g), Alike(g, f)
    PROVE  Alike(h, f)
BY DEF Alike

\* The outcome of committing parameters is reported in the same state.
LEMMA CommitReported ==
    ASSUME IInv, NEW evt \in Events, NEW h \in HwOf(m_state), NEW p \in Params,
           NEW o \in commitParameterChanges(updateParameters(h, p)),
           Report(evt, o, m_state)
    PROVE  IInv'
<1> DEFINE u == updateParameters(h, p)
<1>1. h \in Hw
  BY AlikeHwOf, HwOfStates DEF IInv, QuietStates
<1>2. Alike(h, u)
  BY <1>1, updateParametersAlike
<1>3. u \in Hw
  BY <1>2 DEF Alike
<1>4. Alike(u, o.hw)
  BY <1>3, commitAlike
<1> QED
  BY <1>2, <1>4, AlikeTransitive, ReportAlike

\* Rejected parameters, staged already, change no stream.
LEMMA UpdateRejected ==
    ASSUME IInv, NEW evt \in Events, NEW h \in HwOf(m_state), NEW p \in Params,
           Reject(evt, updateParameters(h, p))
    PROVE  IInv'
<1>1. h \in Hw
  BY HwOfStates DEF IInv, QuietStates
<1> QED
  BY <1>1, updateParametersAlike, RejectAlike

\* The application passes no parameters but Params.
LEMMA PayloadParams == ASSUME NEW h PROVE Payload(h) \subseteq Params
BY DEF Payload

\* SET_PARAMS in the states that commit at once.
LEMMA CommitParamsInv ==
    ASSUME IInv, NEW evt \in Events, NEW h \in HwOf(m_state),
           CommitParams(evt, h)
    PROVE  IInv'
<1>1. PICK p \in Params :
        IF p.bad THEN Reject(evt, updateParameters(h, p))
        ELSE \E o \in commitParameterChanges(updateParameters(h, p)) :
               Report(evt, o, m_state)
  BY PayloadParams DEF CommitParams
<1> QED
  BY <1>1, UpdateRejected, CommitReported

\* SET_PARAMS in the two recording states.
LEMMA RecordingParamsInv ==
    ASSUME IInv, NEW evt \in Events, NEW h \in HwOf(m_state),
           RecordingParams(evt, h)
    PROVE  IInv'
<1>1. PICK p \in Params :
        IF p.bad \/ needRestart(h, p) THEN Reject(evt, updateParameters(h, p))
        ELSE \E o \in commitParameterChanges(updateParameters(h, p)) :
               Report(evt, o, m_state)
  BY PayloadParams DEF RecordingParams
<1> QED
  BY <1>1, UpdateRejected, CommitReported

\* SEND_COMMAND in the states that keep theirs.
LEMMA CommandInv ==
    ASSUME IInv, NEW evt \in Events, NEW h \in HwOf(m_state), Command(evt, h)
    PROVE  IInv'
<1>c. PICK cmd \in Commands : \E o \in sendCommand(h, cmd) : Report(evt, o, m_state)
  BY DEF Command
<1>1. PICK o \in sendCommand(h, cmd) : Report(evt, o, m_state)
  BY <1>c
<1>2. h \in Hw
  BY HwOfStates DEF IInv, QuietStates
<1> QED
  BY <1>1, <1>2, sendCommandAlike, ReportAlike

\* In a state without a recording, what a quiet outcome is reported in is
\* another one.
LEMMA QuietReport ==
    ASSUME NEW evt \in Events, NEW o, QuietOutcome(o), NEW st \in QuietStates,
           Report(evt, o, st)
    PROVE  IInv'
BY ReportInv, HwOfStates DEF QuietOutcome

\* A preview rebuilt for new parameters, in the three states that do so.
LEMMA RestartReadyInv ==
    ASSUME IInv, m_state = "PREVIEW_READY", NEW evt \in Events,
           NEW h \in Quiet,
           RestartParams(evt, h, unpreparePreview, preparePreview,
                         "PREVIEW_STOPPED")
    PROVE  IInv'
<1> DEFINE u(p) == updateParameters(h, p)
<1>1. PICK p \in Params :
        IF p.bad THEN Reject(evt, u(p))
        ELSE IF ~needRestart(h, p)
          THEN \E o \in commitParameterChanges(u(p)) : Report(evt, o, m_state)
          ELSE \E c \in commitParameterChanges(unpreparePreview(u(p))) :
               \E o \in preparePreview(m_state, c.hw) :
                 Report(evt, o, IF o.ok THEN m_state ELSE "PREVIEW_STOPPED")
  BY PayloadParams DEF RestartParams
<1>2. h \in HwOf(m_state) /\ m_state \in QuietStates
  BY DEF HwOf, QuietStates, States
<1>3. CASE p.bad
  BY <1>1, <1>2, <1>3, UpdateRejected
<1>4. CASE ~p.bad /\ ~needRestart(h, p)
  BY <1>1, <1>2, <1>4, CommitReported
<1>5. CASE ~p.bad /\ needRestart(h, p)
  <2>1. PICK c \in commitParameterChanges(unpreparePreview(u(p))) :
          \E o \in preparePreview(m_state, c.hw) :
            Report(evt, o, IF o.ok THEN m_state ELSE "PREVIEW_STOPPED")
    BY <1>1, <1>5
  <2>2. u(p) \in Quiet
    BY updateParametersAlike, AlikeStays, HwOfStates
  <2>3. unpreparePreview(u(p)) \in Quiet
    BY <2>2, unprepareFails
  <2>4. c.hw \in Quiet
    BY <2>1, <2>3, commitQuiet, OutcomeFields
  <2>5. PICK o \in preparePreview(m_state, c.hw) :
          Report(evt, o, IF o.ok THEN m_state ELSE "PREVIEW_STOPPED")
    BY <2>1
  <2>6. QuietOutcome(o)
    BY <2>4, <2>5, preparePreviewQuiet
  <2> QED
    BY <1>2, <2>5, <2>6, QuietReport DEF QuietStates, States
<1> QED
  BY <1>3, <1>4, <1>5

\* The same where the preview is stopped first.
LEMMA RestartPreviewInv ==
    ASSUME IInv, m_state \in {"PREVIEWING", "PREVIEW_PIC_TAKING"},
           NEW evt \in Events, NEW h \in Quiet, NEW failed \in QuietStates,
           RestartParams(evt, h, stopPreview, prepareAndStart, failed)
    PROVE  IInv'
<1> DEFINE u(p) == updateParameters(h, p)
<1>1. PICK p \in Params :
        IF p.bad THEN Reject(evt, u(p))
        ELSE IF ~needRestart(h, p)
          THEN \E o \in commitParameterChanges(u(p)) : Report(evt, o, m_state)
          ELSE \E c \in commitParameterChanges(stopPreview(u(p))) :
               \E o \in prepareAndStart(m_state, c.hw) :
                 Report(evt, o, IF o.ok THEN m_state ELSE failed)
  BY PayloadParams DEF RestartParams
<1>2. h \in HwOf(m_state) /\ m_state \in QuietStates
  BY DEF HwOf, QuietStates, States
<1>3. CASE p.bad
  BY <1>1, <1>2, <1>3, UpdateRejected
<1>4. CASE ~p.bad /\ ~needRestart(h, p)
  BY <1>1, <1>2, <1>4, CommitReported
<1>5. CASE ~p.bad /\ needRestart(h, p)
  <2>1. PICK c \in commitParameterChanges(stopPreview(u(p))) :
          \E o \in prepareAndStart(m_state, c.hw) :
            Report(evt, o, IF o.ok THEN m_state ELSE failed)
    BY <1>1, <1>5
  <2>2. u(p) \in Quiet
    BY updateParametersAlike, AlikeStays, HwOfStates
  <2>3. stopPreview(u(p)) \in Quiet
    BY <2>2, stopPreviewQuiet
  <2>4. c.hw \in Quiet
    BY <2>1, <2>3, commitQuiet, OutcomeFields
  <2>5. PICK o \in prepareAndStart(m_state, c.hw) :
          Report(evt, o, IF o.ok THEN m_state ELSE failed)
    BY <2>1
  <2>6. QuietOutcome(o)
    BY <2>4, <2>5, prepareAndStartQuiet
  <2> QED
    BY <1>2, <2>5, <2>6, QuietReport
<1> QED
  BY <1>3, <1>4, <1>5

\* SEND_COMMAND in the two capturing states.
LEMMA CaptureCommandInv ==
    ASSUME IInv, m_state \in QuietStates, NEW evt \in Events, NEW h \in Quiet,
           CaptureCommand(evt, h)
    PROVE  IInv'
<1>1. PICK cmd \in Commands :
        \E o \in sendCommand(h, cmd) :
          Report(evt, o, IF cmd = "LONGSHOT_OFF" THEN "PREVIEWING" ELSE m_state)
  BY DEF CaptureCommand
<1>2. PICK o \in sendCommand(h, cmd) :
        Report(evt, o, IF cmd = "LONGSHOT_OFF" THEN "PREVIEWING" ELSE m_state)
  BY <1>1
<1>3. h \in Hw
  BY HwOfStates
<1>4. QuietOutcome(o)
  BY <1>3, sendCommandAlike, AlikeStays DEF QuietOutcome
<1> QED
  BY <1>2, <1>4, QuietReport DEF QuietStates, States

\* SEND_COMMAND in PREVIEWING, with its restart of the preview.
LEMMA PreviewingCommandInv ==
    ASSUME IInv, m_state \in QuietStates, NEW evt \in Events, NEW h \in Quiet,
           PreviewingCommand(evt, h)
    PROVE  IInv'
<1>1. CASE Command(evt, h)
  BY <1>1, CommandInv, HwOfStates
<1>2. ASSUME NEW o \in longshotOn(h),
             NEW s \in prepareAndStart(m_state, stopPreview(o.hw)),
             Report(evt, s, m_state)
      PROVE  IInv'
  <2>1. o.hw \in Quiet
    BY <1>2, longshotOnAlike, AlikeStays, HwOfStates
  <2>2. QuietOutcome(s)
    BY <1>2, <2>1, stopPreviewQuiet, prepareAndStartQuiet
  <2> QED
    BY <1>2, <2>2, QuietReport
<1> QED
  BY <1>1, <1>2 DEF PreviewingCommand

-----------------------------------------------------------------------------
(* The handlers *)

\* The preview window is none of the three.
LEMMA WindowQuiet ==
    ASSUME NEW h \in Quiet, NEW w \in BOOLEAN
    PROVE  [h EXCEPT !.window = w] \in Quiet
BY DEF Quiet, Hw

\* What a handler of a state without a recording may assume.
LEMMA QuietHandler ==
    ASSUME IInv, m_state \in QuietStates
    PROVE  h0 \in Quiet /\ HwOf(m_state) = Quiet
BY h0Same, HwOfStates

\* Starting a preview from PREVIEW_STOPPED.
LEMMA StartPreviewFromInv ==
    ASSUME NEW evt \in Events, NEW outcomes, AllQuiet(outcomes),
           NEW ready \in QuietStates, StartPreviewFrom(evt, outcomes, ready)
    PROVE  IInv'
<1>1. PICK o \in outcomes :
        Report(evt, o, IF o.ok THEN ready ELSE "PREVIEW_STOPPED")
  BY DEF StartPreviewFrom
<1>2. "PREVIEW_STOPPED" \in QuietStates
  BY DEF QuietStates, States
<1> QED
  BY <1>1, <1>2, QuietReport DEF AllQuiet

\* Every event in PREVIEW_STOPPED.
LEMMA procEvtPreviewStoppedStateInv ==
    ASSUME IInv, m_state = "PREVIEW_STOPPED", NEW evt \in Events,
           procEvtPreviewStoppedState(evt)
    PROVE  IInv'
<1>0. /\ m_state \in QuietStates /\ m_state \in States
      /\ h0 \in HwOf(m_state) /\ h0 \in Quiet /\ HwOf(m_state) = Quiet
  BY QuietHandler DEF QuietStates, States
<1>1. CASE \E w \in BOOLEAN : NoOp(evt, [h0 EXCEPT !.window = w])
  BY <1>0, <1>1, WindowQuiet, StayInv
<1>2. CASE Neutrally(evt, h0) \/ NoOp(evt, h0) \/ Reject(evt, h0) \/ Ignore(h0)
  BY <1>0, <1>2, StayInv
<1>3. CASE CommitParams(evt, h0)
  BY <1>0, <1>3, CommitParamsInv
<1>4. CASE StartPreviewFrom(evt, preparePreview(m_state, h0), "PREVIEW_READY")
  <2>1. AllQuiet(preparePreview(m_state, h0))
    BY <1>0, preparePreviewQuiet DEF AllQuiet
  <2> QED
    BY <1>4, <2>1, StartPreviewFromInv DEF QuietStates, States
<1>5. CASE StartPreviewFrom(evt, prepareAndStart(m_state, h0), "PREVIEWING")
  <2>1. AllQuiet(prepareAndStart(m_state, h0))
    BY <1>0, prepareAndStartQuiet DEF AllQuiet
  <2> QED
    BY <1>5, <2>1, StartPreviewFromInv DEF QuietStates, States
<1>6. CASE Query(evt, FALSE)
  BY <1>6, QueryInv
<1>7. CASE NoOp(evt, release(h0))
  BY <1>0, <1>7, releaseQuiet, StayInv
<1>8. CASE Command(evt, h0)
  BY <1>0, <1>8, CommandInv
<1>9. CASE EvtDone(m_state, h0, "ok")
  BY <1>0, <1>9, EvtDoneInv
<1> QED
  BY <1>1, <1>2, <1>3, <1>4, <1>5, <1>6, <1>7, <1>8, <1>9
     DEF procEvtPreviewStoppedState

\* Every event in PREVIEW_READY.
LEMMA procEvtPreviewReadyStateInv ==
    ASSUME IInv, m_state = "PREVIEW_READY", NEW evt \in Events,
           procEvtPreviewReadyState(evt)
    PROVE  IInv'
<1>0. /\ m_state \in QuietStates /\ m_state \in States
      /\ h0 \in HwOf(m_state) /\ h0 \in Quiet /\ HwOf(m_state) = Quiet
      /\ "PREVIEWING" \in QuietStates /\ "PREVIEW_STOPPED" \in QuietStates
      /\ HwOf("PREVIEW_STOPPED") = Quiet /\ "PREVIEW_STOPPED" \in States
  BY QuietHandler, HwOfStates DEF QuietStates, States
<1>1. CASE NoOp(evt, [h0 EXCEPT !.window = FALSE])
  BY <1>0, <1>1, WindowQuiet, StayInv
<1>2. CASE Neutrally(evt, h0) \/ NoOp(evt, h0) \/ Reject(evt, h0) \/ Ignore(h0)
  BY <1>0, <1>2, StayInv
<1>3. ASSUME NEW s \in startPreview([h0 EXCEPT !.window = TRUE]),
             IF s.ok THEN Report(evt, s, "PREVIEWING")
             ELSE Answer(evt, "error", "PREVIEW_STOPPED", unpreparePreview(s.hw))
      PROVE  IInv'
  <2>1. QuietOutcome(s)
    BY <1>0, WindowQuiet, startPreviewQuiet
  <2>2. unpreparePreview(s.hw) \in HwOf("PREVIEW_STOPPED")
    BY <1>0, <2>1, unprepareFails DEF QuietOutcome
  <2> QED
    BY <1>0, <1>3, <2>1, <2>2, QuietReport, AnswerInv
<1>4. CASE RestartParams(evt, h0, unpreparePreview, preparePreview,
                         "PREVIEW_STOPPED")
  BY <1>0, <1>4, RestartReadyInv
<1>5. CASE Answer(evt, "ok", "PREVIEW_STOPPED", unpreparePreview(h0))
  BY <1>0, <1>5, unprepareFails, AnswerInv
<1>6. CASE Query(evt, TRUE) \/ Query(evt, FALSE)
  BY <1>6, QueryInv
<1>7. CASE Command(evt, h0)
  BY <1>0, <1>7, CommandInv
<1>8. CASE EvtDone(m_state, h0, "ok")
  BY <1>0, <1>8, EvtDoneInv
<1> QED
  BY <1>1, <1>2, <1>3, <1>4, <1>5, <1>6, <1>7, <1>8
     DEF procEvtPreviewReadyState

\* TAKE_PICTURE in PREVIEWING ends in one of four states without a recording.
LEMMA TakePictureInv ==
    ASSUME IInv, m_state = "PREVIEWING", NEW evt \in Events, TakePicture(evt)
    PROVE  IInv'
<1>0. h0 \in Quiet
  BY QuietHandler DEF QuietStates, States
<1> DEFINE Ends(h, o) ==
             CASE h.zsl \/ h.longshot ->
                    IF o.ok THEN "PREVIEW_PIC_TAKING" ELSE "PREVIEWING"
               [] OTHER -> IF o.ok THEN "PIC_TAKING" ELSE "PREVIEW_STOPPED"
<1>1. PICK h \in cameraMode(h0) :
        \E o \in takePicture(h) : Report(evt, o, Ends(h, o))
  BY DEF TakePicture
<1>2. PICK o \in takePicture(h) : Report(evt, o, Ends(h, o))
  BY <1>1
<1>3. QuietOutcome(o)
  BY <1>0, <1>1, <1>2, cameraModeQuiet, takePictureQuiet, ToAllQuiet DEF AllQuiet
<1>4. Ends(h, o) \in QuietStates
  BY DEF QuietStates, States
<1> QED
  BY <1>2, <1>3, <1>4, QuietReport

\* Every event in PREVIEWING.
LEMMA procEvtPreviewingStateInv ==
    ASSUME IInv, m_state = "PREVIEWING", NEW evt \in Events,
           procEvtPreviewingState(evt)
    PROVE  IInv'
<1>0. /\ m_state \in QuietStates /\ m_state \in States
      /\ h0 \in HwOf(m_state) /\ h0 \in Quiet /\ HwOf(m_state) = Quiet
      /\ {"PREVIEW_STOPPED", "PREPARE_SNAPSHOT"} \subseteq QuietStates
      /\ HwOf("PREVIEW_STOPPED") = Quiet /\ HwOf("PREPARE_SNAPSHOT") = Quiet
      /\ {"PREVIEW_STOPPED", "PREPARE_SNAPSHOT", "RECORDING"} \subseteq States
  BY QuietHandler, HwOfStates DEF QuietStates, States
<1>1. CASE Neutrally(evt, h0) \/ NoOp(evt, h0) \/ Reject(evt, h0) \/ Ignore(h0)
  BY <1>0, <1>1, StayInv
<1>2. CASE RestartParams(evt, h0, stopPreview, prepareAndStart,
                         "PREVIEW_STOPPED")
  BY <1>0, <1>2, RestartPreviewInv
<1>3. CASE Answer(evt, "ok", "PREVIEW_STOPPED", stopPreview(h0))
  BY <1>0, <1>3, stopPreviewQuiet, AnswerInv
<1>4. CASE Query(evt, TRUE) \/ Query(evt, FALSE)
  BY <1>4, QueryInv
<1>5. ASSUME NEW o \in startRecording(m_state, h0),
             Report(evt, o, IF o.ok THEN "RECORDING" ELSE m_state)
      PROVE  IInv'
  <2>1. o.hw \in HwOf(IF o.ok THEN "RECORDING" ELSE m_state)
    BY <1>0, startRecordingTo, HwOfStates
  <2> QED
    BY <1>0, <1>5, <2>1, ReportInv
<1>6. CASE Become("PREPARE_SNAPSHOT", h0) /\ reply' = Silence
  BY <1>0, <1>6 DEF Become, IInv, Silence, Replies, HwOf
<1>7. CASE TakePicture(evt)
  BY <1>7, TakePictureInv
<1>8. CASE PreviewingCommand(evt, h0)
  BY <1>0, <1>8, PreviewingCommandInv
<1>9. CASE EvtDone(m_state, h0, "ok")
  BY <1>0, <1>9, EvtDoneInv
<1> QED
  BY <1>1, <1>2, <1>3, <1>4, <1>5, <1>6, <1>7, <1>8, <1>9
     DEF procEvtPreviewingState

\* Every event in PREPARE_SNAPSHOT.
LEMMA procEvtPrepareSnapshotStateInv ==
    ASSUME IInv, m_state = "PREPARE_SNAPSHOT", NEW evt \in Events,
           procEvtPrepareSnapshotState(evt)
    PROVE  IInv'
<1>0. /\ m_state \in States /\ h0 \in HwOf(m_state)
      /\ "PREVIEWING" \in States /\ h0 \in HwOf("PREVIEWING")
      /\ "PREPARE_SNAPSHOT" \in Events
  BY QuietHandler, HwOfStates DEF QuietStates, States, Events, ApiEvents
<1>1. CASE Reject(evt, h0) \/ Ignore(h0)
  BY <1>0, <1>1, StayInv
<1>2. CASE Answer("PREPARE_SNAPSHOT", "ok", "PREVIEWING", h0)
  BY <1>0, <1>2, AnswerInv
<1>3. CASE EvtDone(m_state, h0, "ok")
  BY <1>0, <1>3, EvtDoneInv
<1> QED
  BY <1>1, <1>2, <1>3 DEF procEvtPrepareSnapshotState

\* The preview that comes back early is a preview only.
LEMMA EarlyRestartPreviewQuiet ==
    ASSUME NEW h \in Quiet, NEW o \in EarlyRestartPreview(h)
    PROVE  QuietOutcome(o)
<1>1. PICK p \in preparePreview(m_state, h) :
        o \in IF p.ok THEN startPreview(p.hw) ELSE {p}
  BY DEF EarlyRestartPreview
<1>2. QuietOutcome(p)
  BY <1>1, preparePreviewQuiet
<1> QED
  BY <1>1, <1>2, startPreviewQuiet DEF QuietOutcome

\* Every event in PIC_TAKING.
LEMMA procEvtPicTakingStateInv ==
    ASSUME IInv, m_state = "PIC_TAKING", NEW evt \in Events,
           procEvtPicTakingState(evt)
    PROVE  IInv'
<1>0. /\ m_state \in QuietStates /\ m_state \in States
      /\ h0 \in HwOf(m_state) /\ h0 \in Quiet /\ HwOf(m_state) = Quiet
      /\ {"PREVIEW_STOPPED", "PREVIEWING"} \subseteq States
      /\ HwOf("PREVIEW_STOPPED") = Quiet /\ HwOf("PREVIEWING") = Quiet
  BY QuietHandler, HwOfStates DEF QuietStates, States
<1>a. cancelPicture(h0) \in Quiet
  BY <1>0, cancelPictureAlike, AlikeStays, HwOfStates
<1>1. CASE Neutrally(evt, h0) \/ Reject(evt, h0) \/ Ignore(h0)
  BY <1>0, <1>1, StayInv
<1>2. CASE CommitParams(evt, h0)
  BY <1>0, <1>2, CommitParamsInv
<1>3. CASE Answer(evt, "ok", "PREVIEW_STOPPED", cancelPicture(h0))
  BY <1>0, <1>a, <1>3, AnswerInv
<1>4. CASE Query(evt, FALSE)
  BY <1>4, QueryInv
<1>5. CASE CaptureCommand(evt, h0)
  BY <1>0, <1>5, CaptureCommandInv
<1>6. CASE \E o \in longShot(h0) : Report(evt, o, m_state)
  <2>1. AllQuiet(longShot(h0))
    BY <1>0, longShotQuiet, ToAllQuiet
  <2> QED
    BY <1>0, <1>6, <2>1, QuietReport DEF AllQuiet
<1>7. CASE Ignore(stopCaptureChannel(h0, FALSE))
  BY <1>0, <1>7, stopCaptureChannelQuiet, StayInv
<1>8. CASE \E o \in EarlyRestartPreview(stopCaptureChannel(h0, TRUE)) :
             Ignore(o.hw)
  <2>1. stopCaptureChannel(h0, TRUE) \in Quiet
    BY <1>0, stopCaptureChannelQuiet
  <2>2. \A o \in EarlyRestartPreview(stopCaptureChannel(h0, TRUE)) :
           o.hw \in HwOf(m_state)
    BY <1>0, <2>1, EarlyRestartPreviewQuiet DEF QuietOutcome
  <2> QED
    BY <1>8, <2>2, StayInv
<1>9. CASE EvtDone(IF EarlyRestart THEN "PREVIEWING" ELSE "PREVIEW_STOPPED",
                   cancelPicture(h0), "ok")
  BY <1>0, <1>a, <1>9, EvtDoneInv
<1> QED
  BY <1>1, <1>2, <1>3, <1>4, <1>5, <1>6, <1>7, <1>8, <1>9
     DEF procEvtPicTakingState

\* Every event in RECORDING.
LEMMA procEvtRecordingStateInv ==
    ASSUME IInv, m_state = "RECORDING", NEW evt \in Events,
           procEvtRecordingState(evt)
    PROVE  IInv'
<1>0. /\ m_state \in States /\ h0 \in HwOf(m_state) /\ h0 \in Rolling
      /\ {"VIDEO_PIC_TAKING", "PREVIEWING", "PREVIEW_STOPPED"} \subseteq States
      /\ {"PREVIEWING", "PREVIEW_STOPPED"} \subseteq QuietStates
      /\ HwOf("PREVIEW_STOPPED") = Quiet
  BY h0Same, HwOfStates DEF QuietStates, States
<1>1. CASE Neutrally(evt, h0) \/ NoOp(evt, h0) \/ Reject(evt, h0) \/ Ignore(h0)
  BY <1>0, <1>1, StayInv
<1>2. CASE RecordingParams(evt, h0)
  BY <1>0, <1>2, RecordingParamsInv
<1>3. CASE Query(evt, TRUE) \/ Query(evt, FALSE)
  BY <1>3, QueryInv
<1>4. CASE Command(evt, h0)
  BY <1>0, <1>4, CommandInv
<1>5. ASSUME NEW o \in takeLiveSnapshot(h0),
             Report(evt, o, IF o.ok THEN "VIDEO_PIC_TAKING" ELSE m_state)
      PROVE  IInv'
  <2>1. o.hw \in HwOf(IF o.ok THEN "VIDEO_PIC_TAKING" ELSE m_state)
    BY <1>0, takeLiveSnapshotTo, HwOfStates
  <2> QED
    BY <1>0, <1>5, <2>1, ReportInv
<1>6. ASSUME NEW o \in stopRecording(h0),
             \/ Report(evt, o, "PREVIEWING")
             \/ Answer(evt, "ok", "PREVIEW_STOPPED", stopPreview(o.hw))
      PROVE  IInv'
  <2>1. QuietOutcome(o)
    BY <1>0, stopRecordingQuiet
  <2>2. stopPreview(o.hw) \in HwOf("PREVIEW_STOPPED")
    BY <1>0, <2>1, stopPreviewQuiet DEF QuietOutcome
  <2> QED
    BY <1>0, <1>6, <2>1, <2>2, QuietReport, AnswerInv
<1>7. CASE EvtDone(m_state, h0, "ok")
  BY <1>0, <1>7, EvtDoneInv
<1> QED
  BY <1>1, <1>2, <1>3, <1>4, <1>5, <1>6, <1>7 DEF procEvtRecordingState

\* Every event in VIDEO_PIC_TAKING.
LEMMA procEvtVideoPicTakingStateInv ==
    ASSUME IInv, m_state = "VIDEO_PIC_TAKING", NEW evt \in Events,
           procEvtVideoPicTakingState(evt)
    PROVE  IInv'
<1>0. /\ m_state \in States /\ h0 \in HwOf(m_state) /\ h0 \in Filming
      /\ {"RECORDING", "PREVIEWING", "PREVIEW_STOPPED"} \subseteq States
      /\ {"PREVIEWING", "PREVIEW_STOPPED"} \subseteq QuietStates
      /\ HwOf("PREVIEW_STOPPED") = Quiet /\ HwOf("RECORDING") = Rolling
  BY h0Same, HwOfStates DEF QuietStates, States
<1>1. CASE Neutrally(evt, h0) \/ NoOp(evt, h0) \/ Reject(evt, h0) \/ Ignore(h0)
  BY <1>0, <1>1, StayInv
<1>2. CASE RecordingParams(evt, h0)
  BY <1>0, <1>2, RecordingParamsInv
<1>3. CASE Query(evt, TRUE)
  BY <1>3, QueryInv
<1>4. CASE Command(evt, h0)
  BY <1>0, <1>4, CommandInv
<1>5. ASSUME NEW c \in cancelLiveSnapshot(h0), NEW o \in stopRecording(c.hw),
             \/ Report(evt, o, "PREVIEWING")
             \/ Answer(evt, "ok", "PREVIEW_STOPPED", stopPreview(o.hw))
      PROVE  IInv'
  <2>1. QuietOutcome(o)
    BY <1>0, cancelLiveSnapshotRolling, stopRecordingQuiet
  <2>2. stopPreview(o.hw) \in HwOf("PREVIEW_STOPPED")
    BY <1>0, <2>1, stopPreviewQuiet DEF QuietOutcome
  <2> QED
    BY <1>0, <1>5, <2>1, <2>2, QuietReport, AnswerInv
<1>6. ASSUME NEW o \in cancelLiveSnapshot(h0),
             \/ Report(evt, o, "RECORDING")
             \/ EvtDone("RECORDING", o.hw, Status(o))
      PROVE  IInv'
  <2>1. o.hw \in HwOf("RECORDING")
    BY <1>0, cancelLiveSnapshotRolling
  <2>2. Status(o) \in {"ok", "error"}
    BY DEF Status
  <2> QED
    BY <1>0, <1>6, <2>1, <2>2, ReportInv, EvtDoneInv
<1> QED
  BY <1>1, <1>2, <1>3, <1>4, <1>5, <1>6 DEF procEvtVideoPicTakingState

\* Cancelling the picture and unpreparing the preview is quiet.
LEMMA stopPreviewPictureQuiet ==
    ASSUME NEW h \in Quiet, NEW o \in stopPreviewPicture(h)
    PROVE  QuietOutcome(o)
<1>1. PICK c \in cancelPreviewPicture(h) :
        o = [ok |-> c.ok, hw |-> unpreparePreview(c.hw)]
  BY DEF stopPreviewPicture
<1>2. QuietOutcome(c)
  BY cancelPreviewPictureQuiet
<1> QED
  BY <1>1, <1>2, unprepareFails DEF QuietOutcome

\* Every event in PREVIEW_PIC_TAKING.
LEMMA procEvtPreviewPicTakingStateInv ==
    ASSUME IInv, m_state = "PREVIEW_PIC_TAKING", NEW evt \in Events,
           procEvtPreviewPicTakingState(evt)
    PROVE  IInv'
<1>0. /\ m_state \in QuietStates /\ m_state \in States
      /\ h0 \in HwOf(m_state) /\ h0 \in Quiet /\ HwOf(m_state) = Quiet
      /\ {"PREVIEW_STOPPED", "PREVIEWING", "PIC_TAKING"} \subseteq QuietStates
      /\ {"PREVIEWING", "VIDEO_PIC_TAKING"} \subseteq States
  BY QuietHandler DEF QuietStates, States
<1>1. CASE Neutrally(evt, h0) \/ NoOp(evt, h0) \/ Reject(evt, h0) \/ Ignore(h0)
  BY <1>0, <1>1, StayInv
<1>2. CASE RestartParams(evt, h0, stopPreview, prepareAndStart, "PIC_TAKING")
  BY <1>0, <1>2, RestartPreviewInv
<1>3. CASE Query(evt, TRUE) \/ Query(evt, FALSE)
  BY <1>3, QueryInv
<1>4. CASE CaptureCommand(evt, h0)
  BY <1>0, <1>4, CaptureCommandInv
<1>5. ASSUME NEW o \in cancelPreviewPicture(h0),
             \/ Report(evt, o, "PREVIEWING")
             \/ EvtDone("PREVIEWING", o.hw, Status(o))
      PROVE  IInv'
  <2>1. QuietOutcome(o)
    BY <1>0, cancelPreviewPictureQuiet
  <2>2. o.hw \in HwOf("PREVIEWING") /\ Status(o) \in {"ok", "error"}
    BY <1>0, <2>1, HwOfStates DEF QuietOutcome, Status
  <2> QED
    BY <1>0, <1>5, <2>1, <2>2, QuietReport, EvtDoneInv
<1>6. CASE \E o \in stopPreviewPicture(h0) : Report(evt, o, "PREVIEW_STOPPED")
  BY <1>0, <1>6, stopPreviewPictureQuiet, QuietReport
<1>7. ASSUME NEW o \in startRecording(m_state, h0),
             Report(evt, o, IF o.ok THEN "VIDEO_PIC_TAKING" ELSE m_state)
      PROVE  IInv'
  <2>1. o.hw \in HwOf(IF o.ok THEN "VIDEO_PIC_TAKING" ELSE m_state)
    BY <1>0, startRecordingTo, HwOfStates
  <2> QED
    BY <1>0, <1>7, <2>1, ReportInv
<1>8. CASE \E o \in longShot(h0) : Report(evt, o, m_state)
  <2>1. AllQuiet(longShot(h0))
    BY <1>0, longShotQuiet, ToAllQuiet
  <2> QED
    BY <1>0, <1>8, <2>1, QuietReport DEF AllQuiet
<1> QED
  BY <1>1, <1>2, <1>3, <1>4, <1>5, <1>6, <1>7, <1>8
     DEF procEvtPreviewPicTakingState

-----------------------------------------------------------------------------
(* The machine *)

\* Every event in every state.
LEMMA stateMachineInv ==
    ASSUME IInv, NEW evt \in Events, stateMachine(evt)
    PROVE  IInv'
BY procEvtPreviewStoppedStateInv, procEvtPreviewReadyStateInv,
   procEvtPreviewingStateInv, procEvtPrepareSnapshotStateInv,
   procEvtPicTakingStateInv, procEvtRecordingStateInv,
   procEvtVideoPicTakingStateInv, procEvtPreviewPicTakingStateInv
   DEF stateMachine

\* The live snapshot thread exists only in VIDEO_PIC_TAKING, and does not
\* touch the video.
LEMMA Live_Snapshot_threadInv ==
    ASSUME IInv, Live_Snapshot_thread
    PROVE  IInv'
<1>1. hw.live = "running" /\ m_state' = m_state /\ reply' = reply
  BY DEF Live_Snapshot_thread
<1>2. m_state = "VIDEO_PIC_TAKING"
  BY <1>1 DEF IInv, HwOf, Quiet, Rolling
<1>3. h0 \in Filming
  BY <1>2, h0Same, HwOfStates
<1>4. PICK o \in takeLiveSnapshot_internal(h0) : hw' = o.hw
  BY DEF Live_Snapshot_thread
<1>5. o.hw \in Filming
  BY <1>3, <1>4, liveSnapshotVideo, HwOfStates DEF SameVideo, Filming
<1> QED
  BY <1>1, <1>2, <1>4, <1>5, HwOfStates DEF IInv

\* The inductive invariant holds when the camera is opened.
LEMMA InitIInv == ASSUME Init PROVE IInv
<1>1. HwInit \in Hw
  BY DEF HwInit, Hw, ChannelStates
<1>2. HwInit.ch["VIDEO"] = "none" /\ HwInit.ch["SNAPSHOT"] = "none"
  BY DEF HwInit, Channels
<1>3. HwInit \in Quiet
  BY <1>1, <1>2 DEF Quiet, HwInit
<1> QED
  BY <1>3 DEF Init, IInv, HwOf, States, Silence, Replies

\* Every step keeps the inductive invariant.
LEMMA NextIInv == ASSUME IInv, [Next]_vars PROVE IInv'
<1>1. CASE Next
  BY <1>1, stateMachineInv, Live_Snapshot_threadInv DEF Next
<1>2. CASE UNCHANGED vars
  BY <1>2 DEF vars, IInv, HwOf
<1> QED
  BY <1>1, <1>2

\* The inductive invariant holds in every state of every behaviour.
THEOREM Invariant == Spec => []IInv
<1>1. Init => IInv
  BY InitIInv
<1>2. IInv /\ [Next]_vars => IInv'
  BY NextIInv
<1> QED
  BY <1>1, <1>2, PTL DEF Spec

\* The state machine, the interface and its answers keep their types: no
\* handler leaves m_state, a channel or the live snapshot thread's handle at a
\* value the rest of the code does not know.
THEOREM TypeCorrect == Spec => []TypeOK
<1>1. IInv => TypeOK
  BY IInvMeans
<1> QED
  BY <1>1, Invariant, PTL

\* The video stream runs exactly in the two recording states, whichever calls
\* fail in startRecording, stopRecording and the preview restarts, and
\* whatever the application asks for.
THEOREM VideoCorrect == Spec => []VideoIffRecording
<1>1. IInv => VideoIffRecording
  BY IInvMeans
<1> QED
  BY <1>1, Invariant, PTL

\* The live snapshot thread and its stream exist only in VIDEO_PIC_TAKING:
\* every handler that leaves the state joins the one and stops the other.
THEOREM LiveSnapshotCorrect == Spec => []LiveSnapshotOwned
<1>1. IInv => LiveSnapshotOwned
  BY IInvMeans
<1> QED
  BY <1>1, Invariant, PTL

-----------------------------------------------------------------------------
(* What the hardware does in each state while nothing fails: the condition.  *)
(* No call fails, the application passes no bad value and changes modes only *)
(* when it neither captures nor records, and neither longshot nor early      *)
(* restart is used.                                                          *)

Orderly == /\ ~MayFail /\ ~EarlyRestart /\ ~BusyParams
           /\ Commands \subseteq {"OTHER"}
           /\ \A p \in Params : ~p.bad

\* Nothing is staged, no longshot, no live snapshot.
Settled(h) == /\ h.zslNew = h.zsl /\ h.hintNew = h.hint /\ h.hintTmp = {}
              /\ ~h.longshot
Still == {h \in Hw : Settled(h) /\ h.live = "none"}

\* No channel of a preview, none of a capture.
NoPreview(h) == /\ h.ch["ZSL"] = "none" /\ h.ch["PREVIEW"] = "none"
                /\ h.ch["VIDEO"] = "none" /\ h.ch["SNAPSHOT"] = "none"
NoCapture(h) == h.ch["CAPTURE"] = "none" /\ h.ch["RAW"] = "none"

\* The channels of a preview, its own in state s; with the recording hint the
\* camcorder's wait beside it.
Shows(h, s) ==
    /\ NoCapture(h)
    /\ IF h.zsl /\ ~h.hint THEN h.ch["ZSL"] = s /\ h.ch["PREVIEW"] = "none"
                           ELSE h.ch["PREVIEW"] = s /\ h.ch["ZSL"] = "none"
    /\ IF h.hint THEN /\ h.ch["VIDEO"] = "created"
                      /\ h.ch["SNAPSHOT"] \in {"none", "created"}
                 ELSE h.ch["VIDEO"] = "none" /\ h.ch["SNAPSHOT"] = "none"

Records(h) ==
    /\ h.hint /\ NoCapture(h) /\ h.ch["ZSL"] = "none"
    /\ h.ch["PREVIEW"] = "started" /\ h.ch["VIDEO"] = "started"
    /\ h.ch["SNAPSHOT"] # "hollow"

\* The hardware in each camera state.
BareHw == {h \in Still : NoPreview(h) /\ NoCapture(h) /\ ~h.pp}
ReadyHw == {h \in Still : Shows(h, "created") /\ ~h.pp}
PreviewHw == {h \in Still : Shows(h, "started") /\ ~h.pp}
RecordHw == {h \in Still : Records(h) /\ h.ch["SNAPSHOT"] # "started" /\ ~h.pp}
LiveHw == {h \in Hw : Settled(h) /\ Records(h)}
ZslHw == {h \in Still : Shows(h, "started") /\ h.zsl /\ ~h.hint}
CaptureHw ==
    {h \in Still :
        /\ ~h.zsl /\ ~h.hint /\ NoPreview(h)
        /\ h.ch[IF h.raw THEN "RAW" ELSE "CAPTURE"] # "none"
        /\ h.ch[IF h.raw THEN "CAPTURE" ELSE "RAW"] = "none"}

Fits(st, h) ==
    /\ st \in States
    /\ st = "PREVIEW_STOPPED" => h \in BareHw
    /\ st = "PREVIEW_READY" => h \in ReadyHw
    /\ st \in {"PREVIEWING", "PREPARE_SNAPSHOT"} => h \in PreviewHw
    /\ st = "RECORDING" => h \in RecordHw
    /\ st = "VIDEO_PIC_TAKING" => h \in LiveHw
    /\ st = "PREVIEW_PIC_TAKING" => h \in ZslHw
    /\ st = "PIC_TAKING" => h \in CaptureHw

OrderlyHw == Fits(m_state, hw)

\* What they have in common.
LEMMA SetsOfHw ==
    /\ BareHw \subseteq Still /\ ReadyHw \subseteq Still
    /\ PreviewHw \subseteq Still /\ RecordHw \subseteq Still
    /\ ZslHw \subseteq Still /\ CaptureHw \subseteq Still
    /\ Still \subseteq Hw /\ LiveHw \subseteq Hw
BY DEF BareHw, ReadyHw, PreviewHw, RecordHw, ZslHw, CaptureHw, Still, LiveHw

-----------------------------------------------------------------------------
(* The operations when nothing fails *)

\* A call that may fail does not.
LEMMA TrySucceeds ==
    ASSUME Orderly, NEW h, NEW f, NEW o \in Try(h, f)
    PROVE  o.ok /\ o.hw = h
BY DEF Orderly, Try, Ok

\* g differs from h in its channels only.
SameModes(h, g) ==
    /\ g \in Hw
    /\ g.zsl = h.zsl /\ g.zslNew = h.zslNew
    /\ g.hint = h.hint /\ g.hintNew = h.hintNew
    /\ g.hintKey = h.hintKey /\ g.hintTmp = h.hintTmp
    /\ g.raw = h.raw /\ g.longshot = h.longshot
    /\ g.pp = h.pp /\ g.live = h.live

\* Setting one channel changes no other, and no mode.
LEMMA SetChModes ==
    ASSUME NEW h \in Hw, NEW c \in Channels, NEW s \in ChannelStates
    PROVE  /\ SameModes(h, SetCh(h, c, s))
           /\ SetCh(h, c, s).ch[c] = s
           /\ \A d \in Channels \ {c} : SetCh(h, c, s).ch[d] = h.ch[d]
BY DEF SetCh, SameModes, Hw

\* A stopped channel is there still; nothing else changes.
LEMMA StoppedModes ==
    ASSUME NEW h \in Hw, NEW c \in Channels
    PROVE  /\ SameModes(h, Stopped(h, c))
           /\ Stopped(h, c).ch[c] # "started"
           /\ Stopped(h, c).ch[c] = "none" <=> h.ch[c] = "none"
           /\ Stopped(h, c).ch[c] = "hollow" <=> h.ch[c] = "hollow"
           /\ \A d \in Channels \ {c} : Stopped(h, c).ch[d] = h.ch[d]
<1>1. "created" \in ChannelStates
  BY DEF ChannelStates
<1>2. SameModes(h, h)
  BY DEF SameModes
<1> QED BY <1>1, <1>2, SetChModes DEF Stopped

\* Unpreparing a preview takes its four channels and nothing else.
LEMMA unpreparePreviewModes ==
    ASSUME NEW h \in Hw
    PROVE  /\ SameModes(h, unpreparePreview(h)) /\ NoPreview(unpreparePreview(h))
           /\ unpreparePreview(h).ch["CAPTURE"] = h.ch["CAPTURE"]
           /\ unpreparePreview(h).ch["RAW"] = h.ch["RAW"]
BY DEF unpreparePreview, SameModes, NoPreview, Hw, Channels, ChannelStates

\* So does stopping it.
LEMMA stopPreviewModes ==
    ASSUME NEW h \in Hw
    PROVE  /\ SameModes(h, stopPreview(h)) /\ NoPreview(stopPreview(h))
           /\ stopPreview(h).ch["CAPTURE"] = h.ch["CAPTURE"]
           /\ stopPreview(h).ch["RAW"] = h.ch["RAW"]
<1> DEFINE g == Stopped(h, "ZSL")
           f == Stopped(g, "PREVIEW")
<1>1. SameModes(h, g) /\ g.ch["CAPTURE"] = h.ch["CAPTURE"] /\ g.ch["RAW"] = h.ch["RAW"]
  BY StoppedModes DEF Channels
<1>2. SameModes(g, f) /\ f.ch["CAPTURE"] = g.ch["CAPTURE"] /\ f.ch["RAW"] = g.ch["RAW"]
  <2> HIDE DEF g
  <2>1. g \in Hw
    BY <1>1 DEF SameModes
  <2> QED BY <2>1, StoppedModes DEF Channels
<1>3. stopPreview(h) = unpreparePreview(f)
  BY DEF stopPreview
<1> HIDE DEF f, g
<1> QED BY <1>1, <1>2, <1>3, unpreparePreviewModes DEF SameModes

\* A channel added while no preview is there is created.
LEMMA addChannelAdds ==
    ASSUME Orderly, NEW h \in Hw, NEW c \in Channels, h.ch["PREVIEW"] = "none",
           NEW o \in addChannel(h, c)
    PROVE  /\ o.ok /\ SameModes(h, o.hw)
           /\ o.hw.ch[c] = "created"
           /\ \A d \in Channels \ {c} : o.hw.ch[d] = h.ch[d]
<1> DEFINE g == IF c = "ZSL" THEN delChannel(h, "PREVIEW") ELSE h
<1>0. "PREVIEW" \in Channels /\ {"none", "created"} \subseteq ChannelStates
  BY DEF Channels, ChannelStates
<1>1. g \in Hw /\ SameModes(h, g) /\ \A d \in Channels : g.ch[d] = h.ch[d]
  <2>1. CASE c = "ZSL"
    BY <2>1, <1>0, SetChModes DEF delChannel, SameModes
  <2>2. CASE c # "ZSL"
    BY <2>2 DEF SameModes
  <2> QED BY <2>1, <2>2
<1>2. o \in Try(SetCh(g, c, "created"), delChannel(g, c))
  BY DEF addChannel
<1> HIDE DEF g
<1>3. o.ok /\ o.hw = SetCh(g, c, "created")
  BY <1>2, TrySucceeds
<1> QED BY <1>0, <1>1, <1>3, SetChModes DEF SameModes

\* The preview channel kept for the torch workaround does as well.
LEMMA addRecordingChannelsAdds ==
    ASSUME Orderly, NEW h \in Hw, NoPreview(h), NEW o \in addRecordingChannels(h)
    PROVE  /\ o.ok /\ SameModes(h, o.hw)
           /\ o.hw.ch["PREVIEW"] = "created" /\ o.hw.ch["VIDEO"] = "created"
           /\ o.hw.ch["SNAPSHOT"] \in {"none", "created"} /\ o.hw.ch["ZSL"] = "none"
           /\ o.hw.ch["CAPTURE"] = h.ch["CAPTURE"] /\ o.hw.ch["RAW"] = h.ch["RAW"]
<1> DEFINE Previews(v) ==
             {IF p.ok THEN p
              ELSE Fail(delChannel(delChannel(p.hw, "SNAPSHOT"), "VIDEO"))
                : p \in addChannel(v.hw, "PREVIEW")}
           Videos(s) ==
             UNION {IF ~v.ok THEN {Fail(delChannel(v.hw, "SNAPSHOT"))}
                    ELSE Previews(v) : v \in addChannel(s.hw, "VIDEO")}
           Snapshots(is4k2k) ==
             IF is4k2k THEN {Ok(h)} ELSE addChannel(h, "SNAPSHOT")
<1>1. PICK is4k2k \in BOOLEAN :
        o \in UNION {IF ~s.ok THEN {s} ELSE Videos(s) : s \in Snapshots(is4k2k)}
  BY DEF addRecordingChannels
<1>2. PICK s \in Snapshots(is4k2k) : o \in IF ~s.ok THEN {s} ELSE Videos(s)
  BY <1>1
<1>3. /\ s.ok /\ SameModes(h, s.hw) /\ s.hw.ch["SNAPSHOT"] \in {"none", "created"}
      /\ \A d \in Channels \ {"SNAPSHOT"} : s.hw.ch[d] = h.ch[d]
  <2>1. CASE s = Ok(h)
    BY <2>1, FailFields DEF SameModes, NoPreview
  <2>2. CASE s \in addChannel(h, "SNAPSHOT")
    BY <2>2, addChannelAdds DEF NoPreview, Channels
  <2> QED BY <2>1, <2>2
<1>4. PICK v \in addChannel(s.hw, "VIDEO") :
        o \in IF ~v.ok THEN {Fail(delChannel(v.hw, "SNAPSHOT"))} ELSE Previews(v)
  BY <1>2, <1>3
<1>5. /\ v.ok /\ SameModes(s.hw, v.hw) /\ v.hw.ch["VIDEO"] = "created"
      /\ \A d \in Channels \ {"VIDEO"} : v.hw.ch[d] = s.hw.ch[d]
  <2>1. s.hw \in Hw /\ s.hw.ch["PREVIEW"] = "none" /\ "VIDEO" \in Channels
    BY <1>3 DEF SameModes, NoPreview, Channels
  <2> QED BY <2>1, addChannelAdds
<1>6. PICK p \in addChannel(v.hw, "PREVIEW") :
        o = IF p.ok THEN p
            ELSE Fail(delChannel(delChannel(p.hw, "SNAPSHOT"), "VIDEO"))
  BY <1>4, <1>5
<1>7. /\ p.ok /\ SameModes(v.hw, p.hw) /\ p.hw.ch["PREVIEW"] = "created"
      /\ \A d \in Channels \ {"PREVIEW"} : p.hw.ch[d] = v.hw.ch[d]
  <2>1. v.hw \in Hw /\ v.hw.ch["PREVIEW"] = "none" /\ "PREVIEW" \in Channels
    BY <1>3, <1>5 DEF SameModes, NoPreview, Channels
  <2> QED BY <2>1, addChannelAdds
<1> HIDE DEF Previews, Videos, Snapshots
<1>8. o = p
  BY <1>6, <1>7
<1> QED
  BY <1>3, <1>5, <1>7, <1>8 DEF SameModes, NoPreview, Channels

\* Preparing a preview on bare hardware makes it ready.
LEMMA preparePreviewReady ==
    ASSUME Orderly, NEW st, NEW h \in BareHw, NEW o \in preparePreview(st, h)
    PROVE  o.ok /\ o.hw \in ReadyHw
<1>1. /\ h \in Hw /\ NoPreview(h) /\ NoCapture(h) /\ Settled(h)
      /\ ~h.pp /\ h.live = "none" /\ h.zsl \in BOOLEAN /\ h.hint \in BOOLEAN
  BY DEF BareHw, Still, Hw
<1>2. CASE h.hint
  <2>1. o \in addRecordingChannels(h)
    BY <1>1, <1>2 DEF preparePreview, Settled
  <2> QED
    BY ZenonT(40), <1>1, <1>2, <2>1, addRecordingChannelsAdds
       DEF SameModes, ReadyHw, Still, Settled, Shows, NoCapture
<1>3. CASE ~h.hint
  <2> DEFINE c == IF h.zsl THEN "ZSL" ELSE "PREVIEW"
  <2>1. o \in addChannel(h, c)
    BY <1>1, <1>3 DEF preparePreview
  <2>2. /\ o.ok /\ SameModes(h, o.hw) /\ o.hw.ch[c] = "created"
        /\ \A d \in Channels \ {c} : o.hw.ch[d] = h.ch[d]
    BY <1>1, <2>1, addChannelAdds DEF Channels, NoPreview
  <2> QED
    BY <1>1, <1>3, <2>2
       DEF SameModes, ReadyHw, Still, Settled, Shows, NoCapture, NoPreview, Channels
<1> QED BY <1>1, <1>2, <1>3

\* A created channel starts.
LEMMA startChannelStarts ==
    ASSUME Orderly, NEW h \in Hw, NEW c \in Channels, h.ch[c] = "created",
           NEW o \in startChannel(h, c)
    PROVE  /\ o.ok /\ SameModes(h, o.hw) /\ o.hw.ch[c] = "started"
           /\ \A d \in Channels \ {c} : o.hw.ch[d] = h.ch[d]
<1>1. o \in Try(SetCh(h, c, "started"), h)
  BY DEF startChannel
<1>2. o.ok /\ o.hw = SetCh(h, c, "started")
  BY <1>1, TrySucceeds
<1> QED BY <1>2, SetChModes DEF ChannelStates

\* Starting a ready preview shows it.
LEMMA startPreviewShows ==
    ASSUME Orderly, NEW h \in ReadyHw, NEW o \in startPreview(h)
    PROVE  o.ok /\ o.hw \in PreviewHw
<1> DEFINE c == IF h.zsl /\ ~h.hint THEN "ZSL" ELSE "PREVIEW"
<1>1. /\ h \in Hw /\ Shows(h, "created") /\ Settled(h)
      /\ ~h.pp /\ h.live = "none" /\ h.zsl \in BOOLEAN /\ h.hint \in BOOLEAN
  BY DEF ReadyHw, Still, Hw
<1>2. c \in Channels /\ h.ch[c] = "created"
  BY <1>1 DEF Shows, Channels
<1>3. /\ o.ok /\ SameModes(h, o.hw) /\ o.hw.ch[c] = "started"
      /\ \A d \in Channels \ {c} : o.hw.ch[d] = h.ch[d]
  BY <1>1, <1>2, startChannelStarts DEF startPreview
<1> QED
  BY <1>1, <1>3
     DEF SameModes, PreviewHw, Still, Settled, Shows, NoCapture, Channels

\* Both at once.
LEMMA prepareAndStartShows ==
    ASSUME Orderly, NEW st, NEW h \in BareHw, NEW o \in prepareAndStart(st, h)
    PROVE  o.ok /\ o.hw \in PreviewHw
<1> DEFINE Starts(p) == {IF s.ok THEN s ELSE Fail(unpreparePreview(s.hw))
                           : s \in startPreview(p.hw)}
<1>1. PICK p \in preparePreview(st, h) : o \in IF ~p.ok THEN {p} ELSE Starts(p)
  BY DEF prepareAndStart
<1>2. p.ok /\ p.hw \in ReadyHw
  BY preparePreviewReady
<1>3. PICK s \in startPreview(p.hw) :
        o = IF s.ok THEN s ELSE Fail(unpreparePreview(s.hw))
  BY <1>1, <1>2
<1>4. s.ok /\ s.hw \in PreviewHw
  BY <1>2, <1>3, startPreviewShows
<1> HIDE DEF Starts
<1> QED BY <1>3, <1>4

\* Both at once leave camera mode camera mode.
LEMMA prepareAndStartModes ==
    ASSUME Orderly, NEW st, NEW h \in BareHw, ~h.hint, NEW o \in prepareAndStart(st, h)
    PROVE  ~o.hw.hint
<1> DEFINE Starts(p) == {IF s.ok THEN s ELSE Fail(unpreparePreview(s.hw))
                           : s \in startPreview(p.hw)}
<1>1. PICK p \in preparePreview(st, h) : o \in IF ~p.ok THEN {p} ELSE Starts(p)
  BY DEF prepareAndStart
<1>2. p.ok /\ p.hw \in ReadyHw
  BY preparePreviewReady
<1>3. PICK s \in startPreview(p.hw) :
        o = IF s.ok THEN s ELSE Fail(unpreparePreview(s.hw))
  BY <1>1, <1>2
<1>4. s.ok
  BY <1>2, <1>3, startPreviewShows
<1> HIDE DEF Starts
<1>5. /\ h \in Hw /\ h.ch["PREVIEW"] = "none"
      /\ h.zsl \in BOOLEAN /\ h.hint \in BOOLEAN
  BY DEF BareHw, Still, NoPreview, Hw
<1>6. p \in addChannel(h, IF h.zsl THEN "ZSL" ELSE "PREVIEW")
  BY <1>1, <1>5 DEF preparePreview
<1>7. SameModes(h, p.hw)
  BY <1>5, <1>6, addChannelAdds DEF Channels
<1>8. SameModes(p.hw, s.hw)
  <2> DEFINE c == IF p.hw.zsl /\ ~p.hw.hint THEN "ZSL" ELSE "PREVIEW"
  <2>1. p.hw \in Hw /\ c \in Channels /\ p.hw.ch[c] = "created"
    BY <1>2 DEF ReadyHw, Still, Shows, Channels
  <2> QED BY <1>3, <2>1, startChannelStarts DEF startPreview
<1> QED BY <1>3, <1>4, <1>7, <1>8 DEF SameModes

\* Unpreparing a preview leaves bare hardware,
LEMMA unpreparePreviewBares ==
    ASSUME NEW h \in ReadyHw \cup PreviewHw
    PROVE  unpreparePreview(h) \in BareHw
<1>1. h \in Still /\ NoCapture(h) /\ ~h.pp /\ h \in Hw
  BY DEF ReadyHw, PreviewHw, Shows, Still
<1> QED
  BY <1>1, unpreparePreviewModes
     DEF SameModes, BareHw, Still, Settled, NoCapture

\* and so does stopping it.
LEMMA stopPreviewBares ==
    ASSUME NEW h \in PreviewHw
    PROVE  stopPreview(h) \in BareHw
<1>1. h \in Still /\ NoCapture(h) /\ ~h.pp /\ h \in Hw
  BY DEF PreviewHw, Shows, Still
<1> QED
  BY <1>1, stopPreviewModes
     DEF SameModes, BareHw, Still, Settled, NoCapture

-----------------------------------------------------------------------------
(* What no set above depends on: the window, what is posted, the committed   *)
(* string of the hint, and, but for a capture, the picture format.           *)

LikeIt(h, g) ==
    /\ g \in Hw /\ g.ch = h.ch
    /\ g.zsl = h.zsl /\ g.zslNew = h.zslNew
    /\ g.hint = h.hint /\ g.hintNew = h.hintNew /\ g.hintTmp = h.hintTmp
    /\ g.longshot = h.longshot /\ g.pp = h.pp /\ g.live = h.live

\* No set tells hardware from hardware like it.
LEMMA LikeStays ==
    ASSUME NEW h, NEW g, LikeIt(h, g)
    PROVE  /\ h \in BareHw => g \in BareHw
           /\ h \in ReadyHw => g \in ReadyHw
           /\ h \in PreviewHw => g \in PreviewHw
           /\ h \in RecordHw => g \in RecordHw
           /\ h \in LiveHw => g \in LiveHw
           /\ h \in ZslHw => g \in ZslHw
           /\ h \in CaptureHw /\ g.raw = h.raw => g \in CaptureHw
<1>1. (h \in Still => g \in Still) /\ (Settled(h) => Settled(g))
  BY DEF LikeIt, Still, Settled
<1>2. (NoPreview(h) => NoPreview(g)) /\ (NoCapture(h) => NoCapture(g))
  BY DEF LikeIt, NoPreview, NoCapture
<1>3. /\ Shows(h, "created") => Shows(g, "created")
      /\ Shows(h, "started") => Shows(g, "started")
  BY <1>2 DEF LikeIt, Shows
<1>4. Records(h) => Records(g)
  BY <1>2 DEF LikeIt, Records
<1> QED
  BY <1>1, <1>2, <1>3, <1>4
     DEF LikeIt, BareHw, ReadyHw, PreviewHw, RecordHw, LiveHw, ZslHw, CaptureHw

\* What a commit makes of what was staged.
LEMMA commitSettles ==
    ASSUME Orderly, NEW h \in Hw, NEW o \in commitParameterChanges(h)
    PROVE  /\ o.ok /\ o.hw \in Hw /\ o.hw.ch = h.ch
           /\ o.hw.zsl = h.zslNew /\ o.hw.zslNew = h.zslNew
           /\ o.hw.hint = h.hintNew /\ o.hw.hintNew = h.hintNew
           /\ o.hw.hintTmp = {} /\ o.hw.raw = h.raw
           /\ o.hw.longshot = h.longshot /\ o.hw.pp = h.pp /\ o.hw.live = h.live
<1> DEFINE key == IF h.hintTmp = {} THEN h.hintKey
                                    ELSE CHOOSE v \in h.hintTmp : TRUE
           g   == [h EXCEPT !.zsl = h.zslNew, !.hint = h.hintNew,
                            !.hintTmp = {}, !.hintKey = key]
<1>1. key \in BOOLEAN
  <2>1. h.hintKey \in BOOLEAN /\ h.hintTmp \in {{}, {TRUE}, {FALSE}}
    BY DEF Hw
  <2> QED
    BY <2>1
<1>2. o.ok /\ o.hw = commitParamChanges(h)
  BY TrySucceeds DEF commitParameterChanges
<1>3. commitParamChanges(h) = g
  BY DEF commitParamChanges
<1> HIDE DEF key
<1>4. /\ g \in Hw /\ g.ch = h.ch
      /\ g.zsl = h.zslNew /\ g.zslNew = h.zslNew
      /\ g.hint = h.hintNew /\ g.hintNew = h.hintNew
      /\ g.hintTmp = {} /\ g.raw = h.raw
      /\ g.longshot = h.longshot /\ g.pp = h.pp /\ g.live = h.live
  BY <1>1 DEF Hw
<1> HIDE DEF g
<1> QED
  BY <1>2, <1>3, <1>4

\* What updateParameters stages, and what it changes at once.
LEMMA updateStages ==
    ASSUME NEW h \in Hw, NEW p \in Params
    PROVE  LET u == updateParameters(h, p) IN
           /\ u \in Hw /\ u.ch = h.ch
           /\ u.zsl = h.zsl /\ u.zslNew = p.zsl
           /\ u.hint = h.hint
           /\ u.hintNew = IF p.hint # h.hintKey THEN p.hint ELSE h.hintNew
           /\ u.raw = p.raw
           /\ u.longshot = h.longshot /\ u.pp = h.pp /\ u.live = h.live
BY ZenonT(40), HwiAssumption DEF updateParameters, Hw, ParamSet

\* Parameters that need no restart leave everything like it was.
LEMMA commitLike ==
    ASSUME Orderly, NEW h \in Hw, Settled(h), NEW p \in Params,
           ~needRestart(h, p),
           NEW o \in commitParameterChanges(updateParameters(h, p))
    PROVE  o.ok /\ LikeIt(h, o.hw) /\ o.hw.raw = p.raw
<1> DEFINE u == updateParameters(h, p)
<1>1. /\ u \in Hw /\ u.ch = h.ch /\ u.zslNew = p.zsl /\ u.raw = p.raw
      /\ u.hintNew = IF p.hint # h.hintKey THEN p.hint ELSE h.hintNew
      /\ u.longshot = h.longshot /\ u.pp = h.pp /\ u.live = h.live
  BY updateStages
<1>2. p.zsl = h.zsl /\ u.hintNew = h.hint
  BY <1>1 DEF needRestart, Settled
<1> HIDE DEF u
<1>3. o \in commitParameterChanges(u)
  BY DEF u
<1> QED BY <1>1, <1>2, <1>3, commitSettles DEF LikeIt, Settled

\* A preview torn down for new parameters leaves bare hardware.
LEMMA RebuildBares ==
    ASSUME Orderly, NEW h \in Still, ~h.pp, NEW g \in Hw, NoPreview(g), NoCapture(g),
           g.longshot = h.longshot /\ g.pp = h.pp /\ g.live = h.live,
           NEW o \in commitParameterChanges(g)
    PROVE  o.ok /\ o.hw \in BareHw /\ o.hw.hint = g.hintNew
BY commitSettles DEF Still, Settled, BareHw, NoPreview, NoCapture

-----------------------------------------------------------------------------
(* Recording and capture *)

\* Changing the recording hint of bare hardware leaves it bare.
LEMMA updateRecordingHintBares ==
    ASSUME Orderly, NEW h \in BareHw, NEW v \in BOOLEAN,
           NEW o \in updateRecordingHintValue(h, v)
    PROVE  o.ok /\ o.hw \in BareHw /\ o.hw.hint = v
<1> DEFINE g == [h EXCEPT !.hintNew = v]
<1>1. /\ h \in Still /\ ~h.pp /\ h \in Hw
      /\ NoPreview(h) /\ NoCapture(h)
  BY DEF BareHw, Still
<1>2. /\ g \in Hw /\ g.ch = h.ch /\ g.hintNew = v
      /\ g.longshot = h.longshot /\ g.pp = h.pp /\ g.live = h.live
  BY <1>1 DEF Hw
<1>3. NoPreview(g) /\ NoCapture(g)
  BY <1>1, <1>2 DEF NoPreview, NoCapture
<1>4. o \in commitParameterChanges(g)
  BY DEF updateRecordingHintValue
<1> HIDE DEF g
<1> QED BY <1>1, <1>2, <1>3, <1>4, RebuildBares

\* Recording starts from any preview, rebuilt first without the hint.
LEMMA startRecordingRecords ==
    ASSUME Orderly, NEW st, NEW h \in PreviewHw, NEW o \in startRecording(st, h)
    PROVE  o.ok /\ o.hw \in RecordHw
<1> DEFINE Previews(u) ==
             UNION {IF p.ok THEN startChannel(p.hw, "PREVIEW") ELSE {p}
                      : p \in preparePreview(st, u.hw)}
           rebuilt ==
             UNION {Previews(u) : u \in updateRecordingHintValue(stopPreview(h), TRUE)}
<1>1. ASSUME NEW r \in rebuilt
      PROVE  r.ok /\ r.hw \in PreviewHw /\ r.hw.hint
  <2>1. PICK u \in updateRecordingHintValue(stopPreview(h), TRUE) : r \in Previews(u)
    OBVIOUS
  <2>2. u.hw \in BareHw /\ u.hw.hint
    BY stopPreviewBares, updateRecordingHintBares
  <2>3. PICK p \in preparePreview(st, u.hw) :
          r \in IF p.ok THEN startChannel(p.hw, "PREVIEW") ELSE {p}
    BY <2>1
  <2>4. p.ok /\ p.hw \in ReadyHw
    BY <2>2, preparePreviewReady
  <2>5. p.hw.hint
    <3>1. p \in addRecordingChannels(u.hw)
      BY <2>2, <2>3 DEF preparePreview, BareHw, Still, Settled
    <3>2. SameModes(u.hw, p.hw)
      BY <2>2, <3>1, addRecordingChannelsAdds DEF BareHw, Still
    <3> QED BY <2>2, <3>2 DEF SameModes
  <2>6. r \in startPreview(p.hw)
    BY <2>3, <2>4, <2>5 DEF startPreview
  <2>7. r.ok /\ r.hw \in PreviewHw
    BY <2>4, <2>6, startPreviewShows
  <2>8. p.hw \in Hw /\ p.hw.ch["PREVIEW"] = "created"
    BY <2>4, <2>5 DEF ReadyHw, Still, Shows
  <2>9. SameModes(p.hw, r.hw)
    BY <2>3, <2>4, <2>8, startChannelStarts DEF Channels
  <2> QED BY <2>5, <2>7, <2>9 DEF SameModes
<1>2. PICK r \in (IF h.hint THEN {Ok(h)} ELSE rebuilt) :
        o \in IF r.ok THEN startChannel(r.hw, "VIDEO") ELSE {r}
  BY DEF startRecording
<1>3. r.ok /\ r.hw \in PreviewHw /\ r.hw.hint
  <2>1. CASE h.hint
    BY <1>2, <2>1, FailFields
  <2>2. CASE ~h.hint
    BY <1>1, <1>2, <2>2
  <2> QED BY <2>1, <2>2
<1> HIDE DEF rebuilt
<1>4. /\ r.hw \in Hw /\ r.hw \in Still /\ Shows(r.hw, "started") /\ ~r.hw.pp
      /\ r.hw.ch["VIDEO"] = "created"
  BY <1>3 DEF PreviewHw, Still, Shows
<1>5. /\ o.ok /\ SameModes(r.hw, o.hw) /\ o.hw.ch["VIDEO"] = "started"
      /\ \A d \in Channels \ {"VIDEO"} : o.hw.ch[d] = r.hw.ch[d]
  BY <1>2, <1>3, <1>4, startChannelStarts DEF Channels
<1> QED
  BY ZenonT(40), <1>3, <1>4, <1>5
     DEF SameModes, Still, Settled, Shows, RecordHw, Records, NoCapture, Channels

\* Stopping a recording leaves its preview.
LEMMA stopRecordingShows ==
    ASSUME Orderly, NEW h \in RecordHw, NEW o \in stopRecording(h)
    PROVE  o.ok /\ o.hw \in PreviewHw
<1> DEFINE g == Stopped(h, "VIDEO")
<1>1. /\ h \in Hw /\ h \in Still /\ Records(h) /\ ~h.pp
      /\ h.ch["SNAPSHOT"] # "started" /\ h.ch \in [Channels -> ChannelStates]
  BY DEF RecordHw, Still, Hw
<1>2. g = SetCh(h, "VIDEO", "created") /\ h.ch["VIDEO"] = "started"
  BY <1>1 DEF Records, Stopped
<1>3. o \in Try(g, g)
  BY <1>2 DEF stopRecording, stopChannel
<1>4. o.ok /\ o.hw = g
  BY <1>3, TrySucceeds
<1>5. /\ SameModes(h, g) /\ g.ch["VIDEO"] = "created"
      /\ \A d \in Channels \ {"VIDEO"} : g.ch[d] = h.ch[d]
  BY <1>1, <1>2, SetChModes DEF Channels, ChannelStates
<1> HIDE DEF g
<1>6. g.ch["SNAPSHOT"] \in {"none", "created"}
  BY <1>1, <1>5 DEF Records, Channels, ChannelStates
<1> QED
  BY ZenonT(40), <1>1, <1>4, <1>5, <1>6
     DEF SameModes, Still, Settled, Shows, PreviewHw, Records, NoCapture, Channels

\* A live snapshot starts beside a recording,
LEMMA takeLiveSnapshotSnaps ==
    ASSUME Orderly, NEW h \in RecordHw, NEW o \in takeLiveSnapshot(h)
    PROVE  o.ok /\ o.hw \in LiveHw
<1>1. o.ok /\ o.hw = [h EXCEPT !.live = "running"]
  BY TrySucceeds DEF takeLiveSnapshot
<1> QED
  BY ZenonT(40), <1>1 DEF RecordHw, LiveHw, Still, Hw, Settled, Records, NoCapture

\* its thread leaves the recording alone, whether it finds its channel or not,
LEMMA liveSnapshotStays ==
    ASSUME Orderly, NEW h \in LiveHw, NEW o \in takeLiveSnapshot_internal(h)
    PROVE  o.hw \in LiveHw /\ o.hw.raw = h.raw
<1> DEFINE done == [h EXCEPT !.live = "done"]
           pp   == [done EXCEPT !.pp = TRUE]
           asks == [pp EXCEPT !.out = @ \cup {"CANCEL_PICTURE"}]
           shot == SetCh(pp, "SNAPSHOT", "started")
<1>1. h \in Hw /\ Settled(h) /\ Records(h)
  BY DEF LiveHw
<1>2. /\ pp \in Hw /\ pp.ch = h.ch /\ pp.raw = h.raw
      /\ Settled(pp) /\ pp.hint = h.hint
  BY <1>1 DEF Hw, Settled
<1> HIDE DEF done
<1>3. asks \in Hw /\ asks.ch = pp.ch /\ asks.raw = pp.raw /\ Settled(asks) /\ asks.hint = pp.hint
  <2> HIDE DEF pp
  <2> QED BY <1>2 DEF Hw, Settled
<1>4. /\ SameModes(pp, shot) /\ shot.ch["SNAPSHOT"] = "started"
      /\ \A d \in Channels \ {"SNAPSHOT"} : shot.ch[d] = pp.ch[d]
  <2> HIDE DEF pp
  <2> QED BY <1>2, SetChModes DEF Channels, ChannelStates
<1>5. asks \in LiveHw /\ asks.raw = h.raw
  BY <1>1, <1>2, <1>3 DEF LiveHw, Records, NoCapture
<1>6. shot \in LiveHw /\ shot.raw = h.raw
  <2> HIDE DEF pp, shot
  <2>1. shot \in Hw /\ Settled(shot) /\ shot.raw = h.raw /\ shot.hint = h.hint
    BY <1>2, <1>4 DEF SameModes, Settled
  <2>2. Records(shot)
    BY <1>1, <1>2, <1>4, <2>1 DEF Records, NoCapture, Channels
  <2> QED BY <2>1, <2>2 DEF LiveHw
<1>7. o = Fail(asks) \/ o = Ok(shot)
  <2> USE DEF done
  <2> QED BY DEF takeLiveSnapshot_internal, Orderly
<1> HIDE DEF asks, shot
<1> QED BY <1>5, <1>6, <1>7, FailFields

\* and cancelling it, the thread joined, leaves the recording.
LEMMA cancelLiveSnapshotRecords ==
    ASSUME Orderly, NEW h \in LiveHw, NEW o \in cancelLiveSnapshot(h)
    PROVE  o.hw \in RecordHw
<1> DEFINE joined == IF h.live = "running" THEN takeLiveSnapshot_internal(h)
                                           ELSE {Ok(h)}
           quiet(g) == [g EXCEPT !.live = "none", !.pp = FALSE]
<1>1. PICK j \in joined : o \in stopChannel(quiet(j.hw), "SNAPSHOT")
  BY DEF cancelLiveSnapshot
<1>2. j.hw \in LiveHw
  BY <1>1, liveSnapshotStays, FailFields
<1> DEFINE g == quiet(j.hw)
<1>3. /\ g \in Hw /\ g.ch = j.hw.ch /\ g.live = "none" /\ ~g.pp
      /\ Settled(g) /\ Records(g)
  BY <1>2 DEF LiveHw, Hw, Settled, Records, NoCapture
<1> HIDE DEF g, joined
<1>4. o \in stopChannel(g, "SNAPSHOT")
  BY <1>1 DEF g
<1>5. o.hw = Stopped(g, "SNAPSHOT")
  <2>1. CASE g.ch["SNAPSHOT"] = "none"
    BY <1>4, <2>1, FailFields DEF stopChannel, Stopped
  <2>2. CASE g.ch["SNAPSHOT"] # "none"
    BY <1>4, <2>2, TrySucceeds DEF stopChannel
  <2> QED BY <2>1, <2>2
<1> DEFINE f == Stopped(g, "SNAPSHOT")
<1>6. /\ SameModes(g, f) /\ f.ch["SNAPSHOT"] # "started"
      /\ f.ch["SNAPSHOT"] = "hollow" <=> g.ch["SNAPSHOT"] = "hollow"
      /\ \A d \in Channels \ {"SNAPSHOT"} : f.ch[d] = g.ch[d]
  BY <1>3, StoppedModes DEF Channels
<1>7. o.hw = f
  BY <1>5
<1> HIDE DEF f
<1>8. f \in Hw /\ Settled(f) /\ f.live = "none" /\ ~f.pp /\ f.hint = g.hint
  BY <1>3, <1>6 DEF SameModes, Settled
<1>9. Records(f)
  BY <1>3, <1>6, <1>8 DEF Records, NoCapture, Channels
<1> QED BY <1>6, <1>7, <1>8, <1>9 DEF RecordHw, Still

\* Leaving camcorder mode rebuilds the preview.
LEMMA cameraModeShows ==
    ASSUME Orderly, NEW h \in PreviewHw, NEW g \in cameraMode(h)
    PROVE  g \in PreviewHw /\ ~g.hint
<1>1. CASE ~h.hint
  BY <1>1 DEF cameraMode
<1>2. CASE h.hint
  <2>1. PICK u \in updateRecordingHintValue(stopPreview(h), FALSE) :
          g \in {o.hw : o \in prepareAndStart("PREVIEWING", u.hw)}
    BY <1>2 DEF cameraMode
  <2>2. u.hw \in BareHw /\ ~u.hw.hint
    BY stopPreviewBares, updateRecordingHintBares
  <2>3. PICK o \in prepareAndStart("PREVIEWING", u.hw) : g = o.hw
    BY <2>1
  <2>4. g \in PreviewHw
    BY <2>2, <2>3, prepareAndStartShows
  <2>5. ~g.hint
    BY <2>2, <2>3, prepareAndStartModes
  <2> QED
    BY <2>4, <2>5
<1> QED
  BY <1>1, <1>2

\* What is taken in each mode.
LEMMA takePictureTakes ==
    ASSUME Orderly, NEW h \in PreviewHw, ~h.hint, NEW o \in takePicture(h)
    PROVE  /\ o.ok
           /\ h.zsl => o.hw \in ZslHw
           /\ ~h.zsl => o.hw \in CaptureHw
<1>1. /\ h \in Hw /\ h \in Still /\ Shows(h, "started") /\ ~h.pp /\ Settled(h)
      /\ h.zsl \in BOOLEAN /\ h.raw \in BOOLEAN /\ h.ch \in [Channels -> ChannelStates]
      /\ h.live = "none"
  BY DEF PreviewHw, Still, Hw
<1>2. CASE h.zsl
  <2> DEFINE g == [h EXCEPT !.pp = TRUE]
  <2>1. h.ch["ZSL"] = "started"
    BY <1>1, <1>2 DEF Shows
  <2>2. o = Ok(g)
    BY <1>2, <2>1 DEF takePicture, takeZslPicture, Orderly
  <2>3. /\ g \in Hw /\ g.ch = h.ch /\ g.zsl = h.zsl /\ g.hint = h.hint
        /\ Settled(g) /\ g.live = "none"
    BY <1>1 DEF Hw, Settled
  <2> HIDE DEF g
  <2>4. Shows(g, "started")
    BY <1>1, <2>3 DEF Shows, NoCapture
  <2> QED BY <1>2, <2>2, <2>3, <2>4, FailFields DEF ZslHw, Still
<1>3. CASE ~h.zsl
  <2> DEFINE c    == IF h.raw THEN "RAW" ELSE "CAPTURE"
             less == delChannel(h, "PREVIEW")
             bare == delChannel(less, c)
             pp   == [bare EXCEPT !.pp = TRUE]
             g    == SetCh(pp, c, "started")
  <2>0. {c, "PREVIEW", "RAW", "CAPTURE"} \subseteq Channels
        /\ {"none", "started"} \subseteq ChannelStates
    BY DEF Channels, ChannelStates
  <2>1. o = Ok(g)
    BY <1>1, <1>3 DEF takePicture, takeJpegPicture, takeRawPicture, Orderly
  <2>2. /\ SameModes(h, less) /\ less.ch["PREVIEW"] = "none"
        /\ \A d \in Channels \ {"PREVIEW"} : less.ch[d] = h.ch[d]
    BY <1>1, <2>0, SetChModes DEF delChannel
  <2> HIDE DEF less
  <2>3. /\ SameModes(less, bare) /\ bare.ch[c] = "none"
        /\ \A d \in Channels \ {c} : bare.ch[d] = less.ch[d]
    <3>1. less \in Hw
      BY <2>2 DEF SameModes
    <3> HIDE DEF c
    <3> QED BY <2>0, <3>1, SetChModes DEF delChannel
  <2> HIDE DEF bare
  <2>4. /\ pp \in Hw /\ pp.ch = bare.ch /\ pp.zsl = bare.zsl /\ pp.hint = bare.hint
        /\ pp.raw = bare.raw /\ pp.live = bare.live
        /\ pp.zslNew = bare.zslNew /\ pp.hintNew = bare.hintNew
        /\ pp.hintTmp = bare.hintTmp /\ pp.longshot = bare.longshot
    BY <2>3 DEF SameModes, Hw
  <2> HIDE DEF pp
  <2>5. /\ SameModes(pp, g) /\ g.ch[c] = "started"
        /\ \A d \in Channels \ {c} : g.ch[d] = pp.ch[d]
    BY <2>0, <2>4, SetChModes
  <2> HIDE DEF g
  <2>6. /\ g \in Hw /\ Settled(g) /\ g.live = "none" /\ ~g.zsl /\ ~g.hint
        /\ g.raw = h.raw
    BY <1>1, <1>3, <2>2, <2>3, <2>4, <2>5 DEF SameModes, Settled
  <2>7. NoPreview(g)
    BY <1>1, <1>3, <2>2, <2>3, <2>4, <2>5 DEF NoPreview, Shows, Channels
  <2>8. CASE h.raw
    <3>1. g.ch["RAW"] = "started" /\ g.ch["CAPTURE"] = "none"
      BY <1>1, <2>2, <2>3, <2>4, <2>5, <2>8 DEF Shows, NoCapture, Channels
    <3> QED BY <1>3, <2>1, <2>6, <2>7, <2>8, <3>1, FailFields DEF CaptureHw, Still
  <2>9. CASE ~h.raw
    <3>1. g.ch["CAPTURE"] = "started" /\ g.ch["RAW"] = "none"
      BY <1>1, <2>2, <2>3, <2>4, <2>5, <2>9 DEF Shows, NoCapture, Channels
    <3> QED BY <1>3, <2>1, <2>6, <2>7, <2>9, <3>1, FailFields DEF CaptureHw, Still
  <2> QED BY <2>8, <2>9
<1> QED BY <1>1, <1>2, <1>3

\* Cancelling a capture leaves bare hardware,
LEMMA cancelCapture ==
    ASSUME NEW h \in CaptureHw
    PROVE  cancelPicture(h) \in BareHw
<1> DEFINE c == IF h.raw THEN "RAW" ELSE "CAPTURE"
           g == [h EXCEPT !.pp = FALSE]
           f == SetCh(g, c, "none")
<1>1. /\ h \in Hw /\ Settled(h) /\ h.live = "none" /\ ~h.zsl /\ NoPreview(h)
      /\ h.raw \in BOOLEAN
      /\ h.ch[IF h.raw THEN "CAPTURE" ELSE "RAW"] = "none"
  BY DEF CaptureHw, Still, Hw
<1>2. /\ g \in Hw /\ g.ch = h.ch /\ g.live = "none" /\ ~g.pp
      /\ Settled(g) /\ g.zsl = h.zsl /\ g.raw = h.raw
  BY <1>1 DEF Hw, Settled
<1>3. cancelPicture(h) = f
  BY <1>1, <1>2 DEF cancelPicture, delChannel
<1> HIDE DEF g
<1>4. /\ SameModes(g, f) /\ f.ch[c] = "none"
      /\ \A d \in Channels \ {c} : f.ch[d] = g.ch[d]
  BY <1>2, SetChModes DEF Channels, ChannelStates
<1> HIDE DEF f
<1>5. NoPreview(f) /\ NoCapture(f)
  BY <1>1, <1>2, <1>4 DEF NoPreview, NoCapture, Channels
<1>6. f \in Hw /\ Settled(f) /\ f.live = "none" /\ ~f.pp
  BY <1>2, <1>4 DEF SameModes, Settled
<1> QED BY <1>3, <1>5, <1>6 DEF BareHw, Still

\* cancelling a ZSL one its preview,
LEMMA cancelZsl ==
    ASSUME NEW h \in ZslHw
    PROVE  cancelPicture(h) \in PreviewHw
<1> DEFINE g == [h EXCEPT !.pp = FALSE]
<1>1. h \in Hw /\ Settled(h) /\ h.live = "none" /\ h.zsl /\ Shows(h, "started")
  BY DEF ZslHw, Still
<1>2. /\ g \in Hw /\ g.ch = h.ch /\ g.live = "none" /\ ~g.pp
      /\ Settled(g) /\ g.zsl = h.zsl /\ g.hint = h.hint
  BY <1>1 DEF Hw, Settled
<1>3. cancelPicture(h) = g
  BY <1>1, <1>2 DEF cancelPicture
<1> HIDE DEF g
<1> QED BY <1>1, <1>2, <1>3 DEF PreviewHw, Still, Shows, NoCapture

\* and stopping its channel leaves the rest of it to be cancelled.
LEMMA stopCaptureChannelStays ==
    ASSUME NEW h \in CaptureHw
    PROVE  stopCaptureChannel(h, FALSE) \in CaptureHw
<1>1. /\ h \in Hw /\ Settled(h) /\ h.live = "none" /\ ~h.zsl /\ ~h.hint
      /\ NoPreview(h) /\ h.raw \in BOOLEAN
      /\ h.ch[IF h.raw THEN "RAW" ELSE "CAPTURE"] # "none"
      /\ h.ch[IF h.raw THEN "CAPTURE" ELSE "RAW"] = "none"
  BY DEF CaptureHw, Still, Hw
<1>2. CASE h.raw
  BY <1>2 DEF stopCaptureChannel
<1>3. CASE ~h.raw
  <2> DEFINE g == Stopped(h, "CAPTURE")
  <2>1. stopCaptureChannel(h, FALSE) = g
    BY <1>3 DEF stopCaptureChannel
  <2>2. /\ SameModes(h, g) /\ g.ch["CAPTURE"] # "none"
        /\ \A d \in Channels \ {"CAPTURE"} : g.ch[d] = h.ch[d]
    BY <1>1, <1>3, StoppedModes DEF Channels
  <2> HIDE DEF g
  <2>3. NoPreview(g) /\ g.ch["RAW"] = "none"
    BY <1>1, <1>3, <2>2 DEF NoPreview, Channels
  <2>4. g \in Hw /\ Settled(g) /\ g.live = "none" /\ ~g.zsl /\ ~g.hint /\ ~g.raw
    BY <1>1, <1>3, <2>2 DEF SameModes, Settled
  <2> QED BY <2>1, <2>2, <2>3, <2>4 DEF CaptureHw, Still
<1> QED BY <1>1, <1>2, <1>3

\* The commands that concern no capture change nothing.
LEMMA onlyOtherCommands ==
    ASSUME Orderly, NEW h, NEW cmd \in Commands, NEW o \in sendCommand(h, cmd)
    PROVE  cmd = "OTHER" /\ o.ok /\ o.hw = h
<1>1. cmd = "OTHER"
  BY DEF Orderly
<1>2. o \in Try(h, h)
  BY <1>1 DEF sendCommand
<1> QED BY <1>1, <1>2, TrySucceeds

-----------------------------------------------------------------------------
(* How a handler ends while nothing fails *)

\* What a set may assume of the hardware in its state.
LEMMA FitsMeans ==
    ASSUME NEW st, NEW h, Fits(st, h)
    PROVE  h \in Hw /\ Settled(h) /\ st \in States
BY SetsOfHw DEF Fits, States, Still, LiveHw

\* Hardware like the one that fits a state fits it too.
LEMMA LikeFits ==
    ASSUME NEW st, NEW h, NEW g, Fits(st, h), LikeIt(h, g), g.raw = h.raw
    PROVE  Fits(st, g)
BY LikeStays DEF Fits

\* Forgetting what was posted changes nothing that matters.
LEMMA h0Fits ==
    ASSUME OrderlyHw
    PROVE  Fits(m_state, h0) /\ h0.zsl = hw.zsl /\ h0.longshot = hw.longshot
<1>1. hw \in Hw
  BY FitsMeans DEF OrderlyHw
<1>2. LikeIt(hw, h0) /\ h0.raw = hw.raw
  BY <1>1 DEF LikeIt, h0, Hw
<1>3. h0.zsl = hw.zsl /\ h0.longshot = hw.longshot
  BY <1>2 DEF LikeIt
<1> QED BY <1>2, <1>3, LikeFits DEF OrderlyHw

\* Neither does the window.
LEMMA WindowFits ==
    ASSUME NEW st, NEW h, Fits(st, h), NEW w \in BOOLEAN
    PROVE  Fits(st, [h EXCEPT !.window = w])
<1> DEFINE g == [h EXCEPT !.window = w]
<1>1. h \in Hw
  BY FitsMeans
<1>2. LikeIt(h, g) /\ g.raw = h.raw
  BY <1>1 DEF LikeIt, Hw
<1> HIDE DEF g
<1>3. Fits(st, g)
  BY <1>2, LikeFits
<1> QED BY <1>3 DEF g

\* A handler that ends in a state with hardware that fits it keeps the
\* invariant,
LEMMA BecomeFits ==
    ASSUME NEW st, NEW h, Fits(st, h), Become(st, h)
    PROVE  OrderlyHw'
<1>1. m_state' = st /\ hw' = h
  BY DEF Become
<1> QED BY <1>1 DEF OrderlyHw, Fits, States

\* also when it reports an outcome,
LEMMA ReportFits ==
    ASSUME NEW evt, NEW o, NEW st, Fits(st, o.hw), Report(evt, o, st)
    PROVE  OrderlyHw'
<1>1. Become(st, o.hw)
  BY Zenon DEF Report, Answer
<1> QED BY <1>1, BecomeFits

\* when it stays where it is,
LEMMA StayFits ==
    ASSUME NEW h, Fits(m_state, h), NEW evt,
           \/ Reject(evt, h) \/ NoOp(evt, h) \/ Neutrally(evt, h) \/ Ignore(h)
    PROVE  OrderlyHw'
<1>1. Become(m_state, h)
  BY Zenon DEF Reject, NoOp, Neutrally, Ignore, Stay
<1> QED BY <1>1, BecomeFits

\* when it answers a question,
LEMMA QueryFits ==
    ASSUME Fits(m_state, h0), NEW evt, NEW yes, Query(evt, yes)
    PROVE  OrderlyHw'
<1>1. Become(m_state, h0)
  BY Zenon DEF Query, Stay
<1> QED BY <1>1, BecomeFits

\* and when it answers the caller or the notifier.
LEMMA AnswerFits ==
    ASSUME NEW evt, NEW status, NEW st, NEW h, Fits(st, h),
           Answer(evt, status, st, h) \/ EvtDone(st, h, status)
    PROVE  OrderlyHw'
<1>1. Become(st, h)
  BY Zenon DEF Answer, EvtDone
<1> QED BY <1>1, BecomeFits

\* SEND_COMMAND, in every state.
LEMMA CommandFits ==
    ASSUME Orderly, NEW h, Fits(m_state, h), NEW evt,
           Command(evt, h) \/ CaptureCommand(evt, h)
    PROVE  OrderlyHw'
<1>1. CASE Command(evt, h)
  <2>1. PICK cmd \in Commands : \E o \in sendCommand(h, cmd) : Report(evt, o, m_state)
    BY <1>1 DEF Command
  <2>2. PICK o \in sendCommand(h, cmd) : Report(evt, o, m_state)
    BY <2>1
  <2> QED BY <2>2, onlyOtherCommands, ReportFits
<1>2. CASE CaptureCommand(evt, h)
  <2>1. PICK cmd \in Commands : \E o \in sendCommand(h, cmd) :
          Report(evt, o, IF cmd = "LONGSHOT_OFF" THEN "PREVIEWING" ELSE m_state)
    BY <1>2 DEF CaptureCommand
  <2>2. PICK o \in sendCommand(h, cmd) :
          Report(evt, o, IF cmd = "LONGSHOT_OFF" THEN "PREVIEWING" ELSE m_state)
    BY <2>1
  <2>3. cmd = "OTHER" /\ o.hw = h
    BY <2>2, onlyOtherCommands
  <2>4. Report(evt, o, m_state)
    BY <2>2, <2>3
  <2> QED BY <2>3, <2>4, ReportFits
<1> QED BY <1>1, <1>2

\* Parameters that need no restart are committed at once.
LEMMA CommitFits ==
    ASSUME Orderly, NEW h, Fits(m_state, h), NEW evt, NEW p \in Params,
           ~needRestart(h, p), m_state = "PIC_TAKING" => p.raw = h.raw,
           NEW o \in commitParameterChanges(updateParameters(h, p)),
           Report(evt, o, m_state)
    PROVE  OrderlyHw'
<1>1. h \in Hw /\ Settled(h)
  BY FitsMeans
<1>2. LikeIt(h, o.hw) /\ o.hw.raw = p.raw
  BY <1>1, commitLike
<1>3. Fits(m_state, o.hw)
  BY <1>2, LikeStays, LikeFits DEF Fits
<1> QED BY <1>3, ReportFits

\* What the application passes while the camera is busy needs no restart.
LEMMA KeepsNoRestart ==
    ASSUME Orderly, NEW h, NEW p \in Payload(h),
           m_state \in {"PIC_TAKING", "RECORDING", "VIDEO_PIC_TAKING",
                       "PREVIEW_PIC_TAKING"}
    PROVE  p \in Params /\ ~needRestart(h, p) /\ p.raw = h.raw /\ ~p.bad
BY DEF Orderly, Payload, Keeps, needRestart, isCaptureRunning

\* SET_PARAMS in the states that commit whatever the parameters are.
LEMMA CommitParamsFits ==
    ASSUME Orderly, m_state \in {"PREVIEW_STOPPED", "PIC_TAKING"},
           NEW h, Fits(m_state, h), NEW evt, CommitParams(evt, h)
    PROVE  OrderlyHw'
<1>1. PICK p \in Payload(h) :
        IF p.bad THEN Reject(evt, updateParameters(h, p))
        ELSE \E o \in commitParameterChanges(updateParameters(h, p)) :
               Report(evt, o, m_state)
  BY DEF CommitParams
<1>2. p \in Params /\ ~p.bad
  BY PayloadParams DEF Orderly
<1>3. PICK o \in commitParameterChanges(updateParameters(h, p)) :
        Report(evt, o, m_state)
  BY <1>1, <1>2
<1>4. CASE m_state = "PIC_TAKING"
  BY <1>2, <1>3, <1>4, KeepsNoRestart, CommitFits
<1>5. CASE m_state = "PREVIEW_STOPPED"
  <2> DEFINE u == updateParameters(h, p)
  <2>1. /\ h \in BareHw /\ h \in Hw /\ h \in Still
        /\ NoPreview(h) /\ NoCapture(h) /\ ~h.pp
    BY <1>5 DEF Fits, BareHw, Still
  <2>2. /\ u \in Hw /\ u.ch = h.ch /\ u.longshot = h.longshot
        /\ u.pp = h.pp /\ u.live = h.live
    BY <1>2, <2>1, updateStages
  <2> HIDE DEF u
  <2>3. NoPreview(u) /\ NoCapture(u)
    BY <2>1, <2>2 DEF NoPreview, NoCapture
  <2>4. o \in commitParameterChanges(u)
    BY <1>3 DEF u
  <2>5. o.hw \in BareHw
    BY <2>1, <2>2, <2>3, <2>4, RebuildBares
  <2>6. Fits(m_state, o.hw)
    BY <1>5, <2>5 DEF Fits, States
  <2> QED BY <1>3, <2>6, ReportFits
<1> QED BY <1>4, <1>5

\* SET_PARAMS in the two recording states.
LEMMA RecordingParamsFits ==
    ASSUME Orderly, m_state \in {"RECORDING", "VIDEO_PIC_TAKING"},
           NEW h, Fits(m_state, h), NEW evt, RecordingParams(evt, h)
    PROVE  OrderlyHw'
<1>1. PICK p \in Payload(h) :
        IF p.bad \/ needRestart(h, p) THEN Reject(evt, updateParameters(h, p))
        ELSE \E o \in commitParameterChanges(updateParameters(h, p)) :
               Report(evt, o, m_state)
  BY DEF RecordingParams
<1>2. p \in Params /\ ~p.bad /\ ~needRestart(h, p)
  BY KeepsNoRestart
<1>3. PICK o \in commitParameterChanges(updateParameters(h, p)) :
        Report(evt, o, m_state)
  BY <1>1, <1>2
<1> QED BY <1>2, <1>3, CommitFits

\* What a preview torn down for new parameters leaves to rebuild it from.
LEMMA TornDownBares ==
    ASSUME Orderly, NEW h \in ReadyHw \cup PreviewHw, NEW p \in Params, NEW g,
           \/ g = unpreparePreview(updateParameters(h, p))
           \/ g = stopPreview(updateParameters(h, p)),
           NEW c \in commitParameterChanges(g)
    PROVE  c.hw \in BareHw
<1> DEFINE u == updateParameters(h, p)
<1>1. h \in Hw /\ h \in Still /\ NoCapture(h) /\ ~h.pp
  BY DEF ReadyHw, PreviewHw, Shows, Still
<1>2. /\ u \in Hw /\ u.ch = h.ch /\ u.longshot = h.longshot
      /\ u.pp = h.pp /\ u.live = h.live
  BY <1>1, updateStages
<1>3. NoCapture(u)
  BY <1>1, <1>2 DEF NoCapture
<1> HIDE DEF u
<1>4. g = unpreparePreview(u) \/ g = stopPreview(u)
  BY DEF u
<1>5. /\ SameModes(u, g) /\ NoPreview(g)
      /\ g.ch["CAPTURE"] = u.ch["CAPTURE"] /\ g.ch["RAW"] = u.ch["RAW"]
  BY <1>2, <1>4, unpreparePreviewModes, stopPreviewModes
<1>6. NoCapture(g)
  BY <1>3, <1>5 DEF NoCapture
<1>7. /\ g \in Hw /\ g.longshot = h.longshot /\ g.pp = h.pp /\ g.live = h.live
  BY <1>2, <1>5 DEF SameModes
<1> QED BY <1>1, <1>5, <1>6, <1>7, RebuildBares

\* A prepared preview rebuilt for new parameters is ready again.
LEMMA RestartReadyFits ==
    ASSUME Orderly, m_state = "PREVIEW_READY", NEW h, Fits(m_state, h), NEW evt,
           RestartParams(evt, h, unpreparePreview, preparePreview,
                         "PREVIEW_STOPPED")
    PROVE  OrderlyHw'
<1> DEFINE u(p) == updateParameters(h, p)
<1>1. PICK p \in Params :
        IF p.bad THEN Reject(evt, u(p))
        ELSE IF ~needRestart(h, p)
          THEN \E o \in commitParameterChanges(u(p)) : Report(evt, o, m_state)
          ELSE \E c \in commitParameterChanges(unpreparePreview(u(p))) :
               \E o \in preparePreview(m_state, c.hw) :
                 Report(evt, o, IF o.ok THEN m_state ELSE "PREVIEW_STOPPED")
  BY PayloadParams DEF RestartParams
<1>2. ~p.bad
  BY DEF Orderly
<1>3. CASE ~needRestart(h, p)
  <2>1. PICK o \in commitParameterChanges(u(p)) : Report(evt, o, m_state)
    BY <1>1, <1>2, <1>3
  <2> QED BY <1>3, <2>1, CommitFits
<1>4. CASE needRestart(h, p)
  <2>1. PICK c \in commitParameterChanges(unpreparePreview(u(p))) :
          \E o \in preparePreview(m_state, c.hw) :
            Report(evt, o, IF o.ok THEN m_state ELSE "PREVIEW_STOPPED")
    BY <1>1, <1>2, <1>4
  <2>2. PICK o \in preparePreview(m_state, c.hw) :
          Report(evt, o, IF o.ok THEN m_state ELSE "PREVIEW_STOPPED")
    BY <2>1
  <2>3. c.hw \in BareHw
    BY <2>1, TornDownBares DEF Fits
  <2>4. o.ok /\ o.hw \in ReadyHw
    BY <2>2, <2>3, preparePreviewReady
  <2>5. Fits(m_state, o.hw) /\ Report(evt, o, m_state)
    BY <2>2, <2>4 DEF Fits, States
  <2> QED BY <2>5, ReportFits
<1> QED BY <1>3, <1>4

\* A running preview rebuilt for new parameters runs again.
LEMMA RestartPreviewFits ==
    ASSUME Orderly, m_state \in {"PREVIEWING", "PREVIEW_PIC_TAKING"},
           NEW h, Fits(m_state, h), NEW evt, NEW failed,
           RestartParams(evt, h, stopPreview, prepareAndStart, failed)
    PROVE  OrderlyHw'
<1> DEFINE u(p) == updateParameters(h, p)
<1>1. PICK p \in Payload(h) :
        IF p.bad THEN Reject(evt, u(p))
        ELSE IF ~needRestart(h, p)
          THEN \E o \in commitParameterChanges(u(p)) : Report(evt, o, m_state)
          ELSE \E c \in commitParameterChanges(stopPreview(u(p))) :
               \E o \in prepareAndStart(m_state, c.hw) :
                 Report(evt, o, IF o.ok THEN m_state ELSE failed)
  BY DEF RestartParams
<1>2. p \in Params /\ ~p.bad
  BY PayloadParams DEF Orderly
<1>3. CASE ~needRestart(h, p)
  <2>1. PICK o \in commitParameterChanges(u(p)) : Report(evt, o, m_state)
    BY <1>1, <1>2, <1>3
  <2> QED BY <1>2, <1>3, <2>1, CommitFits
<1>4. CASE needRestart(h, p)
  <2>0. m_state = "PREVIEWING"
    BY <1>4, KeepsNoRestart
  <2>1. PICK c \in commitParameterChanges(stopPreview(u(p))) :
          \E o \in prepareAndStart(m_state, c.hw) :
            Report(evt, o, IF o.ok THEN m_state ELSE failed)
    BY <1>1, <1>2, <1>4
  <2>2. PICK o \in prepareAndStart(m_state, c.hw) :
          Report(evt, o, IF o.ok THEN m_state ELSE failed)
    BY <2>1
  <2>3. c.hw \in BareHw
    BY <1>2, <2>0, <2>1, TornDownBares DEF Fits
  <2>4. o.ok /\ o.hw \in PreviewHw
    BY <2>2, <2>3, prepareAndStartShows
  <2>5. Fits(m_state, o.hw) /\ Report(evt, o, m_state)
    BY <2>0, <2>2, <2>4 DEF Fits, States
  <2> QED BY <2>5, ReportFits
<1> QED BY <1>3, <1>4

-----------------------------------------------------------------------------
(* The handlers while nothing fails *)

\* Every event in PREVIEW_STOPPED.
LEMMA PreviewStoppedFits ==
    ASSUME Orderly, OrderlyHw, m_state = "PREVIEW_STOPPED", NEW evt \in Events,
           procEvtPreviewStoppedState(evt)
    PROVE  OrderlyHw'
<1>0. Fits(m_state, h0) /\ h0 \in BareHw
  BY h0Fits DEF Fits
<1>1. CASE \E w \in BOOLEAN : NoOp(evt, [h0 EXCEPT !.window = w])
  <2>1. PICK w \in BOOLEAN : NoOp(evt, [h0 EXCEPT !.window = w])
    BY <1>1
  <2> QED BY <1>0, <2>1, WindowFits, StayFits
<1>2. CASE Neutrally(evt, h0) \/ NoOp(evt, h0) \/ Reject(evt, h0) \/ Ignore(h0)
  BY <1>0, <1>2, StayFits
<1>3. CASE CommitParams(evt, h0)
  BY <1>0, <1>3, CommitParamsFits
<1>4. CASE StartPreviewFrom(evt, preparePreview(m_state, h0), "PREVIEW_READY")
  <2>1. PICK o \in preparePreview(m_state, h0) :
          Report(evt, o, IF o.ok THEN "PREVIEW_READY" ELSE "PREVIEW_STOPPED")
    BY <1>4 DEF StartPreviewFrom
  <2>2. o.ok /\ o.hw \in ReadyHw
    BY <1>0, <2>1, preparePreviewReady
  <2>3. Fits("PREVIEW_READY", o.hw) /\ Report(evt, o, "PREVIEW_READY")
    BY <2>1, <2>2 DEF Fits, States
  <2> QED BY <2>3, ReportFits
<1>5. CASE StartPreviewFrom(evt, prepareAndStart(m_state, h0), "PREVIEWING")
  <2>1. PICK o \in prepareAndStart(m_state, h0) :
          Report(evt, o, IF o.ok THEN "PREVIEWING" ELSE "PREVIEW_STOPPED")
    BY <1>5 DEF StartPreviewFrom
  <2>2. o.ok /\ o.hw \in PreviewHw
    BY <1>0, <2>1, prepareAndStartShows
  <2>3. Fits("PREVIEWING", o.hw) /\ Report(evt, o, "PREVIEWING")
    BY <2>1, <2>2 DEF Fits, States
  <2> QED BY <2>3, ReportFits
<1>6. CASE Query(evt, FALSE)
  BY <1>0, <1>6, QueryFits
<1>7. CASE NoOp(evt, release(h0))
  <2>1. h0 \in Hw /\ release(h0) = [h0 EXCEPT !.ch = [c \in Channels |-> "none"]]
    BY <1>0 DEF BareHw, Still, release
  <2>2. h0.ch = [c \in Channels |-> "none"]
    BY <1>0, <2>1 DEF BareHw, NoPreview, NoCapture, Hw, Channels
  <2>3. release(h0) = h0
    BY <2>1, <2>2 DEF Hw
  <2> QED BY <1>0, <1>7, <2>3, StayFits
<1>8. CASE Command(evt, h0)
  BY <1>0, <1>8, CommandFits
<1>9. CASE EvtDone(m_state, h0, "ok")
  BY <1>0, <1>9, AnswerFits
<1> QED
  BY <1>1, <1>2, <1>3, <1>4, <1>5, <1>6, <1>7, <1>8, <1>9
     DEF procEvtPreviewStoppedState

\* Every event in PREVIEW_READY.
LEMMA PreviewReadyFits ==
    ASSUME Orderly, OrderlyHw, m_state = "PREVIEW_READY", NEW evt \in Events,
           procEvtPreviewReadyState(evt)
    PROVE  OrderlyHw'
<1>0. Fits(m_state, h0) /\ h0 \in ReadyHw
  BY h0Fits DEF Fits
<1>1. CASE NoOp(evt, [h0 EXCEPT !.window = FALSE])
  BY <1>0, <1>1, WindowFits, StayFits
<1>2. ASSUME NEW s \in startPreview([h0 EXCEPT !.window = TRUE]),
             IF s.ok THEN Report(evt, s, "PREVIEWING")
             ELSE Answer(evt, "error", "PREVIEW_STOPPED", unpreparePreview(s.hw))
      PROVE  OrderlyHw'
  <2> DEFINE g == [h0 EXCEPT !.window = TRUE]
  <2>1. g \in ReadyHw
    BY <1>0, WindowFits DEF Fits
  <2> HIDE DEF g
  <2>2. s \in startPreview(g)
    BY DEF g
  <2>3. s.ok /\ s.hw \in PreviewHw
    BY <2>1, <2>2, startPreviewShows
  <2>4. Fits("PREVIEWING", s.hw) /\ Report(evt, s, "PREVIEWING")
    BY <1>2, <2>3 DEF Fits, States
  <2> QED BY <2>4, ReportFits
<1>3. CASE Neutrally(evt, h0) \/ NoOp(evt, h0) \/ Reject(evt, h0) \/ Ignore(h0)
  BY <1>0, <1>3, StayFits
<1>4. CASE RestartParams(evt, h0, unpreparePreview, preparePreview,
                         "PREVIEW_STOPPED")
  BY <1>0, <1>4, RestartReadyFits
<1>5. CASE Answer(evt, "ok", "PREVIEW_STOPPED", unpreparePreview(h0))
  <2>1. Fits("PREVIEW_STOPPED", unpreparePreview(h0))
    BY <1>0, unpreparePreviewBares DEF Fits, States
  <2> QED BY <1>5, <2>1, AnswerFits
<1>6. CASE Query(evt, TRUE) \/ Query(evt, FALSE)
  BY <1>0, <1>6, QueryFits
<1>7. CASE Command(evt, h0)
  BY <1>0, <1>7, CommandFits
<1>8. CASE EvtDone(m_state, h0, "ok")
  BY <1>0, <1>8, AnswerFits
<1> QED
  BY <1>1, <1>2, <1>3, <1>4, <1>5, <1>6, <1>7, <1>8
     DEF procEvtPreviewReadyState

\* TAKE_PICTURE in PREVIEWING takes a ZSL picture or a still capture.
LEMMA TakePictureFits ==
    ASSUME Orderly, m_state = "PREVIEWING", h0 \in PreviewHw, NEW evt,
           TakePicture(evt)
    PROVE  OrderlyHw'
<1> DEFINE Ends(h, o) ==
             CASE h.zsl \/ h.longshot ->
                    IF o.ok THEN "PREVIEW_PIC_TAKING" ELSE "PREVIEWING"
               [] OTHER -> IF o.ok THEN "PIC_TAKING" ELSE "PREVIEW_STOPPED"
<1>1. PICK h \in cameraMode(h0) :
        \E o \in takePicture(h) : Report(evt, o, Ends(h, o))
  BY DEF TakePicture
<1>2. PICK o \in takePicture(h) : Report(evt, o, Ends(h, o))
  BY <1>1
<1>3. h \in PreviewHw /\ ~h.hint
  BY cameraModeShows
<1>4. o.ok /\ (h.zsl => o.hw \in ZslHw) /\ (~h.zsl => o.hw \in CaptureHw)
  BY <1>2, <1>3, takePictureTakes
<1>5. ~h.longshot /\ h.zsl \in BOOLEAN
  BY <1>3 DEF PreviewHw, Still, Settled, Hw
<1>6. Fits(Ends(h, o), o.hw)
  BY <1>4, <1>5 DEF Fits, States
<1> QED BY <1>2, <1>6, ReportFits

\* Every event in PREVIEWING.
LEMMA PreviewingFits ==
    ASSUME Orderly, OrderlyHw, m_state = "PREVIEWING", NEW evt \in Events,
           procEvtPreviewingState(evt)
    PROVE  OrderlyHw'
<1>0. Fits(m_state, h0) /\ h0 \in PreviewHw
  BY h0Fits DEF Fits
<1>1. CASE Neutrally(evt, h0) \/ NoOp(evt, h0) \/ Reject(evt, h0) \/ Ignore(h0)
  BY <1>0, <1>1, StayFits
<1>2. CASE RestartParams(evt, h0, stopPreview, prepareAndStart,
                         "PREVIEW_STOPPED")
  BY <1>0, <1>2, RestartPreviewFits
<1>3. CASE Answer(evt, "ok", "PREVIEW_STOPPED", stopPreview(h0))
  <2>1. Fits("PREVIEW_STOPPED", stopPreview(h0))
    BY <1>0, stopPreviewBares DEF Fits, States
  <2> QED BY <1>3, <2>1, AnswerFits
<1>4. CASE Query(evt, TRUE) \/ Query(evt, FALSE)
  BY <1>0, <1>4, QueryFits
<1>5. ASSUME NEW o \in startRecording(m_state, h0),
             Report(evt, o, IF o.ok THEN "RECORDING" ELSE m_state)
      PROVE  OrderlyHw'
  <2>1. o.ok /\ o.hw \in RecordHw
    BY <1>0, startRecordingRecords
  <2>2. Fits("RECORDING", o.hw) /\ Report(evt, o, "RECORDING")
    BY <1>5, <2>1 DEF Fits, States
  <2> QED BY <2>2, ReportFits
<1>6. CASE Become("PREPARE_SNAPSHOT", h0)
  <2>1. Fits("PREPARE_SNAPSHOT", h0)
    BY <1>0 DEF Fits, States
  <2> QED BY <1>6, <2>1, BecomeFits
<1>7. CASE TakePicture(evt)
  BY <1>0, <1>7, TakePictureFits
<1>8. CASE PreviewingCommand(evt, h0)
  <2>1. Command(evt, h0)
    BY <1>8 DEF PreviewingCommand, Orderly
  <2> QED BY <1>0, <2>1, CommandFits
<1>9. CASE EvtDone(m_state, h0, "ok")
  BY <1>0, <1>9, AnswerFits
<1> QED
  BY <1>1, <1>2, <1>3, <1>4, <1>5, <1>6, <1>7, <1>8, <1>9
     DEF procEvtPreviewingState

\* Every event in PREPARE_SNAPSHOT.
LEMMA PrepareSnapshotFits ==
    ASSUME Orderly, OrderlyHw, m_state = "PREPARE_SNAPSHOT", NEW evt \in Events,
           procEvtPrepareSnapshotState(evt)
    PROVE  OrderlyHw'
<1>0. /\ Fits(m_state, h0) /\ Fits("PREVIEWING", h0)
  BY h0Fits DEF Fits, States
<1>1. CASE Reject(evt, h0) \/ Ignore(h0)
  BY <1>0, <1>1, StayFits
<1>2. CASE Answer("PREPARE_SNAPSHOT", "ok", "PREVIEWING", h0)
  BY <1>0, <1>2, AnswerFits
<1>3. CASE EvtDone(m_state, h0, "ok")
  BY <1>0, <1>3, AnswerFits
<1> QED BY <1>1, <1>2, <1>3 DEF procEvtPrepareSnapshotState

\* Every event in PIC_TAKING.
LEMMA PicTakingFits ==
    ASSUME Orderly, OrderlyHw, m_state = "PIC_TAKING", NEW evt \in Events,
           procEvtPicTakingState(evt)
    PROVE  OrderlyHw'
<1>0. /\ Fits(m_state, h0) /\ h0 \in CaptureHw /\ ~hw.longshot
      /\ Fits("PREVIEW_STOPPED", cancelPicture(h0))
  <2>1. Fits(m_state, h0) /\ h0.longshot = hw.longshot
    BY h0Fits
  <2>2. h0 \in CaptureHw
    BY <2>1 DEF Fits
  <2>3. ~h0.longshot
    BY <2>2 DEF CaptureHw, Still, Settled
  <2>4. cancelPicture(h0) \in BareHw
    BY <2>2, cancelCapture
  <2> QED BY <2>1, <2>2, <2>3, <2>4 DEF Fits, States
<1>1. CASE Neutrally(evt, h0) \/ Reject(evt, h0) \/ Ignore(h0)
  BY <1>0, <1>1, StayFits
<1>2. CASE CommitParams(evt, h0)
  BY <1>0, <1>2, CommitParamsFits
<1>3. CASE Answer(evt, "ok", "PREVIEW_STOPPED", cancelPicture(h0))
  BY <1>0, <1>3, AnswerFits
<1>4. CASE Query(evt, FALSE)
  BY <1>0, <1>4, QueryFits
<1>5. CASE CaptureCommand(evt, h0)
  BY <1>0, <1>5, CommandFits
<1>6. CASE ~EarlyRestart /\ Ignore(stopCaptureChannel(h0, FALSE))
  <2>1. stopCaptureChannel(h0, FALSE) \in CaptureHw
    BY <1>0, stopCaptureChannelStays
  <2>2. PICK g \in CaptureHw : Ignore(g)
    BY <1>6, <2>1
  <2>3. Fits(m_state, g)
    BY <2>2 DEF Fits, States
  <2> QED BY <2>2, <2>3, StayFits
<1>7. CASE EvtDone("PREVIEW_STOPPED", cancelPicture(h0), "ok")
  BY <1>0, <1>7, AnswerFits
<1>8. ~EarlyRestart
  BY DEF Orderly
<1> QED
  BY <1>0, <1>1, <1>2, <1>3, <1>4, <1>5, <1>6, <1>7, <1>8
     DEF procEvtPicTakingState

\* Every event in RECORDING.
LEMMA RecordingFits ==
    ASSUME Orderly, OrderlyHw, m_state = "RECORDING", NEW evt \in Events,
           procEvtRecordingState(evt)
    PROVE  OrderlyHw'
<1>0. Fits(m_state, h0) /\ h0 \in RecordHw
  BY h0Fits DEF Fits
<1>1. CASE Neutrally(evt, h0) \/ NoOp(evt, h0) \/ Reject(evt, h0) \/ Ignore(h0)
  BY <1>0, <1>1, StayFits
<1>2. CASE RecordingParams(evt, h0)
  BY <1>0, <1>2, RecordingParamsFits
<1>3. CASE Query(evt, TRUE) \/ Query(evt, FALSE)
  BY <1>0, <1>3, QueryFits
<1>4. CASE Command(evt, h0)
  BY <1>0, <1>4, CommandFits
<1>5. ASSUME NEW o \in takeLiveSnapshot(h0),
             Report(evt, o, IF o.ok THEN "VIDEO_PIC_TAKING" ELSE m_state)
      PROVE  OrderlyHw'
  <2>1. o.ok /\ o.hw \in LiveHw
    BY <1>0, takeLiveSnapshotSnaps
  <2>2. Fits("VIDEO_PIC_TAKING", o.hw) /\ Report(evt, o, "VIDEO_PIC_TAKING")
    BY <1>5, <2>1 DEF Fits, States
  <2> QED BY <2>2, ReportFits
<1>6. ASSUME NEW o \in stopRecording(h0), Report(evt, o, "PREVIEWING")
      PROVE  OrderlyHw'
  <2>1. Fits("PREVIEWING", o.hw)
    BY <1>0, stopRecordingShows DEF Fits, States
  <2> QED BY <1>6, <2>1, ReportFits
<1>7. ASSUME NEW o \in stopRecording(h0),
             Answer(evt, "ok", "PREVIEW_STOPPED", stopPreview(o.hw))
      PROVE  OrderlyHw'
  <2>1. stopPreview(o.hw) \in BareHw
    BY <1>0, stopRecordingShows, stopPreviewBares
  <2>2. Fits("PREVIEW_STOPPED", stopPreview(o.hw))
    BY <2>1 DEF Fits, States
  <2> QED BY <1>7, <2>2, AnswerFits
<1>8. CASE EvtDone(m_state, h0, "ok")
  BY <1>0, <1>8, AnswerFits
<1> QED
  BY <1>1, <1>2, <1>3, <1>4, <1>5, <1>6, <1>7, <1>8 DEF procEvtRecordingState

\* Every event in VIDEO_PIC_TAKING.
LEMMA VideoPicTakingFits ==
    ASSUME Orderly, OrderlyHw, m_state = "VIDEO_PIC_TAKING", NEW evt \in Events,
           procEvtVideoPicTakingState(evt)
    PROVE  OrderlyHw'
<1>0. Fits(m_state, h0) /\ h0 \in LiveHw
  BY h0Fits DEF Fits
<1>c. ASSUME NEW c \in cancelLiveSnapshot(h0)
      PROVE  c.hw \in RecordHw /\ Fits("RECORDING", c.hw)
  BY <1>0, cancelLiveSnapshotRecords DEF Fits, States
<1>1. CASE Neutrally(evt, h0) \/ NoOp(evt, h0) \/ Reject(evt, h0) \/ Ignore(h0)
  BY <1>0, <1>1, StayFits
<1>2. CASE RecordingParams(evt, h0)
  BY <1>0, <1>2, RecordingParamsFits
<1>3. CASE Query(evt, TRUE)
  BY <1>0, <1>3, QueryFits
<1>4. CASE Command(evt, h0)
  BY <1>0, <1>4, CommandFits
<1>5. ASSUME NEW c \in cancelLiveSnapshot(h0), NEW o \in stopRecording(c.hw),
             Report(evt, o, "PREVIEWING")
      PROVE  OrderlyHw'
  <2>1. o.hw \in PreviewHw
    BY <1>c, stopRecordingShows
  <2>2. Fits("PREVIEWING", o.hw)
    BY <2>1 DEF Fits, States
  <2> QED BY <1>5, <2>2, ReportFits
<1>6. ASSUME NEW c \in cancelLiveSnapshot(h0), Report(evt, c, "RECORDING")
      PROVE  OrderlyHw'
  BY <1>c, <1>6, ReportFits
<1>7. ASSUME NEW c \in cancelLiveSnapshot(h0), NEW o \in stopRecording(c.hw),
             Answer(evt, "ok", "PREVIEW_STOPPED", stopPreview(o.hw))
      PROVE  OrderlyHw'
  <2>1. stopPreview(o.hw) \in BareHw
    BY <1>c, stopRecordingShows, stopPreviewBares
  <2>2. Fits("PREVIEW_STOPPED", stopPreview(o.hw))
    BY <2>1 DEF Fits, States
  <2> QED BY <1>7, <2>2, AnswerFits
<1>8. ASSUME NEW c \in cancelLiveSnapshot(h0), EvtDone("RECORDING", c.hw, Status(c))
      PROVE  OrderlyHw'
  BY <1>c, <1>8, AnswerFits
<1> QED
  BY <1>1, <1>2, <1>3, <1>4, <1>5, <1>6, <1>7, <1>8
     DEF procEvtVideoPicTakingState

\* Every event in PREVIEW_PIC_TAKING.
LEMMA PreviewPicTakingFits ==
    ASSUME Orderly, OrderlyHw, m_state = "PREVIEW_PIC_TAKING",
           NEW evt \in Events, procEvtPreviewPicTakingState(evt)
    PROVE  OrderlyHw'
<1>0. /\ Fits(m_state, h0) /\ h0 \in ZslHw /\ h0.zsl /\ hw.zsl /\ ~hw.longshot
      /\ cancelPicture(h0) \in PreviewHw
  <2>1. Fits(m_state, h0) /\ h0.longshot = hw.longshot /\ h0.zsl = hw.zsl
    BY h0Fits
  <2>2. h0 \in ZslHw
    BY <2>1 DEF Fits
  <2>3. ~h0.longshot /\ h0.zsl
    BY <2>2 DEF ZslHw, Still, Settled
  <2> QED BY <2>1, <2>2, <2>3, cancelZsl
<1>c. ASSUME NEW o \in cancelPreviewPicture(h0)
      PROVE  o.hw = cancelPicture(h0)
  BY <1>0, FailFields DEF cancelPreviewPicture
<1>p. Fits("PREVIEWING", cancelPicture(h0))
  BY <1>0 DEF Fits, States
<1>1. CASE Neutrally(evt, h0) \/ NoOp(evt, h0) \/ Reject(evt, h0) \/ Ignore(h0)
  BY <1>0, <1>1, StayFits
<1>2. CASE RestartParams(evt, h0, stopPreview, prepareAndStart, "PIC_TAKING")
  BY <1>0, <1>2, RestartPreviewFits
<1>3. CASE Query(evt, TRUE) \/ Query(evt, FALSE)
  BY <1>0, <1>3, QueryFits
<1>4. CASE CaptureCommand(evt, h0)
  BY <1>0, <1>4, CommandFits
<1>5. ASSUME NEW o \in cancelPreviewPicture(h0), Report(evt, o, "PREVIEWING")
      PROVE  OrderlyHw'
  BY <1>c, <1>p, <1>5, ReportFits
<1>6. ASSUME NEW o \in stopPreviewPicture(h0), Report(evt, o, "PREVIEW_STOPPED")
      PROVE  OrderlyHw'
  <2>1. PICK c \in cancelPreviewPicture(h0) :
          o = [ok |-> c.ok, hw |-> unpreparePreview(c.hw)]
    BY DEF stopPreviewPicture
  <2>2. o.hw = unpreparePreview(cancelPicture(h0))
    BY <1>c, <2>1
  <2>3. o.hw \in BareHw
    BY <1>0, <2>2, unpreparePreviewBares
  <2>4. Fits("PREVIEW_STOPPED", o.hw)
    BY <2>3 DEF Fits, States
  <2> QED BY <1>6, <2>4, ReportFits
<1>7. ASSUME NEW o \in cancelPreviewPicture(h0),
             EvtDone("PREVIEWING", o.hw, Status(o))
      PROVE  OrderlyHw'
  BY <1>c, <1>p, <1>7, AnswerFits
<1> QED
  BY <1>0, <1>1, <1>2, <1>3, <1>4, <1>5, <1>6, <1>7
     DEF procEvtPreviewPicTakingState

-----------------------------------------------------------------------------
(* The machine while nothing fails *)

\* Every event in every state.
LEMMA stateMachineFits ==
    ASSUME Orderly, OrderlyHw, NEW evt \in Events, stateMachine(evt)
    PROVE  OrderlyHw'
BY PreviewStoppedFits, PreviewReadyFits, PreviewingFits, PrepareSnapshotFits,
   PicTakingFits, RecordingFits, VideoPicTakingFits, PreviewPicTakingFits
   DEF stateMachine

\* A running live snapshot is one of VIDEO_PIC_TAKING.
LEMMA Live_Snapshot_threadFits ==
    ASSUME Orderly, OrderlyHw, Live_Snapshot_thread
    PROVE  OrderlyHw'
<1>1. hw.live = "running" /\ m_state' = m_state
  BY DEF Live_Snapshot_thread
<1>2. m_state = "VIDEO_PIC_TAKING"
  BY <1>1 DEF OrderlyHw, Fits, States, BareHw, ReadyHw, PreviewHw, RecordHw, ZslHw,
              CaptureHw, Still
<1>3. PICK o \in takeLiveSnapshot_internal(h0) : hw' = o.hw
  BY DEF Live_Snapshot_thread
<1>4. o.hw \in LiveHw
  BY <1>2, <1>3, h0Fits, liveSnapshotStays DEF Fits
<1> QED BY <1>1, <1>2, <1>3, <1>4 DEF OrderlyHw, Fits, States

\* The hardware is bare when the camera is opened.
LEMMA InitFits == ASSUME Init PROVE OrderlyHw
<1>1. HwInit \in Hw
  BY DEF HwInit, Hw, ChannelStates
<1>2. HwInit \in BareHw
  BY <1>1 DEF HwInit, BareHw, Still, Settled, NoPreview, NoCapture, Channels
<1> QED BY <1>2 DEF Init, OrderlyHw, Fits, States

\* Every step keeps the hardware fit for its state.
LEMMA NextFits == ASSUME Orderly, OrderlyHw, [Next]_vars PROVE OrderlyHw'
<1>1. CASE Next
  BY <1>1, stateMachineFits, Live_Snapshot_threadFits DEF Next
<1>2. CASE UNCHANGED vars
  BY <1>2 DEF vars, OrderlyHw, Fits
<1> QED BY <1>1, <1>2

\* The fitting hardware is what the state says.
LEMMA FitsMatches == ASSUME OrderlyHw PROVE HardwareMatchesState
<1>1. m_state \in States /\ hw \in Hw
  BY FitsMeans DEF OrderlyHw
<1>2. \A c \in Channels : /\ c \in Existing <=> hw.ch[c] # "none"
                          /\ c \in Streaming <=> hw.ch[c] = "started"
  BY DEF Existing, Streaming
<1>3. Existing \subseteq Channels /\ Streaming \subseteq Channels
  BY DEF Existing, Streaming
<1>4. PostprocessorOnlyCaptures
  BY <1>1 DEF OrderlyHw, Fits, States, PostprocessorOnlyCaptures, isCaptureRunning,
              BareHw, ReadyHw, PreviewHw, RecordHw
<1>5. CASE m_state = "PREVIEW_STOPPED"
  <2>1. NoPreview(hw) /\ NoCapture(hw)
    BY <1>5 DEF OrderlyHw, Fits, BareHw
  <2>2. Existing = {}
    BY <1>2, <1>3, <2>1 DEF NoPreview, NoCapture, Channels
  <2> QED BY <1>4, <1>5, <2>2 DEF HardwareMatchesState, StreamsMatchState
<1>6. CASE m_state = "PREVIEW_READY"
  <2>1. Shows(hw, "created")
    BY <1>6 DEF OrderlyHw, Fits, ReadyHw
  <2>2. Streaming = {} /\ previewChannel \in Existing
    BY <1>2, <1>3, <2>1 DEF Shows, NoCapture, Channels, previewChannel
  <2> QED BY <1>4, <1>6, <2>2 DEF HardwareMatchesState, StreamsMatchState
<1>7. CASE m_state \in {"PREVIEWING", "PREPARE_SNAPSHOT", "PREVIEW_PIC_TAKING"}
  <2>1. Shows(hw, "started")
    BY <1>7 DEF OrderlyHw, Fits, PreviewHw, ZslHw
  <2>2. Streaming = {previewChannel}
    BY <1>2, <1>3, <2>1 DEF Shows, NoCapture, Channels, previewChannel
  <2> QED BY <1>4, <1>7, <2>2 DEF HardwareMatchesState, StreamsMatchState
<1>8. CASE m_state = "PIC_TAKING"
  <2>1. /\ ~hw.zsl /\ NoPreview(hw)
        /\ hw.ch[IF hw.raw THEN "RAW" ELSE "CAPTURE"] # "none"
        /\ hw.ch[IF hw.raw THEN "CAPTURE" ELSE "RAW"] = "none"
    BY <1>8 DEF OrderlyHw, Fits, CaptureHw
  <2>2. Existing = {captureChannel}
    BY <1>2, <1>3, <2>1 DEF NoPreview, Channels, captureChannel
  <2> QED BY <1>4, <1>8, <2>1, <2>2 DEF HardwareMatchesState, StreamsMatchState
<1>9. CASE m_state \in {"RECORDING", "VIDEO_PIC_TAKING"}
  <2>1. Records(hw)
    BY <1>9 DEF OrderlyHw, Fits, RecordHw, LiveHw
  <2>2. {"PREVIEW", "VIDEO"} \subseteq Streaming /\ hw.hint
    BY <1>2, <2>1 DEF Records, Channels
  <2> QED BY <1>4, <1>9, <2>2 DEF HardwareMatchesState, StreamsMatchState
<1> QED BY <1>1, <1>5, <1>6, <1>7, <1>8, <1>9 DEF States

\* While no call fails, and the application neither uses longshot and early
\* restart nor changes modes while the camera is busy, the state tells what
\* the hardware does: whatever the order of events, no stream or postprocessor
\* outlives its state, and none that it needs is missing.
THEOREM HardwareCorrect == ASSUME Orderly PROVE Spec => []HardwareMatchesState
<1>1. Init => OrderlyHw
  BY InitFits
<1>2. OrderlyHw /\ [Next]_vars => OrderlyHw'
  BY NextFits
<1>3. OrderlyHw => HardwareMatchesState
  BY FitsMatches
<1> QED BY <1>1, <1>2, <1>3, PTL DEF Spec
=============================================================================
