--------------------------- MODULE CameraApi_proofs ---------------------------
(***************************************************************************)
(* Proofs about CameraApi, for any number of callers and calls: no caller  *)
(* sleeps while its answer lies in the list, each gets the answer to its   *)
(* own call, and the whole does what ApiCall promises, but for liveness.   *)
(*                                                                         *)
(* The argument follows a request: it is in one place at a time, in the    *)
(* API queue, with the state machine (which keeps PREPARE_SNAPSHOT until   *)
(* the backend is ready) or, as an answer, in the list.  Answers are told  *)
(* apart by their event only, so the last two results need callers that    *)
(* keep their events apart and leave CANCEL_PICTURE to the hardware        *)
(* interface.                                                              *)
(***************************************************************************)
EXTENDS CameraApi, SequenceTheorems, TLAPS

\* The events t sends: take_picture may send PREPARE_SNAPSHOT first.
Sent(t) == Calls[t] \cup
           (IF "TAKE_PICTURE" \in Calls[t] THEN {"PREPARE_SNAPSHOT"} ELSE {})

\* Nobody sends what another caller or the hardware interface itself does.
EventsApart ==
    /\ \A t, u \in Threads : t # u => Sent(t) \cap Sent(u) = {}
    /\ \A t \in Threads : "CANCEL_PICTURE" \notin Sent(t)

-----------------------------------------------------------------------------
(* The inductive invariant *)

ApiNodes == [evt: ApiEvents \cup {"EXIT"}, by: Owners]
Results == [evt: ApiEvents, by: Owners]
EvtNodes == [evt: {"SNAPSHOT_DONE", "PREP_SNAPSHOT_DONE"}, of: Nat]
Caller == [pc: {"idle", "enqueued", "posted", "waiting", "woken"},
           evt: ApiEvents \cup {"none"}, then: BOOLEAN]

CallTypes ==
    /\ thr \in [Threads -> Caller]
    /\ m_lock \in Owners
    /\ m_apiResultList \in Seq(Results)
    /\ api_queue \in Seq(ApiNodes)
    /\ evt_queue \in Seq(EvtNodes)
    /\ by \in Owners /\ prepareBy \in Owners
    /\ got \in [Threads -> Owners] /\ capture \in Nat

Elements(s) == {s[i] : i \in 1..Len(s)}

\* t has one node in s at most.
AtMostOne(s, t) ==
    \A i, k \in 1..Len(s) : s[i].by = t /\ s[k].by = t => i = k

\* Where the request of t, or its answer, can be.
Queued(t) == \E n \in Elements(api_queue) : n.by = t
Prepared(t) == m_state = "PREPARE_SNAPSHOT" /\ prepareBy = t
InHand(t) == reply.to = "api" /\ by = t
Listed(t) == \E n \in Elements(m_apiResultList) : n.by = t

Calling(t) == thr[t].pc # "idle"

\* A request is in one place, for the call its caller is in.
OnePlace ==
    \A t \in Threads :
        /\ AtMostOne(api_queue, t) /\ AtMostOne(m_apiResultList, t)
        /\ Queued(t) => ~Prepared(t) /\ ~InHand(t) /\ ~Listed(t)
        /\ Prepared(t) => ~InHand(t) /\ ~Listed(t)
        /\ InHand(t) => ~Listed(t)
        /\ Queued(t) \/ Prepared(t) \/ InHand(t) \/ Listed(t) => Calling(t)

\* It carries the caller's event all the way.
SameEvent ==
    \A t \in Threads :
        /\ \A n \in Elements(api_queue) : n.by = t => n.evt = thr[t].evt
        /\ Prepared(t) => thr[t].evt = "PREPARE_SNAPSHOT"
        /\ InHand(t) => reply.evt = thr[t].evt
        /\ \A n \in Elements(m_apiResultList) : n.by = t => n.evt = thr[t].evt

\* What nobody waits for is EXIT or a CANCEL_PICTURE.
NobodyCancels ==
    /\ \A n \in Elements(api_queue) : n.by = Nobody => n.evt \in {"EXIT", "CANCEL_PICTURE"}
    /\ InHand(Nobody) => reply.evt = "CANCEL_PICTURE"
    /\ \A n \in Elements(m_apiResultList) : n.by = Nobody => n.evt = "CANCEL_PICTURE"
    /\ m_state = "PREPARE_SNAPSHOT" => prepareBy # Nobody

\* A caller sends its own events, holds the lock until it waits, and is
\* awake once its answer is in the list.
CallersWait ==
    \A t \in Threads :
        /\ Calling(t) => thr[t].evt \in Sent(t)
        /\ Calling(t) /\ thr[t].then => "TAKE_PICTURE" \in Calls[t]
        /\ thr[t].pc \in {"enqueued", "posted"} => m_lock = t
        /\ Listed(t) => thr[t].pc = "woken"

CallInv == CallTypes /\ OnePlace /\ SameEvent /\ NobodyCancels /\ CallersWait

-----------------------------------------------------------------------------
(* What the state machine answers *)

\* An API event is answered under its own name, or kept until the backend is
\* ready.
ApiOutcome(evt) ==
    \/ /\ reply'.to = "api" /\ reply'.evt = evt
       /\ m_state' = "PREPARE_SNAPSHOT" <=> m_state = "PREPARE_SNAPSHOT"
    \/ /\ reply' = Silence /\ m_state' = "PREPARE_SNAPSHOT"
       /\ m_state = "PREPARE_SNAPSHOT" \/ evt = "PREPARE_SNAPSHOT"

\* A backend event answers no caller but the one PREPARE_SNAPSHOT keeps.
EvtOutcome ==
    \/ /\ reply'.to # "api"
       /\ m_state' = "PREPARE_SNAPSHOT" <=> m_state = "PREPARE_SNAPSHOT"
    \/ /\ reply'.to = "api" /\ reply'.evt = "PREPARE_SNAPSHOT"
       /\ m_state = "PREPARE_SNAPSHOT" /\ m_state' # "PREPARE_SNAPSHOT"

\* The ways a handler ends.
LEMMA Reported ==
  ASSUME NEW evt, NEW o, NEW st, Report(evt, o, st)
  PROVE  reply'.to = "api" /\ reply'.evt = evt /\ m_state' = st
BY DEF Report, Answer, Become, Api

LEMMA Stayed ==
  ASSUME NEW evt, NEW h,
         Reject(evt, h) \/ NoOp(evt, h) \/ Neutrally(evt, h)
  PROVE  reply'.to = "api" /\ reply'.evt = evt /\ m_state' = m_state
BY DEF Reject, NoOp, Neutrally, Stay, Become, Api

LEMMA Committed ==
  ASSUME NEW evt, NEW h, CommitParams(evt, h)
  PROVE  reply'.to = "api" /\ reply'.evt = evt /\ m_state' = m_state
BY Reported, Stayed DEF CommitParams

LEMMA CommittedWhileRecording ==
  ASSUME NEW evt, NEW h, RecordingParams(evt, h)
  PROVE  reply'.to = "api" /\ reply'.evt = evt /\ m_state' = m_state
BY Reported, Stayed DEF RecordingParams

LEMMA Commanded ==
  ASSUME NEW evt, NEW h, Command(evt, h) \/ PreviewingCommand(evt, h)
  PROVE  reply'.to = "api" /\ reply'.evt = evt /\ m_state' = m_state
BY Reported DEF Command, PreviewingCommand

LEMMA CaptureCommanded ==
  ASSUME NEW evt, NEW h, CaptureCommand(evt, h)
  PROVE  /\ reply'.to = "api" /\ reply'.evt = evt
         /\ m_state' \in {m_state, "PREVIEWING"}
BY Reported DEF CaptureCommand

LEMMA PreviewStoppedAnswers ==
  ASSUME NEW evt \in ApiEvents, m_state = "PREVIEW_STOPPED",
         procEvtPreviewStoppedState(evt)
  PROVE  ApiOutcome(evt)
BY Reported, Stayed, Committed, Commanded
   DEF procEvtPreviewStoppedState, ApiOutcome, Query, NoOp, Answer, Become,
       Stay, Api, StartPreviewFrom, ApiEvents, Neutral, InternalEvents

LEMMA PreviewStoppedHears ==
  ASSUME NEW evt \in InternalEvents, m_state = "PREVIEW_STOPPED",
         procEvtPreviewStoppedState(evt)
  PROVE  EvtOutcome
BY DEF procEvtPreviewStoppedState, EvtOutcome, EvtDone, Ignore, Query, Become, Stay, Silence,
       InternalEvents, Neutral

LEMMA PreviewReadyAnswers ==
  ASSUME NEW evt \in ApiEvents, m_state = "PREVIEW_READY",
         procEvtPreviewReadyState(evt)
  PROVE  ApiOutcome(evt)
BY Reported, Stayed, Committed, Commanded, CaptureCommanded
   DEF procEvtPreviewReadyState, ApiOutcome, Query, Answer, Become, Stay, Api, Silence,
       ApiEvents, Neutral, InternalEvents, RestartParams

LEMMA PreviewReadyHears ==
  ASSUME NEW evt \in InternalEvents, m_state = "PREVIEW_READY",
         procEvtPreviewReadyState(evt)
  PROVE  EvtOutcome
BY DEF procEvtPreviewReadyState, EvtOutcome, EvtDone, Ignore, Query, RestartParams, Become, Stay, Silence,
       InternalEvents, Neutral

LEMMA PreviewingAnswers ==
  ASSUME NEW evt \in ApiEvents, m_state = "PREVIEWING",
         procEvtPreviewingState(evt)
  PROVE  ApiOutcome(evt)
BY Reported, Stayed, Committed, Commanded, CaptureCommanded
   DEF procEvtPreviewingState, ApiOutcome, Query, Answer, Become, Stay, Api, Silence,
       ApiEvents, Neutral, InternalEvents, RestartParams, TakePicture

LEMMA PreviewingHears ==
  ASSUME NEW evt \in InternalEvents, m_state = "PREVIEWING",
         procEvtPreviewingState(evt)
  PROVE  EvtOutcome
BY DEF procEvtPreviewingState, EvtOutcome, EvtDone, Ignore, Query, RestartParams, Become, Stay, Silence,
       InternalEvents, Neutral

LEMMA PicTakingAnswers ==
  ASSUME NEW evt \in ApiEvents, m_state = "PIC_TAKING",
         procEvtPicTakingState(evt)
  PROVE  ApiOutcome(evt)
<1>1. PICK h : \/ Query(evt, FALSE)
                \/ Reject(evt, h) \/ Neutrally(evt, h)
                \/ CommitParams(evt, h) \/ CaptureCommand(evt, h)
                \/ Answer(evt, "ok", "PREVIEW_STOPPED", h)
                \/ Report(evt, h, m_state)
  BY Zenon DEF procEvtPicTakingState, Neutral, InternalEvents, ApiEvents
<1> QED
  BY <1>1, Reported, Stayed, Committed, CaptureCommanded
     DEF ApiOutcome, Query, Answer, Become, Stay, Api

LEMMA PicTakingHears ==
  ASSUME NEW evt \in InternalEvents, m_state = "PIC_TAKING",
         procEvtPicTakingState(evt)
  PROVE  EvtOutcome
<1>1. CASE evt = "SNAPSHOT_DONE"
  BY <1>1 DEF procEvtPicTakingState, EvtOutcome, EvtDone, Become, InternalEvents, Neutral
<1>2. CASE evt # "SNAPSHOT_DONE"
  <2>1. \E h : Ignore(h)
    BY <1>2, Zenon DEF procEvtPicTakingState, InternalEvents, Neutral
  <2> QED BY <2>1 DEF EvtOutcome, Ignore, Become, Stay, Silence
<1> QED BY <1>1, <1>2

LEMMA RecordingAnswers ==
  ASSUME NEW evt \in ApiEvents, m_state = "RECORDING",
         procEvtRecordingState(evt)
  PROVE  ApiOutcome(evt)
BY Reported, Stayed, CommittedWhileRecording, Commanded, CaptureCommanded
   DEF procEvtRecordingState, ApiOutcome, Query, Answer, Become, Stay, Api, Silence,
       ApiEvents, Neutral, InternalEvents

LEMMA RecordingHears ==
  ASSUME NEW evt \in InternalEvents, m_state = "RECORDING",
         procEvtRecordingState(evt)
  PROVE  EvtOutcome
BY DEF procEvtRecordingState, EvtOutcome, EvtDone, Ignore, Query, Become, Stay, Silence,
       InternalEvents, Neutral

LEMMA VideoPicTakingAnswers ==
  ASSUME NEW evt \in ApiEvents, m_state = "VIDEO_PIC_TAKING",
         procEvtVideoPicTakingState(evt)
  PROVE  ApiOutcome(evt)
BY Reported, Stayed, CommittedWhileRecording, Commanded, CaptureCommanded
   DEF procEvtVideoPicTakingState, ApiOutcome, Query, Answer, Become, Stay, Api, Silence,
       ApiEvents, Neutral, InternalEvents

LEMMA VideoPicTakingHears ==
  ASSUME NEW evt \in InternalEvents, m_state = "VIDEO_PIC_TAKING",
         procEvtVideoPicTakingState(evt)
  PROVE  EvtOutcome
BY DEF procEvtVideoPicTakingState, EvtOutcome, EvtDone, Ignore, Query, Become, Stay, Silence,
       InternalEvents, Neutral

LEMMA PreviewPicTakingAnswers ==
  ASSUME NEW evt \in ApiEvents, m_state = "PREVIEW_PIC_TAKING",
         procEvtPreviewPicTakingState(evt)
  PROVE  ApiOutcome(evt)
BY Reported, Stayed, Committed, Commanded, CaptureCommanded
   DEF procEvtPreviewPicTakingState, ApiOutcome, Query, Answer, Become, Stay, Api, Silence,
       ApiEvents, Neutral, InternalEvents, RestartParams

LEMMA PreviewPicTakingHears ==
  ASSUME NEW evt \in InternalEvents, m_state = "PREVIEW_PIC_TAKING",
         procEvtPreviewPicTakingState(evt)
  PROVE  EvtOutcome
BY DEF procEvtPreviewPicTakingState, EvtOutcome, EvtDone, Ignore, Query, Become, Stay, Silence,
       InternalEvents, Neutral

LEMMA PrepareSnapshotAnswers ==
  ASSUME NEW evt \in ApiEvents, m_state = "PREPARE_SNAPSHOT",
         procEvtPrepareSnapshotState(evt)
  PROVE  ApiOutcome(evt)
BY Stayed
   DEF procEvtPrepareSnapshotState, ApiOutcome, Ignore, Become, Stay, Silence,
       ApiEvents, Neutral, InternalEvents

LEMMA PrepareSnapshotHears ==
  ASSUME NEW evt \in InternalEvents, m_state = "PREPARE_SNAPSHOT",
         procEvtPrepareSnapshotState(evt)
  PROVE  EvtOutcome
BY DEF procEvtPrepareSnapshotState, EvtOutcome, EvtDone, Ignore, Answer, Become,
       Stay, Api, Silence, ApiEvents, Neutral, InternalEvents

\* What one event does to the requests.
LEMMA StateMachineAnswers ==
  ASSUME NEW evt, stateMachine(evt)
  PROVE  /\ evt \in ApiEvents => ApiOutcome(evt)
         /\ evt \in InternalEvents => EvtOutcome
BY Zenon, PreviewStoppedAnswers, PreviewReadyAnswers, PreviewingAnswers,
   PrepareSnapshotAnswers, PicTakingAnswers, RecordingAnswers,
   VideoPicTakingAnswers, PreviewPicTakingAnswers, PreviewStoppedHears,
   PreviewReadyHears, PreviewingHears, PrepareSnapshotHears, PicTakingHears,
   RecordingHears, VideoPicTakingHears, PreviewPicTakingHears
   DEF stateMachine

-----------------------------------------------------------------------------
(* Sequences *)

LEMMA ElementsOfAppend ==
  ASSUME NEW S, NEW s \in Seq(S), NEW x \in S
  PROVE  Elements(Append(s, x)) = Elements(s) \cup {x}
BY DEF Elements

LEMMA PostedOneOrNone ==
  ASSUME NEW S, NEW s \in Seq(S), NEW x \in S, NEW f \in {<<>>, <<x>>}
  PROVE  s \o f \in {s, Append(s, x)}
<1>1. s \o <<>> = s
  OBVIOUS
<1>2. s \o <<x>> = Append(s, x)
  OBVIOUS
<1> QED BY <1>1, <1>2

\* Posting one node, or none.
LEMMA ElementsOfPost ==
  ASSUME NEW S, NEW s \in Seq(S), NEW x \in S, NEW f \in {<<>>, <<x>>}
  PROVE  /\ s \o f \in Seq(S)
         /\ Elements(s \o f) \subseteq Elements(s) \cup {x}
<1>1. s \o f = s \/ s \o f = Append(s, x)
  BY PostedOneOrNone
<1>2. Append(s, x) \in Seq(S) /\ Elements(Append(s, x)) = Elements(s) \cup {x}
  BY ElementsOfAppend
<1> QED BY <1>1, <1>2

LEMMA ElementsOfTail ==
  ASSUME NEW S, NEW s \in Seq(S), s # <<>>
  PROVE  /\ Head(s) \in Elements(s) /\ Head(s) \in S
         /\ Tail(s) \in Seq(S)
         /\ Elements(Tail(s)) \subseteq Elements(s)
BY DEF Elements

LEMMA RemovedOne ==
  ASSUME NEW S, NEW s \in Seq(S), NEW i \in 1..Len(s)
  PROVE  /\ RemoveAt(s, i) \in Seq(S)
         /\ Len(RemoveAt(s, i)) = Len(s) - 1
         /\ \A k \in 1..(Len(s) - 1) :
              RemoveAt(s, i)[k] = IF k < i THEN s[k] ELSE s[k + 1]
<1> DEFINE before == SubSeq(s, 1, i - 1)
           after == SubSeq(s, i + 1, Len(s))
<1>1. /\ before \in Seq(S) /\ Len(before) = i - 1
      /\ \A k \in 1..(i - 1) : before[k] = s[k]
  OBVIOUS
<1>2. /\ after \in Seq(S) /\ Len(after) = Len(s) - i
      /\ \A k \in 1..(Len(s) - i) : after[k] = s[i + k]
  OBVIOUS
<1>3. RemoveAt(s, i) = before \o after
  BY DEF RemoveAt
<1> HIDE DEF before, after
<1>4. /\ before \o after \in Seq(S)
      /\ Len(before \o after) = Len(before) + Len(after)
      /\ \A k \in 1..(Len(before) + Len(after)) :
           (before \o after)[k] = IF k <= Len(before) THEN before[k]
                                  ELSE after[k - Len(before)]
  BY <1>1, <1>2, ConcatProperties
<1>5. Len(RemoveAt(s, i)) = Len(s) - 1
  BY <1>1, <1>2, <1>3, <1>4
<1>6. ASSUME NEW k \in 1..(Len(s) - 1)
      PROVE  RemoveAt(s, i)[k] = IF k < i THEN s[k] ELSE s[k + 1]
  <2>1. CASE k < i
    BY <2>1, <1>1, <1>2, <1>3, <1>4
  <2>2. CASE ~(k < i)
    <3>1. k \in 1..(Len(before) + Len(after)) /\ ~(k <= Len(before))
          /\ k - Len(before) = k - i + 1 /\ k - i + 1 \in 1..(Len(s) - i)
      BY <2>2, <1>1, <1>2
    <3>2. after[k - i + 1] = s[i + (k - i + 1)]
      BY <3>1, <1>2
    <3>3. i + (k - i + 1) = k + 1
      OBVIOUS
    <3> QED BY <2>2, <3>1, <3>2, <3>3, <1>3, <1>4
  <2> QED BY <2>1, <2>2
<1> QED BY <1>3, <1>4, <1>5, <1>6

LEMMA ElementsOfRemoveAt ==
  ASSUME NEW S, NEW s \in Seq(S), NEW i \in 1..Len(s)
  PROVE  /\ RemoveAt(s, i) \in Seq(S)
         /\ Elements(RemoveAt(s, i)) \subseteq Elements(s)
<1>1. /\ RemoveAt(s, i) \in Seq(S)
      /\ Len(RemoveAt(s, i)) = Len(s) - 1
      /\ \A k \in 1..(Len(s) - 1) :
           RemoveAt(s, i)[k] = IF k < i THEN s[k] ELSE s[k + 1]
  BY RemovedOne
<1> QED BY <1>1 DEF Elements

LEMMA OthersStay ==
  ASSUME NEW S, NEW s \in Seq(S), NEW i \in 1..Len(s),
         NEW n \in Elements(s), n # s[i]
  PROVE  n \in Elements(RemoveAt(s, i))
<1>1. /\ Len(RemoveAt(s, i)) = Len(s) - 1
      /\ \A k \in 1..(Len(s) - 1) :
           RemoveAt(s, i)[k] = IF k < i THEN s[k] ELSE s[k + 1]
  BY RemovedOne
<1>2. PICK k \in 1..Len(s) : n = s[k]
  BY DEF Elements
<1>3. CASE k < i
  <2>1. k \in 1..(Len(s) - 1) /\ RemoveAt(s, i)[k] = n
    BY <1>1, <1>2, <1>3
  <2> QED BY <1>1, <2>1 DEF Elements
<1>4. CASE k > i
  <2>1. PICK m \in 1..(Len(s) - 1) : m + 1 = k /\ ~(m < i)
    <3>1. k - 1 \in 1..(Len(s) - 1) /\ (k - 1) + 1 = k /\ ~(k - 1 < i)
      BY <1>4
    <3> QED BY <3>1
  <2>2. RemoveAt(s, i)[m] = n
    BY <1>1, <1>2, <2>1
  <2> QED BY <1>1, <2>2 DEF Elements
<1> QED BY <1>2, <1>3, <1>4

LEMMA AtMostOneAppend ==
  ASSUME NEW S, NEW s \in Seq(S), NEW x \in S, NEW t,
         AtMostOne(s, t), x.by = t => \A n \in Elements(s) : n.by # t
  PROVE  AtMostOne(Append(s, x), t)
BY DEF AtMostOne, Elements

LEMMA AtMostOnePost ==
  ASSUME NEW S, NEW s \in Seq(S), NEW x \in S, NEW f \in {<<>>, <<x>>}, NEW t,
         AtMostOne(s, t), x.by # t
  PROVE  AtMostOne(s \o f, t)
<1>1. s \o f = s \/ s \o f = Append(s, x)
  BY PostedOneOrNone
<1>2. AtMostOne(Append(s, x), t)
  BY AtMostOneAppend
<1> QED BY <1>1, <1>2

LEMMA AtMostOneTail ==
  ASSUME NEW S, NEW s \in Seq(S), s # <<>>, NEW t, AtMostOne(s, t)
  PROVE  /\ AtMostOne(Tail(s), t)
         /\ Head(s).by = t => \A n \in Elements(Tail(s)) : n.by # t
BY DEF AtMostOne, Elements

LEMMA AtMostOneRemoveAt ==
  ASSUME NEW S, NEW s \in Seq(S), NEW i \in 1..Len(s), NEW t, AtMostOne(s, t)
  PROVE  /\ AtMostOne(RemoveAt(s, i), t)
         /\ s[i].by = t => \A n \in Elements(RemoveAt(s, i)) : n.by # t
<1>1. /\ RemoveAt(s, i) \in Seq(S)
      /\ Len(RemoveAt(s, i)) = Len(s) - 1
      /\ \A k \in 1..(Len(s) - 1) :
           RemoveAt(s, i)[k] = IF k < i THEN s[k] ELSE s[k + 1]
  BY RemovedOne
<1>2. ASSUME NEW k \in 1..(Len(s) - 1), RemoveAt(s, i)[k].by = t
      PROVE  IF k < i THEN s[k].by = t ELSE s[k + 1].by = t
  BY <1>1, <1>2
<1>3. AtMostOne(RemoveAt(s, i), t)
  BY SMTT(30), <1>1, <1>2 DEF AtMostOne
<1>4. ASSUME s[i].by = t, NEW n \in Elements(RemoveAt(s, i)), n.by = t
      PROVE  FALSE
  <2>1. PICK k \in 1..(Len(s) - 1) : n = RemoveAt(s, i)[k]
    BY <1>1, <1>4 DEF Elements
  <2> QED BY <2>1, <1>2, <1>4 DEF AtMostOne
<1> QED BY <1>3, <1>4

-----------------------------------------------------------------------------
(* Every step keeps the invariant *)

\* Where a request is decides on what the invariant says of its caller.
Request(t) ==
    /\ AtMostOne(api_queue, t) /\ AtMostOne(m_apiResultList, t)
    /\ Queued(t) => ~Prepared(t) /\ ~InHand(t) /\ ~Listed(t)
    /\ Prepared(t) => ~InHand(t) /\ ~Listed(t)
    /\ InHand(t) => ~Listed(t)
    /\ Queued(t) \/ Prepared(t) \/ InHand(t) \/ Listed(t) => Calling(t)
    /\ \A n \in Elements(api_queue) : n.by = t => n.evt = thr[t].evt
    /\ Prepared(t) => thr[t].evt = "PREPARE_SNAPSHOT"
    /\ InHand(t) => reply.evt = thr[t].evt
    /\ \A n \in Elements(m_apiResultList) : n.by = t => n.evt = thr[t].evt
    /\ Calling(t) => thr[t].evt \in Sent(t)
    /\ Calling(t) /\ thr[t].then => "TAKE_PICTURE" \in Calls[t]
    /\ thr[t].pc \in {"enqueued", "posted"} => m_lock = t
    /\ Listed(t) => thr[t].pc = "woken"

LEMMA InvByRequest ==
  CallInv <=> CallTypes /\ NobodyCancels /\ \A t \in Threads : Request(t)
BY DEF CallInv, OnePlace, SameEvent, CallersWait, Request

LEMMA InvByRequestPrimed ==
  CallInv' <=> CallTypes' /\ NobodyCancels' /\ \A t \in Threads : Request(t)'
BY DEF CallInv, OnePlace, SameEvent, CallersWait, Request

\* A caller sends API events.
LEMMA SentAreApiEvents ==
  ASSUME NEW t \in Threads
  PROVE  Sent(t) \subseteq ApiEvents
BY ApiAssumption DEF Sent, ApiEvents

LEMMA InitCalls ==
  ASSUME ApiInit
  PROVE  CallInv
<1>1. CallTypes
  BY DEF ApiInit, CallTypes, Caller, Owners
<1>2. NobodyCancels
  BY DEF ApiInit, Init, NobodyCancels, InHand, Silence, Elements
<1>3. ASSUME NEW t \in Threads
      PROVE  Request(t)
  BY DEF ApiInit, Init, Request, Queued, Prepared, InHand, Listed, Calling,
         Silence, Elements, AtMostOne
<1> QED BY <1>1, <1>2, <1>3, InvByRequest

LEMMA ProcessAPIStep ==
  ASSUME CallInv, NEW t \in Threads, NEW evt \in Calls[t], processAPI(t, evt)
  PROVE  CallInv'
<1> USE DEF Prepared, InHand
<1>1. PICK first \in Sent(t), flash \in BOOLEAN :
        /\ flash => evt = "TAKE_PICTURE"
        /\ Thr(t, "enqueued", first, flash)
        /\ api_queue' = Append(api_queue, ApiNode(first, t))
  BY DEF processAPI, Sent
<1>2. /\ m_state' = m_state /\ reply' = reply
      /\ by' = by /\ prepareBy' = prepareBy /\ got' = got /\ capture' = capture
      /\ m_apiResultList' = m_apiResultList /\ evt_queue' = evt_queue
      /\ m_lock = Nobody /\ m_lock' = t /\ thr[t].pc = "idle"
  BY DEF processAPI, vars, ghosts
<1>3. CallTypes /\ NobodyCancels /\ \A u \in Threads : Request(u)
  BY InvByRequest
<1>4. ApiNode(first, t) \in ApiNodes
  BY SentAreApiEvents DEF ApiNode, ApiNodes, Owners
<1>5. Elements(api_queue') = Elements(api_queue) \cup {ApiNode(first, t)}
  BY <1>1, <1>3, <1>4, ElementsOfAppend DEF CallTypes
<1>6. thr' = [thr EXCEPT ![t] = [pc |-> "enqueued", evt |-> first, then |-> flash]]
  BY <1>1 DEF Thr
<1>7. CallTypes'
  BY <1>1, <1>2, <1>3, <1>4, <1>6, SentAreApiEvents DEF CallTypes, Caller, Owners
<1>8. NobodyCancels'
  BY <1>2, <1>3, <1>5, ApiAssumption DEF NobodyCancels, ApiNode
<1>9. ASSUME NEW u \in Threads
      PROVE  Request(u)'
  <2>1. Request(u) /\ thr \in [Threads -> Caller]
    BY <1>3 DEF CallTypes
  <2>2. u = t => ~Queued(u) /\ ~Prepared(u) /\ ~InHand(u) /\ ~Listed(u)
    BY <1>2, <2>1 DEF Request, Calling
  <2>3. AtMostOne(api_queue', u)
    BY <1>1, <1>3, <1>4, <2>1, <2>2, AtMostOneAppend
       DEF CallTypes, Request, Queued, ApiNode
  <2>4. CASE u = t
    BY <1>1, <1>2, <1>5, <1>6, <2>1, <2>2, <2>3, <2>4
       DEF Request, Queued, Listed, Calling, ApiNode
  <2>5. CASE u # t
    BY <1>2, <1>5, <1>6, <2>1, <2>3, <2>5, ApiAssumption
       DEF Request, Queued, Listed, Calling, ApiNode
  <2> QED BY <2>4, <2>5
<1> QED BY <1>7, <1>8, <1>9, InvByRequestPrimed

\* What only moves a caller on.
LEMMA CallerMoves ==
  ASSUME CallInv, NEW t \in Threads, NEW pc \in {"posted", "waiting", "woken"},
         thr' = [thr EXCEPT ![t].pc = pc],
         \/ pc = "posted" /\ thr[t].pc = "enqueued" /\ m_lock' = m_lock
         \/ pc = "waiting" /\ thr[t].pc = "posted" /\ m_lock' = Nobody
         \/ pc = "waiting" /\ thr[t].pc = "woken" /\ ~Listed(t) /\ m_lock' = m_lock
         \/ pc = "woken" /\ thr[t].pc = "waiting" /\ m_lock' = m_lock,
         UNCHANGED <<m_state, reply, api_queue, evt_queue, m_apiResultList, by,
                     prepareBy, got, capture>>
  PROVE  CallInv'
<1> USE DEF Prepared, InHand
<1>1. CallTypes /\ NobodyCancels /\ \A u \in Threads : Request(u)
  BY InvByRequest
<1>2. CallTypes'
  BY ZenonT(40), <1>1 DEF CallTypes, Caller, Owners
<1>3. NobodyCancels'
  BY <1>1 DEF NobodyCancels
<1>4. ASSUME NEW u \in Threads
      PROVE  Request(u)'
  <2>1. /\ thr'[u].evt = thr[u].evt /\ thr'[u].then = thr[u].then
        /\ thr'[u].pc = IF u = t THEN pc ELSE thr[u].pc
    BY <1>1 DEF CallTypes, Caller
  <2>2. Request(u) /\ Request(t)
    BY <1>1
  <2> QED
    BY <2>1, <2>2, ApiAssumption DEF Request, Queued, Listed, Calling
<1> QED BY <1>2, <1>3, <1>4, InvByRequestPrimed

LEMMA StillWaitingStep ==
  ASSUME CallInv, NEW t \in Threads, stillWaiting(t)
  PROVE  CallInv'
<1>1. ~Listed(t)
  <2>1. \A i \in 1..Len(m_apiResultList) : m_apiResultList[i].evt # thr[t].evt
    BY DEF stillWaiting, Mine, CallInv, CallTypes
  <2> QED BY <2>1 DEF Listed, Elements, CallInv, SameEvent
<1> QED BY <1>1, CallerMoves DEF stillWaiting, vars, queueVars, ghosts

LEMMA MovesStep ==
  ASSUME CallInv, NEW t \in Threads,
         postAPI(t) \/ waitAPIResult(t) \/ spuriousWakeup(t)
  PROVE  CallInv'
BY CallerMoves
   DEF postAPI, waitAPIResult, spuriousWakeup, vars, queueVars, ghosts

\* The result a caller finds is the answer to its own call.
LEMMA MineIsMine ==
  ASSUME EventsApart, CallInv, NEW t \in Threads, Calling(t), NEW i \in Mine(t)
  PROVE  /\ i \in 1..Len(m_apiResultList)
         /\ m_apiResultList[i].by = t
<1> DEFINE n == m_apiResultList[i]
<1>1. /\ i \in 1..Len(m_apiResultList) /\ n.evt = thr[t].evt
      /\ n \in Results /\ n \in Elements(m_apiResultList)
  BY DEF Mine, CallInv, CallTypes, Elements
<1>2. n.evt \in Sent(t)
  BY <1>1 DEF CallInv, CallersWait
<1>3. n.by # Nobody
  BY <1>1, <1>2 DEF CallInv, NobodyCancels, EventsApart
<1>4. n.by \in Threads
  BY <1>1, <1>3 DEF Results, Owners
<1>5. Listed(n.by)
  BY <1>1 DEF Listed
<1>6. Calling(n.by) /\ n.evt = thr[n.by].evt
  BY <1>1, <1>4, <1>5 DEF CallInv, OnePlace, SameEvent
<1>7. n.evt \in Sent(n.by)
  BY <1>4, <1>6 DEF CallInv, CallersWait
<1> QED BY <1>1, <1>2, <1>4, <1>7 DEF EventsApart

LEMMA ResultReceivedStep ==
  ASSUME EventsApart, CallInv, NEW t \in Threads, resultReceived(t)
  PROVE  CallInv' /\ got' = [got EXCEPT ![t] = t]
<1> USE DEF Prepared, InHand
<1> DEFINE again == ApiNode("TAKE_PICTURE", t)
<1>1. /\ m_state' = m_state /\ reply' = reply
      /\ by' = by /\ prepareBy' = prepareBy /\ capture' = capture
      /\ evt_queue' = evt_queue /\ m_lock = Nobody /\ thr[t].pc = "woken"
  BY DEF resultReceived, vars
<1>2. CallTypes /\ NobodyCancels /\ \A u \in Threads : Request(u)
  BY InvByRequest
<1>3. PICK i \in Mine(t) :
        /\ got' = [got EXCEPT ![t] = m_apiResultList[i].by]
        /\ m_apiResultList' = RemoveAt(m_apiResultList, i)
  BY DEF resultReceived
<1>4. i \in 1..Len(m_apiResultList) /\ m_apiResultList[i].by = t
  BY <1>1, <1>3, MineIsMine DEF Calling
<1>5. /\ m_apiResultList' \in Seq(Results)
      /\ Elements(m_apiResultList') \subseteq Elements(m_apiResultList)
  BY <1>2, <1>3, <1>4, ElementsOfRemoveAt DEF CallTypes
<1>6. \A u \in Threads : AtMostOne(m_apiResultList', u)
  BY <1>2, <1>3, <1>4, AtMostOneRemoveAt DEF CallTypes, Request
<1>7. \A n \in Elements(m_apiResultList') : n.by # t
  BY <1>2, <1>3, <1>4, AtMostOneRemoveAt DEF CallTypes, Request
<1>8. Listed(t) /\ ~Queued(t) /\ ~Prepared(t) /\ ~InHand(t)
  <2>1. Listed(t)
    BY <1>4 DEF Listed, Elements
  <2> QED BY <2>1, <1>2 DEF Request
<1>9. got' = [got EXCEPT ![t] = t] /\ got' \in [Threads -> Owners]
  BY <1>2, <1>3, <1>4 DEF CallTypes, Owners
<1>10. CASE thr[t].then
  <2>1. /\ thr' = [thr EXCEPT ![t] = [pc |-> "enqueued", evt |-> "TAKE_PICTURE",
                                     then |-> FALSE]]
        /\ m_lock' = t
        /\ api_queue' = Append(api_queue, again)
    BY <1>10 DEF resultReceived, Thr
  <2>2. again \in ApiNodes /\ "TAKE_PICTURE" \in Sent(t)
    BY <1>1, <1>2, <1>10 DEF ApiNode, ApiNodes, Owners, ApiEvents, Request,
                             Calling, Sent
  <2>3. Elements(api_queue') = Elements(api_queue) \cup {again}
    BY <1>2, <2>1, <2>2, ElementsOfAppend DEF CallTypes
  <2>4. CallTypes'
    BY <1>1, <1>2, <1>5, <1>9, <2>1, <2>2 DEF CallTypes, Caller, Owners, ApiEvents
  <2>5. NobodyCancels'
    BY <1>1, <1>2, <1>5, <2>3, ApiAssumption DEF NobodyCancels, ApiNode
  <2>6. ASSUME NEW u \in Threads
        PROVE  Request(u)'
    <3>1. Request(u) /\ thr \in [Threads -> Caller]
      BY <1>2 DEF CallTypes
    <3>2. AtMostOne(api_queue', u)
      BY <1>2, <1>8, <2>1, <2>2, <3>1, AtMostOneAppend
         DEF CallTypes, Request, Queued, ApiNode
    <3>3. CASE u = t
      BY <1>1, <1>6, <1>7, <1>8, <2>1, <2>2, <2>3, <3>1, <3>2, <3>3
         DEF Request, Queued, Listed, Calling, ApiNode
    <3>4. CASE u # t
      BY <1>1, <1>5, <1>6, <2>1, <2>3, <3>1, <3>2, <3>4, ApiAssumption
         DEF Request, Queued, Listed, Calling, ApiNode
    <3> QED BY <3>3, <3>4
  <2> QED BY <1>9, <2>4, <2>5, <2>6, InvByRequestPrimed
<1>11. CASE ~thr[t].then
  <2>1. /\ thr' = [thr EXCEPT ![t] = [pc |-> "idle", evt |-> "none",
                                     then |-> FALSE]]
        /\ m_lock' = m_lock
        /\ api_queue' = api_queue
    BY <1>11 DEF resultReceived, Thr
  <2>2. CallTypes'
    BY <1>1, <1>2, <1>5, <1>9, <2>1 DEF CallTypes, Caller
  <2>3. NobodyCancels'
    BY <1>1, <1>2, <1>5, <2>1 DEF NobodyCancels
  <2>4. ASSUME NEW u \in Threads
        PROVE  Request(u)'
    <3>1. Request(u) /\ thr \in [Threads -> Caller]
      BY <1>2 DEF CallTypes
    <3>2. CASE u = t
      BY <1>1, <1>6, <1>7, <1>8, <2>1, <3>1, <3>2
         DEF Request, Queued, Listed, Calling
    <3>3. CASE u # t
      BY <1>1, <1>5, <1>6, <2>1, <3>1, <3>3
         DEF Request, Queued, Listed, Calling
    <3> QED BY <3>2, <3>3
  <2> QED BY <1>9, <2>2, <2>3, <2>4, InvByRequestPrimed
<1> QED BY <1>10, <1>11

\* What a handler fires is nobody's request.
LEMMA FiredIsNobodys ==
  ASSUME NEW apis \in Seq(ApiNodes), NEW h
  PROVE  /\ apis \o Fired(h) \in Seq(ApiNodes)
         /\ Elements(apis \o Fired(h))
              \subseteq Elements(apis) \cup {ApiNode("CANCEL_PICTURE", Nobody)}
         /\ \A t \in Threads : AtMostOne(apis, t) => AtMostOne(apis \o Fired(h), t)
<1> DEFINE cancel == ApiNode("CANCEL_PICTURE", Nobody)
<1>1. cancel \in ApiNodes /\ cancel.by = Nobody
  BY DEF ApiNode, ApiNodes, Owners, ApiEvents
<1>2. Fired(h) \in {<<>>, <<cancel>>}
  BY DEF Fired
<1>3. /\ apis \o Fired(h) \in Seq(ApiNodes)
      /\ Elements(apis \o Fired(h)) \subseteq Elements(apis) \cup {cancel}
  BY <1>1, <1>2, ElementsOfPost
<1>4. ASSUME NEW t \in Threads, AtMostOne(apis, t)
      PROVE  AtMostOne(apis \o Fired(h), t)
  BY <1>1, <1>2, <1>4, AtMostOnePost, ApiAssumption
<1> QED BY <1>3, <1>4

LEMMA RaisedIsDone ==
  ASSUME NEW evts \in Seq(EvtNodes), NEW h, capture \in Nat
  PROVE  evts \o Raised(h) \in Seq(EvtNodes)
<1>1. [evt |-> "SNAPSHOT_DONE", of |-> capture] \in EvtNodes
  BY DEF EvtNodes
<1>2. \A x \in EvtNodes : <<x>> \in Seq(EvtNodes)
  OBVIOUS
<1>3. Raised(h) \in Seq(EvtNodes)
  BY <1>1, <1>2 DEF Raised
<1> QED BY <1>3

LEMMA HandleAPIStep ==
  ASSUME CallInv, handleAPI
  PROVE  CallInv'
<1> USE DEF Prepared, InHand
<1> DEFINE node == Head(api_queue)
           cancel == ApiNode("CANCEL_PICTURE", Nobody)
<1>1. /\ reply = Silence /\ api_queue # <<>> /\ node # EXIT
      /\ stateMachine(node.evt) /\ by' = node.by
      /\ prepareBy' = IF m_state' = "PREPARE_SNAPSHOT" /\ m_state # m_state'
                         THEN node.by ELSE prepareBy
      /\ api_queue' = Tail(api_queue) \o Fired(hw')
      /\ evt_queue' = evt_queue \o Raised(hw')
      /\ capture' \in {capture, capture + 1}
      /\ thr' = thr /\ m_lock' = m_lock /\ got' = got
      /\ m_apiResultList' = m_apiResultList
  BY DEF handleAPI, Listening, Post, countCapture, callVars
<1>2. CallTypes /\ NobodyCancels /\ \A u \in Threads : Request(u)
  BY InvByRequest
<1>3. /\ node \in Elements(api_queue) /\ node \in ApiNodes
      /\ Tail(api_queue) \in Seq(ApiNodes)
      /\ Elements(Tail(api_queue)) \subseteq Elements(api_queue)
  BY <1>1, <1>2, ElementsOfTail DEF CallTypes
<1>4. node.by \in Threads => Queued(node.by) /\ node.evt = thr[node.by].evt
  BY <1>2, <1>3 DEF Queued, Request
<1>5. node.by = Nobody => node.evt = "CANCEL_PICTURE"
  <2>1. node = [evt |-> node.evt, by |-> node.by]
    BY <1>3 DEF ApiNodes
  <2> QED BY <2>1, <1>1, <1>2, <1>3 DEF NobodyCancels, EXIT, ApiNode
<1>6. node.evt \in ApiEvents
  <2>1. CASE node.by \in Threads
    BY <2>1, <1>2, <1>4, SentAreApiEvents DEF Request
  <2>2. CASE node.by = Nobody
    BY <2>2, <1>5 DEF ApiEvents
  <2> QED BY <2>1, <2>2, <1>3 DEF ApiNodes, Owners
<1>7. ApiOutcome(node.evt)
  BY <1>1, <1>6, StateMachineAnswers
<1>8. /\ api_queue' \in Seq(ApiNodes)
      /\ Elements(api_queue') \subseteq Elements(Tail(api_queue)) \cup {cancel}
      /\ \A u \in Threads : AtMostOne(Tail(api_queue), u) => AtMostOne(api_queue', u)
  BY <1>1, <1>3, FiredIsNobodys
<1>9. evt_queue' \in Seq(EvtNodes)
  BY <1>1, <1>2, RaisedIsDone DEF CallTypes
<1>10. CallTypes'
  BY <1>1, <1>2, <1>3, <1>8, <1>9 DEF CallTypes, ApiNodes
<1>11. reply.to # "api"
  BY <1>1 DEF Silence
<1>12. NobodyCancels'
  <2>1. \A n \in Elements(api_queue') :
            n.by = Nobody => n.evt \in {"EXIT", "CANCEL_PICTURE"}
    BY <1>2, <1>3, <1>8 DEF NobodyCancels, ApiNode
  <2>2. InHand(Nobody)' => reply'.evt = "CANCEL_PICTURE"
    BY <1>1, <1>5, <1>7 DEF ApiOutcome, Silence
  <2>3. m_state' = "PREPARE_SNAPSHOT" => prepareBy' # Nobody
    BY <1>1, <1>2, <1>5, <1>7 DEF ApiOutcome, NobodyCancels
  <2> QED BY <1>1, <1>2, <2>1, <2>2, <2>3 DEF NobodyCancels
<1>13. ASSUME NEW u \in Threads
       PROVE  Request(u)'
  <2>1. Request(u) /\ ~InHand(u)
    BY <1>2, <1>11
  <2>2. AtMostOne(api_queue', u)
    BY <1>1, <1>2, <1>8, <2>1, AtMostOneTail DEF CallTypes, Request
  <2>3. /\ Queued(u)' => Queued(u)
        /\ \A n \in Elements(api_queue') : n.by = u => n \in Elements(Tail(api_queue))
        /\ \A n \in Elements(api_queue') : n.by = u => n \in Elements(api_queue)
    BY <1>3, <1>8, ApiAssumption DEF Queued, ApiNode
  <2>4. CASE node.by = u
    <3>1. ~Queued(u)'
      BY <1>1, <1>2, <2>1, <2>3, <2>4, AtMostOneTail
         DEF CallTypes, Request, Queued
    <3>2. Queued(u) /\ node.evt = thr[u].evt
      BY <1>4, <2>4
    <3>3. Prepared(u)' => ~InHand(u)' /\ thr[u].evt = "PREPARE_SNAPSHOT"
      BY <1>1, <1>7, <2>1, <2>4, <3>2 DEF Request, ApiOutcome, Silence
    <3>4. InHand(u)' => reply'.evt = thr[u].evt
      BY <1>1, <1>7, <3>2 DEF ApiOutcome, Silence
    <3>5. \A n \in Elements(api_queue') : n.by # u
      BY <3>1 DEF Queued
    <3> QED BY <1>1, <2>1, <2>2, <3>1, <3>2, <3>3, <3>4, <3>5
            DEF Request, Listed, Calling
  <2>5. CASE node.by # u
    <3>1. ~InHand(u)'
      BY <1>1, <2>5
    <3>2. Prepared(u)' => Prepared(u)
      BY <1>1, <2>5
    <3> QED BY <1>1, <2>1, <2>2, <2>3, <3>1, <3>2 DEF Request, Listed, Calling
  <2> QED BY <2>4, <2>5
<1> QED BY <1>10, <1>12, <1>13, InvByRequestPrimed

LEMMA HandleEvtStep ==
  ASSUME CallInv, handleEvt
  PROVE  CallInv'
<1> USE DEF Prepared, InHand
<1> DEFINE node == Head(evt_queue)
           cancel == ApiNode("CANCEL_PICTURE", Nobody)
<1>1. /\ reply = Silence /\ evt_queue # <<>>
      /\ stateMachine(node.evt) /\ by' = prepareBy /\ prepareBy' = prepareBy
      /\ api_queue' = api_queue \o Fired(hw')
      /\ evt_queue' = Tail(evt_queue) \o Raised(hw')
      /\ capture' \in {capture, capture + 1}
      /\ thr' = thr /\ m_lock' = m_lock /\ got' = got
      /\ m_apiResultList' = m_apiResultList
  BY DEF handleEvt, Listening, Post, countCapture, callVars
<1>2. CallTypes /\ NobodyCancels /\ \A u \in Threads : Request(u)
  BY InvByRequest
<1>3. node \in EvtNodes /\ Tail(evt_queue) \in Seq(EvtNodes)
  BY <1>1, <1>2, ElementsOfTail DEF CallTypes
<1>4. EvtOutcome
  BY <1>1, <1>3, StateMachineAnswers DEF EvtNodes, InternalEvents
<1>5. /\ api_queue' \in Seq(ApiNodes)
      /\ Elements(api_queue') \subseteq Elements(api_queue) \cup {cancel}
      /\ \A u \in Threads : AtMostOne(api_queue, u) => AtMostOne(api_queue', u)
  BY <1>1, <1>2, FiredIsNobodys DEF CallTypes
<1>6. evt_queue' \in Seq(EvtNodes)
  BY <1>1, <1>2, <1>3, RaisedIsDone DEF CallTypes
<1>7. CallTypes'
  BY <1>1, <1>2, <1>5, <1>6 DEF CallTypes
<1>8. reply.to # "api"
  BY <1>1 DEF Silence
<1>9. NobodyCancels'
  <2>1. \A n \in Elements(api_queue') :
            n.by = Nobody => n.evt \in {"EXIT", "CANCEL_PICTURE"}
    BY <1>2, <1>5 DEF NobodyCancels, ApiNode
  <2> QED BY <1>1, <1>2, <1>4, <2>1 DEF NobodyCancels, EvtOutcome
<1>10. ASSUME NEW u \in Threads
       PROVE  Request(u)'
  <2>1. Request(u) /\ ~InHand(u)
    BY <1>2, <1>8
  <2>2. AtMostOne(api_queue', u)
    BY <1>5, <2>1 DEF Request
  <2>3. /\ Queued(u)' => Queued(u)
        /\ \A n \in Elements(api_queue') : n.by = u => n \in Elements(api_queue)
    BY <1>5, ApiAssumption DEF Queued, ApiNode
  <2>4. InHand(u)' => /\ Prepared(u) /\ ~Prepared(u)'
                      /\ reply'.evt = "PREPARE_SNAPSHOT"
    BY <1>1, <1>4 DEF EvtOutcome
  <2>5. Prepared(u)' => Prepared(u)
    BY <1>1, <1>4 DEF EvtOutcome
  <2> QED BY <1>1, <2>1, <2>2, <2>3, <2>4, <2>5 DEF Request, Listed, Calling
<1> QED BY <1>7, <1>9, <1>10, InvByRequestPrimed

\* The answer moves to the list and wakes everybody.
LEMMA SignalAPIResultStep ==
  ASSUME CallInv, signalAPIResult
  PROVE  CallInv'
<1> USE DEF Prepared, InHand
<1> DEFINE node == ApiNode(reply.evt, by)
<1>1. /\ reply.to = "api" /\ m_lock = Nobody /\ reply' = Silence
      /\ m_apiResultList' = Append(m_apiResultList, node)
      /\ thr' = [t \in Threads |-> IF thr[t].pc = "waiting"
                                     THEN [thr[t] EXCEPT !.pc = "woken"]
                                     ELSE thr[t]]
      /\ m_state' = m_state /\ m_lock' = m_lock /\ got' = got
      /\ api_queue' = api_queue /\ evt_queue' = evt_queue
      /\ by' = by /\ prepareBy' = prepareBy /\ capture' = capture
  BY DEF signalAPIResult, queueVars, ghosts
<1>2. CallTypes /\ NobodyCancels /\ \A u \in Threads : Request(u)
  BY InvByRequest
<1>3. node \in Results
  <2>1. by \in Owners
    BY <1>2 DEF CallTypes
  <2>2. CASE by \in Threads
    BY <2>1, <2>2, <1>1, <1>2, SentAreApiEvents DEF Request, ApiNode, Results
  <2>3. CASE by = Nobody
    BY <2>1, <2>3, <1>1, <1>2 DEF NobodyCancels, ApiNode, Results, ApiEvents
  <2> QED BY <2>1, <2>2, <2>3 DEF Owners
<1>4. /\ m_apiResultList' \in Seq(Results)
      /\ Elements(m_apiResultList') = Elements(m_apiResultList) \cup {node}
  BY <1>1, <1>2, <1>3, ElementsOfAppend DEF CallTypes
<1>5. ASSUME NEW u \in Threads
      PROVE  /\ thr'[u].evt = thr[u].evt /\ thr'[u].then = thr[u].then
             /\ thr'[u].pc = IF thr[u].pc = "waiting" THEN "woken" ELSE thr[u].pc
             /\ thr'[u] \in Caller
  BY <1>1, <1>2 DEF CallTypes, Caller
<1>6. CallTypes'
  <2>1. thr' \in [Threads -> Caller]
    BY <1>1, <1>5
  <2> QED BY <1>1, <1>2, <1>4, <2>1 DEF CallTypes
<1>7. NobodyCancels'
  BY <1>1, <1>2, <1>4 DEF NobodyCancels, Silence, ApiNode
<1>8. ASSUME NEW u \in Threads
      PROVE  Request(u)'
  <2>1. Request(u)
    BY <1>2
  <2>2. AtMostOne(m_apiResultList', u)
    BY <1>1, <1>2, <1>3, <2>1, AtMostOneAppend
       DEF CallTypes, Request, Listed, ApiNode
  <2>3. ~InHand(u)' /\ (Listed(u)' <=> Listed(u) \/ by = u)
    BY <1>1, <1>4 DEF Listed, Silence, ApiNode
  <2>4. m_lock # u
    BY <1>1, ApiAssumption
  <2>5. thr[u] \in Caller
    BY <1>2 DEF CallTypes
  <2> QED BY <1>1, <1>4, <1>5, <2>1, <2>2, <2>3, <2>4, <2>5
          DEF Request, Queued, Calling, Caller, ApiNode
<1> QED BY <1>6, <1>7, <1>8, InvByRequestPrimed

\* What only adds to the API queue what nobody waits for, or takes EXIT from
\* it, and leaves the callers alone.
LEMMA NobodysNode ==
  ASSUME CallInv,
         api_queue' \in Seq(ApiNodes),
         \A n \in Elements(api_queue') :
            \/ n \in Elements(api_queue)
            \/ n.by = Nobody /\ n.evt \in {"EXIT", "CANCEL_PICTURE"},
         \A t \in Threads : AtMostOne(api_queue, t) => AtMostOne(api_queue', t),
         evt_queue' \in Seq(EvtNodes),
         reply' = reply \/ reply'.to # "api",
         UNCHANGED <<m_state, thr, m_lock, m_apiResultList, by, prepareBy, got,
                     capture>>
  PROVE  CallInv'
<1> USE DEF Prepared, InHand
<1>1. CallTypes /\ NobodyCancels /\ \A u \in Threads : Request(u)
  BY InvByRequest
<1>2. CallTypes'
  BY <1>1 DEF CallTypes
<1>3. NobodyCancels'
  BY <1>1 DEF NobodyCancels
<1>4. ASSUME NEW u \in Threads
      PROVE  Request(u)'
  <2>1. Request(u) /\ AtMostOne(api_queue', u)
    BY <1>1 DEF Request
  <2>2. \A n \in Elements(api_queue') : n.by = u => n \in Elements(api_queue)
    BY ApiAssumption
  <2>3. Queued(u)' => Queued(u)
    BY <2>2 DEF Queued
  <2> QED BY <2>1, <2>2, <2>3 DEF Request, Listed, Calling
<1> QED BY <1>2, <1>3, <1>4, InvByRequestPrimed

LEMMA ExitThreadStep ==
  ASSUME CallInv, exitThread
  PROVE  CallInv'
<1>1. api_queue # <<>> /\ api_queue' = Tail(api_queue)
  BY DEF exitThread
<1>2. api_queue \in Seq(ApiNodes) /\ evt_queue \in Seq(EvtNodes)
  BY DEF CallInv, CallTypes
<1>3. /\ api_queue' \in Seq(ApiNodes)
      /\ Elements(api_queue') \subseteq Elements(api_queue)
      /\ \A t \in Threads : AtMostOne(api_queue, t) => AtMostOne(api_queue', t)
  BY <1>1, <1>2, ElementsOfTail, AtMostOneTail
<1> QED
  BY <1>2, <1>3, NobodysNode DEF exitThread, vars, callVars, ghosts

LEMMA ReleaseThreadStep ==
  ASSUME CallInv, releaseThread
  PROVE  CallInv'
<1>1. api_queue' = Append(api_queue, EXIT)
  BY DEF releaseThread
<1>2. api_queue \in Seq(ApiNodes) /\ evt_queue \in Seq(EvtNodes)
  BY DEF CallInv, CallTypes
<1>3. EXIT \in ApiNodes /\ EXIT.by = Nobody /\ EXIT.evt = "EXIT"
  BY DEF EXIT, ApiNode, ApiNodes, Owners
<1>4. api_queue' \in Seq(ApiNodes)
  BY <1>1, <1>2, <1>3
<1>5. Elements(api_queue') = Elements(api_queue) \cup {EXIT}
  BY <1>1, <1>2, <1>3, ElementsOfAppend
<1>6. ASSUME NEW t \in Threads, AtMostOne(api_queue, t)
      PROVE  AtMostOne(api_queue', t)
  BY <1>1, <1>2, <1>3, <1>6, AtMostOneAppend, ApiAssumption
<1> QED
  BY <1>2, <1>3, <1>4, <1>5, <1>6, NobodysNode
     DEF releaseThread, vars, callVars, ghosts

LEMMA LiveSnapshotStep ==
  ASSUME CallInv, liveSnapshot
  PROVE  CallInv'
<1>1. /\ api_queue' = api_queue \o Fired(hw') /\ evt_queue' = evt_queue \o Raised(hw')
      /\ m_state' = m_state /\ reply' = reply
  BY DEF liveSnapshot, Post, Live_Snapshot_thread
<1>2. /\ api_queue \in Seq(ApiNodes) /\ evt_queue \in Seq(EvtNodes)
      /\ capture \in Nat
  BY DEF CallInv, CallTypes
<1>3. /\ api_queue' \in Seq(ApiNodes)
      /\ Elements(api_queue')
           \subseteq Elements(api_queue) \cup {ApiNode("CANCEL_PICTURE", Nobody)}
      /\ \A t \in Threads : AtMostOne(api_queue, t) => AtMostOne(api_queue', t)
  BY <1>1, <1>2, FiredIsNobodys
<1>4. evt_queue' \in Seq(EvtNodes)
  BY <1>1, <1>2, RaisedIsDone
<1>5. \A n \in Elements(api_queue') :
         \/ n \in Elements(api_queue)
         \/ n.by = Nobody /\ n.evt \in {"EXIT", "CANCEL_PICTURE"}
  BY <1>3 DEF ApiNode
<1> QED
  BY <1>1, <1>3, <1>4, <1>5, NobodysNode DEF liveSnapshot, callVars, ghosts

\* Steps that leave the callers' requests alone.
LEMMA OtherSteps ==
  ASSUME CallInv,
         \/ signalEvtResult \/ cbNotifyRoutine \/ processSyncEvt
         \/ prepSnapshotDone \/ UNCHANGED apiVars
  PROVE  CallInv'
<1>1. /\ api_queue \in Seq(ApiNodes) /\ evt_queue \in Seq(EvtNodes)
      /\ capture \in Nat
  BY DEF CallInv, CallTypes
<1>2. [evt |-> "SNAPSHOT_DONE", of |-> capture] \in EvtNodes
  BY <1>1 DEF EvtNodes
<1>3. [evt |-> "PREP_SNAPSHOT_DONE", of |-> capture] \in EvtNodes
  BY <1>1 DEF EvtNodes
<1>4. /\ api_queue' = api_queue /\ evt_queue' \in Seq(EvtNodes)
      /\ reply' = reply \/ reply'.to # "api"
      /\ UNCHANGED <<m_state, thr, m_lock, m_apiResultList, by, prepareBy, got,
                     capture>>
  <2>1. CASE signalEvtResult
    BY <2>1, <1>1 DEF signalEvtResult, queueVars, callVars, ghosts, Silence
  <2>2. CASE cbNotifyRoutine
    BY <2>2, <1>1 DEF cbNotifyRoutine, waitEvtResult, evtResultReceived, vars,
                      queueVars, callVars, ghosts
  <2>3. CASE processSyncEvt
    BY <2>3, <1>1, <1>2 DEF processSyncEvt, vars, callVars, ghosts
  <2>4. CASE prepSnapshotDone
    BY <2>4, <1>1, <1>3 DEF prepSnapshotDone, vars, callVars, ghosts
  <2>5. CASE UNCHANGED apiVars
    BY <2>5, <1>1 DEF apiVars, vars, queueVars, callVars, ghosts
  <2> QED BY <2>1, <2>2, <2>3, <2>4, <2>5
<1> QED BY <1>1, <1>4, NobodysNode

LEMMA CallStep ==
  ASSUME EventsApart, CallInv, [ApiNext]_apiVars
  PROVE  CallInv'
<1>1. ASSUME NEW t \in Threads, NEW evt \in Calls[t], processAPI(t, evt)
      PROVE  CallInv'
  BY <1>1, ProcessAPIStep
<1>2. ASSUME NEW t \in Threads, caller(t) \/ spuriousWakeup(t)
      PROVE  CallInv'
  BY <1>2, MovesStep, StillWaitingStep, ResultReceivedStep DEF caller
<1>3. CASE smEvtProcRoutine
  BY <1>3, HandleAPIStep, HandleEvtStep, ExitThreadStep, SignalAPIResultStep,
     OtherSteps DEF smEvtProcRoutine
<1>4. CASE \/ cbNotifyRoutine \/ processSyncEvt \/ prepSnapshotDone
           \/ UNCHANGED apiVars
  BY <1>4, OtherSteps
<1>5. CASE liveSnapshot \/ releaseThread
  BY <1>5, LiveSnapshotStep, ReleaseThreadStep
<1> QED BY <1>1, <1>2, <1>3, <1>4, <1>5 DEF ApiNext

\* The inductive invariant holds.
THEOREM CallsInvariant ==
  ASSUME EventsApart
  PROVE  ApiSpec => []CallInv
<1>1. ApiInit => CallInv
  BY InitCalls
<1>2. CallInv /\ [ApiNext]_apiVars => CallInv'
  BY CallStep
<1> QED BY <1>1, <1>2, PTL DEF ApiSpec

\* However many callers there are and whatever they call, as long as they keep
\* their events apart: none sleeps on m_cond while its answer is in the list.
THEOREM AnswersWakeCallers ==
  ASSUME EventsApart
  PROVE  ApiSpec => []NoLostWakeup
<1>1. CallInv => NoLostWakeup
  <2> SUFFICES ASSUME CallInv, NEW t \in Threads, thr[t].pc = "waiting",
                      NEW i \in Mine(t)
               PROVE  FALSE
    BY DEF NoLostWakeup
  <2>1. i \in 1..Len(m_apiResultList) /\ m_apiResultList[i].by = t
    BY MineIsMine DEF Calling
  <2>2. Listed(t)
    BY <2>1 DEF Listed, Elements
  <2> QED BY <2>2 DEF CallInv, CallersWait
<1> QED BY <1>1, CallsInvariant, PTL

\* Under the same condition each caller gets the answers to its own calls.
THEOREM AnswersAreOwn ==
  ASSUME EventsApart
  PROVE  ApiSpec => []OwnReply
<1>1. ApiInit => OwnReply
  BY DEF ApiInit, OwnReply
<1>2. ASSUME CallInv, OwnReply, [ApiNext]_apiVars
      PROVE  OwnReply'
  <2>1. ASSUME NEW t \in Threads, resultReceived(t)
        PROVE  OwnReply'
    <3>1. got' = [got EXCEPT ![t] = t] /\ got \in [Threads -> Owners]
      BY <1>2, <2>1, ResultReceivedStep DEF CallInv, CallTypes
    <3> QED BY <1>2, <3>1 DEF OwnReply
  <2>2. CASE got' = got
    BY <1>2, <2>2 DEF OwnReply
  <2>3. \/ \E t \in Threads : resultReceived(t)
        \/ got' = got
    BY <1>2 DEF ApiNext, processAPI, caller, postAPI, waitAPIResult,
       spuriousWakeup, stillWaiting, smEvtProcRoutine, handleAPI, handleEvt,
       exitThread, signalAPIResult, signalEvtResult, cbNotifyRoutine,
       waitEvtResult, evtResultReceived, processSyncEvt, liveSnapshot,
       prepSnapshotDone, releaseThread, ghosts, apiVars
  <2> QED BY <2>1, <2>2, <2>3
<1> QED BY <1>1, <1>2, CallsInvariant, PTL DEF ApiSpec

-----------------------------------------------------------------------------
(* The calls implement ApiCall's, step by step *)

PhaseOf(t) == IF ~Calling(t) THEN "idle"
              ELSE IF InHand(t) \/ Listed(t) THEN "answered" ELSE "requested"

LEMMA PhaseIs ==
  ASSUME CallInv
  PROVE  phase = [t \in Threads |-> PhaseOf(t)]
<1>1. \A t \in Threads :
        Listed(t) <=> \E i \in DOMAIN m_apiResultList : m_apiResultList[i].by = t
  BY DEF Listed, Elements, CallInv, CallTypes
<1>2. ASSUME NEW t \in Threads
      PROVE  phase[t] = PhaseOf(t)
  BY <1>1 DEF phase, PhaseOf, Calling, InHand
<1> QED BY <1>2 DEF phase

LEMMA PhaseIsPrimed ==
  ASSUME CallInv'
  PROVE  phase' = [t \in Threads |-> PhaseOf(t)']
<1>1. \A t \in Threads :
        Listed(t)' <=> \E i \in DOMAIN m_apiResultList' : m_apiResultList'[i].by = t
  BY DEF Listed, Elements, CallInv, CallTypes
<1>2. ASSUME NEW t \in Threads
      PROVE  phase'[t] = PhaseOf(t)'
  BY <1>1 DEF phase, PhaseOf, Calling, InHand
<1> QED BY <1>2 DEF phase

\* What a step does to one caller's phase is what it does to all.
LEMMA OneMoves ==
  ASSUME CallInv, CallInv', NEW t \in Threads,
         \A u \in Threads \ {t} : PhaseOf(u)' = PhaseOf(u),
         \/ PhaseOf(t) = "idle" /\ PhaseOf(t)' = "requested"
         \/ PhaseOf(t) = "requested" /\ PhaseOf(t)' = "answered"
         \/ PhaseOf(t) = "answered" /\ PhaseOf(t)' = "idle"
         \/ PhaseOf(t) = "answered" /\ PhaseOf(t)' = "requested"
  PROVE  Abstract!Next
<1> HIDE DEF PhaseOf
<1>1. /\ phase = [u \in Threads |-> PhaseOf(u)]
      /\ phase' = [u \in Threads |-> PhaseOf(u)']
  BY PhaseIs, PhaseIsPrimed
<1>2. /\ phase[t] = PhaseOf(t)
      /\ phase' = [phase EXCEPT ![t] = PhaseOf(t)']
  BY <1>1
<1> QED
  BY <1>2 DEF Abstract!Next, Abstract!Call, Abstract!Answer, Abstract!Return,
              Abstract!CallAgain, Abstract!Move

LEMMA NoneMoves ==
  ASSUME CallInv, CallInv', \A u \in Threads : PhaseOf(u)' = PhaseOf(u)
  PROVE  UNCHANGED phase
BY PhaseIs, PhaseIsPrimed

LEMMA ProcessAPICalls ==
  ASSUME CallInv, CallInv', NEW t \in Threads, NEW evt \in Calls[t],
         processAPI(t, evt)
  PROVE  Abstract!Next
<1>1. PICK first, flash :
        /\ thr' = [thr EXCEPT ![t] = [pc |-> "enqueued", evt |-> first,
                                       then |-> flash]]
        /\ api_queue' = Append(api_queue, ApiNode(first, t))
  BY DEF processAPI, Thr
<1>2. /\ thr[t].pc = "idle" /\ thr \in [Threads -> Caller]
      /\ reply' = reply /\ by' = by /\ m_apiResultList' = m_apiResultList
  BY DEF processAPI, vars, ghosts, CallInv, CallTypes
<1>3. ~InHand(t) /\ ~Listed(t)
  BY <1>2 DEF CallInv, OnePlace, Calling
<1>4. \A u \in Threads : (InHand(u)' <=> InHand(u)) /\ (Listed(u)' <=> Listed(u))
  BY <1>2 DEF InHand, Listed
<1>5. PhaseOf(t) = "idle" /\ PhaseOf(t)' = "requested"
  BY <1>1, <1>2, <1>3, <1>4 DEF PhaseOf, Calling
<1>6. \A u \in Threads \ {t} : PhaseOf(u)' = PhaseOf(u)
  BY <1>1, <1>2, <1>4 DEF PhaseOf, Calling
<1> QED BY <1>5, <1>6, OneMoves

LEMMA ResultReceivedReturns ==
  ASSUME EventsApart, CallInv, CallInv', NEW t \in Threads, resultReceived(t)
  PROVE  Abstract!Next
<1>1. /\ reply' = reply /\ by' = by /\ thr[t].pc = "woken"
      /\ thr \in [Threads -> Caller] /\ m_apiResultList \in Seq(Results)
  BY DEF resultReceived, vars, CallInv, CallTypes
<1>2. PICK i \in Mine(t) : m_apiResultList' = RemoveAt(m_apiResultList, i)
  BY DEF resultReceived
<1>3. i \in 1..Len(m_apiResultList) /\ m_apiResultList[i].by = t
  BY <1>1, MineIsMine DEF Calling
<1>4. Listed(t) /\ ~InHand(t) /\ AtMostOne(m_apiResultList, t)
  <2>1. Listed(t)
    BY <1>3 DEF Listed, Elements
  <2> QED BY <2>1 DEF CallInv, OnePlace
<1>5. ~Listed(t)' /\ ~InHand(t)'
  BY <1>1, <1>2, <1>3, <1>4, AtMostOneRemoveAt DEF Listed, InHand
<1>6. PICK st \in {"idle", "enqueued"} : \E e :
        thr' = [thr EXCEPT ![t] = [pc |-> st, evt |-> e, then |-> FALSE]]
  BY DEF resultReceived, Thr
<1>7. PhaseOf(t) = "answered" /\ PhaseOf(t)' \in {"idle", "requested"}
  BY <1>1, <1>4, <1>5, <1>6 DEF PhaseOf, Calling
<1>8. ASSUME NEW u \in Threads \ {t}
      PROVE  PhaseOf(u)' = PhaseOf(u)
  <2>1. Listed(u)' => Listed(u)
    BY <1>1, <1>2, <1>3, ElementsOfRemoveAt DEF Listed
  <2>2. Listed(u) => Listed(u)'
    BY <1>1, <1>2, <1>3, OthersStay DEF Listed
  <2> QED BY <1>1, <1>6, <2>1, <2>2 DEF PhaseOf, Calling, InHand
<1> QED BY <1>7, <1>8, OneMoves

\* The two ways the state machine comes to an answer.
LEMMA HandleAnswers ==
  ASSUME CallInv, CallInv', handleAPI \/ handleEvt
  PROVE  Abstract!Next \/ UNCHANGED phase
<1>1. /\ thr' = thr /\ m_apiResultList' = m_apiResultList /\ reply = Silence
      /\ by' \in Owners
  BY DEF handleAPI, handleEvt, Listening, callVars, CallInv, CallTypes
<1>2. \A u \in Threads : ~InHand(u) /\ (Listed(u)' <=> Listed(u))
                         /\ (Calling(u)' <=> Calling(u))
  BY <1>1 DEF InHand, Listed, Calling, Silence
<1>3. CASE by' \in Threads /\ InHand(by)'
  <2>1. PICK t \in Threads : t = by'
    BY <1>3
  <2>2. InHand(t)'
    BY <1>3, <2>1 DEF InHand
  <2>3. Calling(t)' /\ ~Listed(t)'
    BY <2>2 DEF CallInv, OnePlace
  <2>4. PhaseOf(t) = "requested" /\ PhaseOf(t)' = "answered"
    BY <1>2, <2>2, <2>3 DEF PhaseOf
  <2>5. \A u \in Threads \ {t} : PhaseOf(u)' = PhaseOf(u)
    BY <1>2, <2>1 DEF PhaseOf, InHand
  <2> QED BY <2>4, <2>5, OneMoves
<1>4. CASE ~(by' \in Threads /\ InHand(by)')
  <2>1. \A u \in Threads : ~InHand(u)'
    BY <1>4 DEF InHand
  <2> QED BY <1>2, <2>1, NoneMoves DEF PhaseOf
<1> QED BY <1>3, <1>4

LEMMA SignalAPIResultStutters ==
  ASSUME CallInv, CallInv', signalAPIResult
  PROVE  UNCHANGED phase
<1> DEFINE node == ApiNode(reply.evt, by)
<1>1. /\ reply.to = "api" /\ reply' = Silence /\ by' = by
      /\ m_apiResultList' = Append(m_apiResultList, node)
      /\ thr' = [t \in Threads |-> IF thr[t].pc = "waiting"
                                     THEN [thr[t] EXCEPT !.pc = "woken"]
                                     ELSE thr[t]]
      /\ m_apiResultList \in Seq(Results) /\ m_apiResultList' \in Seq(Results)
      /\ thr \in [Threads -> Caller]
  BY DEF signalAPIResult, ghosts, CallInv, CallTypes
<1>2. Elements(m_apiResultList') = Elements(m_apiResultList) \cup {node}
  BY <1>1 DEF Elements
<1>3. ASSUME NEW u \in Threads
      PROVE  PhaseOf(u)' = PhaseOf(u)
  <2>1. Listed(u)' <=> Listed(u) \/ by = u
    <3>1. node.by = by
      BY DEF ApiNode
    <3> HIDE DEF node
    <3> QED BY <1>2, <3>1 DEF Listed
  <2>2. InHand(u) <=> by = u
    BY <1>1 DEF InHand
  <2>3. ~InHand(u)'
    BY <1>1 DEF InHand, Silence
  <2>4. Calling(u)' <=> Calling(u)
    BY <1>1 DEF Calling, Caller
  <2> QED BY <2>1, <2>2, <2>3, <2>4 DEF PhaseOf
<1> QED BY <1>3, NoneMoves

LEMMA OthersStutter ==
  ASSUME CallInv, CallInv',
         \/ \E t \in Threads : \/ postAPI(t) \/ waitAPIResult(t)
                               \/ spuriousWakeup(t) \/ stillWaiting(t)
         \/ exitThread \/ signalEvtResult \/ cbNotifyRoutine
         \/ processSyncEvt \/ liveSnapshot \/ prepSnapshotDone
         \/ releaseThread \/ UNCHANGED apiVars
  PROVE  UNCHANGED phase
<1>1. /\ by' = by /\ m_apiResultList' = m_apiResultList
      /\ reply' = reply \/ (reply.to # "api" /\ reply'.to # "api")
  <2>1. CASE signalEvtResult
    BY <2>1 DEF signalEvtResult, callVars, ghosts, Silence
  <2>2. CASE liveSnapshot
    BY <2>2 DEF liveSnapshot, Live_Snapshot_thread, callVars, ghosts
  <2>3. CASE \/ \E t \in Threads : \/ postAPI(t) \/ waitAPIResult(t)
                                  \/ spuriousWakeup(t) \/ stillWaiting(t)
    BY <2>3 DEF postAPI, waitAPIResult, spuriousWakeup, stillWaiting, vars, ghosts
  <2>4. CASE \/ exitThread \/ cbNotifyRoutine \/ processSyncEvt
             \/ prepSnapshotDone \/ releaseThread \/ UNCHANGED apiVars
    BY <2>4 DEF exitThread, cbNotifyRoutine, waitEvtResult, evtResultReceived,
       processSyncEvt, prepSnapshotDone, releaseThread, apiVars, vars, callVars,
       ghosts
  <2> QED BY <2>1, <2>2, <2>3, <2>4
<1>2. \/ thr' = thr
      \/ \E t \in Threads, pc \in {"posted", "waiting", "woken"} :
            thr[t].pc # "idle" /\ thr' = [thr EXCEPT ![t].pc = pc]
  BY DEF postAPI, waitAPIResult, spuriousWakeup, stillWaiting, exitThread,
     signalEvtResult, cbNotifyRoutine, waitEvtResult, evtResultReceived,
     processSyncEvt, liveSnapshot, prepSnapshotDone,
     releaseThread, apiVars, callVars
<1>3. thr \in [Threads -> Caller]
  BY DEF CallInv, CallTypes
<1>4. ASSUME NEW u \in Threads
      PROVE  PhaseOf(u)' = PhaseOf(u)
  <2>1. Calling(u)' <=> Calling(u)
    BY <1>2, <1>3 DEF Calling, Caller
  <2>2. (InHand(u)' <=> InHand(u)) /\ (Listed(u)' <=> Listed(u))
    BY <1>1 DEF InHand, Listed
  <2> QED BY <2>1, <2>2 DEF PhaseOf
<1> QED BY <1>4, NoneMoves

\* The lock, the queues, the list and the state machine answer a call once,
\* and only with its own answer does it return: ApiCall but for its liveness.
THEOREM ImplementsApiCallSteps ==
  ASSUME EventsApart
  PROVE  ApiSpec => Abstract!Init /\ [][Abstract!Next]_phase
<1>1. ApiInit => Abstract!Init
  <2> SUFFICES ASSUME ApiInit PROVE Abstract!Init
    OBVIOUS
  <2>1. CallInv
    BY InitCalls
  <2>2. \A t \in Threads : PhaseOf(t) = "idle"
    BY DEF ApiInit, PhaseOf, Calling
  <2> QED BY <2>1, <2>2, PhaseIs DEF Abstract!Init
<1>2. ASSUME CallInv, CallInv', [ApiNext]_apiVars
      PROVE  [Abstract!Next]_phase
  <2>1. ASSUME NEW t \in Threads, NEW evt \in Calls[t], processAPI(t, evt)
        PROVE  Abstract!Next
    BY <1>2, <2>1, ProcessAPICalls
  <2>2. ASSUME NEW t \in Threads, resultReceived(t)
        PROVE  Abstract!Next
    BY <1>2, <2>2, ResultReceivedReturns
  <2>3. CASE handleAPI \/ handleEvt
    BY <1>2, <2>3, HandleAnswers
  <2>4. CASE signalAPIResult
    BY <1>2, <2>4, SignalAPIResultStutters
  <2> QED
    BY <1>2, <2>1, <2>2, <2>3, <2>4, OthersStutter
       DEF ApiNext, caller, smEvtProcRoutine
<1> QED BY <1>1, <1>2, CallsInvariant, PTL DEF ApiSpec

=============================================================================
