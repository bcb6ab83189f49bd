----------------------------- MODULE MCChannels -----------------------------
(***************************************************************************)
(* Channels for model checking: how threads reach them through the         *)
(* camera's locks (MmCamera), how one is started and stopped, stream by    *)
(* stream (MmChannel), and the thread that polls its streams (MmPoll).     *)
(* They share no state: the first knows only whether a channel is started, *)
(* the second of frames only who was given some, and the third has its     *)
(* buffers returned at any time.  A run explores one part at a time.       *)
(***************************************************************************)
EXTENDS MmCamera, MmChannel, MmPoll, TLC

\* Channels that exist together: the one of zero shutter lag; preview and snapshot when
\* videos are recorded, the second with metadata of the first.
Channel(s, called, links) == [streams |-> s, cb |-> called, links |-> links]
MCLayouts == {[zsl |-> Channel(<<"metadata", "preview", "snapshot">>, TRUE, << >>)],
              [preview |-> Channel(<<"metadata", "preview">>, FALSE, << >>),
               snapshot |-> Channel(<<"snapshot">>, TRUE, <<"metadata">>)]}

\* A channel that is started twice; and one with two streams.
MCPolled == {[bufs |-> 0 :> 2, rounds |-> 2], [bufs |-> 0 :> 1 @@ 1 :> 1, rounds |-> 1]}

\* The camera is not open, or open with a channel that is stopped, or started.
MCSituations == [chan : {"none", "stopped", "active"}, calls : {3}]

CONSTANTS app, hal, other

VARIABLE part

channelVars == <<part, chanVars, pollVars, camVars>>

\* The part that is not explored has one initial state.
ChannelsInit ==
    /\ part \in {"channels", "poll", "camera"}
    /\ ChanInit /\ PollInit /\ CamInit
    /\ part # "channels" => layout = CHOOSE l \in Layouts : TRUE
    /\ part # "poll" => setup = CHOOSE p \in PollSetups : TRUE
    /\ part # "camera" => ~\E o \in Cameras : o \in alive

Starting(A) == part = "channels" /\ A /\ UNCHANGED <<part, pollVars, camVars>>
Polling(A) == part = "poll" /\ A /\ UNCHANGED <<part, chanVars, camVars>>
Calling(A) == part = "camera" /\ A /\ UNCHANGED <<part, chanVars, pollVars>>

ChannelsNext == Calling(CamNext) \/ Starting(ChanNext) \/ Polling(PollNext)

\* The fairness of MmCamera and MmPoll: their threads run, and the kernel answers.  No one
\* has to call or to start a channel, and the server need not answer.
ChannelsSpec ==
    /\ ChannelsInit /\ [][ChannelsNext]_channelVars
    /\ WF_channelVars(Polling(PollerNext))
    /\ \A s \in UNION {DOMAIN p.bufs : p \in PollSetups} :
           WF_channelVars(Polling(s \in PollStreams /\ KernelAnswers(s)))
    /\ \A t \in Callers : WF_channelVars(Calling(CallerStep(t)))
    /\ \A o \in Cameras : WF_channelVars(Calling(CbThread(o)))

\* The types of the state of all parts.
ChannelsTypeOK == ChanTypeOK /\ PollTypeOK /\ CamTypeOK
=============================================================================
