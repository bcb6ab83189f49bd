------------------------------ MODULE MmCamera ------------------------------
(***************************************************************************)
(* The entries of mm-camera-interface.  Every call finds its camera under  *)
(* g_intf_lock, takes the camera's lock before it gives that up, and, if   *)
(* it is about a channel, the channel's lock before it gives up the        *)
(* camera's.  A camera is opened once and counted.  Memory is mapped by a  *)
(* message that the server answers with an event; one is under way at a    *)
(* time.  Each channel has a thread that calls back with frames, and       *)
(* returns buffers from there; who stops a channel waits for it.           *)
(***************************************************************************)
EXTENDS Integers, Sequences, FiniteSets

CONSTANTS
    Callers,        \* threads
    Hal,            \* those of one client, which has the channels; each of the others
                    \* is a client of its own, which shares the camera
    MaxCameras,     \* bound on the camera objects ever made
    Situations      \* how the camera is found, and the bound on the calls made then

ASSUME MmCameraAssumption ==
    /\ IsFiniteSet(Callers) /\ Hal \subseteq Callers /\ Hal # {}
    /\ MaxCameras \in Nat \ {0}
    /\ \A i \in Situations : /\ i.chan \in {"none", "notused", "stopped", "active"}
                             /\ i.calls \in Nat

VARIABLES
    cam_obj,        \* g_cam_ctrl's entry, 0 if the camera is not open
    ref_count,      \* of each camera object
    alive,          \* objects that are not freed
    chan,           \* the state of each one's channel
    cb,             \* where the channel's callback thread is
    caller,         \* where each thread is, in which call, with which object
    handle,         \* the object that the thread's client has open
    requests,       \* of each object: messages the server has not answered
    msg_no, evt_rcvd,   \* the last one sent; the one whose answer is stored, or 0
    gave_up,        \* history: objects where a wait for an answer timed out
    raced,          \* history: two opens overlapped
    calls_left

camVars == <<cam_obj, ref_count, alive, chan, cb, caller, handle, requests, msg_no,
             evt_rcvd, gave_up, raced, calls_left>>
objVars == <<cam_obj, ref_count, alive>>
msgVars == <<requests, msg_no, evt_rcvd, gave_up>>

Cameras == 1 .. MaxCameras

\* Calls by what they lock: the camera; the camera while a message is answered; then the
\* channel, once and while a message is answered.
ChannelCalls == {"start", "stop", "del", "config", "map_stream"}
CameraCalls == {"parms", "map", "add"}

Resting == [pc |-> "idle", op |-> "none", o |-> 0]
Clients == {Hal} \cup {{t} : t \in Callers \ Hal}
Peers(t) == CHOOSE c \in Clients : t \in c

CamInit ==
    \E i \in Situations :
        LET open == i.chan # "none" IN
        /\ cam_obj = (IF open THEN 1 ELSE 0)
        /\ ref_count = [o \in Cameras |-> IF open /\ o = 1 THEN 1 ELSE 0]
        /\ alive = (IF open THEN {1} ELSE {})
        /\ chan = [o \in Cameras |-> IF open /\ o = 1 THEN i.chan ELSE "notused"]
        /\ cb = [o \in Cameras |-> IF chan[o] = "active" THEN "idle" ELSE "none"]
        /\ caller = [t \in Callers |-> Resting]
        /\ handle = [t \in Callers |-> IF open /\ t \in Hal THEN 1 ELSE 0]
        /\ requests = [o \in Cameras |-> << >>]
        /\ msg_no = [o \in Cameras |-> 0] /\ evt_rcvd = msg_no
        /\ gave_up = {} /\ raced = FALSE /\ calls_left = i.calls

-----------------------------------------------------------------------------
(* The locks.  Who is at "cam" has g_intf_lock, who is at "ch" has the     *)
(* camera's: a lock is given up when the next one is got.                  *)

In(t, pc) == caller[t].pc = pc
Goes(t, pc) == caller' = [caller EXCEPT ![t].pc = pc]
Returns(t) == caller' = [caller EXCEPT ![t] = Resting]

HoldsCam(t) ==
    \/ caller[t].pc \in {"look", "ch", "opening", "closing", "stray"}
    \/ (caller[t].pc \in {"msg", "told"} /\ caller[t].op = "map")
HoldsCh(t) ==
    \/ caller[t].pc \in {"work", "joins"}
    \/ (caller[t].pc \in {"msg", "told"} /\ caller[t].op = "map_stream")

IntfFree == /\ \A t \in Callers : ~In(t, "cam")
            /\ \A o \in Cameras : cb[o] # "cam"
CamFree(o) == /\ \A t \in Callers : HoldsCam(t) => caller[t].o # o
              /\ cb[o] # "qbuf"
ChFree(o) == \A t \in Callers : HoldsCh(t) => caller[t].o # o
MsgFree(o) == \A t \in Callers : In(t, "told") => caller[t].o # o

-----------------------------------------------------------------------------
(* Calls.                                                                  *)

Quiet(c) == \A t \in c : In(t, "idle")

\* What clients keep to: they open once, close when their calls have returned and their
\* channels are gone, and delete channels that are stopped.
Allowed(t, op) ==
    LET o == handle[t]
        peers == Peers(t)
    IN CASE op = "open" -> o = 0 /\ Quiet(peers)
         [] op = "close" -> o # 0 /\ Quiet(peers) /\ (t \in Hal => chan[o] = "notused")
         [] OTHER -> /\ o # 0
                     /\ \A u \in peers : caller[u].op \notin {"open", "close"}
                     /\ op \in ChannelCalls \cup {"add"} => t \in Hal
                     /\ op = "add" => chan[o] = "notused"
                     /\ op \in ChannelCalls => chan[o] # "notused"
                     /\ op \in {"start", "del"} => chan[o] = "stopped"
                     /\ op = "stop" => chan[o] = "active"
                     /\ op \in {"add", "start", "stop", "del"} =>
                            \A u \in peers : caller[u].op \notin {"add", "start", "stop", "del"}

Call(t) ==
    /\ In(t, "idle") /\ calls_left > 0
    /\ \E op \in {"open", "close"} \cup CameraCalls \cup ChannelCalls :
           /\ Allowed(t, op)
           /\ caller' = [caller EXCEPT ![t] = [pc |-> "intf", op |-> op, o |-> handle[t]]]
    /\ calls_left' = calls_left - 1
    /\ UNCHANGED <<objVars, chan, cb, handle, msgVars, raced>>

HasOpen(t, o) == handle' = [u \in Callers |-> IF u \in Peers(t) THEN o ELSE handle[u]]

\* Mutant: the second client is not counted.
ReuseUncounted(t) ==
    cam_obj # 0 /\ HasOpen(t, cam_obj) /\ Returns(t) /\ UNCHANGED <<objVars, raced>>

\* The camera is open already.
Reuse(t) ==
    /\ cam_obj # 0
    /\ ref_count' = [ref_count EXCEPT ![cam_obj] = @ + 1]
    /\ HasOpen(t, cam_obj) /\ Returns(t) /\ UNCHANGED <<cam_obj, alive, raced>>

\* The table gets the object when it is open, and g_intf_lock is free until then.
NewCamera(t) ==
    /\ cam_obj = 0
    /\ \E o \in Cameras \ alive :
           /\ \A p \in Cameras \ alive : o <= p
           /\ ref_count' = [ref_count EXCEPT ![o] = 1] /\ alive' = alive \cup {o}
           /\ caller' = [caller EXCEPT ![t].pc = "opening", ![t].o = o]
    /\ raced' = (raced \/ \E u \in Callers : caller[u].pc \in {"opening", "settle", "failed"})
    /\ UNCHANGED <<cam_obj, handle>>

camera_open(t) ==
    /\ In(t, "intf") /\ caller[t].op = "open" /\ IntfFree
    /\ (Reuse(t) \/ NewCamera(t))
    /\ UNCHANGED <<chan, cb, msgVars, calls_left>>

\* The devices are opened, and the threads launched, with the camera's lock held.
mm_camera_open(t) ==
    /\ In(t, "opening")
    /\ (Goes(t, "settle") \/ Goes(t, "failed"))
    /\ UNCHANGED <<objVars, chan, cb, handle, msgVars, raced, calls_left>>

Opened(t) ==
    /\ caller[t].pc \in {"settle", "failed"} /\ IntfFree
    /\ IF In(t, "settle")
       THEN /\ cam_obj' = caller[t].o /\ HasOpen(t, caller[t].o)
            /\ UNCHANGED <<alive, ref_count>>
       ELSE /\ cam_obj' = 0 /\ alive' = alive \ {caller[t].o} /\ UNCHANGED handle
            /\ ref_count' = [ref_count EXCEPT ![caller[t].o] = 0]
    /\ Returns(t)
    /\ UNCHANGED <<chan, cb, msgVars, raced, calls_left>>

\* mm_camera_util_get_camera_by_handler()
Found(o) == o # 0 /\ cam_obj = o

\* The last one takes the camera out of the table.
mm_camera_intf_close(t) ==
    /\ In(t, "intf") /\ caller[t].op = "close" /\ IntfFree
    /\ HasOpen(t, 0)
    /\ IF ~Found(caller[t].o) THEN Returns(t) /\ UNCHANGED <<cam_obj, ref_count>>
       ELSE /\ ref_count' = [ref_count EXCEPT ![caller[t].o] = @ - 1]
            /\ IF ref_count[caller[t].o] > 1 THEN Returns(t) /\ UNCHANGED cam_obj
               ELSE Goes(t, "cam") /\ cam_obj' = 0
    /\ UNCHANGED <<alive, chan, cb, msgVars, raced, calls_left>>

mm_camera_close(t) ==
    /\ In(t, "closing")
    /\ alive' = alive \ {caller[t].o}
    /\ requests' = [requests EXCEPT ![caller[t].o] = << >>]
    /\ evt_rcvd' = [evt_rcvd EXCEPT ![caller[t].o] = 0]
    /\ gave_up' = gave_up \ {caller[t].o}
    /\ Returns(t)
    /\ UNCHANGED <<cam_obj, ref_count, chan, cb, handle, msg_no, raced, calls_left>>

\* All other calls begin alike.
FindCamera(t) ==
    /\ In(t, "intf") /\ caller[t].op \notin {"open", "close"} /\ IntfFree
    /\ IF Found(caller[t].o) THEN Goes(t, "cam") ELSE Returns(t)
    /\ UNCHANGED <<objVars, chan, cb, handle, msgVars, raced, calls_left>>

TakeCam(t) ==
    /\ In(t, "cam") /\ CamFree(caller[t].o)
    /\ Goes(t, IF caller[t].op = "close" THEN "closing" ELSE "look")
    /\ UNCHANGED <<objVars, chan, cb, handle, msgVars, raced, calls_left>>

\* With the camera locked.  A channel is looked up before it is waited for.
DoCameraCall(t) ==
    LET o == caller[t].o IN
    /\ In(t, "look")
    /\ CASE caller[t].op = "parms" -> Returns(t) /\ UNCHANGED chan
         [] caller[t].op = "add" ->
              Returns(t) /\ chan' = [chan EXCEPT ![o] = IF @ = "notused" THEN "stopped" ELSE @]
         [] caller[t].op = "map" -> Goes(t, "msg") /\ UNCHANGED chan
         [] OTHER -> /\ IF chan[o] = "notused" THEN Returns(t) ELSE Goes(t, "ch")
                     /\ UNCHANGED chan
    /\ UNCHANGED <<objVars, cb, handle, msgVars, raced, calls_left>>

TakeCh(t) ==
    /\ In(t, "ch") /\ ChFree(caller[t].o)
    /\ Goes(t, IF caller[t].op = "map_stream" THEN "msg" ELSE "work")
    /\ UNCHANGED <<objVars, chan, cb, handle, msgVars, raced, calls_left>>

\* With the channel locked.  A start that fails has launched the callback thread.
mm_camera_start_channel(t) ==
    LET o == caller[t].o IN
    /\ In(t, "work") /\ caller[t].op = "start"
    /\ IF chan[o] # "stopped" THEN Returns(t) /\ UNCHANGED <<chan, cb>>
       ELSE /\ cb' = [cb EXCEPT ![o] = "idle"]
            /\ \/ Returns(t) /\ chan' = [chan EXCEPT ![o] = "active"]
               \/ Goes(t, "joins") /\ UNCHANGED chan
    /\ UNCHANGED <<objVars, handle, msgVars, raced, calls_left>>

mm_camera_stop_channel(t) ==
    /\ In(t, "work") /\ caller[t].op = "stop"
    /\ IF chan[caller[t].o] = "active" THEN Goes(t, "joins") ELSE Returns(t)
    /\ UNCHANGED <<objVars, chan, cb, handle, msgVars, raced, calls_left>>

CbJoined(t) ==
    LET o == caller[t].o IN
    /\ In(t, "joins") /\ cb[o] = "idle"
    /\ cb' = [cb EXCEPT ![o] = "none"] /\ chan' = [chan EXCEPT ![o] = "stopped"]
    /\ Returns(t)
    /\ UNCHANGED <<objVars, handle, msgVars, raced, calls_left>>

\* The lock goes with the channel: who waits for it is not woken.
DeleteChannel(t) ==
    LET o == caller[t].o IN
    /\ In(t, "work") /\ caller[t].op = "del"
    /\ chan' = [chan EXCEPT ![o] = "notused"]
    /\ caller' = [u \in Callers |->
                      IF u = t THEN Resting
                      ELSE IF In(u, "ch") /\ caller[u].o = o THEN [caller[u] EXCEPT !.pc = "stray"]
                      ELSE caller[u]]
    /\ UNCHANGED <<objVars, cb, handle, msgVars, raced, calls_left>>

\* Until it looks again: then it has the lock of a channel that is not in use.
StrayWakes(t) ==
    /\ In(t, "stray") /\ Returns(t)
    /\ UNCHANGED <<objVars, chan, cb, handle, msgVars, raced, calls_left>>

OtherChannelCall(t) ==
    /\ In(t, "work") /\ caller[t].op = "config" /\ Returns(t)
    /\ UNCHANGED <<objVars, chan, cb, handle, msgVars, raced, calls_left>>

-----------------------------------------------------------------------------
(* Messages to the server.                                                 *)

mm_camera_util_sendmsg(t) ==
    LET o == caller[t].o IN
    /\ In(t, "msg") /\ MsgFree(o)
    /\ \/ /\ msg_no' = [msg_no EXCEPT ![o] = @ + 1]
          /\ requests' = [requests EXCEPT ![o] = Append(@, msg_no[o] + 1)]
          /\ Goes(t, "told")
       \/ Returns(t) /\ UNCHANGED <<msg_no, requests>>
    /\ UNCHANGED <<objVars, chan, cb, handle, evt_rcvd, gave_up, raced, calls_left>>

\* mm_camera_event_notify(): the server answers in order.
MapUnmapDone(o) ==
    /\ requests[o] # << >>
    /\ evt_rcvd' = [evt_rcvd EXCEPT ![o] = Head(requests[o])]
    /\ requests' = [requests EXCEPT ![o] = Tail(@)]
    /\ UNCHANGED <<objVars, chan, cb, caller, handle, msg_no, gave_up, raced, calls_left>>

ResetEvt(o) == evt_rcvd' = [evt_rcvd EXCEPT ![o] = 0]

mm_camera_util_wait_for_event(t) ==
    LET o == caller[t].o IN
    /\ In(t, "told")
    /\ gave_up' = IF evt_rcvd[o] = 0 THEN gave_up \cup {o} ELSE gave_up
    /\ ResetEvt(o) /\ Returns(t)
    /\ UNCHANGED <<objVars, chan, cb, handle, requests, msg_no, raced, calls_left>>

-----------------------------------------------------------------------------
(* The callback thread.                                                    *)

CbCalled(o) ==
    /\ cb[o] = "idle" /\ calls_left > 0
    /\ cb' = [cb EXCEPT ![o] = "intf"] /\ calls_left' = calls_left - 1
    /\ UNCHANGED <<objVars, chan, caller, handle, msgVars, raced>>

CbStep(o, from, to) ==
    /\ cb[o] = from /\ cb' = [cb EXCEPT ![o] = to]
    /\ UNCHANGED <<objVars, chan, caller, handle, msgVars, raced, calls_left>>

mm_camera_intf_qbuf(o) == IntfFree /\ CbStep(o, "intf", IF Found(o) THEN "cam" ELSE "idle")
CbTakeCam(o) == CamFree(o) /\ CbStep(o, "cam", "qbuf")

\* Mutant: the channel's lock.
QbufLocked(o) == ChFree(o)

\* "in order to avoid deadlock, we are not locking ch_lock for qbuf"
QbufNeeds(o) == TRUE

CbQbuf(o) == QbufNeeds(o) /\ CbStep(o, "qbuf", "idle")

-----------------------------------------------------------------------------
CallerStep(t) ==
    \/ camera_open(t) \/ mm_camera_open(t) \/ Opened(t) \/ mm_camera_intf_close(t)
    \/ mm_camera_close(t) \/ FindCamera(t) \/ TakeCam(t) \/ DoCameraCall(t) \/ TakeCh(t)
    \/ mm_camera_start_channel(t) \/ mm_camera_stop_channel(t) \/ CbJoined(t)
    \/ DeleteChannel(t) \/ OtherChannelCall(t)
    \/ mm_camera_util_sendmsg(t) \/ mm_camera_util_wait_for_event(t)

CbThread(o) == mm_camera_intf_qbuf(o) \/ CbTakeCam(o) \/ CbQbuf(o)

CamNext ==
    \/ \E t \in Callers : Call(t) \/ CallerStep(t) \/ StrayWakes(t)
    \/ \E o \in Cameras : CbCalled(o) \/ CbThread(o) \/ MapUnmapDone(o)

CamSpec ==
    /\ CamInit /\ [][CamNext]_camVars
    /\ \A t \in Callers : WF_camVars(CallerStep(t))
    /\ \A o \in Cameras : WF_camVars(CbThread(o))

-----------------------------------------------------------------------------
CamTypeOK ==
    /\ cam_obj \in Cameras \cup {0} /\ alive \subseteq Cameras
    /\ ref_count \in [Cameras -> Nat] /\ handle \in [Callers -> Cameras \cup {0}]
    /\ chan \in [Cameras -> {"notused", "stopped", "active"}]
    /\ cb \in [Cameras -> {"none", "idle", "intf", "cam", "qbuf"}]
    /\ \A t \in Callers : caller[t].o \in Cameras \cup {0}

\* One waits for the channel with the camera locked, another for the callback thread with
\* the channel locked, and that thread, returning a buffer, for the camera.
ThreeWay == \E a, b \in Callers : \E o \in Cameras :
    /\ In(a, "joins") /\ caller[a].o = o /\ In(b, "ch") /\ caller[b].o = o
    /\ cb[o] \in {"intf", "cam"}

\* Every call returns, whoever holds which lock and whether or not the server answers,
\* unless three wait in a ring, or a channel was deleted while somebody waited for its lock.
OpsReturn ==
    \A t \in Callers :
        ~In(t, "idle") ~> In(t, "idle") \/ ThreeWay \/ \E u \in Callers : In(u, "stray")

\* The answer that a caller is given is that to its own message, unless a wait before it
\* has timed out.
OwnAnswer ==
    \A t \in Callers : In(t, "told") =>
        LET o == caller[t].o IN evt_rcvd[o] \in {0, msg_no[o]} \/ o \in gave_up

\* As long as opens have not overlapped, a camera that somebody has open can be found and
\* has one reference for each client.  A camera in use is never freed; and a call is told
\* what is meant for it.
HandlesAreLive ==
    /\ OwnAnswer
    /\ \A t \in Callers :
           caller[t].pc \in {"look", "ch", "work", "joins", "msg", "told"} =>
               caller[t].o \in alive
    /\ ~raced => \A t \in Callers : handle[t] # 0 =>
           /\ cam_obj = handle[t] /\ cam_obj \in alive
           /\ ref_count[cam_obj] =
                  Cardinality({c \in Clients : \E u \in c : handle[u] = cam_obj})
=============================================================================
