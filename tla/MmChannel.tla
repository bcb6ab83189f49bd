------------------------------ MODULE MmChannel ------------------------------
(***************************************************************************)
(* How the channels of mm-camera-interface are set up, started, stopped    *)
(* and deleted.  A channel owns streams, each of which goes through its    *)
(* own states; starting the channel takes every stream through them one    *)
(* after another, and any step may fail, after which what was done is      *)
(* undone.  A channel with a callback has threads that put its frames      *)
(* together; it may also link the metadata stream of another channel,      *)
(* whose frames its threads then receive too.                              *)
(*                                                                         *)
(* Calls on one channel exclude each other (ch_lock).  Those on two        *)
(* channels do not, and frames come at any time.                           *)
(***************************************************************************)
EXTENDS Integers, Sequences, SequencesExt, FiniteSets

\* Channels the hardware interface has at the same time: of each, its streams in the
\* order they are added, whether it has a callback, and the streams it links.
CONSTANT Layouts

StreamsIn(l) == UNION {ToSet(l[c].streams) : c \in DOMAIN l}

\* A stream has one channel and one place in it.  Only one channel links streams, the live
\* snapshot's, which has a callback.
ASSUME LayoutsAssumption ==
    \A l \in Layouts :
        /\ "none" \notin DOMAIN l
        /\ \A c \in DOMAIN l :
               /\ l[c].cb \in BOOLEAN /\ l[c].streams # << >>
               /\ l[c].streams \in Seq(StreamsIn(l))
               /\ \A i, j \in DOMAIN l[c].streams :
                      l[c].streams[i] = l[c].streams[j] => i = j
               /\ l[c].links \in Seq(StreamsIn(l) \ ToSet(l[c].streams))
               /\ l[c].links # << >> => l[c].cb
        /\ \A c, d \in DOMAIN l :
               c # d => /\ ToSet(l[c].streams) \cap ToSet(l[d].streams) = {}
                        /\ l[c].links = << >> \/ l[d].links = << >>

MAX_STREAM_NUM_IN_BUNDLE == 4

VARIABLES
    layout,
    chan_state,     \* mm_channel_state_type_t
    slots,          \* the streams array: own streams and copies of linked ones
    stream_state,   \* mm_stream_state_type_t
    in_driver,      \* whether the kernel has the stream's buffers: "no", "yes",
                    \* "some" once queueing them failed half way
    notify_cb,      \* bundle.super_buf_notify_cb is set
    running,        \* the threads of the bundle run
    is_bundled,
    linked_obj,     \* the channel a stream is linked to, or "none"
    held,           \* streams a channel's threads were handed frames of
    op              \* what each channel is in the middle of

chanVars == <<layout, chan_state, slots, stream_state, in_driver, notify_cb, running,
              is_bundled, linked_obj, held, op>>

Chans == DOMAIN layout
ChanStreams == StreamsIn(layout)
OwnedBy(s, c) == s \in ToSet(layout[c].streams)

StreamStates == {"NOTUSED", "INITED", "ACQUIRED", "CFG", "BUFFED", "REG", "ACTIVE"}
AtRest == [call |-> "none", i |-> 0, s_objs |-> << >>]
Doing(call, s_objs) == [call |-> call, i |-> 1, s_objs |-> s_objs]

ChanTypeOK ==
    /\ layout \in Layouts
    /\ chan_state \in [Chans -> {"NOTUSED", "STOPPED", "ACTIVE"}]
    /\ \A c \in Chans : slots[c] \in BoundedSeq(ChanStreams, MAX_STREAM_NUM_IN_BUNDLE)
    /\ stream_state \in [ChanStreams -> StreamStates]
    /\ in_driver \in [ChanStreams -> {"no", "yes", "some"}]
    /\ notify_cb \in [Chans -> BOOLEAN] /\ running \in [Chans -> BOOLEAN]
    /\ is_bundled \in [ChanStreams -> BOOLEAN]
    /\ linked_obj \in [ChanStreams -> Chans \cup {"none"}]
    /\ held \in [Chans -> SUBSET ChanStreams]
    /\ \A c \in Chans :
           op[c].call \in {"none", "linked", "start", "rollback", "failed", "stop", "put",
                           "crashed"}

ChanInit ==
    /\ layout \in Layouts
    /\ chan_state = [c \in Chans |-> "NOTUSED"]
    /\ slots = [c \in Chans |-> << >>]
    /\ stream_state = [s \in ChanStreams |-> "NOTUSED"]
    /\ in_driver = [s \in ChanStreams |-> "no"]
    /\ notify_cb = [c \in Chans |-> FALSE]
    /\ running = [c \in Chans |-> FALSE]
    /\ is_bundled = [s \in ChanStreams |-> FALSE]
    /\ linked_obj = [s \in ChanStreams |-> "none"]
    /\ held = [c \in Chans |-> {}]
    /\ op = [c \in Chans |-> AtRest]

-----------------------------------------------------------------------------
(* Streams.  An event that the stream's state does not handle changes      *)
(* nothing and succeeds.                                                   *)

Handles == [ACQUIRE |-> {"INITED"}, SET_FMT |-> {"ACQUIRED", "CFG"},
            GET_BUF |-> {"CFG"}, REG_BUF |-> {"BUFFED"}, START |-> {"REG"},
            STOP |-> {"ACTIVE"}, UNREG_BUF |-> {"REG"}, PUT_BUF |-> {"BUFFED"},
            RELEASE |-> {"ACQUIRED", "CFG"}]
LeadsTo == [ACQUIRE |-> "ACQUIRED", SET_FMT |-> "CFG", GET_BUF |-> "BUFFED",
            REG_BUF |-> "REG", START |-> "ACTIVE", STOP |-> "REG",
            UNREG_BUF |-> "BUFFED", PUT_BUF |-> "CFG", RELEASE |-> "NOTUSED"]

\* The state that an event leaves a stream in.
After(state, e) == IF state \in Handles[e] THEN LeadsTo[e] ELSE state

Stopped(s) == After(stream_state[s], "STOP")

\* Unregistering takes the buffers back from the kernel, if the stream's state allows it.
Unregistered(s) == IF Stopped(s) = "REG" THEN "no" ELSE in_driver[s]

-----------------------------------------------------------------------------
(* The channels' owner, QCamera2HardwareInterface, does one thing at a     *)
(* time, except that a live snapshot starts its channel from a thread of   *)
(* its own, which cancelling it waits for.                                 *)

Idle(c) == op[c].call = "none"
LinksStreams(c) == layout[c].links # << >>

\* Nobody borrows a stream of c, or is about to.
NotBorrowed(c) ==
    \A d \in Chans \ {c} : LinksStreams(d) => Idle(d) /\ chan_state[d] # "ACTIVE"

mm_camera_add_channel(c) ==
    /\ chan_state[c] = "NOTUSED" /\ Idle(c)
    /\ chan_state' = [chan_state EXCEPT ![c] = "STOPPED"]
    /\ notify_cb' = [notify_cb EXCEPT ![c] = layout[c].cb]
    /\ UNCHANGED <<layout, slots, stream_state, in_driver, running, is_bundled,
                   linked_obj, held, op>>

\* Adds a stream and configures it.  If either fails the channel is given up.
mm_channel_add_stream(c) ==
    /\ chan_state[c] = "STOPPED" /\ Idle(c)
    /\ Len(slots[c]) < Len(layout[c].streams)
    /\ LET s == layout[c].streams[Len(slots[c]) + 1] IN
       \/ /\ stream_state' = [stream_state EXCEPT
                                  ![s] = After(After("INITED", "ACQUIRE"), "SET_FMT")]
          /\ slots' = [slots EXCEPT ![c] = Append(@, s)]
          /\ UNCHANGED op
       \/ /\ op' = [op EXCEPT ![c].call = "failed"]
          /\ UNCHANGED <<slots, stream_state>>
    /\ UNCHANGED <<layout, chan_state, in_driver, notify_cb, running, is_bundled,
                   linked_obj, held>>

\* The owner takes a channel down when it is stopped, or could not be set up or started.
mm_camera_del_channel(c) ==
    /\ chan_state[c] = "STOPPED" /\ op[c].call \in {"none", "failed"} /\ NotBorrowed(c)
    /\ chan_state' = [chan_state EXCEPT ![c] = "NOTUSED"]
    /\ stream_state' = [s \in ChanStreams |->
                            IF OwnedBy(s, c) THEN After(stream_state[s], "RELEASE")
                            ELSE stream_state[s]]
    /\ in_driver' = [s \in ChanStreams |-> IF OwnedBy(s, c) THEN "no" ELSE in_driver[s]]
    /\ is_bundled' = [s \in ChanStreams |-> is_bundled[s] /\ ~OwnedBy(s, c)]
    /\ linked_obj' = [s \in ChanStreams |->
                          IF OwnedBy(s, c) THEN "none" ELSE linked_obj[s]]
    /\ slots' = [slots EXCEPT ![c] = << >>]
    /\ notify_cb' = [notify_cb EXCEPT ![c] = FALSE]
    /\ held' = [held EXCEPT ![c] = {}]
    /\ op' = [op EXCEPT ![c] = AtRest]
    /\ UNCHANGED <<layout, running>>

\* A live snapshot links the metadata of the running preview.  When there is no room
\* for the copy the snapshot goes on without it.
mm_channel_link_stream(c) ==
    /\ LinksStreams(c) /\ chan_state[c] = "STOPPED" /\ Idle(c)
    /\ \A s \in ToSet(layout[c].streams) : s \in ToSet(slots[c])
    /\ \A d \in Chans \ {c} : chan_state[d] = "ACTIVE" /\ Idle(d)
    /\ slots' = [slots EXCEPT
           ![c] = IF Len(@) < MAX_STREAM_NUM_IN_BUNDLE THEN @ \o layout[c].links ELSE @]
    /\ op' = [op EXCEPT ![c].call = "linked"]
    /\ UNCHANGED <<layout, chan_state, stream_state, in_driver, notify_cb, running,
                   is_bundled, linked_obj, held>>

-----------------------------------------------------------------------------
(* Starting: the own metadata first, each stream brought to ACTIVE before  *)
(* the next; linked streams are only linked.                               *)

Swap(seq, i, j) == [seq EXCEPT ![i] = seq[j], ![j] = seq[i]]

\* Where a channel has its own metadata; the first stream if it has none.
MetaIdx(c) ==
    LET own == {i \in DOMAIN slots[c] : slots[c][i] = "metadata" /\ OwnedBy("metadata", c)}
    IN IF own = {} THEN 1 ELSE CHOOSE i \in own : TRUE

ToStart(c) == Swap(slots[c], 1, MetaIdx(c))
ToStop(c) == Swap(slots[c], MetaIdx(c), Len(slots[c]))

Current(c) == op[c].s_objs[op[c].i]
InCall(c, call) == op[c].call = call /\ op[c].i <= Len(op[c].s_objs)
Finished(c, call) == op[c].call = call /\ op[c].i > Len(op[c].s_objs)
Advance(c) == op' = [op EXCEPT ![c].i = @ + 1]

\* The threads are launched first, if there is a callback to call.
mm_channel_start(c) ==
    /\ chan_state[c] = "STOPPED"
    /\ op[c].call = IF LinksStreams(c) THEN "linked" ELSE "none"
    /\ \A s \in ToSet(layout[c].streams) : s \in ToSet(slots[c])
    /\ op' = [op EXCEPT ![c] = Doing("start", ToStart(c))]
    /\ running' = [running EXCEPT ![c] = notify_cb[c]]
    /\ is_bundled' = [s \in ChanStreams |->
                          is_bundled[s] \/ (OwnedBy(s, c) /\ notify_cb[c])]
    /\ UNCHANGED <<layout, chan_state, slots, stream_state, in_driver, notify_cb,
                   linked_obj, held>>

StartLinked(c) ==
    /\ InCall(c, "start") /\ ~OwnedBy(Current(c), c)
    /\ linked_obj' = [linked_obj EXCEPT ![Current(c)] = c]
    /\ Advance(c)
    /\ UNCHANGED <<layout, chan_state, slots, stream_state, in_driver, notify_cb, running,
                   is_bundled, held>>

\* GET_BUF, REG_BUF, START: one event after the other.
StartOwn(c) ==
    /\ InCall(c, "start") /\ OwnedBy(Current(c), c)
    /\ LET s == Current(c) IN
       \E e \in {"GET_BUF", "REG_BUF", "START"} :
           /\ stream_state[s] \in Handles[e]
           /\ stream_state' = [stream_state EXCEPT ![s] = LeadsTo[e]]
           /\ in_driver' = [in_driver EXCEPT ![s] = IF e = "REG_BUF" THEN "yes" ELSE @]
           /\ IF e = "START" THEN Advance(c) ELSE UNCHANGED op
    /\ UNCHANGED <<layout, chan_state, slots, notify_cb, running, is_bundled, linked_obj,
                   held>>

\* An event fails, or the stream was started already.  A failing REG_BUF may have
\* queued some of the buffers.
StartFailsBefore(c) ==     \* (only what went before the failing stream is undone)
    /\ InCall(c, "start") /\ OwnedBy(Current(c), c)
    /\ op' = [op EXCEPT ![c] = Doing("rollback", SubSeq(op[c].s_objs, 1, op[c].i - 1))]
    /\ UNCHANGED <<layout, chan_state, slots, stream_state, in_driver, notify_cb, running,
                   is_bundled, linked_obj, held>>

StartFails(c) ==
    /\ InCall(c, "start") /\ OwnedBy(Current(c), c)
    /\ op' = [op EXCEPT ![c] = Doing("rollback", SubSeq(op[c].s_objs, 1, op[c].i))]
    /\ in_driver' \in {in_driver} \cup
           {[in_driver EXCEPT ![s] = "some"] :
                s \in {t \in {Current(c)} : stream_state[t] = "BUFFED"}}
    /\ UNCHANGED <<layout, chan_state, slots, stream_state, notify_cb, running, is_bundled,
                   linked_obj, held>>

ChanStarted(c) ==
    /\ Finished(c, "start")
    /\ chan_state' = [chan_state EXCEPT ![c] = "ACTIVE"]
    /\ op' = [op EXCEPT ![c] = AtRest]
    /\ UNCHANGED <<layout, slots, stream_state, in_driver, notify_cb, running, is_bundled,
                   linked_obj, held>>

-----------------------------------------------------------------------------
(* Undoing a start, up to the stream that failed, and stopping.            *)

\* Unlinks a stream and empties the copy of it, the first one in the array.
UnlinkCurrent(c) ==
    /\ linked_obj' = [linked_obj EXCEPT ![Current(c)] = "none"]
    /\ slots' = [slots EXCEPT ![c] = RemoveFirst(@, Current(c))]
    /\ Advance(c)
    /\ UNCHANGED <<layout, chan_state, stream_state, in_driver, notify_cb, running,
                   is_bundled, held>>

\* Takes an own stream back to a state.
Undo(c, state) ==
    /\ stream_state' = [stream_state EXCEPT ![Current(c)] = state]
    /\ in_driver' = [in_driver EXCEPT ![Current(c)] = Unregistered(Current(c))]
    /\ Advance(c)
    /\ UNCHANGED <<layout, chan_state, slots, notify_cb, running, is_bundled, linked_obj,
                   held>>

\* Every stream up to the one that failed is an own one: linked ones come after them,
\* so that the code's unlinking at this place never happens, and copies of linked
\* streams stay in the array.
RollBack(c) ==
    /\ InCall(c, "rollback") /\ OwnedBy(Current(c), c)
    /\ Undo(c, After(After(Stopped(Current(c)), "UNREG_BUF"), "PUT_BUF"))

\* The bundle is cleared whole, with the callback in it, if its threads ran.  Only a
\* live snapshot's channel is kept; others are deleted.
RolledBack(c) ==
    /\ Finished(c, "rollback")
    /\ running' = [running EXCEPT ![c] = FALSE]
    /\ notify_cb' = [notify_cb EXCEPT ![c] = FALSE]
    /\ held' = [held EXCEPT ![c] = IF running[c] THEN {} ELSE @]
    /\ op' = [op EXCEPT ![c] =
                  IF LinksStreams(c) THEN AtRest ELSE [AtRest EXCEPT !.call = "failed"]]
    /\ UNCHANGED <<layout, chan_state, slots, stream_state, in_driver, is_bundled,
                   linked_obj>>

StopThreadsFirst(c) ==      \* (the threads end before the streams stop)
    /\ chan_state[c] = "ACTIVE" /\ Idle(c) /\ NotBorrowed(c)
    /\ op' = [op EXCEPT ![c] = Doing("stop", ToStop(c))]
    /\ running' = [running EXCEPT ![c] = FALSE]
    /\ held' = [held EXCEPT ![c] = {}]
    /\ UNCHANGED <<layout, chan_state, slots, stream_state, in_driver, notify_cb,
                   is_bundled, linked_obj>>

mm_channel_stop(c) ==
    /\ chan_state[c] = "ACTIVE" /\ Idle(c) /\ NotBorrowed(c)
    /\ op' = [op EXCEPT ![c] = Doing("stop", ToStop(c))]
    /\ UNCHANGED <<layout, chan_state, slots, stream_state, in_driver, notify_cb, running,
                   is_bundled, linked_obj, held>>

\* A stream that was linked twice is unlinked through the same copy again.
AlreadyUnlinked(c) == \E j \in 1..op[c].i - 1 : op[c].s_objs[j] = Current(c)

StopLinked(c) ==
    InCall(c, "stop") /\ ~OwnedBy(Current(c), c) /\ ~AlreadyUnlinked(c) /\ UnlinkCurrent(c)
StopOwn(c) ==
    /\ InCall(c, "stop") /\ OwnedBy(Current(c), c)
    /\ Undo(c, After(Stopped(Current(c)), "UNREG_BUF"))

\* That copy is all zeros by then: its linked_stream is a null pointer.
StopCrashes(c) ==
    /\ InCall(c, "stop") /\ ~OwnedBy(Current(c), c) /\ AlreadyUnlinked(c)
    /\ op' = [op EXCEPT ![c].call = "crashed"]
    /\ UNCHANGED <<layout, chan_state, slots, stream_state, in_driver, notify_cb, running,
                   is_bundled, linked_obj, held>>

\* The threads end, with what they were handed, and only then buffers are freed.
StopThreads(c) ==
    /\ Finished(c, "stop")
    /\ running' = [running EXCEPT ![c] = FALSE]
    /\ held' = [held EXCEPT ![c] = IF running[c] THEN {} ELSE @]
    /\ op' = [op EXCEPT ![c] = Doing("put", @.s_objs)]
    /\ UNCHANGED <<layout, chan_state, slots, stream_state, in_driver, notify_cb,
                   is_bundled, linked_obj>>

PutBufs(c) ==
    /\ InCall(c, "put") /\ OwnedBy(Current(c), c)
    /\ Undo(c, After(stream_state[Current(c)], "PUT_BUF"))

SkipLinked(c) ==
    /\ InCall(c, "put") /\ ~OwnedBy(Current(c), c) /\ Advance(c)
    /\ UNCHANGED <<layout, chan_state, slots, stream_state, in_driver, notify_cb, running,
                   is_bundled, linked_obj, held>>

ChanStopped(c) ==
    /\ Finished(c, "put")
    /\ chan_state' = [chan_state EXCEPT ![c] = "STOPPED"]
    /\ op' = [op EXCEPT ![c] = AtRest]
    /\ UNCHANGED <<layout, slots, stream_state, in_driver, notify_cb, running, is_bundled,
                   linked_obj, held>>

-----------------------------------------------------------------------------
(* Frames.                                                                 *)

\* A frame goes to the own channel if it bundles, and to the one the stream is linked to.
FrameComes(s) ==
    /\ stream_state[s] = "ACTIVE"
    /\ held' = [c \in Chans |->
                    IF (OwnedBy(s, c) /\ is_bundled[s]) \/ linked_obj[s] = c
                    THEN held[c] \cup {s} ELSE held[c]]
    /\ UNCHANGED <<layout, chan_state, slots, stream_state, in_driver, notify_cb, running,
                   is_bundled, linked_obj, op>>

\* The threads are done with all they have of a stream.
FramesLeave(c) ==
    /\ running[c]
    /\ \E s \in held[c] : held' = [held EXCEPT ![c] = @ \ {s}]
    /\ UNCHANGED <<layout, chan_state, slots, stream_state, in_driver, notify_cb, running,
                   is_bundled, linked_obj, op>>

ChanStep(c) ==
    \/ mm_camera_add_channel(c) \/ mm_channel_add_stream(c) \/ mm_camera_del_channel(c)
    \/ mm_channel_link_stream(c) \/ mm_channel_start(c) \/ StartLinked(c) \/ StartOwn(c)
    \/ StartFails(c) \/ ChanStarted(c) \/ RollBack(c) \/ RolledBack(c)
    \/ mm_channel_stop(c) \/ StopLinked(c) \/ StopOwn(c) \/ StopCrashes(c)
    \/ StopThreads(c) \/ PutBufs(c) \/ SkipLinked(c) \/ ChanStopped(c) \/ FramesLeave(c)

ChanNext ==
    /\ \A c \in Chans : op[c].call # "crashed"
    /\ \/ \E c \in Chans : ChanStep(c)
       \/ \E s \in ChanStreams : FrameComes(s)

ChanSpec == ChanInit /\ [][ChanNext]_chanVars

-----------------------------------------------------------------------------
(* Properties.                                                             *)

\* The callback given to mm_channel_init is gone, as a failed start leaves it.
Forgotten(c) == layout[c].cb /\ chan_state[c] # "NOTUSED" /\ ~notify_cb[c]

\* No stream of a channel runs without the metadata of that channel: they start first
\* and stop last.  Undoing a failed start does not keep to that.
MetadataAround ==
    \A c \in Chans : OwnedBy("metadata", c) /\ op[c].call # "rollback" =>
        \A s \in ToSet(layout[c].streams) :
            stream_state[s] = "ACTIVE" => stream_state["metadata"] = "ACTIVE"

\* Between two calls a channel that is not started holds nothing: its streams have no
\* buffers, the kernel has none of theirs except those of a registration that failed
\* half way, its threads are gone and nothing is linked to it.  One that is started has
\* every stream running, and its threads.  In between, its metadata run first and last.
AllOrNothing ==
    /\ MetadataAround
    /\ \A c \in Chans : op[c].call \in {"none", "linked", "failed"} =>
           LET own == {s \in ToSet(slots[c]) : OwnedBy(s, c)} IN
           IF chan_state[c] = "ACTIVE"
           THEN /\ \A s \in own : stream_state[s] = "ACTIVE" /\ in_driver[s] = "yes"
                /\ running[c] \/ ~layout[c].cb \/ Forgotten(c)
                /\ \A s \in ToSet(slots[c]) \ own : linked_obj[s] = c
           ELSE /\ \A s \in own : stream_state[s] = "CFG" /\ in_driver[s] # "yes"
                /\ ~running[c]
                /\ \A s \in ChanStreams : linked_obj[s] # c

\* Frames that are handed to a channel are taken by its threads, which never look into
\* buffers that were freed: threads end after the last frame can come and before the
\* buffers go.  Undoing a failed start does not keep to that.
FramesHaveReaders ==
    \A c \in Chans : ~Forgotten(c) /\ op[c].call # "rollback" =>
        \A s \in held[c] :
            running[c] /\ stream_state[s] \in {"BUFFED", "REG", "ACTIVE"}
=============================================================================
