----------------------------- MODULE MmSuperbuf -----------------------------
(***************************************************************************)
(* The frames of a started channel, from the kernel to the client and      *)
(* back.  A polling thread takes frames from the kernel, one stream at a   *)
(* time; it hands each to the channel's command thread, which puts frames  *)
(* of the same number together into a superbuf, and to the stream's own    *)
(* thread, which shows it to the stream's callback.  Each of them counts   *)
(* as a reference to the frame's buffer, which goes back to the kernel     *)
(* with the last one.  A channel may borrow ("link") the stream of another *)
(* channel, whose frames then go to both.                                  *)
(*                                                                         *)
(* A buffer is named by its stream and the number of the frame in it.      *)
(* Frame numbers start at 1: the code takes 0 for "no frame".              *)
(***************************************************************************)
EXTENDS Integers, Sequences, SequencesExt, FiniteSets, FiniteSetsExt

CONSTANTS
    Setups,         \* channels as the hardware interface configures them
    BufNum,         \* buffers of a stream
    Reports,        \* what the metadata of a frame may say
    Requests,       \* what the client may ask of a running channel
    MaxFrame,       \* bound on the frame numbers
    MaxCommands     \* bound on the client's commands

ChStreams == {"preview", "snapshot", "metadata"}

ASSUME MmSuperbufAssumption ==
    /\ {BufNum, MaxFrame, MaxCommands} \subseteq Nat
    /\ \A c \in Setups : /\ c.streams \in Seq(ChStreams) /\ IsInjective(c.streams)
                        /\ c.linked \subseteq ChStreams
                        /\ c.water_mark \in Nat /\ c.look_back \in Nat
                        /\ ToSet(c.streams) \cap {"preview"} \subseteq c.callbacks

Frames == 1..MaxFrame
FrameIds == 0..MaxFrame + 1     \* MaxFrame + 1 stands for all that come later
PREVIEW_SKIP_CNT == 3

VARIABLES
    ch,             \* the channel: streams (in the order of its array), linked,
                    \* callbacks (streams that have one), burst, water_mark,
                    \* look_back, post_frame_skip, max_unmatched_frames
    buf_refcnt,     \* references to each buffer
    last_idx,       \* number of the last frame of each stream
    stream_on,      \* streams the kernel fills buffers of
    active,         \* streams in MM_STREAM_STATE_ACTIVE
    known,          \* streams the channel still has a handle of
    ch_cmds,        \* queue of the channel's command thread
    cmd_pc,         \* what that thread does: "wait", "dispatch"
    superbuf_queue,
    match_cnt,
    expected,       \* expected_frame_id, expected_frame_id_without_led
    pending_cnt,
    flags,          \* the channel's booleans
    previewSkipCnt,
    shown,          \* frames that went to the streams' own threads and callbacks
    superbufs,      \* frames of superbufs the client holds
    delivered,      \* history: the superbufs it was given
    stop_pc,        \* how far stopping the channel is: 0 if it runs
    commands        \* how many the client has sent

superbufVars == <<ch, buf_refcnt, last_idx, stream_on, active, known, ch_cmds, cmd_pc,
                  superbuf_queue, match_cnt, expected, pending_cnt, flags,
                  previewSkipCnt, shown, superbufs, delivered, stop_pc, commands>>
streamVars == <<last_idx, stream_on, active, known>>
queueVars == <<superbuf_queue, match_cnt>>
clientVars == <<shown, superbufs, delivered>>

Bundled == ToSet(ch.streams) \cup ch.linked
Metadata == [is_meta_valid: BOOLEAN, prep: {"no", "need_future", "done"},
             range: {<< >>} \cup (Frames \X Frames), crop1x: BOOLEAN]
NoMetadata == [is_meta_valid |-> TRUE, prep |-> "no", range |-> << >>, crop1x |-> FALSE]
ChCommand == [type: {"DATA"}, stream: ChStreams, frame: Frames]
           \cup [type: {"REQ"}, num: 0..2] \cup [type: {"FLUSH"}, frame: Frames]
           \cup [type: {"BRACKETING", "FLASH_BRACKETING", "ZOOM_1X"}, start: BOOLEAN]
           \cup [type: {"START_ZSL", "STOP_ZSL"}]

ASSUME SuperbufInputsAssumption == Reports \subseteq Metadata /\ Requests \subseteq ChCommand

Flags == [isZoom1xFrameRequested: BOOLEAN, need3ABracketing: BOOLEAN,
          isFlashBracketingEnabled: BOOLEAN, needLEDFlash: BOOLEAN,
          startZSlSnapshotCalled: BOOLEAN, manualZSLSnapshot: BOOLEAN]
Superbuf == [frame_idx: Frames, bufs: SUBSET ChStreams, matched: BOOLEAN]

SuperbufTypeOK ==
    /\ ch \in Setups
    /\ buf_refcnt \in [ChStreams -> [Frames -> 0..4]]
    /\ last_idx \in [ChStreams -> 0..MaxFrame]
    /\ stream_on \subseteq ChStreams /\ active \subseteq ChStreams /\ known \subseteq ChStreams
    /\ \A i \in DOMAIN ch_cmds : ch_cmds[i] \in ChCommand
    /\ cmd_pc \in {"wait", "dispatch"}
    /\ \A i \in DOMAIN superbuf_queue : superbuf_queue[i] \in Superbuf
    /\ match_cnt \in Nat
    /\ expected \in [id: FrameIds, without_led: FrameIds]
    /\ pending_cnt \in 0..2 /\ flags \in Flags
    /\ previewSkipCnt \in 0..PREVIEW_SKIP_CNT
    /\ shown \subseteq ChStreams \X Frames /\ superbufs \subseteq ChStreams \X Frames
    /\ \A i \in DOMAIN delivered : delivered[i] \in Frames
    /\ stop_pc \in 0..2 * Cardinality(ChStreams) + 2 /\ commands \in 0..MaxCommands

\* mm_channel_start() has started the streams of the channel.
SuperbufInit ==
    /\ ch \in Setups
    /\ buf_refcnt = [s \in ChStreams |-> [f \in Frames |-> 0]]
    /\ last_idx = [s \in ChStreams |-> 0]
    /\ stream_on = Bundled /\ active = Bundled /\ known = Bundled
    /\ ch_cmds = << >> /\ cmd_pc = "wait"
    /\ superbuf_queue = << >> /\ match_cnt = 0
    /\ expected = [id |-> 0, without_led |-> 0]
    /\ pending_cnt = 0 /\ previewSkipCnt = 0
    /\ flags = [isZoom1xFrameRequested |-> FALSE, need3ABracketing |-> FALSE,
                isFlashBracketingEnabled |-> FALSE, needLEDFlash |-> FALSE,
                startZSlSnapshotCalled |-> FALSE, manualZSLSnapshot |-> FALSE]
    /\ shown = {} /\ superbufs = {} /\ delivered = << >>
    /\ stop_pc = 0 /\ commands = 0

-----------------------------------------------------------------------------
(* Buffers.                                                                *)

\* mm_stream_buf_done(): gives up a reference to each buffer of bufs.  A stream
\* that is not active ignores it.
BufDone(refcnt, bufs) ==
    [s \in ChStreams |-> [f \in Frames |->
        IF <<s, f>> \in bufs /\ s \in active /\ refcnt[s][f] > 0
        THEN refcnt[s][f] - 1 ELSE refcnt[s][f]]]

\* mm_channel_qbuf(): the same, for the streams the channel knows.
ChannelQbuf(refcnt, bufs) == BufDone(refcnt, {b \in bufs : b[1] \in known})

\* The buffers of some of the superbufs of a queue, and of all of them.
BufsAt(q, places) == {b \in ChStreams \X Frames :
                          \E i \in places : q[i].frame_idx = b[2] /\ b[1] \in q[i].bufs}
BufsOf(q) == BufsAt(q, DOMAIN q)
CountMatched(q) == Cardinality({i \in DOMAIN q : q[i].matched})

\* The matched superbufs at the head, which is all a dequeue of matched ones sees.
MatchedHead(q) ==
    SubSeq(q, 1, Max({n \in 0..Len(q) : \A i \in 1..n : q[i].matched}))

\* Mutant: the last of them stays.
DequeueOneLess(n) ==
    /\ superbuf_queue' = SubSeq(superbuf_queue, Max({n, 1}), Len(superbuf_queue))
    /\ match_cnt' = match_cnt - CountMatched(SubSeq(superbuf_queue, 1, n))

\* The first n of the queue leave it; matched ones are no longer counted.
Dequeue(n) ==
    /\ superbuf_queue' = SubSeq(superbuf_queue, n + 1, Len(superbuf_queue))
    /\ match_cnt' = match_cnt - CountMatched(SubSeq(superbuf_queue, 1, n))

-----------------------------------------------------------------------------
(* The polling thread.                                                     *)

InKernel(s) == BufNum - Cardinality({f \in Frames : buf_refcnt[s][f] > 0})

\* mm_stream_data_notify(): a frame of a stream arrives, perhaps after some the
\* kernel had no buffer for.
FrameArrives(s, f) ==
    LET bundled == s \in known        \* or linked
        skipped == s = "preview" /\ previewSkipCnt > 0
        shows == s \in ch.callbacks /\ ~skipped
        refs == (IF bundled THEN 1 ELSE 0) + (IF shows THEN 1 ELSE 0)
    IN
    /\ s \in stream_on /\ InKernel(s) > 0
    /\ f \in last_idx[s] + 1..last_idx[s] + 2 /\ f \in Frames
    /\ last_idx' = [last_idx EXCEPT ![s] = f]
    /\ buf_refcnt' = [buf_refcnt EXCEPT ![s][f] = refs]
    /\ ch_cmds' = IF bundled
                  THEN Append(ch_cmds, [type |-> "DATA", stream |-> s, frame |-> f])
                  ELSE ch_cmds
    /\ shown' = IF shows THEN shown \cup {<<s, f>>} ELSE shown
    /\ previewSkipCnt' = IF skipped THEN previewSkipCnt - 1 ELSE previewSkipCnt
    /\ UNCHANGED <<ch, stream_on, active, known, cmd_pc, superbuf_queue, match_cnt,
                   expected, pending_cnt, flags, superbufs, delivered, stop_pc, commands>>

-----------------------------------------------------------------------------
(* The stream's own thread and the client.                                 *)

\* Through mm_stream_dispatch_app_data() the callback's reference replaces the queue's;
\* the client returns the buffer through the stream's own channel.
ReturnShown(s, f) ==
    /\ <<s, f>> \in shown
    /\ shown' = shown \ {<<s, f>>}
    /\ buf_refcnt' = BufDone(buf_refcnt, {<<s, f>>})
    /\ UNCHANGED <<ch, streamVars, ch_cmds, cmd_pc, queueVars, expected, pending_cnt,
                   flags, previewSkipCnt, superbufs, delivered, stop_pc, commands>>

ReturnSuperbuf(f) ==
    LET bufs == {b \in superbufs : b[2] = f} IN
    /\ bufs # {}
    /\ superbufs' = superbufs \ bufs
    /\ buf_refcnt' = BufDone(buf_refcnt, bufs)
    /\ UNCHANGED <<ch, streamVars, ch_cmds, cmd_pc, queueVars, expected, pending_cnt,
                   flags, previewSkipCnt, shown, delivered, stop_pc, commands>>

\* What the client asks of a running channel is put on the command queue.  Requests
\* and flushes are for burst mode.
ClientCommand(c) ==
    /\ stop_pc = 0 /\ commands < MaxCommands
    /\ c \in Requests /\ c.type # "DATA" /\ ch.burst
    /\ ch_cmds' = Append(ch_cmds, c)
    /\ commands' = commands + 1
    /\ UNCHANGED <<ch, buf_refcnt, streamVars, cmd_pc, queueVars, expected, pending_cnt,
                   flags, previewSkipCnt, clientVars, stop_pc>>

-----------------------------------------------------------------------------
(* The command thread: mm_channel_process_stream_buf().                    *)

\* Takes the next command.  What is left to do for it is dispatching.
TakeCommand(c) ==
    /\ cmd_pc = "wait" /\ ch_cmds # << >> /\ c = Head(ch_cmds)
    /\ ch_cmds' = Tail(ch_cmds)

\* The frame's buffer goes back; the superbuf queue stays.
DropFrame(s, f) ==
    /\ buf_refcnt' = ChannelQbuf(buf_refcnt, {<<s, f>>})
    /\ UNCHANGED queueVars

\* mm_channel_handle_metadata(): what the metadata of frame f say of the frames to
\* expect, and how much of the queue is flushed for them.
HandleMetadata(m, f) ==
    LET future == MaxFrame + 1
        result(id, fl, flush) ==
            [id |-> id, without_led |-> expected.without_led, flags |-> fl, flush |-> flush]
        led == IF m.prep = "no" THEN flags
               ELSE [flags EXCEPT !.needLEDFlash = (m.prep = "need_future")]
    IN
    IF flags.isZoom1xFrameRequested THEN
        IF m.crop1x
        THEN result(f + 1, [flags EXCEPT !.isZoom1xFrameRequested = FALSE], "none")
        ELSE result(future, flags, "matched")
    ELSE IF m.range # << >> THEN
        IF flags.isFlashBracketingEnabled
        THEN [result(m.range[1], flags, "none") EXCEPT !.without_led = m.range[2]]
        ELSE result(m.range[1], [flags EXCEPT !.need3ABracketing = FALSE], "none")
    ELSE IF m.prep = "need_future" THEN result(future, led, "all")
    ELSE IF m.prep = "no" /\ flags.need3ABracketing THEN result(future, flags, "matched")
    ELSE result(expected.id, led, "none")

\* The queue after a flush, and the buffers that go back.
Flushed(q, how) ==
    CASE how = "none" -> q
      [] how = "matched" -> SubSeq(q, Len(MatchedHead(q)) + 1, Len(q))
      [] how = "all" -> << >>

\* mm_channel_superbuf_comp_and_enqueue(), from the comparison on.
EnqueueSuperbuf(s, f, q, count, exp, fl, refcnt) ==
    LET unmatched == {i \in DOMAIN q : ~q[i].matched}
        mine == {i \in unmatched : q[i].frame_idx = f}
        older == {i \in unmatched : q[i].frame_idx < f}
        newer == {i \in unmatched : q[i].frame_idx > f}
        full == ch.max_unmatched_frames < Cardinality(unmatched)
        alone == Cardinality(Bundled) = 1
        node == [frame_idx |-> f, bufs |-> {s}, matched |-> alone]
        counted(complete) ==
            /\ match_cnt' = IF complete THEN count + 1 ELSE count
            /\ expected' = [exp EXCEPT !.id =
                   IF ~complete THEN exp.id
                   ELSE IF mine # {} /\ fl.isFlashBracketingEnabled THEN exp.without_led
                   ELSE Min({f + ch.post_frame_skip, MaxFrame + 1})]
            /\ flags' = IF complete /\ mine # {}
                        THEN [fl EXCEPT !.isFlashBracketingEnabled = FALSE] ELSE fl
    IN
    \/ /\ mine # {}
       /\ LET i == Min(mine)
              all == q[i].bufs \cup {s}
              complete == all = Bundled
              gone == IF complete /\ older # {} THEN Min(older)..i - 1 ELSE {}
              joined == [q EXCEPT ![i] = [frame_idx |-> f, bufs |-> all,
                                          matched |-> complete]]
          IN /\ superbuf_queue' = SubSeq(joined, 1, i - 1 - Cardinality(gone))
                                  \o SubSeq(joined, i, Len(q))
             /\ buf_refcnt' = ChannelQbuf(refcnt, BufsAt(q, gone))
             /\ counted(complete)
    \/ /\ mine = {} /\ full /\ older = {}
       /\ superbuf_queue' = q
       /\ buf_refcnt' = ChannelQbuf(refcnt, {<<s, f>>})
       /\ counted(FALSE)
    \/ /\ mine = {} /\ (full => older # {})
       /\ LET at == IF newer = {} THEN Len(q) + 1 ELSE Min(newer)
              inserted == InsertAt(q, at, node)
          IN /\ superbuf_queue' = IF full THEN RemoveAt(inserted, Min(older)) ELSE inserted
             /\ buf_refcnt' = IF full THEN ChannelQbuf(refcnt, BufsAt(q, {Min(older)}))
                              ELSE refcnt
             /\ counted(alone)

\* What a frame may say: of a linked stream, only whether it is valid.
MetadataOf(s) ==
    IF s # "metadata" THEN {NoMetadata}
    ELSE IF s \in ch.linked
    THEN {NoMetadata, [NoMetadata EXCEPT !.is_meta_valid = FALSE]}
    ELSE Reports

\* A frame.  The channel's own metadata are looked at first; frames the channel does
\* not expect, or cannot use, go back.
ProcessFrame(c, m) ==
    LET s == c.stream  f == c.frame
        own_metadata == s = "metadata" /\ s \notin ch.linked
        r == HandleMetadata(m, f)
        q == IF own_metadata THEN Flushed(superbuf_queue, r.flush) ELSE superbuf_queue
        exp == IF own_metadata THEN [id |-> r.id, without_led |-> r.without_led]
               ELSE expected
        fl == IF own_metadata THEN r.flags ELSE flags
        gone == SubSeq(superbuf_queue, 1, Len(superbuf_queue) - Len(q))
        count == match_cnt - CountMatched(gone)
        refcnt == ChannelQbuf(buf_refcnt, BufsOf(gone))
        refused == \/ s \notin known
                   \/ own_metadata /\ m.prep # "no" /\ m.range # << >>
    IN
    /\ c.type = "DATA"
    /\ TakeCommand(c)
    /\ cmd_pc' = "dispatch"
    /\ \/ /\ refused
          /\ DropFrame(s, f)
          /\ UNCHANGED <<expected, flags>>
       \/ /\ ~refused /\ (~m.is_meta_valid \/ f < exp.id)
          /\ superbuf_queue' = q /\ match_cnt' = count
          /\ buf_refcnt' = ChannelQbuf(refcnt, {<<s, f>>})
          /\ expected' = exp /\ flags' = fl
       \/ /\ ~refused /\ m.is_meta_valid /\ f >= exp.id
          /\ EnqueueSuperbuf(s, f, q, count, exp, fl, refcnt)
    /\ UNCHANGED <<ch, streamVars, pending_cnt, previewSkipCnt, clientVars,
                   stop_pc, commands>>

\* mm_channel_superbuf_skip(), mm_channel_superbuf_bufdone_overflow(): matched
\* superbufs leave the head of the queue until no more than `keep' are counted.
TrimTo(keep) ==
    LET n == IF match_cnt > keep THEN match_cnt - keep ELSE 0 IN
    /\ n <= Len(MatchedHead(superbuf_queue))
    /\ Dequeue(n)
    /\ buf_refcnt' = ChannelQbuf(buf_refcnt, BufsOf(SubSeq(superbuf_queue, 1, n)))

\* A request for superbufs, or with 0 its cancellation.  The sensor is told to prepare
\* a capture when it needs the flash or brackets exposures.
ProcessRequest(c) ==
    LET starts == /\ c.num > 0 /\ ~flags.manualZSLSnapshot
                  /\ flags.needLEDFlash \/ flags.need3ABracketing
                  /\ ~flags.startZSlSnapshotCalled
        stops == /\ c.num = 0 /\ flags.startZSlSnapshotCalled
                 /\ ~flags.manualZSLSnapshot
    IN
    /\ c.type = "REQ"
    /\ TakeCommand(c)
    /\ cmd_pc' = "dispatch"
    /\ pending_cnt' = c.num
    /\ TrimTo(ch.look_back)
    /\ flags' = IF starts THEN [flags EXCEPT !.startZSlSnapshotCalled = TRUE,
                                             !.needLEDFlash = FALSE]
                ELSE IF stops THEN [flags EXCEPT !.startZSlSnapshotCalled = FALSE,
                                       !.needLEDFlash = FALSE, !.need3ABracketing = FALSE]
                ELSE flags
    /\ previewSkipCnt' = IF starts THEN 0 ELSE previewSkipCnt
    /\ UNCHANGED <<ch, streamVars, expected, clientVars, stop_pc, commands>>

\* Mutant: the superbufs are freed, their buffers kept.
FlushQueueOnly == Dequeue(Len(superbuf_queue)) /\ UNCHANGED buf_refcnt

FlushQueue ==
    /\ Dequeue(Len(superbuf_queue))
    /\ buf_refcnt' = ChannelQbuf(buf_refcnt, BufsOf(superbuf_queue))

\* After a flush nothing is dispatched.
ProcessFlush(c) ==
    /\ c.type = "FLUSH"
    /\ TakeCommand(c)
    /\ expected' = [expected EXCEPT !.id = c.frame]
    /\ FlushQueue
    /\ UNCHANGED <<ch, streamVars, cmd_pc, pending_cnt, flags, previewSkipCnt, 
                   clientVars, stop_pc, commands>>

ProcessGeneral(c) ==
    /\ c.type \in {"BRACKETING", "FLASH_BRACKETING", "ZOOM_1X"}
    /\ TakeCommand(c)
    /\ cmd_pc' = "dispatch"
    /\ FlushQueue
    /\ flags' = CASE c.type = "BRACKETING" -> [flags EXCEPT !.need3ABracketing = c.start]
                  [] c.type = "FLASH_BRACKETING" ->
                         [flags EXCEPT !.isFlashBracketingEnabled = c.start]
                  [] c.type = "ZOOM_1X" ->
                         [flags EXCEPT !.isZoom1xFrameRequested = c.start]
    /\ UNCHANGED <<ch, streamVars, expected, pending_cnt, previewSkipCnt, 
                   clientVars, stop_pc, commands>>

ProcessZsl(c) ==
    /\ c.type \in {"START_ZSL", "STOP_ZSL"}
    /\ TakeCommand(c)
    /\ cmd_pc' = "dispatch"
    /\ flags' = [flags EXCEPT !.manualZSLSnapshot = (c.type = "START_ZSL")]
    /\ UNCHANGED <<ch, buf_refcnt, streamVars, queueVars, expected, pending_cnt,
                   previewSkipCnt, clientVars, stop_pc, commands>>

\* What follows every command but a flush: superbufs beyond the water mark go back
\* (burst mode), then matched ones go to the client, as many as it asked for.
Dispatch ==
    LET over == IF ch.burst /\ match_cnt > ch.water_mark
                THEN match_cnt - ch.water_mark ELSE 0
        ready == Len(MatchedHead(superbuf_queue))
        wanted == IF ch.burst THEN Min({pending_cnt, ready - over}) ELSE ready
        given == SubSeq(superbuf_queue, over + 1, over + wanted)
        served == wanted > 0 /\ ch.burst /\ pending_cnt = wanted
                  /\ flags.startZSlSnapshotCalled /\ ~flags.manualZSLSnapshot
    IN
    /\ cmd_pc = "dispatch"
    /\ over <= ready
    /\ cmd_pc' = "wait"
    /\ Dequeue(over + wanted)
    /\ buf_refcnt' = ChannelQbuf(buf_refcnt, BufsOf(SubSeq(superbuf_queue, 1, over)))
    /\ superbufs' = superbufs \cup BufsOf(given)
    /\ delivered' = delivered \o [i \in 1..wanted |-> given[i].frame_idx]
    /\ pending_cnt' = IF ch.burst THEN pending_cnt - wanted ELSE pending_cnt
    /\ flags' = IF served THEN [flags EXCEPT !.startZSlSnapshotCalled = FALSE] ELSE flags
    /\ previewSkipCnt' = IF served THEN PREVIEW_SKIP_CNT ELSE previewSkipCnt
    /\ UNCHANGED <<ch, streamVars, ch_cmds, expected, shown, stop_pc, commands>>

-----------------------------------------------------------------------------
(* mm_channel_stop(), on the client's thread.                              *)

\* The order in which the streams are stopped: the channel's own metadata last.
\* Without any, the first of the array takes that place.
StopOrder ==
    LET array == ch.streams \o SetToSeq(ch.linked)
        n == Len(array)
        meta == {i \in DOMAIN ch.streams : ch.streams[i] = "metadata"}
        m == IF meta = {} THEN 1 ELSE Min(meta)
    IN [i \in 1..n |-> IF i = m THEN array[n] ELSE IF i = n THEN array[m] ELSE array[i]]

AllStopped == 2 * Cardinality(Bundled) + 1
StopDone == AllStopped + 1
Stopping == (stop_pc + 1) \div 2       \* place in the order of the stream at hand

StopChannel ==
    /\ stop_pc = 0
    /\ stop_pc' = 1
    /\ UNCHANGED <<ch, buf_refcnt, streamVars, ch_cmds, cmd_pc, queueVars, expected,
                   pending_cnt, flags, previewSkipCnt, clientVars, commands>>

\* A linked stream is only unlinked.  The queue is emptied, but of its frames only those
\* of that stream go back.
Unlink ==
    LET s == StopOrder[Stopping] IN
    /\ stop_pc \in 1..AllStopped - 1 /\ stop_pc % 2 = 1
    /\ s \in ch.linked
    /\ Dequeue(Len(superbuf_queue))
    /\ buf_refcnt' = ChannelQbuf(buf_refcnt, {b \in BufsOf(superbuf_queue) : b[1] = s})
    /\ known' = known \ {s}
    /\ stop_pc' = stop_pc + 2
    /\ UNCHANGED <<ch, last_idx, stream_on, active, ch_cmds, cmd_pc, expected, pending_cnt,
                   flags, previewSkipCnt, clientVars, commands>>

\* MM_STREAM_EVT_STOP: the kernel stops first, then the stream's thread.
StreamOff ==
    LET s == StopOrder[Stopping] IN
    /\ stop_pc \in 1..AllStopped - 1 /\ stop_pc % 2 = 1
    /\ s \notin ch.linked
    /\ stream_on' = stream_on \ {s}
    /\ stop_pc' = stop_pc + 1
    /\ UNCHANGED <<ch, buf_refcnt, last_idx, active, known, ch_cmds, cmd_pc, queueVars,
                   expected, pending_cnt, flags, previewSkipCnt, clientVars,
                   commands>>

\* MM_STREAM_EVT_UNREG_BUF resets the references.
StreamStopped ==
    LET s == StopOrder[Stopping] IN
    /\ stop_pc \in 1..AllStopped - 1 /\ stop_pc % 2 = 0
    /\ active' = active \ {s}
    /\ buf_refcnt' = [buf_refcnt EXCEPT ![s] = [f \in Frames |-> 0]]
    /\ stop_pc' = stop_pc + 1
    /\ UNCHANGED <<ch, last_idx, stream_on, known, ch_cmds, cmd_pc, queueVars, expected,
                   pending_cnt, flags, previewSkipCnt, clientVars, commands>>

\* The command thread has ended; the queue is freed with what is left in it.
ChannelStopped ==
    /\ stop_pc = AllStopped
    /\ ch_cmds = << >> /\ cmd_pc = "wait"
    /\ superbuf_queue' = << >>
    /\ stop_pc' = StopDone
    /\ UNCHANGED <<ch, buf_refcnt, streamVars, ch_cmds, cmd_pc, match_cnt, expected,
                   pending_cnt, flags, previewSkipCnt, clientVars, commands>>

-----------------------------------------------------------------------------
CommandThread ==
    \/ \E c \in ToSet(ch_cmds) :
           \/ c.type = "DATA" /\ \E m \in MetadataOf(c.stream) : ProcessFrame(c, m)
           \/ ProcessRequest(c) \/ ProcessFlush(c) \/ ProcessGeneral(c) \/ ProcessZsl(c)
    \/ Dispatch
StopStep == Unlink \/ StreamOff \/ StreamStopped \/ ChannelStopped

SuperbufNext ==
    \/ \E s \in ChStreams, f \in Frames :
           FrameArrives(s, f) \/ ReturnShown(s, f)
    \/ \E f \in Frames : ReturnSuperbuf(f)
    \/ \E c \in Requests : ClientCommand(c)
    \/ CommandThread
    \/ StopChannel \/ StopStep

SuperbufSpec == SuperbufInit /\ [][SuperbufNext]_superbufVars

-----------------------------------------------------------------------------
(* Properties.                                                             *)

\* Who holds a frame: a command, the superbuf queue, the client as part of a superbuf,
\* or the stream's thread and its callback.
Holders(s, f) ==
    Cardinality({i \in DOMAIN ch_cmds : ch_cmds[i].type = "DATA"
                                        /\ ch_cmds[i].stream = s /\ ch_cmds[i].frame = f})
    + Cardinality({i \in DOMAIN superbuf_queue : superbuf_queue[i].frame_idx = f
                                                 /\ s \in superbuf_queue[i].bufs})
    + Cardinality({i \in 1..2 : <<s, f>> \in <<superbufs, shown>>[i]})

\* A buffer has as many references as holders: none goes back to the kernel while
\* somebody uses it and none is kept from it when nobody does.  A channel that stops
\* while it borrows a stream loses buffers: the flush at :1353 frees superbufs of which it
\* returns one stream's, and frames still queued as commands find no stream to go back
\* to.  Even then none goes back too early.
BuffersAccounted ==
    \A s \in active, f \in Frames :
        IF stop_pc = 0 \/ ch.linked = {} THEN buf_refcnt[s][f] = Holders(s, f)
        ELSE buf_refcnt[s][f] >= Holders(s, f)

\* Matched superbufs are ahead of unmatched ones, which are sorted, and match_cnt counts
\* them.  The loops that drop superbufs until match_cnt is small enough (:2400, :2444)
\* look at the head only: otherwise they spin with the queue locked.
MatchedFirst ==
    LET q == superbuf_queue IN
    /\ stop_pc # StopDone => match_cnt = CountMatched(q)
    /\ \A i, j \in DOMAIN q : i < j =>
           /\ q[j].matched => q[i].matched
           /\ ~q[i].matched /\ ~q[j].matched => q[i].frame_idx < q[j].frame_idx

\* The client gets superbufs in the order of their frames, none twice, however frames,
\* metadata, flushes and requests interleave, and the frames of all streams are in it.
SuperbufsInOrder ==
    /\ MatchedFirst
    /\ \A i, j \in DOMAIN delivered : i < j => delivered[i] < delivered[j]

=============================================================================
