----------------------- MODULE QCameraPostProc_proofs -----------------------
(***************************************************************************)
(* What is proved of the postprocessor with the JPEG interface: a frame is *)
(* in one of the queues; its JPEG job waits, is read by an encoder or has  *)
(* its answer under way; and an aborted job's buffers go back only after   *)
(* its encoder stopped reading.  So a buffer has one owner, and what an    *)
(* encoder reads is still there.  The lemmas about sublists and queues are *)
(* those of Pictures_proofs.                                               *)
(***************************************************************************)
EXTENDS Pictures_proofs, QCameraPostProc

-----------------------------------------------------------------------------
(* The invariant of the JPEG interface.                                    *)

\* A queue has x once at most.
OneOf(q, x) == \A i, j \in DOMAIN q : q[i] = x /\ q[j] = x => i = j

JpegEvents == [job: JobIds, status: {"DONE", "ERROR"}]
Calls == [op: {"none", "abort", "destroy", "returned"}, at: Nat, waits: BOOLEAN]
Aborting == call.op \in {"abort", "destroy"}

\* The types of the JPEG interface's state.
JpegTypes ==
    /\ fault \in {"none", "call", "event"}
    /\ num_omx_sessions \in 0..MM_JPEG_CONCURRENT_SESSIONS_COUNT
    /\ encoder \in [Encoders -> Encoder]
    /\ session_handle_q \in Seq(Encoders)
    /\ job_hist \in 0..MaxJobs
    /\ job_queue \in Seq({EXIT} \cup JobIds)
    /\ ongoing_job_q \subseteq JobIds
    /\ call \in Calls
    /\ jpeg_evts \in Seq(JpegEvents)

\* Encoders of the session that have no job are free, once.  The one that is being
\* started still has its job, unless a component that reports failures as events has.
EncodersFree ==
    /\ \A h \in Encoders \ InSession : encoder[h] = FreshEncoder
    /\ ToSet(session_handle_q) = {h \in InSession : ~encoder[h].encoding}
    /\ \A h \in Encoders : OneOf(session_handle_q, h)
    /\ \A h \in Encoders : encoder[h].busy # 0 => encoder[h].encoding
    /\ IF mgr = "fills"
       THEN /\ mgr_on \in InSession /\ ~Aborting /\ ~encoder[mgr_on].idling
            /\ fault = "call" => encoder[mgr_on].busy # 0
       ELSE mgr_on = 0

\* A job is in one place: it waits, an encoder has it, or its answer is under way.
JobsApart ==
    /\ \A j \in JobIds : OneOf(job_queue, j)
    /\ \A j \in ToSet(job_queue) : j <= job_hist
    /\ \A h \in Encoders : encoder[h].encoding =>
           encoder[h].job \in 1..job_hist \ ToSet(job_queue)
    /\ \A h \in Encoders : encoder[h].busy \in {0, encoder[h].job}
    /\ \A e \in ToSet(jpeg_evts) : e.job \in 1..job_hist \ ToSet(job_queue)
    /\ ~capture.burst => \A e \in ToSet(jpeg_evts) : e.job # encoder[1].busy

\* How far an abort has come with the one encoder of a session that is not in burst mode.
AbortFits ==
    /\ call.waits => Aborting /\ call.at \in InSession
    /\ ~capture.burst =>
           /\ num_omx_sessions <= 1
           /\ encoder[1].abort_state = "INIT" => call.waits
           /\ encoder[1].abort_state = "DONE" => encoder[1].busy = 0
           /\ call.waits => call.at = 1 /\ num_omx_sessions = 1
                            /\ encoder[1].abort_state # "NONE"
           /\ Aborting /\ call.at > 1 => encoder[1].busy = 0
           /\ encoder[1].busy # 0 => encoder[1].busy \in ongoing_job_q \/ Aborting

-----------------------------------------------------------------------------
(* The invariant of the postprocessor.                                     *)

PpCommands == {"START", "STOP", "NEXT", "EXIT"}

\* The types of the postprocessor's state.
PpTypes ==
    /\ capture \in Captures /\ pics \in 0..MaxPicFrames
    /\ {is_active, new_session} \subseteq BOOLEAN
    /\ pp_cmds \in Seq(PpCommands)
    /\ inputPPQ \in Seq(PpJob) /\ ongoingPPQ \in Seq(PpJob) /\ inputJpegQ \in Seq(PpJob)
    /\ ongoingJpegQ \in Seq(PpJob) /\ inputRawQ \in Seq(PpJob) /\ aborted \in Seq(PpJob)
    /\ reprocessing \in Seq(PicFrames) /\ jobs \in Seq(PicFrames)
    /\ out \subseteq Buffers

\* A capture has a session only between its start and its stop, and a call aborts only
\* for the stop.
ControlFits ==
    /\ ctrl \in {"stopped", "starting"} => pp_pc = "waits" /\ ~is_active /\ new_session
    /\ ctrl \in {"exiting", "releasing", "closed"} =>
           pp_pc \in {"waits", "exited"} /\ ~is_active
    /\ "START" \in ToSet(pp_cmds) => ctrl = "starting"
    /\ "STOP" \in ToSet(pp_cmds) =>
           ctrl \in {"stopping", "closing"} /\ pp_pc \notin {"aborts", "destroys"}
    /\ "EXIT" \in ToSet(pp_cmds) => ctrl \in {"exiting", "releasing", "closed"}
    /\ OneOf(pp_cmds, "START") /\ OneOf(pp_cmds, "STOP")
    /\ pp_pc \in {"aborts", "destroys"} => ctrl \in {"stopping", "closing"} /\ ~is_active
    /\ new_session => num_omx_sessions = 0
    /\ call.op # "none" => pp_pc \in {"aborts", "destroys"}
    /\ call.op = "destroy" => pp_pc = "destroys"
    /\ pp_pc = "destroys" => call.op \in {"destroy", "returned"}
    /\ pp_pc = "destroys" /\ call.op = "returned" => num_omx_sessions = 0
    /\ aborted # << >> => pp_pc = "aborts" /\ call.op \in {"abort", "returned"}

FramesOf(q) == {q[i].frame : i \in DOMAIN q}

\* A queue has one job of a frame, with buffers of that frame only.
SoundJobs(q) ==
    /\ \A i, j \in DOMAIN q : q[i].frame = q[j].frame => i = j
    /\ \A i \in DOMAIN q : \A b \in q[i].bufs : b[2] = q[i].frame

Unstarted == FramesOf(inputPPQ) \cup FramesOf(ongoingPPQ) \cup FramesOf(inputJpegQ)
                 \cup FramesOf(inputRawQ)

\* A frame is in one queue, a frame that comes is new, and one that is to be reprocessed
\* has no result yet.
FramesApart ==
    /\ SoundJobs(inputPPQ) /\ SoundJobs(ongoingPPQ) /\ SoundJobs(inputJpegQ)
    /\ SoundJobs(ongoingJpegQ) /\ SoundJobs(inputRawQ) /\ SoundJobs(aborted)
    /\ FramesOf(inputPPQ) \cap FramesOf(ongoingPPQ) = {}
    /\ (FramesOf(inputPPQ) \cup FramesOf(ongoingPPQ)) \cap FramesOf(inputJpegQ) = {}
    /\ Unstarted \cap (FramesOf(ongoingJpegQ) \cup FramesOf(aborted)) = {}
    /\ (FramesOf(inputPPQ) \cup FramesOf(ongoingPPQ) \cup FramesOf(inputJpegQ))
           \cap FramesOf(inputRawQ) = {}
    /\ FramesOf(ongoingJpegQ) \cap FramesOf(aborted) = {}
    /\ Unstarted \cup FramesOf(ongoingJpegQ) \cup FramesOf(aborted) \subseteq 1..pics
    /\ \A b \in out : b[2] <= pics
    /\ \A f \in FramesOf(inputPPQ) \cup FramesOf(ongoingPPQ) : <<"pp", f>> \notin out
    /\ Len(reprocessing) = Len(ongoingPPQ)
    /\ \A i \in DOMAIN ongoingPPQ : ongoingPPQ[i].frame = reprocessing[i]

\* What is out and was neither left to its channel nor given away is in a queue.
BuffersOwned ==
    /\ left \subseteq out /\ given \subseteq out /\ left \cap given = {}
    /\ out \ (left \cup given)
           = BufsIn(inputPPQ) \cup BufsIn(ongoingPPQ) \cup BufsIn(inputJpegQ)
             \cup BufsIn(ongoingJpegQ) \cup BufsIn(inputRawQ) \cup BufsIn(aborted)

\* The JPEG job of a frame: none yet, one whose id is about to be noted, or one of which
\* the frame's job has the id.
JobsKnown ==
    /\ Len(jobs) = job_hist
    /\ \A i, j \in DOMAIN jobs : jobs[i] = jobs[j] => i = j
    /\ ToSet(jobs) \cap Unstarted = {} /\ ToSet(jobs) \subseteq 1..pics
    /\ pp_pc = "remembers" => job_hist # 0
    /\ \A job \in ToSet(inputPPQ) \cup ToSet(ongoingPPQ) \cup ToSet(inputJpegQ) : job.id = 0
    /\ \A job \in ToSet(ongoingJpegQ) :
           \/ job.id = 0 /\ pp_pc = "remembers" /\ job.frame = jobs[job_hist]
           \/ job.id \in 1..job_hist /\ job.frame = jobs[job.id]
    /\ \A job \in ToSet(aborted) : job.id \in 1..job_hist /\ job.frame = jobs[job.id]
    /\ \A job \in ToSet(inputJpegQ) \cup ToSet(ongoingJpegQ) \cup ToSet(aborted) : job.bufs # {}

\* What waits for an encoder, and what an encoder reads, is of a frame that still has its
\* buffers; a job that was aborted waits no more, and is not read once the abort returned.
InputsHeld ==
    /\ \A j \in ToSet(job_queue) \ {EXIT} : jobs[j] \in FramesOf(ongoingJpegQ)
    /\ \A job \in ToSet(aborted) :
           /\ job.id \notin ToSet(job_queue)
           /\ ~capture.burst /\ call.op = "returned" => job.id # encoder[1].busy
    /\ ~capture.burst /\ encoder[1].busy # 0 =>
           jobs[encoder[1].busy] \in FramesOf(ongoingJpegQ) \cup FramesOf(aborted)

\* All of it.
PictureInv ==
    /\ JpegTypes /\ EncodersFree /\ JobsApart /\ AbortFits
    /\ PpTypes /\ ControlFits /\ FramesApart /\ BuffersOwned /\ JobsKnown /\ InputsHeld

-----------------------------------------------------------------------------
(* Lemmas about queues.                                                    *)

\* What is in a queue made of two, and how often.
LEMMA JoinedQueues ==
    ASSUME NEW S, NEW q \in Seq(S), NEW r \in Seq(S)
    PROVE  /\ q \o r \in Seq(S) /\ ToSet(q \o r) = ToSet(q) \cup ToSet(r)
           /\ \A x : OneOf(q, x) /\ OneOf(r, x) /\ ~(x \in ToSet(q) /\ x \in ToSet(r))
                     => OneOf(q \o r, x)
<1> DEFINE n == Len(q)
           z == q \o r
<1>1. /\ z \in Seq(S) /\ Len(z) = n + Len(r) /\ DOMAIN z = 1..n + Len(r)
      /\ n \in Nat /\ Len(r) \in Nat /\ DOMAIN q = 1..n /\ DOMAIN r = 1..Len(r)
      /\ \A i \in 1..n + Len(r) : z[i] = IF i <= n THEN q[i] ELSE r[i - n]
  BY ConcatProperties
<1> HIDE DEF n, z
<1>2. \A i \in DOMAIN z : \/ i \in DOMAIN q /\ z[i] = q[i]
                          \/ i > n /\ i - n \in DOMAIN r /\ z[i] = r[i - n]
  BY <1>1
<1>3. \A i \in DOMAIN q : i \in DOMAIN z /\ z[i] = q[i]  BY <1>1
<1>4. \A i \in DOMAIN r : i + n \in DOMAIN z /\ z[i + n] = r[i]
  <2> TAKE i \in DOMAIN r
  <2>1. i \in Nat /\ i # 0 /\ i <= Len(r)  BY <1>1
  <2>2. i + n \in 1..n + Len(r) /\ ~(i + n <= n) /\ (i + n) - n = i  BY <1>1, <2>1
  <2> QED  BY <1>1, <2>2
<1>5. ToSet(z) = ToSet(q) \cup ToSet(r)
  <2>1. \A x \in ToSet(z) : x \in ToSet(q) \cup ToSet(r)  BY <1>2 DEF ToSet
  <2>2. \A x \in ToSet(q) : x \in ToSet(z)  BY <1>3 DEF ToSet
  <2>3. \A x \in ToSet(r) : x \in ToSet(z)  BY <1>4 DEF ToSet
  <2> QED  BY <2>1, <2>2, <2>3
<1>6. ASSUME NEW x, OneOf(q, x), OneOf(r, x), ~(x \in ToSet(q) /\ x \in ToSet(r))
      PROVE  OneOf(z, x)
  <2> SUFFICES ASSUME NEW i \in DOMAIN z, NEW j \in DOMAIN z, z[i] = x, z[j] = x
               PROVE  i = j
    BY DEF OneOf
  <2>1. i \in Nat /\ j \in Nat  BY <1>1
  <2>2. CASE i \in DOMAIN q /\ z[i] = q[i] /\ j \in DOMAIN q /\ z[j] = q[j]
    BY <1>6, <2>2 DEF OneOf
  <2>3. CASE i - n \in DOMAIN r /\ z[i] = r[i - n] /\ j - n \in DOMAIN r /\ z[j] = r[j - n]
    <3>1. i - n = j - n  BY <1>6, <2>3 DEF OneOf
    <3> QED  BY <1>1, <2>1, <3>1
  <2>4. \A k, l : k \in DOMAIN q /\ q[k] = x /\ l \in DOMAIN r /\ r[l] = x => FALSE
    BY <1>6 DEF ToSet
  <2> QED  BY <1>2, <2>2, <2>3, <2>4
<1> QED  BY <1>1, <1>5, <1>6 DEF z

\* What appending to a queue does to how often it has something.
LEMMA OneAppended ==
    ASSUME NEW S, NEW q \in Seq(S), NEW y \in S
    PROVE  \A x : OneOf(q, x) /\ (x = y => x \notin ToSet(q)) => OneOf(Append(q, y), x)
<1>1. /\ \A i \in DOMAIN Append(q, y) : \/ i \in DOMAIN q /\ Append(q, y)[i] = q[i]
                                        \/ i = Len(q) + 1 /\ Append(q, y)[i] = y
  OBVIOUS
<1> SUFFICES ASSUME NEW x, OneOf(q, x), x = y => x \notin ToSet(q),
                    NEW i \in DOMAIN Append(q, y), NEW j \in DOMAIN Append(q, y),
                    Append(q, y)[i] = x, Append(q, y)[j] = x
             PROVE  i = j
  BY DEF OneOf
<1> QED  BY <1>1 DEF OneOf, ToSet

\* What putting something in front does to it.
LEMMA OnePrepended ==
    ASSUME NEW S, NEW q \in Seq(S), NEW y \in S
    PROVE  /\ <<y>> \o q \in Seq(S) /\ ToSet(<<y>> \o q) = ToSet(q) \cup {y}
           /\ \A x : OneOf(q, x) /\ (x = y => x \notin ToSet(q)) => OneOf(<<y>> \o q, x)
<1>1. <<y>> \in Seq(S) /\ DOMAIN <<y>> = {1} /\ <<y>>[1] = y  OBVIOUS
<1> DEFINE p == <<y>>
<1>2. p \in Seq(S) /\ DOMAIN p = {1} /\ p[1] = y  BY <1>1
<1> HIDE DEF p
<1>3. ToSet(p) = {y} /\ \A x : OneOf(p, x)  BY <1>2 DEF ToSet, OneOf
<1>4. /\ p \o q \in Seq(S) /\ ToSet(p \o q) = ToSet(p) \cup ToSet(q)
      /\ \A x : OneOf(p, x) /\ OneOf(q, x) /\ ~(x \in ToSet(p) /\ x \in ToSet(q))
                => OneOf(p \o q, x)
  BY <1>2, JoinedQueues
<1>5. ToSet(p \o q) = ToSet(q) \cup {y}  BY <1>3, <1>4
<1>6. \A x : OneOf(q, x) /\ (x = y => x \notin ToSet(q)) => OneOf(p \o q, x)
  BY <1>3, <1>4
<1> QED  BY <1>4, <1>5, <1>6 DEF p

\* What taking the head does to it.
LEMMA OneTaken ==
    ASSUME NEW S, NEW q \in Seq(S), q # << >>
    PROVE  /\ Tail(q) \in Seq(S) /\ Head(q) \in S /\ Head(q) = q[1]
           /\ ToSet(q) = ToSet(Tail(q)) \cup {Head(q)}
           /\ \A x : OneOf(q, x) => OneOf(Tail(q), x)
           /\ OneOf(q, Head(q)) => Head(q) \notin ToSet(Tail(q))
<1>1. Tail(q) \in Seq(S) /\ Head(q) \in S /\ ToSet(q) = ToSet(Tail(q)) \cup {Head(q)}
  BY TailFacts
<1>2. /\ Head(q) = q[1] /\ 1 \in DOMAIN q
      /\ \A i \in DOMAIN Tail(q) : i \in Nat /\ i # 0 /\ i + 1 \in DOMAIN q
                                   /\ Tail(q)[i] = q[i + 1]
  OBVIOUS
<1>3. ASSUME NEW x, OneOf(q, x)  PROVE OneOf(Tail(q), x)
  <2> SUFFICES ASSUME NEW i \in DOMAIN Tail(q), NEW j \in DOMAIN Tail(q),
                      Tail(q)[i] = x, Tail(q)[j] = x
               PROVE  i = j
    BY DEF OneOf
  <2>1. i + 1 = j + 1  BY <1>2, <1>3 DEF OneOf
  <2> QED  BY <1>2, <2>1
<1>4. ASSUME OneOf(q, Head(q)), Head(q) \in ToSet(Tail(q))  PROVE FALSE
  <2>1. PICK i \in DOMAIN Tail(q) : Tail(q)[i] = Head(q)  BY <1>4 DEF ToSet
  <2>2. i + 1 = 1  BY <1>2, <1>4, <2>1 DEF OneOf
  <2> QED  BY <1>2, <2>2
<1> QED  BY <1>1, <1>2, <1>3, <1>4

\* What is left of a queue when some places are.
LEMMA OneKept ==
    ASSUME NEW S, NEW q \in Seq(S), NEW places \in SUBSET DOMAIN q
    PROVE  /\ At(q, places) \in Seq(S) /\ ToSet(At(q, places)) = {q[i] : i \in places}
           /\ \A x : OneOf(q, x) => OneOf(At(q, places), x)
<1> DEFINE r == At(q, places)
<1>1. /\ r \in Seq(S)
      /\ \A i \in DOMAIN r : Nth(places, i) \in places /\ r[i] = q[Nth(places, i)]
      /\ \A i, j \in DOMAIN r : Nth(places, i) = Nth(places, j) => i = j
      /\ \A p \in places : \E i \in DOMAIN r : Nth(places, i) = p
  BY SublistFacts
<1> HIDE DEF r
<1>2. ToSet(r) = {q[i] : i \in places}
  <2>1. \A x \in ToSet(r) : x \in {q[i] : i \in places}  BY <1>1 DEF ToSet
  <2>2. \A p \in places : q[p] \in ToSet(r)  BY <1>1 DEF ToSet
  <2> QED  BY <2>1, <2>2
<1>3. \A x : OneOf(q, x) => OneOf(r, x)  BY <1>1 DEF OneOf
<1> QED  BY <1>1, <1>2, <1>3 DEF r

\* Jobs of a queue of the postprocessor: what each of these does to frames and buffers.
LEMMA JobAppended ==
    ASSUME NEW q \in Seq(PpJob), SoundJobs(q), NEW job \in PpJob,
           \A b \in job.bufs : b[2] = job.frame, job.frame \notin FramesOf(q)
    PROVE  /\ Append(q, job) \in Seq(PpJob) /\ SoundJobs(Append(q, job))
           /\ FramesOf(Append(q, job)) = FramesOf(q) \cup {job.frame}
           /\ BufsIn(Append(q, job)) = BufsIn(q) \cup job.bufs
           /\ ToSet(Append(q, job)) = ToSet(q) \cup {job}
<1> DEFINE r == Append(q, job)
<1>1. r \in Seq(PpJob) /\ ToSet(r) = ToSet(q) \cup {job}  BY AppendFacts
<1>2. /\ \A i \in DOMAIN r : \/ i \in DOMAIN q /\ r[i] = q[i]
                             \/ i = Len(q) + 1 /\ r[i] = job
      /\ \A i \in DOMAIN q : i \in DOMAIN r /\ r[i] = q[i]
      /\ Len(q) + 1 \in DOMAIN r /\ r[Len(q) + 1] = job
  OBVIOUS
<1> HIDE DEF r
<1>3. SoundJobs(r)  BY <1>2 DEF SoundJobs, FramesOf
<1>4. FramesOf(r) = FramesOf(q) \cup {job.frame}
  <2>1. \A f \in FramesOf(r) : f \in FramesOf(q) \cup {job.frame}  BY <1>2 DEF FramesOf
  <2>2. \A f \in FramesOf(q) \cup {job.frame} : f \in FramesOf(r)  BY <1>2 DEF FramesOf
  <2> QED  BY <2>1, <2>2
<1>5. BufsIn(r) = BufsIn(q) \cup job.bufs
  <2>1. \A b \in BufsIn(r) : b \in BufsIn(q) \cup job.bufs  BY <1>2 DEF BufsIn
  <2>2. \A b \in BufsIn(q) \cup job.bufs : b \in BufsIn(r)  BY <1>2 DEF BufsIn
  <2> QED  BY <2>1, <2>2
<1> QED  BY <1>1, <1>3, <1>4, <1>5 DEF r

\* The buffers of a sound queue are of its frames.
LEMMA BufsOfFrames ==
    ASSUME NEW q, SoundJobs(q)
    PROVE  \A b \in BufsIn(q) : b[2] \in FramesOf(q)
BY DEF SoundJobs, BufsIn, FramesOf

\* Some of the jobs of a queue.
LEMMA JobsKept ==
    ASSUME NEW q \in Seq(PpJob), SoundJobs(q), NEW places \in SUBSET DOMAIN q,
           NEW r \in Seq(PpJob), ToSet(r) = {q[i] : i \in places},
           \A x : OneOf(q, x) => OneOf(r, x)
    PROVE  /\ SoundJobs(r)
           /\ FramesOf(r) = FramesOf(q) \ {q[i].frame : i \in DOMAIN q \ places}
           /\ BufsIn(r) = BufsIn(q) \ UNION {q[i].bufs : i \in DOMAIN q \ places}
           /\ ToSet(r) \subseteq ToSet(q)
<1>1. \A i \in DOMAIN r : \E k \in places : r[i] = q[k]
  <2>1. \A i \in DOMAIN r : r[i] \in ToSet(r)  BY DEF ToSet
  <2> QED  BY <2>1
<1>2. \A k \in places : \E i \in DOMAIN r : r[i] = q[k]
  <2>1. \A k \in places : q[k] \in ToSet(r)  OBVIOUS
  <2> QED  BY <2>1 DEF ToSet
<1>3. \A i, j \in DOMAIN r : r[i] = r[j] => i = j
  <2>1. \A k \in DOMAIN q : OneOf(q, q[k])  BY DEF OneOf, SoundJobs
  <2>2. \A i \in DOMAIN r : OneOf(r, r[i])  BY <1>1, <2>1
  <2> QED  BY <2>2 DEF OneOf
<1>4. \A i, j \in DOMAIN r : r[i].frame = r[j].frame => i = j
  <2> SUFFICES ASSUME NEW i \in DOMAIN r, NEW j \in DOMAIN r, r[i].frame = r[j].frame
               PROVE  i = j
    OBVIOUS
  <2>1. PICK k \in places : r[i] = q[k]  BY <1>1
  <2>2. PICK l \in places : r[j] = q[l]  BY <1>1
  <2>3. k = l  BY <2>1, <2>2 DEF SoundJobs
  <2> QED  BY <1>3, <2>1, <2>2, <2>3
<1>5. SoundJobs(r)  BY <1>1, <1>4 DEF SoundJobs
<1>6. FramesOf(r) = FramesOf(q) \ {q[i].frame : i \in DOMAIN q \ places}
  <2>1. \A f \in FramesOf(r) :
            f \in FramesOf(q) /\ f \notin {q[i].frame : i \in DOMAIN q \ places}
    BY <1>1 DEF FramesOf, SoundJobs
  <2>2. \A f \in FramesOf(q) :
            f \notin {q[i].frame : i \in DOMAIN q \ places} => f \in FramesOf(r)
    BY <1>2 DEF FramesOf
  <2> QED  BY <2>1, <2>2
<1>7. BufsIn(r) = BufsIn(q) \ UNION {q[i].bufs : i \in DOMAIN q \ places}
  <2> DEFINE gone == UNION {q[i].bufs : i \in DOMAIN q \ places}
  <2>1. ASSUME NEW b \in BufsIn(r)  PROVE b \in BufsIn(q) /\ b \notin gone
    <3>1. PICK k \in places : b \in q[k].bufs  BY <1>1 DEF BufsIn
    <3>2. ASSUME NEW i \in DOMAIN q \ places, b \in q[i].bufs  PROVE FALSE
      <4>1. q[i].frame = b[2] /\ q[k].frame = b[2]  BY <3>1, <3>2 DEF SoundJobs
      <4>2. i = k  BY <4>1 DEF SoundJobs
      <4> QED  BY <4>2
    <3> QED  BY <3>1, <3>2 DEF BufsIn
  <2>2. ASSUME NEW b \in BufsIn(q), b \notin gone  PROVE b \in BufsIn(r)
    <3>1. PICK i \in DOMAIN q : b \in q[i].bufs  BY DEF BufsIn
    <3>2. i \in places  BY <2>2, <3>1
    <3> QED  BY <1>2, <3>1, <3>2 DEF BufsIn
  <2> HIDE DEF gone
  <2>3. BufsIn(r) = BufsIn(q) \ gone  BY <2>1, <2>2
  <2> QED  BY <2>3 DEF gone
<1>8. ToSet(r) \subseteq ToSet(q)  BY DEF ToSet
<1> QED  BY <1>5, <1>6, <1>7, <1>8

\* The first job is taken.
LEMMA JobTaken ==
    ASSUME NEW q \in Seq(PpJob), SoundJobs(q), q # << >>
    PROVE  /\ Tail(q) \in Seq(PpJob) /\ SoundJobs(Tail(q)) /\ Head(q) \in PpJob
           /\ Head(q) = q[1] /\ Head(q) \in ToSet(q) /\ ToSet(Tail(q)) \subseteq ToSet(q)
           /\ Head(q).frame \in FramesOf(q) /\ Head(q).bufs \subseteq BufsIn(q)
           /\ \A b \in Head(q).bufs : b[2] = Head(q).frame
           /\ FramesOf(Tail(q)) = FramesOf(q) \ {Head(q).frame}
           /\ BufsIn(Tail(q)) = BufsIn(q) \ Head(q).bufs
<1>1. /\ Tail(q) \in Seq(PpJob) /\ Head(q) \in PpJob /\ Head(q) = q[1]
      /\ ToSet(q) = ToSet(Tail(q)) \cup {Head(q)}
      /\ \A x : OneOf(q, x) => OneOf(Tail(q), x)
      /\ OneOf(q, Head(q)) => Head(q) \notin ToSet(Tail(q))
  BY OneTaken
<1>2. 1 \in DOMAIN q  OBVIOUS
<1> DEFINE places == DOMAIN q \ {1}
<1>3. OneOf(q, Head(q))  BY <1>1, <1>2 DEF OneOf, SoundJobs
<1>4. ToSet(Tail(q)) = {q[i] : i \in places}
  <2>1. \A x \in ToSet(Tail(q)) : x \in {q[i] : i \in places}
    <3>1. \A x \in ToSet(Tail(q)) : x \in ToSet(q) /\ x # q[1]  BY <1>1, <1>3
    <3> QED  BY <3>1 DEF ToSet
  <2>2. \A i \in places : q[i] \in ToSet(Tail(q))
    <3>1. \A i \in places : q[i] \in ToSet(q) /\ q[i] # q[1]  BY <1>2 DEF ToSet, SoundJobs
    <3> QED  BY <1>1, <3>1
  <2> QED  BY <2>1, <2>2
<1>5. DOMAIN q \ places = {1}  BY <1>2
<1>6. /\ SoundJobs(Tail(q)) /\ ToSet(Tail(q)) \subseteq ToSet(q)
      /\ FramesOf(Tail(q)) = FramesOf(q) \ {q[i].frame : i \in DOMAIN q \ places}
      /\ BufsIn(Tail(q)) = BufsIn(q) \ UNION {q[i].bufs : i \in DOMAIN q \ places}
  <2>1. places \in SUBSET DOMAIN q  OBVIOUS
  <2> HIDE DEF places
  <2> QED  BY <1>1, <1>4, <2>1, JobsKept
<1> HIDE DEF places
<1>7. {q[i].frame : i \in DOMAIN q \ places} = {Head(q).frame}  BY <1>1, <1>5
<1>8. UNION {q[i].bufs : i \in DOMAIN q \ places} = Head(q).bufs  BY <1>1, <1>5
<1>9. Head(q).frame \in FramesOf(q) /\ Head(q).bufs \subseteq BufsIn(q)
      /\ \A b \in Head(q).bufs : b[2] = Head(q).frame
  BY <1>1, <1>2 DEF FramesOf, BufsIn, SoundJobs
<1> QED  BY <1>1, <1>6, <1>7, <1>8, <1>9

\* A queue without jobs.
LEMMA NoJobs ==
    /\ << >> \in Seq(PpJob) /\ SoundJobs(<< >>) /\ FramesOf(<< >>) = {}
    /\ BufsIn(<< >>) = {} /\ ToSet(<< >>) = {}
BY DEF SoundJobs, FramesOf, BufsIn, ToSet

\* The first job is taken if there is one.
LEMMA JobTakenIfAny ==
    ASSUME NEW q \in Seq(PpJob), SoundJobs(q)
    PROVE  /\ TailOf(q) \in Seq(PpJob) /\ SoundJobs(TailOf(q))
           /\ ToSet(TailOf(q)) \subseteq ToSet(q) /\ FramesOf(TailOf(q)) \subseteq FramesOf(q)
           /\ BufsOfHead(q) \subseteq BufsIn(q) /\ BufsIn(TailOf(q)) = BufsIn(q) \ BufsOfHead(q)
<1>1. CASE q = << >>  BY <1>1, NoJobs DEF TailOf, BufsOfHead
<1>2. CASE q # << >>  BY <1>2, JobTaken DEF TailOf, BufsOfHead
<1> QED  BY <1>1, <1>2

-----------------------------------------------------------------------------
(* The steps of the JPEG interface.                                        *)

\* Bounds.
LEMMA Bounds ==
    /\ MM_JPEG_CONCURRENT_SESSIONS_COUNT \in Nat \ {0} /\ MaxJobs \in Nat \ {0}
    /\ NUM_MAX_JPEG_CNCURRENT_JOBS \in Nat \ {0}
BY MmJpegAssumption

\* Encoders and jobs, and the encoder of a session that has one.
LEMMA FirstEncoder ==
    ASSUME JpegTypes
    PROVE  /\ 1 \in Encoders /\ InSession \subseteq Encoders
           /\ \A h \in InSession : num_omx_sessions <= 1 => h = 1
           /\ 1..job_hist \subseteq JobIds /\ num_omx_sessions \in Nat /\ job_hist \in Nat
<1>1. 1 \in Encoders  BY Bounds DEF Encoders
<1>2. num_omx_sessions \in Nat /\ num_omx_sessions <= MM_JPEG_CONCURRENT_SESSIONS_COUNT
      /\ job_hist \in Nat /\ job_hist <= MaxJobs
  BY Bounds DEF JpegTypes
<1>3. InSession \subseteq Encoders /\ 1..job_hist \subseteq JobIds
  BY <1>2, Bounds DEF InSession, Encoders, JobIds
<1>4. \A h \in InSession : num_omx_sessions <= 1 => h = 1  BY <1>2 DEF InSession
<1> QED  BY <1>1, <1>2, <1>3, <1>4

\* Frames stay apart while the queues stay as they are, whatever buffers return.
LEMMA FramesKept ==
    ASSUME PictureInv, out' \subseteq out,
           UNCHANGED <<ppQueues, aborted, reprocessing, pics>>
    PROVE  FramesApart' /\ UNCHANGED Unstarted
<1>1. UNCHANGED <<inputPPQ, ongoingPPQ, inputJpegQ, ongoingJpegQ, inputRawQ, aborted>>
  BY DEF ppQueues
<1>2. UNCHANGED Unstarted  BY <1>1 DEF Unstarted, FramesOf
<1>3. /\ SoundJobs(inputPPQ)' = SoundJobs(inputPPQ)
      /\ SoundJobs(ongoingPPQ)' = SoundJobs(ongoingPPQ)
      /\ SoundJobs(inputJpegQ)' = SoundJobs(inputJpegQ)
      /\ SoundJobs(ongoingJpegQ)' = SoundJobs(ongoingJpegQ)
      /\ SoundJobs(inputRawQ)' = SoundJobs(inputRawQ)
      /\ SoundJobs(aborted)' = SoundJobs(aborted)
  BY <1>1
<1>4. /\ UNCHANGED <<FramesOf(inputPPQ), FramesOf(ongoingPPQ), FramesOf(inputJpegQ)>>
      /\ UNCHANGED <<FramesOf(ongoingJpegQ), FramesOf(inputRawQ), FramesOf(aborted)>>
  BY <1>1
<1> QED  BY <1>1, <1>2, <1>3, <1>4 DEF PictureInv, FramesApart

\* So does all that is known of them while the buffers and the jobs stay, too.
LEMMA QueuesKept ==
    ASSUME PictureInv, UNCHANGED <<ppQueues, aborted, reprocessing, jobs, job_hist, pics, out,
                                   left, given>>,
           (pp_pc' = "remembers") <=> (pp_pc = "remembers")
    PROVE  FramesApart' /\ BuffersOwned' /\ JobsKnown'
<1>1. /\ UNCHANGED <<inputPPQ, ongoingPPQ, inputJpegQ, ongoingJpegQ, inputRawQ, aborted>>
      /\ UNCHANGED <<pics, out, left, given, jobs, job_hist>>
  BY DEF ppQueues
<1>2. FramesApart' /\ UNCHANGED Unstarted  BY FramesKept
<1>3. BuffersOwned'  BY <1>1 DEF PictureInv, BuffersOwned, BufsIn
<1>4. JobsKnown'  BY <1>1, <1>2 DEF PictureInv, JobsKnown, ToSet
<1> QED  BY <1>2, <1>3, <1>4

\* The JPEG interface does not touch the queues of the postprocessor.
LEMMA PostprocessorKept ==
    ASSUME PictureInv, UNCHANGED ppVars, UNCHANGED job_hist
    PROVE  PpTypes' /\ FramesApart' /\ BuffersOwned' /\ JobsKnown'
<1>1. PpTypes'  BY DEF PictureInv, PpTypes, ppVars, ppQueues, history
<1> QED  BY <1>1, QueuesKept DEF ppVars, history

\* Nor does what changes neither a call nor a session its control.
LEMMA ControlKept ==
    ASSUME PictureInv, UNCHANGED ppVars, UNCHANGED <<call, num_omx_sessions>>
    PROVE  ControlFits'
BY DEF PictureInv, ControlFits, OneOf, ToSet, ppVars, ppQueues, history

\* Encoder h reads no more: its job is done, with an answer, or was aborted, without.
ReadEnds(h) ==
    /\ encoder' \in [Encoders -> Encoder]
    /\ \A g \in Encoders \ {h} : encoder'[g] = encoder[g]
    /\ encoder'[h].busy = 0 /\ encoder'[h].job = encoder[h].job
    /\ encoder'[h].idling => encoder[h].idling
    /\ \/ encoder'[h].abort_state = encoder[h].abort_state
       \/ encoder[h].abort_state = "INIT" /\ encoder'[h].abort_state = "DONE"
    /\ \/ /\ encoder'[h].encoding = encoder[h].encoding
          /\ UNCHANGED <<session_handle_q, ongoing_job_q, jpeg_evts>>
       \/ /\ encoder[h].busy # 0 /\ encoder'[h].encoding = FALSE
          /\ session_handle_q' = Append(session_handle_q, h)
          /\ ongoing_job_q' = ongoing_job_q \ {encoder[h].job}
          /\ \E s \in {"DONE", "ERROR"} :
                 jpeg_evts' = Append(jpeg_evts, [job |-> encoder[h].job, status |-> s])
    /\ IF mgr' = "fills"
       THEN mgr = "fills" /\ mgr_on' = mgr_on /\ (h = mgr_on => fault # "call")
       ELSE mgr_on' = 0
    /\ UNCHANGED <<fault, num_omx_sessions, job_hist, job_queue, call, ppVars>>

\* The invariant stays.
LEMMA ReadEndsStep ==
    ASSUME PictureInv, NEW h \in InSession, h \in Encoders, ReadEnds(h)
    PROVE  PictureInv'
<1>1. /\ JpegTypes /\ EncodersFree /\ JobsApart /\ AbortFits /\ InputsHeld
      /\ UNCHANGED <<fault, num_omx_sessions, job_hist, job_queue, call, ppVars>>
      /\ UNCHANGED <<capture, ongoingJpegQ, aborted, jobs>>
  BY DEF PictureInv, ReadEnds, ppVars, ppQueues, history
<1>2. PpTypes' /\ FramesApart' /\ BuffersOwned' /\ JobsKnown' /\ ControlFits'
  BY <1>1, PostprocessorKept, ControlKept
<1>3. /\ encoder \in [Encoders -> Encoder] /\ encoder' \in [Encoders -> Encoder]
      /\ \A g \in Encoders : g # h => encoder'[g] = encoder[g]
      /\ encoder'[h].busy = 0 /\ encoder'[h].job = encoder[h].job
      /\ encoder[h].busy # 0 => encoder[h].encoding
      /\ encoder[h].encoding => encoder[h].job \in 1..job_hist \ ToSet(job_queue)
  BY <1>1 DEF ReadEnds, JpegTypes, EncodersFree, JobsApart
<1>4. /\ 1 \in Encoders /\ (num_omx_sessions <= 1 => h = 1)
      /\ InSession \subseteq Encoders /\ 1..job_hist \subseteq JobIds
  BY <1>1, FirstEncoder
<1>5. encoder'[1].busy \in {0, encoder[1].busy}  BY <1>3, <1>4
<1>6. \/ /\ encoder'[h].encoding = encoder[h].encoding
         /\ UNCHANGED <<session_handle_q, ongoing_job_q, jpeg_evts>>
      \/ /\ encoder[h].busy # 0 /\ encoder'[h].encoding = FALSE
         /\ session_handle_q' = Append(session_handle_q, h)
         /\ ongoing_job_q' = ongoing_job_q \ {encoder[h].job}
         /\ \E s \in {"DONE", "ERROR"} :
                jpeg_evts' = Append(jpeg_evts, [job |-> encoder[h].job, status |-> s])
  BY DEF ReadEnds
<1>7. encoder[h].encoding => encoder[h].job \in JobIds
  BY <1>3, <1>4
<1>8. /\ session_handle_q' \in Seq(Encoders)
      /\ ToSet(session_handle_q') = {g \in InSession : ~encoder'[g].encoding}
      /\ \A g \in Encoders : OneOf(session_handle_q', g)
  <2>0. /\ session_handle_q \in Seq(Encoders)
        /\ ToSet(session_handle_q) = {g \in InSession : ~encoder[g].encoding}
        /\ \A g \in Encoders : OneOf(session_handle_q, g)
        /\ \A g \in InSession : g \in Encoders
    BY <1>1, <1>4 DEF JpegTypes, EncodersFree
  <2>1. CASE encoder'[h].encoding = encoder[h].encoding /\ UNCHANGED session_handle_q
    BY <1>3, <2>0, <2>1
  <2>2. CASE /\ encoder[h].busy # 0 /\ encoder'[h].encoding = FALSE
             /\ session_handle_q' = Append(session_handle_q, h)
    <3>1. session_handle_q' \in Seq(Encoders)
          /\ ToSet(session_handle_q') = ToSet(session_handle_q) \cup {h}
      BY <2>0, <2>2, AppendFacts
    <3>2. h \notin ToSet(session_handle_q)  BY <1>3, <2>0, <2>2
    <3>3. \A g \in Encoders : OneOf(session_handle_q', g)
      BY <2>0, <2>2, <3>2, OneAppended
    <3>4. ToSet(session_handle_q') = {g \in InSession : ~encoder'[g].encoding}
      BY <1>3, <2>0, <2>2, <3>1
    <3> QED  BY <3>1, <3>3, <3>4
  <2> QED  BY <1>6, <2>1, <2>2
<1>9. /\ jpeg_evts' \in Seq(JpegEvents)
      /\ \A e \in ToSet(jpeg_evts') : e.job \in 1..job_hist \ ToSet(job_queue)
      /\ ~capture.burst => \A e \in ToSet(jpeg_evts') : e.job # encoder'[1].busy
  <2>0. /\ jpeg_evts \in Seq(JpegEvents)
        /\ \A e \in ToSet(jpeg_evts) : e.job \in 1..job_hist \ ToSet(job_queue)
        /\ ~capture.burst => \A e \in ToSet(jpeg_evts) : e.job # encoder[1].busy
        /\ ~capture.burst => num_omx_sessions <= 1
        /\ \A j \in 1..job_hist : j # 0
    BY <1>1 DEF JpegTypes, JobsApart, AbortFits
  <2>1. CASE UNCHANGED jpeg_evts
    <3>1. \A e \in ToSet(jpeg_evts) : e.job # 0  BY <2>0
    <3> QED  BY <1>5, <2>0, <2>1, <3>1
  <2>2. CASE /\ encoder[h].busy # 0
             /\ \E s \in {"DONE", "ERROR"} :
                    jpeg_evts' = Append(jpeg_evts, [job |-> encoder[h].job, status |-> s])
    <3>1. PICK s \in {"DONE", "ERROR"} :
              jpeg_evts' = Append(jpeg_evts, [job |-> encoder[h].job, status |-> s])
      BY <2>2
    <3> DEFINE ev == [job |-> encoder[h].job, status |-> s]
    <3>2. ev \in JpegEvents /\ ev.job = encoder[h].job  BY <1>3, <1>7, <2>2 DEF JpegEvents
    <3>3. jpeg_evts' = Append(jpeg_evts, ev)  BY <3>1
    <3> HIDE DEF ev
    <3>4. jpeg_evts' \in Seq(JpegEvents) /\ ToSet(jpeg_evts') = ToSet(jpeg_evts) \cup {ev}
      BY <2>0, <3>2, <3>3, AppendFacts
    <3>5. ev.job \in 1..job_hist \ ToSet(job_queue)  BY <1>3, <2>2, <3>2
    <3>6. \A e \in ToSet(jpeg_evts') : e.job \in 1..job_hist \ ToSet(job_queue) /\ e.job # 0
      BY <2>0, <3>4, <3>5
    <3>7. ASSUME ~capture.burst  PROVE \A e \in ToSet(jpeg_evts') : e.job # encoder'[1].busy
      <4>1. encoder'[1].busy = 0  BY <1>3, <1>4, <2>0, <3>7
      <4> QED  BY <3>6, <4>1
    <3> QED  BY <3>4, <3>6, <3>7
  <2> QED  BY <1>6, <2>1, <2>2
<1>10. JpegTypes'
  BY <1>1, <1>3, <1>6, <1>8, <1>9 DEF JpegTypes, Encoders, Calls
<1>11. EncodersFree'
  <2>1. \A g \in Encoders \ InSession' : encoder'[g] = FreshEncoder
    BY <1>1, <1>3 DEF EncodersFree, InSession
  <2>2. InSession' = InSession  BY <1>1 DEF InSession
  <2>3. \A g \in Encoders : encoder'[g].busy # 0 => encoder'[g].encoding
    BY <1>1, <1>3 DEF EncodersFree
  <2>4. IF mgr' = "fills"
        THEN /\ mgr_on' \in InSession /\ ~Aborting' /\ ~encoder'[mgr_on'].idling
             /\ fault' = "call" => encoder'[mgr_on'].busy # 0
        ELSE mgr_on' = 0
    <3>1. \A g \in InSession : g \in Encoders  BY <1>4
    <3>2. IF mgr' = "fills"
          THEN mgr = "fills" /\ mgr_on' = mgr_on /\ (h = mgr_on => fault # "call")
          ELSE mgr_on' = 0
      BY DEF ReadEnds
    <3>3. encoder'[h].idling => encoder[h].idling  BY DEF ReadEnds
    <3> QED  BY <1>1, <1>3, <3>1, <3>2, <3>3 DEF EncodersFree, Aborting
  <2> QED  BY <1>8, <2>1, <2>2, <2>3, <2>4 DEF EncodersFree
<1>12. JobsApart'
  <2>1. \A g \in Encoders : encoder'[g].encoding =>
            encoder'[g].job \in 1..job_hist \ ToSet(job_queue)
    BY <1>1, <1>3, <1>6 DEF JobsApart
  <2>2. \A g \in Encoders : encoder'[g].busy \in {0, encoder'[g].job}
    BY <1>1, <1>3 DEF JobsApart
  <2> QED  BY <1>1, <1>9, <2>1, <2>2 DEF JobsApart
<1>13. AbortFits'
  <2> SUFFICES ASSUME ~capture.burst
               PROVE  /\ num_omx_sessions <= 1
                      /\ encoder'[1].abort_state = "INIT" => call.waits
                      /\ encoder'[1].abort_state = "DONE" => encoder'[1].busy = 0
                      /\ call.waits => call.at = 1 /\ num_omx_sessions = 1
                                       /\ encoder'[1].abort_state # "NONE"
                      /\ Aborting /\ call.at > 1 => encoder'[1].busy = 0
                      /\ encoder'[1].busy # 0 => encoder'[1].busy \in ongoing_job_q' \/ Aborting
    BY <1>1 DEF AbortFits, Aborting, InSession
  <2>1. h = 1  BY <1>1, <1>4 DEF AbortFits
  <2>2. \/ encoder'[1].abort_state = encoder[1].abort_state
        \/ encoder[1].abort_state = "INIT" /\ encoder'[1].abort_state = "DONE"
    BY <2>1 DEF ReadEnds
  <2> QED  BY <1>1, <1>3, <2>1, <2>2 DEF AbortFits
<1>14. InputsHeld'
  <2>1. UNCHANGED <<FramesOf(ongoingJpegQ), FramesOf(aborted), ToSet(aborted),
                    ToSet(job_queue)>>
    BY <1>1 DEF FramesOf, ToSet
  <2>2. \A job \in ToSet(aborted) : job.id \in 1..job_hist
    BY DEF PictureInv, JobsKnown
  <2>3. job_hist \in Nat  BY <1>1, FirstEncoder
  <2>4. \A job \in ToSet(aborted) : job.id # 0  BY <2>2, <2>3
  <2>5. \A job \in ToSet(aborted) :
            job.id # encoder[1].busy => job.id # encoder'[1].busy
    BY <1>5, <2>4
  <2> QED  BY <1>1, <1>5, <2>1, <2>5 DEF InputsHeld
<1> QED  BY <1>2, <1>10, <1>11, <1>12, <1>13, <1>14 DEF PictureInv

\* An encoder that reads or goes idle is one of the session.
LEMMA AtWork ==
    ASSUME PictureInv, NEW h \in Encoders, encoder[h].busy # 0 \/ encoder[h].idling
    PROVE  h \in InSession
BY DEF PictureInv, EncodersFree, FreshEncoder

\* mm_jpegenc_job_done() for a job that an encoder reads.
LEMMA DoneEnds ==
    ASSUME PictureInv, NEW h \in Encoders, encoder[h].busy # 0, NEW s \in {"DONE", "ERROR"},
           JobDone(h, s),
           UNCHANGED <<fault, num_omx_sessions, job_hist, job_queue, call, ppVars>>,
           IF mgr' = "fills"
           THEN mgr = "fills" /\ mgr_on' = mgr_on /\ (h = mgr_on => fault # "call")
           ELSE mgr_on' = 0
    PROVE  PictureInv'
<1>1. h \in InSession  BY AtWork
<1>2. encoder \in [Encoders -> Encoder]  BY DEF PictureInv, JpegTypes
<1>3. encoder' = [encoder EXCEPT ![h] = [encoder[h] EXCEPT !.encoding = FALSE, !.busy = 0]]
  BY DEF JobDone
<1>4. [encoder[h] EXCEPT !.encoding = FALSE, !.busy = 0] \in Encoder  BY <1>2 DEF Encoder
<1>5. ReadEnds(h)  BY <1>2, <1>3, <1>4 DEF ReadEnds, JobDone, Encoder
<1> QED  BY <1>1, <1>5, ReadEndsStep

\* An encoder that stops reading without an answer.
LEMMA AbortEnds ==
    ASSUME PictureInv, NEW h \in Encoders, encoder[h].busy # 0 \/ encoder[h].idling,
           NEW r \in Encoder, encoder' = [encoder EXCEPT ![h] = r],
           r.busy = 0, r.job = encoder[h].job, r.encoding = encoder[h].encoding,
           r.idling => encoder[h].idling,
           \/ r.abort_state = encoder[h].abort_state
           \/ encoder[h].abort_state = "INIT" /\ r.abort_state = "DONE",
           UNCHANGED <<fault, num_omx_sessions, job_hist, job_queue, call, ppVars,
                       session_handle_q, ongoing_job_q, jpeg_evts, mgr, mgr_on>>,
           mgr = "fills" /\ h = mgr_on => fault # "call"
    PROVE  PictureInv'
<1>1. h \in InSession  BY AtWork
<1>2. encoder \in [Encoders -> Encoder] /\ (mgr # "fills" => mgr_on = 0)
  BY DEF PictureInv, JpegTypes, EncodersFree
<1>3. ReadEnds(h)  BY <1>2 DEF ReadEnds
<1> QED  BY <1>1, <1>3, ReadEndsStep

\* mm_jpeg_fbd().
LEMMA FillBufferDoneStep ==
    ASSUME PictureInv, NEW h \in Encoders, FillBufferDone(h), UNCHANGED ppVars
    PROVE  PictureInv'
<1>1. /\ encoder[h].busy # 0 /\ h # mgr_on
      /\ UNCHANGED <<fault, num_omx_sessions, job_hist, job_queue, mgr, mgr_on, call>>
  BY DEF FillBufferDone, sessionVars, mgrVars
<1>2. /\ encoder \in [Encoders -> Encoder] /\ (mgr # "fills" => mgr_on = 0)
  BY DEF PictureInv, JpegTypes, EncodersFree
<1>3. CASE encoder[h].abort_state # "NONE"
  <2> DEFINE r == [encoder[h] EXCEPT !.busy = 0]
  <2>1. encoder' = [encoder EXCEPT ![h] = r]
        /\ UNCHANGED <<session_handle_q, ongoing_job_q, jpeg_evts>>
    BY <1>3 DEF FillBufferDone
  <2>2. r \in Encoder /\ r.busy = 0 /\ r.job = encoder[h].job /\ r.idling = encoder[h].idling
        /\ r.encoding = encoder[h].encoding /\ r.abort_state = encoder[h].abort_state
    BY <1>2 DEF Encoder
  <2> HIDE DEF r
  <2> QED  BY <1>1, <2>1, <2>2, AbortEnds
<1>4. CASE encoder[h].abort_state = "NONE"
  <2>1. JobDone(h, "DONE")  BY <1>4 DEF FillBufferDone
  <2> QED  BY <1>1, <1>2, <2>1, DoneEnds
<1> QED  BY <1>3, <1>4

\* mm_jpeg_event_handler() of an error.
LEMMA ErrorEventStep ==
    ASSUME PictureInv, NEW h \in Encoders, ErrorEvent(h), UNCHANGED ppVars
    PROVE  PictureInv'
<1>1. /\ encoder[h].busy # 0 /\ fault # "call"
      /\ UNCHANGED <<fault, num_omx_sessions, job_hist, job_queue, mgr, mgr_on, call>>
  BY DEF ErrorEvent, sessionVars, mgrVars
<1>2. /\ encoder \in [Encoders -> Encoder] /\ (mgr # "fills" => mgr_on = 0)
  BY DEF PictureInv, JpegTypes, EncodersFree
<1>3. CASE encoder[h].abort_state = "INIT"
  <2> DEFINE r == [encoder[h] EXCEPT !.abort_state = "DONE", !.busy = 0]
  <2>1. encoder' = [encoder EXCEPT ![h] = r]
        /\ UNCHANGED <<session_handle_q, ongoing_job_q, jpeg_evts>>
    BY <1>3 DEF ErrorEvent
  <2>2. r \in Encoder /\ r.busy = 0 /\ r.job = encoder[h].job /\ r.idling = encoder[h].idling
        /\ r.encoding = encoder[h].encoding /\ r.abort_state = "DONE"
    BY <1>2 DEF Encoder
  <2> HIDE DEF r
  <2> QED  BY <1>1, <1>3, <2>1, <2>2, AbortEnds
<1>4. CASE encoder[h].abort_state # "INIT" /\ encoder[h].encoding
  <2>1. JobDone(h, "ERROR")  BY <1>4 DEF ErrorEvent
  <2> QED  BY <1>1, <1>2, <2>1, DoneEnds
<1>5. CASE encoder[h].abort_state # "INIT" /\ ~encoder[h].encoding
  BY <1>1, <1>5 DEF PictureInv, EncodersFree
<1> QED  BY <1>3, <1>4, <1>5

\* mm_jpeg_event_handler() of OMX_EventCmdComplete.
LEMMA IdleEventStep ==
    ASSUME PictureInv, NEW h \in Encoders, IdleEvent(h), UNCHANGED ppVars
    PROVE  PictureInv'
<1> DEFINE r == [encoder[h] EXCEPT !.idling = FALSE, !.busy = 0,
                     !.abort_state = IF @ = "INIT" THEN "DONE" ELSE @]
<1>1. /\ encoder[h].idling /\ encoder' = [encoder EXCEPT ![h] = r]
      /\ UNCHANGED <<fault, num_omx_sessions, job_hist, job_queue, mgr, mgr_on, call,
                     session_handle_q, ongoing_job_q, jpeg_evts>>
  BY DEF IdleEvent, sessionVars, mgrVars
<1>2. encoder \in [Encoders -> Encoder] /\ (mgr = "fills" => h # mgr_on)
  BY <1>1 DEF PictureInv, JpegTypes, EncodersFree
<1>3. r \in Encoder /\ r.busy = 0 /\ r.job = encoder[h].job /\ r.idling = FALSE
      /\ r.encoding = encoder[h].encoding
      /\ \/ r.abort_state = encoder[h].abort_state
         \/ encoder[h].abort_state = "INIT" /\ r.abort_state = "DONE"
  BY <1>2 DEF Encoder
<1> HIDE DEF r
<1> QED  BY <1>1, <1>2, <1>3, AbortEnds

\* What changes nothing but where the job thread is, not to start an encoder.
LEMMA ManagerRests ==
    ASSUME PictureInv, UNCHANGED ppVars, mgr' # "fills", mgr_on' = 0,
           UNCHANGED <<sessionVars, encoder, session_handle_q, job_hist, job_queue,
                       ongoing_job_q, call, jpeg_evts>>
    PROVE  PictureInv'
<1>1. PpTypes' /\ FramesApart' /\ BuffersOwned' /\ JobsKnown' /\ ControlFits'
  BY PostprocessorKept, ControlKept DEF sessionVars
<1>2. UNCHANGED <<capture, ongoingJpegQ, aborted, jobs>>  BY DEF ppVars, ppQueues, history
<1>3. JpegTypes'  BY DEF PictureInv, JpegTypes, sessionVars
<1>4. EncodersFree'
  BY DEF PictureInv, EncodersFree, InSession, Aborting, OneOf, ToSet, sessionVars
<1>5. JobsApart'  BY <1>2 DEF PictureInv, JobsApart, OneOf, ToSet
<1>6. AbortFits'  BY <1>2 DEF PictureInv, AbortFits, Aborting, InSession, sessionVars
<1>7. InputsHeld'  BY <1>2 DEF PictureInv, InputsHeld, FramesOf, ToSet
<1> QED  BY <1>1, <1>3, <1>4, <1>5, <1>6, <1>7 DEF PictureInv

\* The job thread wakes.
LEMMA MgrWakesStep ==
    ASSUME PictureInv, MgrWakes, UNCHANGED ppVars
    PROVE  PictureInv'
<1>1. mgr' # "fills" /\ mgr_on' = 0  BY DEF PictureInv, EncodersFree, MgrWakes
<1> QED  BY <1>1, ManagerRests DEF MgrWakes

\* The component gets its output buffer, or refuses it.
LEMMA MgrFillsStep ==
    ASSUME PictureInv, MgrFills, UNCHANGED ppVars
    PROVE  PictureInv'
<1>1. /\ mgr = "fills" /\ mgr' = "waits" /\ mgr_on' = 0
      /\ UNCHANGED <<fault, num_omx_sessions, job_hist, job_queue, call>>
  BY DEF MgrFills, sessionVars
<1>2. CASE UNCHANGED <<encoder, session_handle_q, ongoing_job_q, job_sem, jpeg_evts>>
  BY <1>1, <1>2, ManagerRests DEF sessionVars
<1>3. CASE fault = "call" /\ JobDone(mgr_on, "ERROR")
  <2>1. mgr_on \in InSession /\ encoder[mgr_on].busy # 0
    BY <1>1, <1>3 DEF PictureInv, EncodersFree
  <2>2. mgr_on \in Encoders  BY <2>1, FirstEncoder DEF PictureInv
  <2> QED  BY <1>1, <1>3, <2>1, <2>2, DoneEnds
<1> QED  BY <1>2, <1>3 DEF MgrFills

\* Encoder h is given job j, the first of those that wait.
LEMMA MgrGives ==
    ASSUME PictureInv, UNCHANGED ppVars, NEW j, NEW h, ~Aborting,
           job_queue # << >>, j = job_queue[1], j # EXIT,
           session_handle_q # << >>, h = session_handle_q[1],
           mgr' = "fills", mgr_on' = h,
           job_queue' = Tail(job_queue), session_handle_q' = Tail(session_handle_q),
           ongoing_job_q' = ongoing_job_q \cup {j},
           encoder' = [encoder EXCEPT ![h] =
                           [FreshEncoder EXCEPT !.encoding = TRUE, !.job = j, !.busy = j]],
           UNCHANGED <<sessionVars, job_hist, call, jpeg_evts>>
    PROVE  PictureInv'
<1> DEFINE r == [FreshEncoder EXCEPT !.encoding = TRUE, !.job = j, !.busy = j]
<1>1. /\ JpegTypes /\ EncodersFree /\ JobsApart /\ AbortFits /\ InputsHeld /\ JobsKnown
      /\ UNCHANGED <<fault, num_omx_sessions, job_hist, call, jpeg_evts>>
      /\ UNCHANGED <<capture, ongoingJpegQ, aborted, jobs>>
  BY DEF PictureInv, sessionVars, ppVars, ppQueues, history
<1>2. PpTypes' /\ FramesApart' /\ BuffersOwned' /\ JobsKnown' /\ ControlFits'
  BY <1>1, PostprocessorKept, ControlKept
<1>3. /\ 1 \in Encoders /\ InSession \subseteq Encoders /\ 1..job_hist \subseteq JobIds
      /\ \A g \in InSession : num_omx_sessions <= 1 => g = 1
      /\ job_hist \in Nat
  BY <1>1, FirstEncoder
<1>4. /\ Tail(job_queue) \in Seq({EXIT} \cup JobIds) /\ j \in JobIds /\ j \in ToSet(job_queue)
      /\ ToSet(Tail(job_queue)) \subseteq ToSet(job_queue) /\ j \notin ToSet(Tail(job_queue))
      /\ \A i \in JobIds : OneOf(Tail(job_queue), i)
  <2>1. job_queue \in Seq({EXIT} \cup JobIds) /\ \A i \in JobIds : OneOf(job_queue, i)
    BY <1>1 DEF JpegTypes, JobsApart
  <2>2. /\ Tail(job_queue) \in Seq({EXIT} \cup JobIds) /\ Head(job_queue) \in {EXIT} \cup JobIds
        /\ Head(job_queue) = job_queue[1]
        /\ ToSet(job_queue) = ToSet(Tail(job_queue)) \cup {Head(job_queue)}
        /\ \A x : OneOf(job_queue, x) => OneOf(Tail(job_queue), x)
        /\ OneOf(job_queue, Head(job_queue)) => Head(job_queue) \notin ToSet(Tail(job_queue))
    BY <2>1, OneTaken
  <2> QED  BY <2>1, <2>2
<1>5. j \in 1..job_hist /\ j \in Nat /\ j # 0
  <2>1. j <= job_hist  BY <1>1, <1>4 DEF JobsApart
  <2>2. j \in Nat /\ j # 0  BY <1>4, Bounds DEF JobIds
  <2> QED  BY <1>3, <2>1, <2>2
<1>6. /\ Tail(session_handle_q) \in Seq(Encoders) /\ h \in Encoders
      /\ ToSet(session_handle_q) = ToSet(Tail(session_handle_q)) \cup {h}
      /\ h \notin ToSet(Tail(session_handle_q))
      /\ \A g \in Encoders : OneOf(Tail(session_handle_q), g)
  <2>1. session_handle_q \in Seq(Encoders) /\ \A g \in Encoders : OneOf(session_handle_q, g)
    BY <1>1 DEF JpegTypes, EncodersFree
  <2>2. /\ Tail(session_handle_q) \in Seq(Encoders) /\ Head(session_handle_q) \in Encoders
        /\ Head(session_handle_q) = session_handle_q[1]
        /\ ToSet(session_handle_q) = ToSet(Tail(session_handle_q)) \cup {Head(session_handle_q)}
        /\ \A x : OneOf(session_handle_q, x) => OneOf(Tail(session_handle_q), x)
        /\ OneOf(session_handle_q, Head(session_handle_q)) =>
               Head(session_handle_q) \notin ToSet(Tail(session_handle_q))
    BY <2>1, OneTaken
  <2> QED  BY <2>1, <2>2
<1>7. h \in InSession /\ ~encoder[h].encoding  BY <1>1, <1>6 DEF EncodersFree
<1>8. /\ encoder \in [Encoders -> Encoder]
      /\ r \in Encoder /\ r.encoding = TRUE /\ r.job = j /\ r.busy = j /\ r.idling = FALSE
      /\ r.abort_state = "NONE" /\ encoder' = [encoder EXCEPT ![h] = r]
  BY <1>1, <1>4 DEF JpegTypes, Encoder, FreshEncoder
<1> HIDE DEF r
<1>9. /\ encoder' \in [Encoders -> Encoder] /\ encoder'[h] = r
      /\ \A g \in Encoders : g # h => encoder'[g] = encoder[g]
  BY <1>6, <1>8
<1>10. JpegTypes'
  BY <1>1, <1>4, <1>6, <1>9 DEF JpegTypes
<1>11. EncodersFree'
  <2>1. InSession' = InSession  BY <1>1 DEF InSession
  <2>2. \A g \in Encoders \ InSession : encoder'[g] = FreshEncoder
    BY <1>1, <1>7, <1>9 DEF EncodersFree
  <2>3. ToSet(session_handle_q') = {g \in InSession : ~encoder'[g].encoding}
    BY <1>1, <1>3, <1>6, <1>8, <1>9 DEF EncodersFree
  <2>4. \A g \in Encoders : encoder'[g].busy # 0 => encoder'[g].encoding
    BY <1>1, <1>8, <1>9 DEF EncodersFree
  <2>5. ~Aborting'  BY <1>1 DEF Aborting
  <2> QED  BY <1>5, <1>6, <1>7, <1>8, <1>9, <2>1, <2>2, <2>3, <2>4, <2>5 DEF EncodersFree
<1>12. JobsApart'
  <2>1. \A i \in ToSet(job_queue') : i <= job_hist  BY <1>1, <1>4 DEF JobsApart
  <2>2. \A g \in Encoders : encoder'[g].encoding =>
            encoder'[g].job \in 1..job_hist \ ToSet(job_queue')
    BY <1>1, <1>4, <1>5, <1>8, <1>9 DEF JobsApart
  <2>3. \A g \in Encoders : encoder'[g].busy \in {0, encoder'[g].job}
    BY <1>1, <1>8, <1>9 DEF JobsApart
  <2>4. \A e \in ToSet(jpeg_evts) : e.job \in 1..job_hist \ ToSet(job_queue') /\ e.job # j
    BY <1>1, <1>4 DEF JobsApart
  <2>5. ~capture.burst => \A e \in ToSet(jpeg_evts) : e.job # encoder'[1].busy
    BY <1>1, <1>3, <1>8, <1>9, <2>4 DEF JobsApart
  <2> QED  BY <1>1, <1>4, <2>1, <2>2, <2>3, <2>4, <2>5 DEF JobsApart
<1>13. AbortFits'
  <2> SUFFICES ASSUME ~capture.burst
               PROVE  /\ num_omx_sessions <= 1
                      /\ encoder'[1].abort_state = "INIT" => call.waits
                      /\ encoder'[1].abort_state = "DONE" => encoder'[1].busy = 0
                      /\ call.waits => call.at = 1 /\ num_omx_sessions = 1
                                       /\ encoder'[1].abort_state # "NONE"
                      /\ Aborting /\ call.at > 1 => encoder'[1].busy = 0
                      /\ encoder'[1].busy # 0 => encoder'[1].busy \in ongoing_job_q' \/ Aborting
    BY <1>1 DEF AbortFits, Aborting, InSession
  <2>1. h = 1 /\ ~call.waits  BY <1>1, <1>3, <1>7 DEF AbortFits
  <2> QED  BY <1>1, <1>8, <1>9, <2>1 DEF AbortFits
<1>14. InputsHeld'
  <2>1. UNCHANGED <<FramesOf(ongoingJpegQ), FramesOf(aborted), ToSet(aborted)>>
    BY <1>1 DEF FramesOf, ToSet
  <2>2. jobs[j] \in FramesOf(ongoingJpegQ)  BY <1>1, <1>4, <1>5 DEF InputsHeld, EXIT
  <2>3. \A job \in ToSet(aborted) : job.id # j  BY <1>1, <1>4 DEF InputsHeld
  <2>4. encoder'[1].busy \in {j, encoder[1].busy}  BY <1>3, <1>8, <1>9
  <2> QED  BY <1>1, <1>4, <2>1, <2>2, <2>3, <2>4 DEF InputsHeld
<1> QED  BY <1>2, <1>10, <1>11, <1>12, <1>13, <1>14 DEF PictureInv

\* The job thread takes something from the queue that is not for an encoder, its exit.
LEMMA ExitTakenStep ==
    ASSUME PictureInv, UNCHANGED ppVars, mgr' # "fills", mgr_on' = 0,
           NEW q, job_queue' = q, q \in Seq({EXIT} \cup JobIds),
           ToSet(q) \subseteq ToSet(job_queue),
           \A j \in JobIds : OneOf(q, j),
           UNCHANGED <<sessionVars, encoder, session_handle_q, job_hist,
                       ongoing_job_q, call, jpeg_evts>>
    PROVE  PictureInv'
<1>1. PpTypes' /\ FramesApart' /\ BuffersOwned' /\ JobsKnown' /\ ControlFits'
  BY PostprocessorKept, ControlKept DEF sessionVars
<1>2. UNCHANGED <<capture, ongoingJpegQ, aborted, jobs>>  BY DEF ppVars, ppQueues, history
<1>3. JpegTypes'  BY DEF PictureInv, JpegTypes, sessionVars
<1>4. EncodersFree'
  BY DEF PictureInv, EncodersFree, InSession, Aborting, OneOf, ToSet, sessionVars
<1>5. JobsApart'
  <2>1. UNCHANGED ToSet(jpeg_evts)  BY DEF ToSet
  <2> QED  BY <1>2, <2>1 DEF PictureInv, JobsApart
<1>6. AbortFits'  BY <1>2 DEF PictureInv, AbortFits, Aborting, InSession, sessionVars
<1>7. InputsHeld'
  <2>1. UNCHANGED <<FramesOf(ongoingJpegQ), FramesOf(aborted), ToSet(aborted)>>
    BY <1>2 DEF FramesOf, ToSet
  <2> QED  BY <1>2, <2>1 DEF PictureInv, InputsHeld
<1> QED  BY <1>1, <1>3, <1>4, <1>5, <1>6, <1>7 DEF PictureInv

\* mm_jpeg_process_encoding_job().
LEMMA MgrTakesStep ==
    ASSUME PictureInv, MgrTakes, UNCHANGED ppVars
    PROVE  PictureInv'
<1>1. /\ mgr = "takes" /\ call.op \in {"none", "returned"}
      /\ UNCHANGED <<sessionVars, job_hist, job_sem, call, jpeg_evts>>
  BY DEF MgrTakes
<1>2. mgr_on = 0  BY <1>1 DEF PictureInv, EncodersFree
<1>3. CASE job_queue = << >> \/ (job_queue[1] # EXIT /\ session_handle_q = << >>)
  <2>1. mgr' = "waits"
        /\ UNCHANGED <<encoder, session_handle_q, job_queue, ongoing_job_q, mgr_on>>
    BY <1>3 DEF MgrTakes
  <2> QED  BY <1>1, <1>2, <2>1, ManagerRests
<1>4. CASE job_queue # << >> /\ job_queue[1] = EXIT
  <2>1. mgr' = "exited" /\ job_queue' = Tail(job_queue)
        /\ UNCHANGED <<encoder, session_handle_q, ongoing_job_q, mgr_on>>
    BY <1>4 DEF MgrTakes
  <2>2. job_queue \in Seq({EXIT} \cup JobIds) /\ \A i \in JobIds : OneOf(job_queue, i)
    BY DEF PictureInv, JpegTypes, JobsApart
  <2>3. /\ Tail(job_queue) \in Seq({EXIT} \cup JobIds)
        /\ ToSet(job_queue) = ToSet(Tail(job_queue)) \cup {Head(job_queue)}
        /\ \A x : OneOf(job_queue, x) => OneOf(Tail(job_queue), x)
    BY <1>4, <2>2, OneTaken
  <2> QED  BY <1>1, <1>2, <2>1, <2>2, <2>3, ExitTakenStep
<1>5. CASE job_queue # << >> /\ job_queue[1] # EXIT /\ session_handle_q # << >>
  BY <1>1, <1>5, MgrGives DEF MgrTakes, Aborting
<1> QED  BY <1>3, <1>4, <1>5

\* A call that aborts does what it does to encoder h.
LEMMA AbortMoves ==
    ASSUME PictureInv, UNCHANGED ppVars, Aborting, NEW h \in InSession, NEW r \in Encoder,
           encoder' = [encoder EXCEPT ![h] = r], r.encoding = encoder[h].encoding,
           r.busy = encoder[h].busy, r.job = encoder[h].job,
           NEW c \in Calls, call' = c, c.op = call.op, c.waits => c.at = h,
           ~capture.burst => /\ r.abort_state = "INIT" => c.waits
                             /\ r.abort_state = "DONE" => r.busy = 0
                             /\ c.waits => r.abort_state # "NONE"
                             /\ c.at > 1 => r.busy = 0,
           UNCHANGED <<sessionVars, session_handle_q, job_hist, job_queue, ongoing_job_q,
                       mgrVars, jpeg_evts>>
    PROVE  PictureInv'
<1>1. /\ JpegTypes /\ EncodersFree /\ JobsApart /\ AbortFits /\ InputsHeld /\ JobsKnown
      /\ UNCHANGED <<fault, num_omx_sessions, job_hist, job_queue, jpeg_evts,
                     session_handle_q, ongoing_job_q, mgr, mgr_on>>
      /\ UNCHANGED <<capture, ongoingJpegQ, aborted, jobs>>
      /\ UNCHANGED <<InSession, ToSet(session_handle_q), ToSet(job_queue), ToSet(jpeg_evts),
                     ToSet(aborted), FramesOf(ongoingJpegQ), FramesOf(aborted)>>
  BY DEF PictureInv, sessionVars, mgrVars, ppVars, ppQueues, history, InSession, ToSet, FramesOf
<1>2. PpTypes' /\ FramesApart' /\ BuffersOwned' /\ JobsKnown'
  BY <1>1, PostprocessorKept
<1>3. /\ 1 \in Encoders /\ h \in Encoders /\ (num_omx_sessions <= 1 => h = 1)
      /\ num_omx_sessions \in Nat
  BY <1>1, FirstEncoder
<1>4. /\ encoder \in [Encoders -> Encoder] /\ encoder' \in [Encoders -> Encoder]
      /\ encoder'[h] = r /\ \A g \in Encoders : g # h => encoder'[g] = encoder[g]
  BY <1>1, <1>3 DEF JpegTypes
<1>5. /\ \A g \in Encoders : encoder'[g].encoding = encoder[g].encoding
      /\ \A g \in Encoders : encoder'[g].busy = encoder[g].busy
      /\ \A g \in Encoders : encoder'[g].job = encoder[g].job
  BY <1>4
<1>6. Aborting'  BY DEF Aborting
<1>7. JpegTypes'  BY <1>1, <1>4 DEF JpegTypes
<1>8. EncodersFree'
  <2>1. \A g \in Encoders \ InSession : encoder'[g] = FreshEncoder
    BY <1>1, <1>4 DEF EncodersFree
  <2>2. ToSet(session_handle_q) = {g \in InSession : ~encoder'[g].encoding}
    <3>1. \A g \in InSession : g \in Encoders  BY <1>1, FirstEncoder
    <3> QED  BY <1>1, <1>5, <3>1 DEF EncodersFree
  <2>3. \A g \in Encoders : encoder'[g].busy # 0 => encoder'[g].encoding
    BY <1>1, <1>5 DEF EncodersFree
  <2>4. mgr # "fills" /\ mgr_on = 0  BY <1>1 DEF EncodersFree
  <2> QED  BY <1>1, <2>1, <2>2, <2>3, <2>4 DEF EncodersFree
<1>9. JobsApart'
  <2>1. encoder'[1].busy = encoder[1].busy  BY <1>3, <1>5
  <2> QED  BY <1>1, <1>5, <2>1 DEF JobsApart
<1>10. AbortFits'
  <2>1. c.waits => c.at \in InSession  OBVIOUS
  <2>2. ASSUME ~capture.burst
        PROVE  /\ num_omx_sessions <= 1
               /\ encoder'[1].abort_state = "INIT" => c.waits
               /\ encoder'[1].abort_state = "DONE" => encoder'[1].busy = 0
               /\ c.waits => c.at = 1 /\ num_omx_sessions = 1
                             /\ encoder'[1].abort_state # "NONE"
               /\ c.at > 1 => encoder'[1].busy = 0
    <3>1. num_omx_sessions <= 1  BY <1>1, <2>2 DEF AbortFits
    <3>2. h = 1 /\ num_omx_sessions = 1  BY <1>3, <3>1 DEF InSession
    <3> QED  BY <1>4, <2>2, <3>1, <3>2
  <2> QED  BY <1>1, <1>6, <2>1, <2>2 DEF AbortFits
<1>11. InputsHeld'
  <2>1. encoder'[1].busy = encoder[1].busy  BY <1>3, <1>5
  <2>2. c.op # "returned"  BY DEF Aborting
  <2> QED  BY <1>1, <2>1, <2>2 DEF InputsHeld
<1>12. ControlFits'
  <2>1. UNCHANGED <<num_omx_sessions, ctrl, pp_pc, is_active, new_session, pp_cmds, aborted>>
        /\ call'.op = call.op
    BY <1>1 DEF ppVars, ppQueues
  <2> QED  BY <2>1 DEF PictureInv, ControlFits, OneOf, ToSet
<1> QED  BY <1>2, <1>7, <1>8, <1>9, <1>10, <1>11, <1>12 DEF PictureInv

\* mm_jpeg_session_abort() of one encoder.
LEMMA AbortEncoderStep ==
    ASSUME PictureInv, AbortEncoder, UNCHANGED ppVars
    PROVE  PictureInv'
<1> DEFINE h == call.at
<1>1. /\ Aborting /\ ~call.waits /\ h \in InSession
      /\ UNCHANGED <<sessionVars, session_handle_q, job_hist, job_queue, ongoing_job_q,
                     mgrVars, jpeg_evts>>
  BY DEF AbortEncoder, Aborting
<1>2. /\ h \in Encoders /\ (num_omx_sessions <= 1 => h = 1) /\ num_omx_sessions \in Nat
      /\ encoder \in [Encoders -> Encoder] /\ encoder[h] \in Encoder /\ call \in Calls
      /\ h \in Nat
  BY <1>1, FirstEncoder DEF PictureInv, JpegTypes, Calls
<1>3. /\ encoder[h].busy # 0 => encoder[h].encoding
      /\ ~capture.burst => h = 1 /\ num_omx_sessions <= 1
      /\ ~capture.burst /\ encoder[h].abort_state = "INIT" => FALSE
      /\ ~capture.burst /\ encoder[h].abort_state = "DONE" => encoder[h].busy = 0
  BY <1>1, <1>2 DEF PictureInv, EncodersFree, AbortFits
<1>4. CASE encoder[h].abort_state # "NONE"
  <2> DEFINE c == [call EXCEPT !.at = num_omx_sessions + 1]
  <2>1. call' = c /\ encoder' = encoder  BY <1>4 DEF AbortEncoder
  <2>2. c \in Calls /\ c.op = call.op /\ c.waits = FALSE  BY <1>1, <1>2 DEF Calls
  <2>3. encoder' = [encoder EXCEPT ![h] = encoder[h]]  BY <1>2, <2>1
  <2>4. ~capture.burst => encoder[h].busy = 0  BY <1>2, <1>3, <1>4 DEF Encoder
  <2>5. ~capture.burst => encoder[h].abort_state # "INIT"  BY <1>3
  <2> HIDE DEF c, h
  <2>6. ~capture.burst => /\ encoder[h].abort_state = "INIT" => c.waits
                          /\ encoder[h].abort_state = "DONE" => encoder[h].busy = 0
                          /\ c.waits => encoder[h].abort_state # "NONE"
                          /\ c.at > 1 => encoder[h].busy = 0
    BY <2>2, <2>4, <2>5
  <2>7. c.waits => c.at = h  BY <2>2
  <2> QED  BY <1>1, <1>2, <2>1, <2>2, <2>3, <2>6, <2>7, AbortMoves
<1>5. CASE encoder[h].abort_state = "NONE" /\ encoder[h].encoding
  <2> DEFINE c == [call EXCEPT !.waits = TRUE]
             r == [encoder[h] EXCEPT !.abort_state = "INIT", !.idling = TRUE]
  <2>1. call' = c /\ encoder' = [encoder EXCEPT ![h] = r]  BY <1>5 DEF AbortEncoder
  <2>2. c \in Calls /\ c.op = call.op /\ c.waits = TRUE /\ c.at = h  BY <1>1, <1>2 DEF Calls
  <2>3. r \in Encoder /\ r.encoding = encoder[h].encoding /\ r.busy = encoder[h].busy
        /\ r.job = encoder[h].job /\ r.abort_state = "INIT"
    BY <1>2 DEF Encoder
  <2> HIDE DEF c, r, h
  <2>4. ~capture.burst => /\ r.abort_state = "INIT" => c.waits
                          /\ r.abort_state = "DONE" => r.busy = 0
                          /\ c.waits => r.abort_state # "NONE"
                          /\ c.at > 1 => r.busy = 0
    BY <1>3, <2>2, <2>3
  <2> QED  BY <1>1, <1>2, <2>1, <2>2, <2>3, <2>4, AbortMoves
<1>6. CASE encoder[h].abort_state = "NONE" /\ ~encoder[h].encoding
  <2> DEFINE c == [call EXCEPT !.at = h + 1]
             r == [encoder[h] EXCEPT !.abort_state = "DONE"]
  <2>1. call' = c /\ encoder' = [encoder EXCEPT ![h] = r]  BY <1>6 DEF AbortEncoder
  <2>2. c \in Calls /\ c.op = call.op /\ c.waits = FALSE  BY <1>1, <1>2 DEF Calls
  <2>3. r \in Encoder /\ r.encoding = encoder[h].encoding /\ r.busy = 0
        /\ r.busy = encoder[h].busy
        /\ r.job = encoder[h].job /\ r.abort_state = "DONE"
    BY <1>2, <1>3, <1>6 DEF Encoder
  <2> HIDE DEF c, r, h
  <2> QED  BY <1>1, <1>2, <1>3, <2>1, <2>2, <2>3, AbortMoves
<1> QED  BY <1>4, <1>5, <1>6

\* It goes on once the encoder it waited for is idle or has failed.
LEMMA AbortWakesStep ==
    ASSUME PictureInv, AbortWakes, UNCHANGED ppVars
    PROVE  PictureInv'
<1> DEFINE h == call.at
           c == [call EXCEPT !.at = h + 1, !.waits = FALSE]
           r == [encoder[h] EXCEPT !.abort_state = "DONE"]
<1>1. /\ call.waits /\ encoder[h].abort_state # "INIT"
      /\ encoder' = [encoder EXCEPT ![h] = r] /\ call' = c
      /\ UNCHANGED <<sessionVars, session_handle_q, job_hist, job_queue, ongoing_job_q,
                     mgrVars, jpeg_evts>>
  BY DEF AbortWakes
<1>2. Aborting /\ h \in InSession  BY <1>1 DEF PictureInv, AbortFits
<1>3. /\ h \in Encoders /\ (num_omx_sessions <= 1 => h = 1)
      /\ encoder[h] \in Encoder /\ call \in Calls /\ h \in Nat
  BY <1>2, FirstEncoder DEF PictureInv, JpegTypes, Calls
<1>4. ~capture.burst => encoder[h].busy = 0
  <2>1. ASSUME ~capture.burst  PROVE encoder[h].busy = 0
    <3>1. h = 1 /\ encoder[h].abort_state # "NONE"
      BY <1>1, <1>3, <2>1 DEF PictureInv, AbortFits
    <3>2. encoder[h].abort_state = "DONE"  BY <1>1, <1>3, <3>1 DEF Encoder
    <3> QED  BY <2>1, <3>1, <3>2 DEF PictureInv, AbortFits
  <2> QED  BY <2>1
<1>5. c \in Calls /\ c.op = call.op /\ c.waits = FALSE
  <2>1. \A o \in Calls, n \in Nat : LET d == [o EXCEPT !.at = n, !.waits = FALSE]
                                    IN  d \in Calls /\ d.op = o.op /\ d.waits = FALSE
    BY DEF Calls
  <2>2. h + 1 \in Nat /\ call \in Calls  BY <1>3
  <2> HIDE DEF h
  <2> QED  BY <2>1, <2>2
<1>6. r \in Encoder /\ r.encoding = encoder[h].encoding /\ r.busy = encoder[h].busy
      /\ r.job = encoder[h].job /\ r.abort_state = "DONE"
  BY <1>3 DEF Encoder
<1> HIDE DEF h, c, r
<1> QED  BY <1>1, <1>2, <1>4, <1>5, <1>6, AbortMoves

\* The call returns, and has freed the components of a session that it destroys.
LEMMA AbortReturnsStep ==
    ASSUME PictureInv, AbortReturns, UNCHANGED ppVars
    PROVE  PictureInv'
<1>1. /\ JpegTypes /\ EncodersFree /\ JobsApart /\ AbortFits /\ InputsHeld /\ JobsKnown
      /\ ControlFits
      /\ UNCHANGED <<fault, job_hist, job_queue, jpeg_evts, ongoing_job_q, mgr, mgr_on>>
      /\ UNCHANGED <<capture, ongoingJpegQ, aborted, jobs>>
      /\ UNCHANGED <<ToSet(job_queue), ToSet(jpeg_evts),
                     ToSet(aborted), FramesOf(ongoingJpegQ), FramesOf(aborted)>>
      /\ Aborting /\ call.at > num_omx_sessions
  BY DEF PictureInv, AbortReturns, Aborting, mgrVars, ppVars, ppQueues, history, ToSet, FramesOf
<1>2. PpTypes' /\ FramesApart' /\ BuffersOwned' /\ JobsKnown'
  BY <1>1, PostprocessorKept
<1>3. /\ 1 \in Encoders /\ InSession \subseteq Encoders /\ num_omx_sessions \in Nat
      /\ encoder \in [Encoders -> Encoder] /\ call \in Calls /\ call.at \in Nat
      /\ job_hist \in Nat
  BY <1>1, FirstEncoder DEF JpegTypes, Calls
<1>4. call' = [op |-> "returned", at |-> 0, waits |-> FALSE]
      /\ call' \in Calls /\ ~Aborting'
  BY DEF AbortReturns, NoCall, Calls, Aborting
<1>5. ~call.waits  BY <1>1, <1>3 DEF AbortFits, InSession
<1>6. ~capture.burst => encoder[1].busy = 0
  <2>1. CASE num_omx_sessions = 0
    <3>1. 1 \notin InSession  BY <2>1 DEF InSession
    <3> QED  BY <1>1, <1>3, <3>1 DEF EncodersFree, FreshEncoder
  <2>2. CASE num_omx_sessions # 0
    <3>1. call.at > 1  BY <1>1, <1>3, <2>2
    <3> QED  BY <1>1, <3>1 DEF AbortFits
  <2> QED  BY <2>1, <2>2
<1>7. mgr # "fills" /\ mgr_on = 0  BY <1>1 DEF EncodersFree
<1>8. \A job \in ToSet(aborted) : job.id # 0  BY <1>1, <1>3 DEF JobsKnown
<1>9. \A e \in ToSet(jpeg_evts) : e.job # 0  BY <1>1, <1>3 DEF JobsApart
<1>10. CASE call.op = "destroy"
  <2>1. /\ num_omx_sessions' = 0 /\ session_handle_q' = << >>
        /\ encoder' = [h \in Encoders |-> FreshEncoder]
    BY <1>10 DEF AbortReturns
  <2>2. /\ FreshEncoder \in Encoder /\ FreshEncoder.busy = 0
        /\ FreshEncoder.encoding = FALSE /\ FreshEncoder.abort_state = "NONE"
        /\ FreshEncoder.job = 0
    BY DEF FreshEncoder, Encoder
  <2>3. encoder' \in [Encoders -> Encoder] /\ \A h \in Encoders : encoder'[h] = FreshEncoder
    BY <2>1, <2>2
  <2> HIDE DEF FreshEncoder
  <2>4. JpegTypes'  BY <1>1, <1>4, <2>1, <2>3, Bounds DEF JpegTypes
  <2>5. EncodersFree'
    <3>1. InSession' = {}  BY <2>1 DEF InSession
    <3>2. ToSet(session_handle_q') = {} /\ \A h : OneOf(session_handle_q', h)
      BY <2>1 DEF ToSet, OneOf
    <3> QED  BY <1>1, <1>7, <2>2, <2>3, <3>1, <3>2 DEF EncodersFree
  <2>6. JobsApart'
    BY <1>1, <1>3, <1>9, <2>2, <2>3 DEF JobsApart
  <2>7. AbortFits'  BY <1>3, <1>4, <2>1, <2>2, <2>3 DEF AbortFits
  <2>8. InputsHeld'  BY <1>1, <1>3, <1>8, <2>2, <2>3 DEF InputsHeld
  <2>9. ControlFits'
    <3>1. UNCHANGED <<ctrl, pp_pc, is_active, new_session, pp_cmds, aborted>>
      BY DEF ppVars, ppQueues
    <3>2. UNCHANGED <<ToSet(pp_cmds), OneOf(pp_cmds, "START"), OneOf(pp_cmds, "STOP")>>
      BY <3>1 DEF ToSet, OneOf
    <3> QED  BY <1>1, <1>4, <1>10, <2>1, <3>1, <3>2 DEF ControlFits
  <2> QED  BY <1>2, <2>4, <2>5, <2>6, <2>7, <2>8, <2>9 DEF PictureInv
<1>11. CASE call.op # "destroy"
  <2>1. UNCHANGED <<num_omx_sessions, session_handle_q, encoder>>
    BY <1>11 DEF AbortReturns
  <2>2. JpegTypes'  BY <1>1, <1>4, <2>1 DEF JpegTypes
  <2>3. EncodersFree'
    BY <1>1, <1>4, <1>7, <2>1 DEF EncodersFree, InSession, OneOf, ToSet
  <2>4. JobsApart'  BY <1>1, <2>1 DEF JobsApart
  <2>5. AbortFits'  BY <1>1, <1>4, <1>5, <1>6, <2>1 DEF AbortFits
  <2>6. InputsHeld'  BY <1>1, <1>6, <1>8, <2>1 DEF InputsHeld
  <2>7. ControlFits'
    <3>1. UNCHANGED <<ctrl, pp_pc, is_active, new_session, pp_cmds, aborted>>
      BY DEF ppVars, ppQueues
    <3>2. UNCHANGED <<ToSet(pp_cmds), OneOf(pp_cmds, "START"), OneOf(pp_cmds, "STOP")>>
      BY <3>1 DEF ToSet, OneOf
    <3> QED  BY <1>1, <1>4, <1>11, <2>1, <3>1, <3>2 DEF ControlFits, Aborting
  <2> QED  BY <1>2, <2>2, <2>3, <2>4, <2>5, <2>6, <2>7 DEF PictureInv
<1> QED  BY <1>10, <1>11

\* Every step of the JPEG interface's threads.
LEMMA JpegThreadsStep ==
    ASSUME PictureInv, JpegThreads
    PROVE  PictureInv'
<1>1. UNCHANGED ppVars  BY DEF JpegThreads
<1>2. CASE MgrStep  BY <1>1, <1>2, MgrWakesStep, MgrTakesStep, MgrFillsStep DEF MgrStep
<1>3. CASE AbortStep
  BY <1>1, <1>3, AbortEncoderStep, AbortWakesStep, AbortReturnsStep DEF AbortStep
<1>4. CASE \E h \in Encoders : FillBufferDone(h) \/ ErrorEvent(h) \/ IdleEvent(h)
  BY <1>1, <1>4, FillBufferDoneStep, ErrorEventStep, IdleEventStep
<1> QED  BY <1>2, <1>3, <1>4 DEF JpegThreads, JpegStep

-----------------------------------------------------------------------------
(* The steps of the postprocessor.                                         *)

\* Steps of the postprocessor leave the JPEG interface's part of the invariant alone if
\* they leave the interface alone, ...
LEMMA JpegKept ==
    ASSUME PictureInv, UNCHANGED jpegVars, UNCHANGED capture
    PROVE  JpegTypes' /\ EncodersFree' /\ JobsApart' /\ AbortFits'
<1>1. UNCHANGED <<fault, num_omx_sessions, encoder, session_handle_q, job_hist, job_queue,
                  job_sem, ongoing_job_q, mgr, mgr_on, call, jpeg_evts>>
  BY DEF jpegVars
<1>2. JpegTypes'  BY <1>1 DEF PictureInv, JpegTypes
<1>3. EncodersFree'
  BY <1>1 DEF PictureInv, EncodersFree, InSession, Aborting, OneOf, ToSet
<1>4. JobsApart'  BY <1>1 DEF PictureInv, JobsApart, OneOf, ToSet
<1>5. AbortFits'  BY <1>1 DEF PictureInv, AbortFits, Aborting, InSession
<1> QED  BY <1>2, <1>3, <1>4, <1>5

\* ... and that of the inputs if the ongoing jobs are of the same frames.
LEMMA InputsKept ==
    ASSUME PictureInv, UNCHANGED <<capture, encoder, job_queue, call, aborted, jobs>>,
           FramesOf(ongoingJpegQ)' = FramesOf(ongoingJpegQ)
    PROVE  InputsHeld'
<1>1. UNCHANGED <<FramesOf(aborted), ToSet(aborted), ToSet(job_queue)>>  BY DEF FramesOf, ToSet
<1> QED  BY <1>1 DEF PictureInv, InputsHeld

\* What changes commands and control only, and fits them, keeps the invariant.
LEMMA ControlMoves ==
    ASSUME PictureInv, ControlFits', pp_cmds' \in Seq(PpCommands), is_active' \in BOOLEAN,
           UNCHANGED <<jpegVars, capture, pics, out, left, new_session, ppQueues,
                       aborted, reprocessing, given, jobs>>,
           (pp_pc' = "remembers") <=> (pp_pc = "remembers")
    PROVE  PictureInv'
<1>1. JpegTypes' /\ EncodersFree' /\ JobsApart' /\ AbortFits'  BY JpegKept
<1>2. UNCHANGED <<encoder, job_queue, call, job_hist>>  BY DEF jpegVars
<1>3. InputsHeld'  BY <1>2, InputsKept DEF ppQueues, FramesOf
<1>4. FramesApart' /\ BuffersOwned' /\ JobsKnown'  BY <1>2, QueuesKept
<1>5. PpTypes'  BY DEF PictureInv, PpTypes, ppQueues
<1> QED  BY <1>1, <1>3, <1>4, <1>5 DEF PictureInv

\* Sending NEXT commands is no matter of control.
LEMMA NextsSent ==
    ASSUME PictureInv, NEW cmds \in Seq({"NEXT"}), SendCmd(cmds),
           UNCHANGED <<ctrl, pp_pc, is_active, new_session, num_omx_sessions, call, aborted>>
    PROVE  ControlFits' /\ pp_cmds' \in Seq(PpCommands)
<1>1. /\ pp_cmds \in Seq(PpCommands) /\ cmds \in Seq(PpCommands)
      /\ OneOf(pp_cmds, "START") /\ OneOf(pp_cmds, "STOP")
  BY DEF PictureInv, PpTypes, ControlFits, PpCommands
<1>2. ToSet(cmds) \subseteq {"NEXT"}  BY DEF ToSet
<1>3. OneOf(cmds, "START") /\ OneOf(cmds, "STOP")  BY DEF OneOf
<1>4. /\ pp_cmds' \in Seq(PpCommands) /\ ToSet(pp_cmds') = ToSet(pp_cmds) \cup ToSet(cmds)
      /\ OneOf(pp_cmds', "START") /\ OneOf(pp_cmds', "STOP")
  BY <1>1, <1>2, <1>3, JoinedQueues DEF SendCmd
<1> QED  BY <1>2, <1>4 DEF PictureInv, ControlFits

\* A command that is sent first.
LEMMA FirstSent ==
    ASSUME PictureInv, NEW cmd \in PpCommands, pp_cmds' = <<cmd>> \o pp_cmds,
           cmd \notin ToSet(pp_cmds)
    PROVE  /\ pp_cmds' \in Seq(PpCommands) /\ ToSet(pp_cmds') = ToSet(pp_cmds) \cup {cmd}
           /\ OneOf(pp_cmds', "START") /\ OneOf(pp_cmds', "STOP")
BY OnePrepended DEF PictureInv, PpTypes, ControlFits

\* A command that is taken.
LEMMA PpCommandTaken ==
    ASSUME PictureInv, NEW cmd, Takes(cmd)
    PROVE  /\ pp_cmds' \in Seq(PpCommands) /\ ToSet(pp_cmds') \subseteq ToSet(pp_cmds)
           /\ cmd \in ToSet(pp_cmds) /\ (OneOf(pp_cmds, cmd) => cmd \notin ToSet(pp_cmds'))
           /\ OneOf(pp_cmds', "START") /\ OneOf(pp_cmds', "STOP")
           /\ pp_pc = "waits" /\ call.op = "none" /\ aborted = << >>
<1>1. /\ pp_cmds \in Seq(PpCommands) /\ OneOf(pp_cmds, "START") /\ OneOf(pp_cmds, "STOP")
      /\ pp_cmds # << >> /\ Head(pp_cmds) = cmd /\ pp_cmds' = Tail(pp_cmds)
  BY DEF PictureInv, PpTypes, ControlFits, Takes
<1>2. /\ Tail(pp_cmds) \in Seq(PpCommands)
      /\ ToSet(pp_cmds) = ToSet(Tail(pp_cmds)) \cup {Head(pp_cmds)}
      /\ \A x : OneOf(pp_cmds, x) => OneOf(Tail(pp_cmds), x)
      /\ OneOf(pp_cmds, Head(pp_cmds)) => Head(pp_cmds) \notin ToSet(Tail(pp_cmds))
  BY <1>1, OneTaken
<1>3. pp_pc = "waits" /\ call.op = "none" /\ aborted = << >>
  BY DEF PictureInv, ControlFits, Takes
<1> QED  BY <1>1, <1>2, <1>3

\* start().
LEMMA StartPostProcStep ==
    ASSUME PictureInv, StartPostProc
    PROVE  PictureInv'
<1>1. /\ ctrl = "stopped" /\ ctrl' = "starting" /\ pp_cmds' = pp_cmds \o <<"START">>
      /\ UNCHANGED <<jpegVars, capture, source, pics, out, left, pp_pc, is_active,
                     new_session, ppQueues, aborted, reprocessing, given, jobs>>
      /\ UNCHANGED <<num_omx_sessions, call>>
  BY DEF StartPostProc, SendCmd, history, jpegVars
<1>2. /\ pp_cmds \in Seq(PpCommands) /\ <<"START">> \in Seq(PpCommands)
      /\ OneOf(pp_cmds, "START") /\ OneOf(pp_cmds, "STOP")
      /\ "START" \notin ToSet(pp_cmds)
  BY <1>1 DEF PictureInv, PpTypes, ControlFits, PpCommands
<1>3. /\ ToSet(<<"START">>) = {"START"}
      /\ OneOf(<<"START">>, "START") /\ OneOf(<<"START">>, "STOP")
  BY DEF ToSet, OneOf
<1> DEFINE cmds == <<"START">>
<1>4. /\ pp_cmds' = pp_cmds \o cmds /\ cmds \in Seq(PpCommands) /\ ToSet(cmds) = {"START"}
      /\ OneOf(cmds, "START") /\ OneOf(cmds, "STOP")
  BY <1>1, <1>2, <1>3
<1> HIDE DEF cmds
<1>5. /\ pp_cmds' \in Seq(PpCommands) /\ ToSet(pp_cmds') = ToSet(pp_cmds) \cup {"START"}
      /\ OneOf(pp_cmds', "START") /\ OneOf(pp_cmds', "STOP")
  BY <1>2, <1>4, JoinedQueues
<1>6. ControlFits'  BY <1>1, <1>5 DEF PictureInv, ControlFits
<1>7. is_active' \in BOOLEAN  BY <1>1 DEF PictureInv, PpTypes
<1> QED  BY <1>1, <1>5, <1>6, <1>7, ControlMoves

\* stop().
LEMMA StopPostProcStep ==
    ASSUME PictureInv, StopPostProc
    PROVE  PictureInv'
<1>1. /\ ctrl = "started" /\ ctrl' = "stopping" /\ pp_cmds' = <<"STOP">> \o pp_cmds
      /\ UNCHANGED <<jpegVars, capture, source, pics, out, left, pp_pc, is_active,
                     new_session, ppQueues, aborted, reprocessing, given, jobs>>
      /\ UNCHANGED <<num_omx_sessions, call>>
  BY DEF StopPostProc, SendFirst, history, jpegVars
<1>2. "STOP" \in PpCommands /\ "STOP" \notin ToSet(pp_cmds)
  BY <1>1 DEF PictureInv, ControlFits, PpCommands
<1>3. /\ pp_cmds' \in Seq(PpCommands) /\ ToSet(pp_cmds') = ToSet(pp_cmds) \cup {"STOP"}
      /\ OneOf(pp_cmds', "START") /\ OneOf(pp_cmds', "STOP")
  BY <1>1, <1>2, FirstSent
<1>4. ControlFits'  BY <1>1, <1>3 DEF PictureInv, ControlFits
<1>5. is_active' \in BOOLEAN  BY <1>1 DEF PictureInv, PpTypes
<1> QED  BY <1>1, <1>3, <1>4, <1>5, ControlMoves

\* The source channel stops.
LEMMA SourceStopsStep ==
    ASSUME PictureInv, SourceStops
    PROVE  PictureInv'
<1>1. /\ UNCHANGED <<jpegVars, capture, pics, out, left, pp_pc, is_active, ctrl, pp_cmds,
                     new_session, ppQueues, aborted, reprocessing, given, jobs>>
      /\ UNCHANGED <<num_omx_sessions, call>>
  BY DEF SourceStops, history, jpegVars
<1>2. ControlFits'  BY <1>1 DEF PictureInv, ControlFits, OneOf, ToSet
<1>3. is_active' \in BOOLEAN /\ pp_cmds' \in Seq(PpCommands)  BY <1>1 DEF PictureInv, PpTypes
<1> QED  BY <1>1, <1>2, <1>3, ControlMoves

\* STOP_DATA_PROC is taken.
LEMMA TakeStopStep ==
    ASSUME PictureInv, TakeStop
    PROVE  PictureInv'
<1>1. /\ Takes("STOP") /\ is_active' = FALSE /\ pp_pc' = "aborts"
      /\ UNCHANGED <<jpegVars, capture, pics, out, left, ctrl,
                     new_session, ppQueues, aborted, reprocessing, given, jobs>>
      /\ UNCHANGED <<num_omx_sessions, call>>
  BY DEF TakeStop, history, jpegVars
<1>2. /\ pp_cmds' \in Seq(PpCommands) /\ ToSet(pp_cmds') \subseteq ToSet(pp_cmds)
      /\ "STOP" \in ToSet(pp_cmds) /\ "STOP" \notin ToSet(pp_cmds')
      /\ OneOf(pp_cmds', "START") /\ OneOf(pp_cmds', "STOP")
      /\ pp_pc = "waits" /\ call.op = "none" /\ aborted = << >>
  BY <1>1, PpCommandTaken DEF PictureInv, ControlFits
<1>3. ControlFits'  BY <1>1, <1>2 DEF PictureInv, ControlFits
<1> QED  BY <1>1, <1>2, <1>3, ControlMoves

\* The data thread takes its exit.
LEMMA TakeExitStep ==
    ASSUME PictureInv, TakeExit
    PROVE  PictureInv'
<1>1. /\ Takes("EXIT") /\ pp_pc' = "exited"
      /\ UNCHANGED <<jpegVars, capture, pics, out, left, ctrl, is_active,
                     new_session, ppQueues, aborted, reprocessing, given, jobs>>
      /\ UNCHANGED <<num_omx_sessions, call>>
  BY DEF TakeExit, history, jpegVars
<1>2. /\ pp_cmds' \in Seq(PpCommands) /\ ToSet(pp_cmds') \subseteq ToSet(pp_cmds)
      /\ "EXIT" \in ToSet(pp_cmds)
      /\ OneOf(pp_cmds', "START") /\ OneOf(pp_cmds', "STOP")
      /\ pp_pc = "waits" /\ call.op = "none" /\ aborted = << >>
  BY <1>1, PpCommandTaken
<1>3. ControlFits'  BY <1>1, <1>2 DEF PictureInv, ControlFits
<1>4. is_active' \in BOOLEAN  BY <1>1 DEF PictureInv, PpTypes
<1> QED  BY <1>1, <1>2, <1>3, <1>4, ControlMoves

\* The last stop and deinit().
LEMMA CloseStep ==
    ASSUME PictureInv, Close
    PROVE  PictureInv'
<1>1. /\ UNCHANGED <<capture, pics, out, left, pp_pc, is_active,
                     new_session, ppQueues, aborted, reprocessing, given, jobs>>
      /\ is_active' \in BOOLEAN
  BY DEF Close, history, PictureInv, PpTypes
<1>2. CASE /\ ctrl = "stopped" /\ ctrl' = "closing" /\ SendFirst("STOP")
           /\ UNCHANGED jpegVars
  <2>1. "STOP" \in PpCommands /\ "STOP" \notin ToSet(pp_cmds)
    BY <1>2 DEF PictureInv, ControlFits, PpCommands
  <2>2. /\ pp_cmds' \in Seq(PpCommands) /\ ToSet(pp_cmds') = ToSet(pp_cmds) \cup {"STOP"}
        /\ OneOf(pp_cmds', "START") /\ OneOf(pp_cmds', "STOP")
    BY <1>2, <2>1, FirstSent DEF SendFirst
  <2>3. UNCHANGED <<num_omx_sessions, call>>  BY <1>2 DEF jpegVars
  <2>4. ControlFits'  BY <1>1, <1>2, <2>2, <2>3 DEF PictureInv, ControlFits
  <2> QED  BY <1>1, <1>2, <2>2, <2>4, ControlMoves
<1>3. CASE /\ ctrl = "exiting" /\ pp_pc = "exited" /\ ctrl' = "releasing"
           /\ ReleaseThread /\ UNCHANGED pp_cmds
  <2>1. /\ JpegTypes /\ EncodersFree /\ JobsApart /\ AbortFits /\ InputsHeld
        /\ UNCHANGED <<fault, num_omx_sessions, encoder, session_handle_q, job_hist,
                       ongoing_job_q, mgr, mgr_on, call, jpeg_evts>>
        /\ job_queue' = Append(job_queue, EXIT)
    BY <1>3 DEF PictureInv, ReleaseThread, sessionVars, mgrVars
  <2>2. /\ job_queue' \in Seq({EXIT} \cup JobIds)
        /\ ToSet(job_queue') = ToSet(job_queue) \cup {EXIT}
        /\ \A j \in JobIds : OneOf(job_queue', j)
    <3>1. job_queue \in Seq({EXIT} \cup JobIds) /\ \A j \in JobIds : OneOf(job_queue, j)
      BY <2>1 DEF JpegTypes, JobsApart
    <3>2. \A j \in JobIds : j # EXIT  BY Bounds DEF JobIds, EXIT
    <3> QED  BY <2>1, <3>1, <3>2, AppendFacts, OneAppended
  <2>3. JpegTypes'  BY <2>1, <2>2 DEF JpegTypes
  <2>4. EncodersFree'  BY <2>1 DEF EncodersFree, InSession, Aborting, OneOf, ToSet
  <2>5. JobsApart'
    <3>1. job_hist \in Nat /\ \A j \in 1..job_hist : j # EXIT  BY <2>1, FirstEncoder DEF EXIT
    <3>2. UNCHANGED ToSet(jpeg_evts)  BY <2>1 DEF ToSet
    <3>3. EXIT <= job_hist  BY <3>1 DEF EXIT
    <3> QED  BY <1>1, <2>1, <2>2, <3>1, <3>2, <3>3 DEF JobsApart
  <2>6. AbortFits'  BY <1>1, <2>1 DEF AbortFits, InSession, Aborting
  <2>7. InputsHeld'
    <3>1. UNCHANGED <<FramesOf(ongoingJpegQ), FramesOf(aborted), ToSet(aborted)>>
      BY <1>1 DEF FramesOf, ToSet, ppQueues
    <3>2. \A job \in ToSet(aborted) : job.id # EXIT
      <4>1. job_hist \in Nat  BY <2>1, FirstEncoder
      <4> QED  BY <4>1 DEF PictureInv, JobsKnown, EXIT
    <3> QED  BY <1>1, <2>1, <2>2, <3>1, <3>2 DEF InputsHeld
  <2>8. FramesApart' /\ BuffersOwned' /\ JobsKnown'  BY <1>1, <2>1, QueuesKept
  <2>9. PpTypes'  BY <1>1, <1>3 DEF PictureInv, PpTypes, ppQueues
  <2>10. ControlFits'  BY <1>1, <1>3, <2>1 DEF PictureInv, ControlFits, OneOf, ToSet
  <2> QED  BY <2>3, <2>4, <2>5, <2>6, <2>7, <2>8, <2>9, <2>10 DEF PictureInv
<1>4. CASE /\ ctrl = "releasing" /\ mgr = "exited" /\ ctrl' = "closed"
           /\ UNCHANGED <<jpegVars, pp_cmds>>
  <2>1. UNCHANGED <<num_omx_sessions, call>>  BY <1>4 DEF jpegVars
  <2>2. ControlFits'  BY <1>1, <1>4, <2>1 DEF PictureInv, ControlFits, OneOf, ToSet
  <2>3. pp_cmds' \in Seq(PpCommands)  BY <1>4 DEF PictureInv, PpTypes
  <2> QED  BY <1>1, <1>4, <2>2, <2>3, ControlMoves
<1> QED  BY <1>2, <1>3, <1>4 DEF Close

\* The data thread goes on to its next place, on no command.
LEMMA ThreadGoesOn ==
    ASSUME PictureInv, pp_pc \in {"remembers", "gives", "reprocesses"},
           pp_pc' \in {"gives", "reprocesses", "waits"},
           UNCHANGED <<jpegVars, ctrl, is_active, new_session, pp_cmds, aborted>>
    PROVE  ControlFits'
BY DEF PictureInv, ControlFits, jpegVars, ToSet, OneOf

\* No two queues have a buffer in common.
LEMMA BufsApart ==
    ASSUME PictureInv
    PROVE  /\ BufsIn(inputPPQ) \cap BufsIn(ongoingPPQ) = {}
           /\ (BufsIn(inputPPQ) \cup BufsIn(ongoingPPQ)) \cap BufsIn(inputJpegQ) = {}
           /\ (BufsIn(inputPPQ) \cup BufsIn(ongoingPPQ) \cup BufsIn(inputJpegQ))
                  \cap BufsIn(inputRawQ) = {}
           /\ (BufsIn(inputPPQ) \cup BufsIn(ongoingPPQ) \cup BufsIn(inputJpegQ)
                  \cup BufsIn(inputRawQ)) \cap BufsIn(ongoingJpegQ) = {}
           /\ (BufsIn(inputPPQ) \cup BufsIn(ongoingPPQ) \cup BufsIn(inputJpegQ)
                  \cup BufsIn(inputRawQ) \cup BufsIn(ongoingJpegQ)) \cap BufsIn(aborted) = {}
<1>1. /\ \A b \in BufsIn(inputPPQ) : b[2] \in FramesOf(inputPPQ)
      /\ \A b \in BufsIn(ongoingPPQ) : b[2] \in FramesOf(ongoingPPQ)
      /\ \A b \in BufsIn(inputJpegQ) : b[2] \in FramesOf(inputJpegQ)
      /\ \A b \in BufsIn(ongoingJpegQ) : b[2] \in FramesOf(ongoingJpegQ)
      /\ \A b \in BufsIn(inputRawQ) : b[2] \in FramesOf(inputRawQ)
      /\ \A b \in BufsIn(aborted) : b[2] \in FramesOf(aborted)
  BY BufsOfFrames DEF PictureInv, FramesApart
<1> QED  BY <1>1 DEF PictureInv, FramesApart, Unstarted

\* Whatever leaves the queues is returned, and nothing else is.
LEMMA BuffersLeave ==
    ASSUME PictureInv, NEW gone, gone \cap (left \cup given) = {}, out' = out \ gone,
           /\ BufsIn(inputPPQ)' = BufsIn(inputPPQ) \ gone
           /\ BufsIn(ongoingPPQ)' = BufsIn(ongoingPPQ) \ gone
           /\ BufsIn(inputJpegQ)' = BufsIn(inputJpegQ) \ gone
           /\ BufsIn(ongoingJpegQ)' = BufsIn(ongoingJpegQ) \ gone
           /\ BufsIn(inputRawQ)' = BufsIn(inputRawQ) \ gone
           /\ BufsIn(aborted)' = BufsIn(aborted) \ gone,
           UNCHANGED <<left, given>>
    PROVE  BuffersOwned'
BY DEF PictureInv, BuffersOwned

\* The application is done with a raw frame.
LEMMA RawGivenStep ==
    ASSUME PictureInv, NEW b \in given, RawGiven(b)
    PROVE  PictureInv'
<1>1. /\ given' = given \ {b} /\ out' = out \ {b}
      /\ UNCHANGED <<inputPPQ, ongoingPPQ, inputJpegQ, ongoingJpegQ, inputRawQ, aborted>>
      /\ UNCHANGED <<capture, ctrl, pics, left, pp_cmds, pp_pc, is_active, new_session,
                     reprocessing, jobs>>
      /\ UNCHANGED jpegVars /\ UNCHANGED ppQueues
      /\ UNCHANGED <<encoder, job_queue, call, job_hist, num_omx_sessions>>
  BY DEF RawGiven, ppQueues, history, jpegVars
<1>2. JpegTypes' /\ EncodersFree' /\ JobsApart' /\ AbortFits'  BY <1>1, JpegKept
<1>3. InputsHeld'  BY <1>1, InputsKept DEF FramesOf
<1>4. FramesApart' /\ UNCHANGED Unstarted  BY <1>1, FramesKept
<1>5. BuffersOwned'  BY <1>1 DEF PictureInv, BuffersOwned, BufsIn
<1>6. JobsKnown'  BY <1>1, <1>4 DEF PictureInv, JobsKnown, ToSet
<1>7. PpTypes'  BY <1>1 DEF PictureInv, PpTypes
<1>8. ControlFits'  BY <1>1 DEF PictureInv, ControlFits, OneOf, ToSet
<1> QED  BY <1>2, <1>3, <1>4, <1>5, <1>6, <1>7, <1>8 DEF PictureInv

\* A thread that is not active gives jobs back.
LEMMA TakeNextInactiveStep ==
    ASSUME PictureInv, TakeNextInactive
    PROVE  PictureInv'
<1>1. /\ Takes("NEXT")
      /\ out' = out \ (BufsOfHead(inputJpegQ) \cup BufsOfHead(inputRawQ)
                          \cup BufsOfHead(inputPPQ))
      /\ inputJpegQ' = TailOf(inputJpegQ) /\ inputRawQ' = TailOf(inputRawQ)
      /\ inputPPQ' = TailOf(inputPPQ)
      /\ UNCHANGED <<capture, ctrl, pics, pp_pc, is_active, new_session, ongoingPPQ,
                     ongoingJpegQ, aborted, reprocessing, left, given, jobs>>
      /\ UNCHANGED jpegVars
      /\ UNCHANGED <<encoder, job_queue, call, job_hist, num_omx_sessions>>
  BY DEF TakeNextInactive, history, jpegVars
<1>2. /\ PpTypes /\ FramesApart /\ JobsKnown
      /\ inputPPQ \in Seq(PpJob) /\ inputJpegQ \in Seq(PpJob) /\ inputRawQ \in Seq(PpJob)
      /\ SoundJobs(inputPPQ) /\ SoundJobs(inputJpegQ) /\ SoundJobs(inputRawQ)
  BY DEF PictureInv, PpTypes, FramesApart
<1>3. /\ inputPPQ' \in Seq(PpJob) /\ SoundJobs(inputPPQ')
      /\ ToSet(inputPPQ') \subseteq ToSet(inputPPQ)
      /\ FramesOf(inputPPQ') \subseteq FramesOf(inputPPQ)
      /\ BufsOfHead(inputPPQ) \subseteq BufsIn(inputPPQ)
      /\ BufsIn(inputPPQ') = BufsIn(inputPPQ) \ BufsOfHead(inputPPQ)
  BY <1>1, <1>2, JobTakenIfAny
<1>4. /\ inputJpegQ' \in Seq(PpJob) /\ SoundJobs(inputJpegQ')
      /\ ToSet(inputJpegQ') \subseteq ToSet(inputJpegQ)
      /\ FramesOf(inputJpegQ') \subseteq FramesOf(inputJpegQ)
      /\ BufsOfHead(inputJpegQ) \subseteq BufsIn(inputJpegQ)
      /\ BufsIn(inputJpegQ') = BufsIn(inputJpegQ) \ BufsOfHead(inputJpegQ)
  BY <1>1, <1>2, JobTakenIfAny
<1>5. /\ inputRawQ' \in Seq(PpJob) /\ SoundJobs(inputRawQ')
      /\ ToSet(inputRawQ') \subseteq ToSet(inputRawQ)
      /\ FramesOf(inputRawQ') \subseteq FramesOf(inputRawQ)
      /\ BufsOfHead(inputRawQ) \subseteq BufsIn(inputRawQ)
      /\ BufsIn(inputRawQ') = BufsIn(inputRawQ) \ BufsOfHead(inputRawQ)
  BY <1>1, <1>2, JobTakenIfAny
<1>6. /\ UNCHANGED <<FramesOf(ongoingPPQ), FramesOf(ongoingJpegQ), FramesOf(aborted)>>
      /\ UNCHANGED <<BufsIn(ongoingPPQ), BufsIn(ongoingJpegQ), BufsIn(aborted)>>
      /\ UNCHANGED <<ToSet(ongoingPPQ), ToSet(ongoingJpegQ), ToSet(aborted), ToSet(jobs)>>
      /\ SoundJobs(ongoingPPQ)' /\ SoundJobs(ongoingJpegQ)' /\ SoundJobs(aborted)'
  BY <1>1, <1>2 DEF FramesOf, BufsIn, ToSet, FramesApart
<1>7. JpegTypes' /\ EncodersFree' /\ JobsApart' /\ AbortFits'  BY <1>1, JpegKept
<1>8. InputsHeld'  BY <1>1, <1>6, InputsKept
<1>9. FramesApart'
  <2>1. out' \subseteq out  BY <1>1
  <2> QED  BY <1>1, <1>2, <1>3, <1>4, <1>5, <1>6, <2>1 DEF FramesApart, Unstarted
<1>10. BuffersOwned'
  <2> DEFINE gone == BufsOfHead(inputJpegQ) \cup BufsOfHead(inputRawQ)
                         \cup BufsOfHead(inputPPQ)
  <2>1. gone \cap (left \cup given) = {}
    BY <1>3, <1>4, <1>5 DEF PictureInv, BuffersOwned
  <2>2. /\ BufsIn(inputPPQ)' = BufsIn(inputPPQ) \ gone
        /\ BufsIn(ongoingPPQ)' = BufsIn(ongoingPPQ) \ gone
        /\ BufsIn(inputJpegQ)' = BufsIn(inputJpegQ) \ gone
        /\ BufsIn(ongoingJpegQ)' = BufsIn(ongoingJpegQ) \ gone
        /\ BufsIn(inputRawQ)' = BufsIn(inputRawQ) \ gone
        /\ BufsIn(aborted)' = BufsIn(aborted) \ gone
    BY <1>3, <1>4, <1>5, <1>6, BufsApart
  <2> HIDE DEF gone
  <2>3. out' = out \ gone  BY <1>1 DEF gone
  <2> QED  BY <1>1, <2>1, <2>2, <2>3, BuffersLeave
<1>11. JobsKnown'
  BY <1>1, <1>2, <1>3, <1>4, <1>5, <1>6 DEF JobsKnown, Unstarted
<1>12. PpTypes' /\ ControlFits'
  <2>1. /\ pp_cmds' \in Seq(PpCommands) /\ ToSet(pp_cmds') \subseteq ToSet(pp_cmds)
        /\ OneOf(pp_cmds', "START") /\ OneOf(pp_cmds', "STOP")
    BY <1>1, PpCommandTaken
  <2> QED  BY <1>1, <1>2, <1>3, <1>4, <1>5, <2>1 DEF PictureInv, PpTypes, ControlFits
<1> QED  BY <1>7, <1>8, <1>9, <1>10, <1>11, <1>12 DEF PictureInv

\* The id of a JPEG job is noted.
LEMMA RememberJobIdStep ==
    ASSUME PictureInv, RememberJobId
    PROVE  PictureInv'
<1> DEFINE noted(job) == IF job.frame = Last(jobs) THEN [job EXCEPT !.id = job_hist] ELSE job
<1>1. /\ pp_pc = "remembers" /\ pp_pc' = "gives"
      /\ ongoingJpegQ' = [i \in DOMAIN ongoingJpegQ |-> noted(ongoingJpegQ[i])]
      /\ UNCHANGED <<inputPPQ, ongoingPPQ, inputJpegQ, inputRawQ, aborted>>
      /\ UNCHANGED <<capture, ctrl, pics, out, left, given, is_active, new_session, pp_cmds,
                     reprocessing, jobs>>
      /\ UNCHANGED jpegVars
      /\ UNCHANGED <<encoder, job_queue, call, job_hist, num_omx_sessions>>
  BY DEF RememberJobId, history, jpegVars
<1>2. /\ PpTypes /\ FramesApart /\ JobsKnown /\ ongoingJpegQ \in Seq(PpJob)
      /\ job_hist \in JobIds /\ job_hist \in 1..job_hist /\ job_hist \in Nat
  <2>1. job_hist \in Nat /\ 1..job_hist \subseteq JobIds  BY FirstEncoder DEF PictureInv
  <2>2. job_hist # 0  BY <1>1 DEF PictureInv, JobsKnown
  <2>3. job_hist \in 1..job_hist  BY <2>1, <2>2
  <2> QED  BY <2>1, <2>3 DEF PictureInv, PpTypes
<1>3. Last(jobs) = jobs[job_hist]  BY <1>2 DEF Last, JobsKnown
<1>4. \A job \in PpJob : /\ noted(job) \in PpJob /\ noted(job).frame = job.frame
                         /\ noted(job).bufs = job.bufs
                         /\ noted(job).id = IF job.frame = jobs[job_hist] THEN job_hist
                                                                         ELSE job.id
  BY <1>2, <1>3 DEF PpJob
<1> HIDE DEF noted
<1>5. /\ ongoingJpegQ' \in Seq(PpJob) /\ DOMAIN ongoingJpegQ' = DOMAIN ongoingJpegQ
      /\ \A i \in DOMAIN ongoingJpegQ :
             /\ ongoingJpegQ[i] \in PpJob /\ ongoingJpegQ'[i] = noted(ongoingJpegQ[i])
             /\ ongoingJpegQ'[i].frame = ongoingJpegQ[i].frame
             /\ ongoingJpegQ'[i].bufs = ongoingJpegQ[i].bufs
             /\ ongoingJpegQ'[i].id = IF ongoingJpegQ[i].frame = jobs[job_hist]
                                      THEN job_hist ELSE ongoingJpegQ[i].id
  <2>1. DOMAIN ongoingJpegQ = 1..Len(ongoingJpegQ) /\ Len(ongoingJpegQ) \in Nat
        /\ \A i \in DOMAIN ongoingJpegQ : ongoingJpegQ[i] \in PpJob
    BY <1>2
  <2> QED  BY <1>1, <1>4, <2>1
<1>6. /\ FramesOf(ongoingJpegQ)' = FramesOf(ongoingJpegQ)
      /\ BufsIn(ongoingJpegQ)' = BufsIn(ongoingJpegQ) /\ SoundJobs(ongoingJpegQ)'
  <2>1. SoundJobs(ongoingJpegQ)  BY <1>2 DEF FramesApart
  <2>2. SoundJobs(ongoingJpegQ)'  BY <1>5, <2>1 DEF SoundJobs
  <2>3. FramesOf(ongoingJpegQ)' = FramesOf(ongoingJpegQ)  BY <1>5 DEF FramesOf
  <2>4. BufsIn(ongoingJpegQ)' = BufsIn(ongoingJpegQ)
    <3>1. {ongoingJpegQ[i].bufs : i \in DOMAIN ongoingJpegQ}'
              = {ongoingJpegQ[i].bufs : i \in DOMAIN ongoingJpegQ}
      BY <1>5
    <3> QED  BY <3>1 DEF BufsIn
  <2> QED  BY <2>2, <2>3, <2>4
<1>7. JpegTypes' /\ EncodersFree' /\ JobsApart' /\ AbortFits'  BY <1>1, JpegKept
<1>8. InputsHeld'  BY <1>1, <1>6, InputsKept
<1>9. UNCHANGED Unstarted  BY <1>1 DEF Unstarted, FramesOf
<1>10. FramesApart'
  <2>1. /\ UNCHANGED <<FramesOf(inputPPQ), FramesOf(ongoingPPQ), FramesOf(inputJpegQ)>>
        /\ UNCHANGED <<FramesOf(inputRawQ), FramesOf(aborted)>>
        /\ SoundJobs(inputPPQ)' /\ SoundJobs(ongoingPPQ)' /\ SoundJobs(inputJpegQ)'
        /\ SoundJobs(inputRawQ)' /\ SoundJobs(aborted)'
    BY <1>1, <1>2 DEF FramesApart
  <2> QED  BY <1>1, <1>2, <1>6, <1>9, <2>1 DEF FramesApart
<1>11. BuffersOwned'
  <2>1. /\ UNCHANGED <<BufsIn(inputPPQ), BufsIn(ongoingPPQ), BufsIn(inputJpegQ)>>
        /\ UNCHANGED <<BufsIn(inputRawQ), BufsIn(aborted)>>
    BY <1>1
  <2> QED  BY <1>1, <1>6, <2>1 DEF PictureInv, BuffersOwned
<1>12. JobsKnown'
  <2>1. \A job \in ToSet(ongoingJpegQ') :
            job.id \in 1..job_hist /\ job.frame = jobs[job.id] /\ job.bufs # {}
    <3> SUFFICES ASSUME NEW i \in DOMAIN ongoingJpegQ
                 PROVE  /\ ongoingJpegQ'[i].id \in 1..job_hist /\ ongoingJpegQ'[i].bufs # {}
                        /\ ongoingJpegQ'[i].frame = jobs[ongoingJpegQ'[i].id]
      BY <1>5 DEF ToSet
    <3>1. ongoingJpegQ[i] \in ToSet(ongoingJpegQ)  BY DEF ToSet
    <3>2. CASE ongoingJpegQ[i].frame = jobs[job_hist]
      BY <1>2, <1>5, <3>1, <3>2 DEF JobsKnown
    <3>3. CASE ongoingJpegQ[i].frame # jobs[job_hist]
      BY <1>2, <1>5, <3>1, <3>3 DEF JobsKnown
    <3> QED  BY <3>2, <3>3
  <2>2. /\ UNCHANGED <<ToSet(inputPPQ), ToSet(ongoingPPQ), ToSet(inputJpegQ)>>
        /\ UNCHANGED <<ToSet(aborted), ToSet(jobs)>>
    BY <1>1 DEF ToSet
  <2> QED  BY <1>1, <1>2, <1>9, <2>1, <2>2 DEF JobsKnown
<1>13. PpTypes'  BY <1>1, <1>2, <1>5 DEF PpTypes
<1>14. ControlFits'  BY <1>1, ThreadGoesOn
<1> QED  BY <1>7, <1>8, <1>10, <1>11, <1>12, <1>13, <1>14 DEF PictureInv

\* A raw frame is given out.
LEMMA GiveRawStep ==
    ASSUME PictureInv, GiveRaw
    PROVE  PictureInv'
<1>1. /\ pp_pc = "gives" /\ pp_pc' = "reprocesses" /\ inputRawQ' = TailOf(inputRawQ)
      /\ UNCHANGED <<inputPPQ, ongoingPPQ, inputJpegQ, ongoingJpegQ, aborted>>
      /\ UNCHANGED <<capture, ctrl, pics, is_active, new_session, pp_cmds,
                     reprocessing, jobs>>
      /\ UNCHANGED jpegVars
      /\ UNCHANGED <<encoder, job_queue, call, job_hist, num_omx_sessions>>
  BY DEF GiveRaw, jpegVars
<1>2. PpTypes /\ FramesApart /\ JobsKnown /\ inputRawQ \in Seq(PpJob) /\ SoundJobs(inputRawQ)
  BY DEF PictureInv, PpTypes, FramesApart
<1>3. /\ inputRawQ' \in Seq(PpJob) /\ SoundJobs(inputRawQ')
      /\ FramesOf(inputRawQ') \subseteq FramesOf(inputRawQ)
      /\ BufsOfHead(inputRawQ) \subseteq BufsIn(inputRawQ)
      /\ BufsIn(inputRawQ') = BufsIn(inputRawQ) \ BufsOfHead(inputRawQ)
  BY <1>1, <1>2, JobTakenIfAny
<1>4. \/ left' = left \cup BufsOfHead(inputRawQ) /\ UNCHANGED <<given, out>>
      \/ given' = given \cup BufsOfHead(inputRawQ) /\ UNCHANGED <<left, out>>
      \/ out' = out \ BufsOfHead(inputRawQ) /\ UNCHANGED <<given, left>>
  <2>1. CASE inputRawQ = << >>
    <3>1. UNCHANGED <<given, left, out>>  BY <2>1 DEF GiveRaw
    <3>2. BufsOfHead(inputRawQ) = {}  BY <2>1 DEF BufsOfHead
    <3> QED  BY <3>1, <3>2
  <2>2. CASE inputRawQ # << >>
    <3>1. BufsOfHead(inputRawQ) = Head(inputRawQ).bufs  BY <1>2, <2>2 DEF BufsOfHead
    <3> QED  BY <2>2, <3>1 DEF GiveRaw
  <2> QED  BY <2>1, <2>2
<1>5. /\ UNCHANGED <<FramesOf(inputPPQ), FramesOf(ongoingPPQ), FramesOf(inputJpegQ)>>
      /\ UNCHANGED <<FramesOf(ongoingJpegQ), FramesOf(aborted)>>
      /\ UNCHANGED <<BufsIn(inputPPQ), BufsIn(ongoingPPQ), BufsIn(inputJpegQ)>>
      /\ UNCHANGED <<BufsIn(ongoingJpegQ), BufsIn(aborted)>>
      /\ SoundJobs(inputPPQ)' /\ SoundJobs(ongoingPPQ)' /\ SoundJobs(inputJpegQ)'
      /\ SoundJobs(ongoingJpegQ)' /\ SoundJobs(aborted)'
  BY <1>1, <1>2 DEF FramesApart
<1>6. JpegTypes' /\ EncodersFree' /\ JobsApart' /\ AbortFits'  BY <1>1, JpegKept
<1>7. InputsHeld'  BY <1>1, <1>5, InputsKept
<1>8. out' \subseteq out  BY <1>4
<1>9. FramesApart'
  BY <1>1, <1>2, <1>3, <1>5, <1>8 DEF FramesApart, Unstarted
<1>10. BuffersOwned'
  <2> DEFINE gone == BufsOfHead(inputRawQ)
             others == BufsIn(inputPPQ) \cup BufsIn(ongoingPPQ) \cup BufsIn(inputJpegQ)
                           \cup BufsIn(ongoingJpegQ) \cup BufsIn(aborted)
  <2>1. /\ left \subseteq out /\ given \subseteq out /\ left \cap given = {}
        /\ out \ (left \cup given) = others \cup BufsIn(inputRawQ)
    BY DEF PictureInv, BuffersOwned
  <2>2. \A b \in gone : b \notin others
    <3>1. \A b \in BufsIn(inputRawQ) : b \notin others  BY BufsApart
    <3> QED  BY <1>3, <3>1
  <2>3. UNCHANGED others  BY <1>5
  <2>4. gone \subseteq out /\ gone \cap (left \cup given) = {}  BY <1>3, <2>1
  <2>5. BufsIn(inputRawQ)' = BufsIn(inputRawQ) \ gone  BY <1>3
  <2> SUFFICES /\ left' \subseteq out' /\ given' \subseteq out' /\ left' \cap given' = {}
               /\ out' \ (left' \cup given') = others' \cup BufsIn(inputRawQ)'
    BY DEF BuffersOwned
  <2>6. /\ \/ left' = left \cup gone /\ UNCHANGED <<given, out>>
           \/ given' = given \cup gone /\ UNCHANGED <<left, out>>
           \/ out' = out \ gone /\ UNCHANGED <<given, left>>
    BY <1>4
  <2> HIDE DEF gone, others
  <2> QED  BY <2>1, <2>2, <2>3, <2>4, <2>5, <2>6
<1>11. JobsKnown'
  <2>1. /\ UNCHANGED <<ToSet(inputPPQ), ToSet(ongoingPPQ), ToSet(inputJpegQ)>>
        /\ UNCHANGED <<ToSet(ongoingJpegQ), ToSet(aborted), ToSet(jobs)>>
    BY <1>1 DEF ToSet
  <2>2. Unstarted' \subseteq Unstarted  BY <1>3, <1>5 DEF Unstarted
  <2> QED  BY <1>1, <1>2, <2>1, <2>2 DEF JobsKnown
<1>12. PpTypes'  BY <1>1, <1>2, <1>3, <1>8 DEF PpTypes
<1>13. ControlFits'  BY <1>1, ThreadGoesOn
<1> QED  BY <1>6, <1>7, <1>9, <1>10, <1>11, <1>12, <1>13 DEF PictureInv

\* A frame goes to the reprocess channel.
LEMMA ReprocessStep ==
    ASSUME PictureInv, Reprocess
    PROVE  PictureInv'
<1>1. /\ pp_pc = "reprocesses" /\ pp_pc' = "waits"
      /\ UNCHANGED <<inputJpegQ, ongoingJpegQ, inputRawQ, aborted>>
      /\ UNCHANGED <<capture, ctrl, pics, given, is_active, new_session, pp_cmds, jobs>>
      /\ UNCHANGED jpegVars
      /\ UNCHANGED <<encoder, job_queue, call, job_hist, num_omx_sessions>>
  BY DEF Reprocess, jpegVars
<1>2. /\ PpTypes /\ FramesApart /\ JobsKnown
      /\ inputPPQ \in Seq(PpJob) /\ SoundJobs(inputPPQ)
      /\ ongoingPPQ \in Seq(PpJob) /\ SoundJobs(ongoingPPQ) /\ reprocessing \in Seq(PicFrames)
  BY DEF PictureInv, PpTypes, FramesApart
<1>3. JpegTypes' /\ EncodersFree' /\ JobsApart' /\ AbortFits' /\ ControlFits'
  BY <1>1, JpegKept, ThreadGoesOn
<1>4. InputsHeld'  BY <1>1, InputsKept DEF FramesOf
<1>5. CASE inputPPQ = << >> \/ (capture.longshot /\ Len(ongoingPPQ) >= NumQueuedBuf)
  <2>1. UNCHANGED <<inputPPQ, ongoingPPQ, reprocessing, left, out>>  BY <1>5 DEF Reprocess
  <2>2. FramesApart' /\ BuffersOwned' /\ JobsKnown'
    BY <1>1, <2>1, QueuesKept DEF ppQueues
  <2>3. PpTypes'  BY <1>1, <1>2, <2>1 DEF PpTypes
  <2> QED  BY <1>3, <1>4, <2>2, <2>3 DEF PictureInv
<1>6. CASE ~(inputPPQ = << >> \/ (capture.longshot /\ Len(ongoingPPQ) >= NumQueuedBuf))
  <2> DEFINE job == Head(inputPPQ)
             f == job.frame
  <2>1. /\ inputPPQ # << >> /\ inputPPQ' = Tail(inputPPQ)
        /\ \/ /\ reprocessing' = Append(reprocessing, f)
              /\ \/ ongoingPPQ' = Append(ongoingPPQ, [job EXCEPT !.bufs = {}])
                    /\ left' = left \cup job.bufs
                 \/ ongoingPPQ' = Append(ongoingPPQ, job) /\ UNCHANGED left
              /\ UNCHANGED <<out>>
           \/ out' = out \ job.bufs /\ UNCHANGED <<ongoingPPQ, reprocessing, left>>
    BY <1>6 DEF Reprocess
  <2>2. /\ Tail(inputPPQ) \in Seq(PpJob) /\ SoundJobs(Tail(inputPPQ)) /\ job \in PpJob
        /\ job \in ToSet(inputPPQ) /\ ToSet(Tail(inputPPQ)) \subseteq ToSet(inputPPQ)
        /\ f \in FramesOf(inputPPQ) /\ job.bufs \subseteq BufsIn(inputPPQ)
        /\ \A b \in job.bufs : b[2] = f
        /\ FramesOf(Tail(inputPPQ)) = FramesOf(inputPPQ) \ {f}
        /\ BufsIn(Tail(inputPPQ)) = BufsIn(inputPPQ) \ job.bufs
    BY <1>2, <2>1, JobTaken
  <2>3. /\ UNCHANGED <<FramesOf(inputJpegQ), FramesOf(ongoingJpegQ), FramesOf(inputRawQ)>>
        /\ UNCHANGED <<FramesOf(aborted), BufsIn(aborted)>>
        /\ UNCHANGED <<BufsIn(inputJpegQ), BufsIn(ongoingJpegQ), BufsIn(inputRawQ)>>
        /\ SoundJobs(inputJpegQ)' /\ SoundJobs(ongoingJpegQ)' /\ SoundJobs(inputRawQ)'
        /\ SoundJobs(aborted)'
    BY <1>1, <1>2 DEF FramesApart
  <2>4. /\ UNCHANGED <<ToSet(inputJpegQ), ToSet(ongoingJpegQ), ToSet(aborted), ToSet(jobs)>>
    BY <1>1 DEF ToSet
  <2>5. f \in PicFrames /\ job.id = 0 /\ f \notin FramesOf(ongoingPPQ)
    BY <1>2, <2>2 DEF PpJob, JobsKnown, FramesApart
  <2>6. CASE out' = out \ job.bufs /\ UNCHANGED <<ongoingPPQ, reprocessing, left>>
    <3>1. /\ UNCHANGED <<FramesOf(ongoingPPQ), BufsIn(ongoingPPQ), ToSet(ongoingPPQ)>>
          /\ SoundJobs(ongoingPPQ)' /\ out' \subseteq out
      BY <1>2, <2>6 DEF FramesOf, BufsIn, ToSet
    <3>2. BuffersOwned'
      <4>1. job.bufs \cap (left \cup given) = {}  BY <2>2 DEF PictureInv, BuffersOwned
      <4>2. /\ BufsIn(inputPPQ)' = BufsIn(inputPPQ) \ job.bufs
            /\ BufsIn(ongoingPPQ)' = BufsIn(ongoingPPQ) \ job.bufs
            /\ BufsIn(inputJpegQ)' = BufsIn(inputJpegQ) \ job.bufs
            /\ BufsIn(ongoingJpegQ)' = BufsIn(ongoingJpegQ) \ job.bufs
            /\ BufsIn(inputRawQ)' = BufsIn(inputRawQ) \ job.bufs
            /\ BufsIn(aborted)' = BufsIn(aborted) \ job.bufs
        BY <2>1, <2>2, <2>3, <3>1, BufsApart
      <4> HIDE DEF job
      <4> QED  BY <1>1, <2>6, <4>1, <4>2, BuffersLeave
    <3> HIDE DEF job, f
    <3>3. FramesApart'
      BY <1>1, <1>2, <2>1, <2>2, <2>3, <2>6, <3>1 DEF FramesApart, Unstarted
    <3>4. JobsKnown'
      BY <1>1, <1>2, <2>1, <2>2, <2>3, <2>4, <3>1 DEF JobsKnown, Unstarted
    <3>5. PpTypes'  BY <1>1, <1>2, <2>1, <2>2, <2>6, <3>1 DEF PpTypes
    <3> QED  BY <1>3, <1>4, <3>2, <3>3, <3>4, <3>5 DEF PictureInv
  <2>7. ASSUME NEW new \in PpJob, new.frame = f, new.id = 0,
               reprocessing' = Append(reprocessing, f), ongoingPPQ' = Append(ongoingPPQ, new),
               \/ new.bufs = {} /\ left' = left \cup job.bufs
               \/ new.bufs = job.bufs /\ UNCHANGED left,
               UNCHANGED out
        PROVE  PictureInv'
    <3>1. \A b \in new.bufs : b[2] = new.frame  BY <2>2, <2>7
    <3>2. /\ ongoingPPQ' \in Seq(PpJob) /\ SoundJobs(ongoingPPQ')
          /\ FramesOf(ongoingPPQ') = FramesOf(ongoingPPQ) \cup {f}
          /\ BufsIn(ongoingPPQ') = BufsIn(ongoingPPQ) \cup new.bufs
          /\ ToSet(ongoingPPQ') = ToSet(ongoingPPQ) \cup {new}
      <4>1. new.frame \notin FramesOf(ongoingPPQ)  BY <2>5, <2>7
      <4> QED  BY <1>2, <2>7, <3>1, <4>1, JobAppended
    <3>3. /\ Len(reprocessing') = Len(ongoingPPQ')
          /\ \A i \in DOMAIN ongoingPPQ' : ongoingPPQ'[i].frame = reprocessing'[i]
          /\ reprocessing' \in Seq(PicFrames)
      <4>1. /\ Len(reprocessing) = Len(ongoingPPQ)
            /\ \A i \in DOMAIN ongoingPPQ : ongoingPPQ[i].frame = reprocessing[i]
        BY <1>2 DEF FramesApart
      <4> HIDE DEF job, f
      <4> QED  BY <1>2, <2>5, <2>7, <4>1
    <3> HIDE DEF job, f
    <3>4. BuffersOwned'
      <4> DEFINE others == BufsIn(inputJpegQ) \cup BufsIn(ongoingJpegQ) \cup BufsIn(inputRawQ)
                               \cup BufsIn(aborted)
      <4>1. /\ left \subseteq out /\ given \subseteq out /\ left \cap given = {}
            /\ out \ (left \cup given)
                   = BufsIn(inputPPQ) \cup BufsIn(ongoingPPQ) \cup others
        BY DEF PictureInv, BuffersOwned
      <4>2. \A b \in BufsIn(inputPPQ) : b \notin others /\ b \notin BufsIn(ongoingPPQ)
        BY BufsApart
      <4>3. UNCHANGED others  BY <2>3
      <4> SUFFICES /\ left' \subseteq out' /\ given' \subseteq out' /\ left' \cap given' = {}
                   /\ out' \ (left' \cup given')
                          = BufsIn(inputPPQ)' \cup BufsIn(ongoingPPQ)' \cup others'
        BY DEF BuffersOwned
      <4> HIDE DEF others
      <4>4. job.bufs \subseteq out /\ job.bufs \cap (left \cup given) = {}  BY <2>2, <4>1
      <4> QED  BY <1>1, <2>1, <2>2, <2>7, <3>2, <4>1, <4>2, <4>3, <4>4
    <3>5. FramesApart'
      BY <1>1, <1>2, <2>1, <2>2, <2>3, <2>7, <3>2, <3>3 DEF FramesApart, Unstarted
    <3>6. JobsKnown'
      BY <1>1, <1>2, <2>1, <2>2, <2>3, <2>4, <2>7, <3>2 DEF JobsKnown, Unstarted
    <3>7. PpTypes'  BY <1>1, <1>2, <2>1, <2>2, <2>7, <3>2, <3>3 DEF PpTypes
    <3> QED  BY <1>3, <1>4, <3>4, <3>5, <3>6, <3>7 DEF PictureInv
  <2>8. /\ job \in PpJob /\ job.frame = f /\ job.id = 0
        /\ [job EXCEPT !.bufs = {}] \in PpJob /\ [job EXCEPT !.bufs = {}].frame = f
        /\ [job EXCEPT !.bufs = {}].id = 0 /\ [job EXCEPT !.bufs = {}].bufs = {}
    BY <2>2, <2>5 DEF PpJob
  <2> HIDE DEF job, f
  <2> QED  BY <2>1, <2>6, <2>7, <2>8
<1> QED  BY <1>5, <1>6

\* A frame comes.
LEMMA ProcessDataStep ==
    ASSUME PictureInv, ProcessData
    PROVE  PictureInv'
<1> DEFINE f == pics + 1
           job == [frame |-> f, bufs |-> {<<"src", f>>}, id |-> 0]
           toPP == capture.reproc
           toRaw == ~capture.reproc /\ capture.raw
           toJpeg == ~capture.reproc /\ ~capture.raw
           cmds == IF capture.raw /\ ~capture.reproc THEN <<"NEXT", "NEXT">> ELSE <<"NEXT">>
<1>1. /\ pics < MaxPicFrames /\ pics' = f /\ out' = out \cup {<<"src", f>>}
      /\ inputPPQ' = (IF toPP THEN Append(inputPPQ, job) ELSE inputPPQ)
      /\ inputRawQ' = (IF toRaw THEN Append(inputRawQ, job) ELSE inputRawQ)
      /\ inputJpegQ' = (IF toJpeg THEN Append(inputJpegQ, job) ELSE inputJpegQ)
      /\ SendCmd(cmds)
      /\ UNCHANGED <<capture, ctrl, pp_pc, is_active, new_session, ongoingPPQ,
                     ongoingJpegQ, aborted, reprocessing, left, given, jobs>>
      /\ UNCHANGED jpegVars
      /\ UNCHANGED <<encoder, job_queue, call, job_hist, num_omx_sessions>>
  BY DEF ProcessData, history, jpegVars
<1>2. /\ PpTypes /\ FramesApart /\ JobsKnown /\ pics \in Nat /\ MaxPicFrames \in Nat
      /\ inputPPQ \in Seq(PpJob) /\ inputJpegQ \in Seq(PpJob) /\ inputRawQ \in Seq(PpJob)
      /\ SoundJobs(inputPPQ) /\ SoundJobs(inputJpegQ) /\ SoundJobs(inputRawQ)
  BY PostProcAssumption DEF PictureInv, PpTypes, FramesApart
<1>3. /\ f \in PicFrames /\ f \in 1..f /\ f \notin 1..pics /\ 1..pics \subseteq 1..f
      /\ \A n \in 1..pics : n # f
  BY <1>1, <1>2 DEF PicFrames
<1>4. /\ job \in PpJob /\ job.frame = f /\ job.bufs = {<<"src", f>>} /\ job.id = 0
      /\ <<"src", f>> \in Buffers /\ <<"src", f>>[2] = f /\ <<"src", f>> # <<"pp", f>>
      /\ \A g : <<"src", f>> # <<"pp", g>>
  BY <1>3 DEF PpJob, Buffers
<1>5. \A b \in out : b[2] # f /\ b[2] <= f
  <2>1. \A b \in out : b \in Buffers /\ b[2] <= pics  BY <1>2 DEF PpTypes, FramesApart
  <2>2. \A b \in Buffers : b[2] \in Nat  BY DEF Buffers, PicFrames
  <2> QED  BY <1>2, <2>1, <2>2
<1>6. /\ f \notin Unstarted /\ f \notin FramesOf(ongoingJpegQ) /\ f \notin FramesOf(aborted)
      /\ f \notin FramesOf(inputPPQ) /\ f \notin FramesOf(inputJpegQ)
      /\ f \notin FramesOf(inputRawQ) /\ f \notin FramesOf(ongoingPPQ)
      /\ f \notin ToSet(jobs)
  BY <1>2, <1>3 DEF FramesApart, JobsKnown, Unstarted
<1>7. cmds \in Seq({"NEXT"})
  <2>1. <<"NEXT">> \in Seq({"NEXT"}) /\ <<"NEXT", "NEXT">> \in Seq({"NEXT"})  OBVIOUS
  <2> QED  BY <2>1
<1>8. ControlFits' /\ pp_cmds' \in Seq(PpCommands)
  <2> HIDE DEF cmds
  <2> QED  BY <1>1, <1>7, NextsSent
<1>9. /\ toPP => ~toRaw /\ ~toJpeg
      /\ toRaw => ~toJpeg
      /\ toPP \/ toRaw \/ toJpeg
  OBVIOUS
<1> HIDE DEF f, job, toPP, toRaw, toJpeg, cmds
<1>10. /\ \A b \in job.bufs : b[2] = job.frame
       /\ job.frame \notin FramesOf(inputPPQ) /\ job.frame \notin FramesOf(inputJpegQ)
       /\ job.frame \notin FramesOf(inputRawQ)
  BY <1>4, <1>6
<1>11. /\ inputPPQ' \in Seq(PpJob) /\ SoundJobs(inputPPQ')
       /\ FramesOf(inputPPQ') = FramesOf(inputPPQ) \cup (IF toPP THEN {job.frame} ELSE {})
       /\ BufsIn(inputPPQ') = BufsIn(inputPPQ) \cup (IF toPP THEN job.bufs ELSE {})
       /\ ToSet(inputPPQ') = ToSet(inputPPQ) \cup (IF toPP THEN {job} ELSE {})
  <2>1. CASE toPP  BY <1>1, <1>2, <1>4, <1>10, <2>1, JobAppended
  <2>2. CASE ~toPP  BY <1>1, <1>2, <2>2
  <2> QED  BY <2>1, <2>2
<1>12. /\ inputRawQ' \in Seq(PpJob) /\ SoundJobs(inputRawQ')
       /\ FramesOf(inputRawQ') = FramesOf(inputRawQ) \cup (IF toRaw THEN {job.frame} ELSE {})
       /\ BufsIn(inputRawQ') = BufsIn(inputRawQ) \cup (IF toRaw THEN job.bufs ELSE {})
       /\ ToSet(inputRawQ') = ToSet(inputRawQ) \cup (IF toRaw THEN {job} ELSE {})
  <2>1. CASE toRaw  BY <1>1, <1>2, <1>4, <1>10, <2>1, JobAppended
  <2>2. CASE ~toRaw  BY <1>1, <1>2, <2>2
  <2> QED  BY <2>1, <2>2
<1>13. /\ inputJpegQ' \in Seq(PpJob) /\ SoundJobs(inputJpegQ')
       /\ FramesOf(inputJpegQ') = FramesOf(inputJpegQ) \cup (IF toJpeg THEN {job.frame} ELSE {})
       /\ BufsIn(inputJpegQ') = BufsIn(inputJpegQ) \cup (IF toJpeg THEN job.bufs ELSE {})
       /\ ToSet(inputJpegQ') = ToSet(inputJpegQ) \cup (IF toJpeg THEN {job} ELSE {})
  <2>1. CASE toJpeg  BY <1>1, <1>2, <1>4, <1>10, <2>1, JobAppended
  <2>2. CASE ~toJpeg  BY <1>1, <1>2, <2>2
  <2> QED  BY <2>1, <2>2
<1>14. /\ UNCHANGED <<FramesOf(ongoingPPQ), FramesOf(ongoingJpegQ), FramesOf(aborted)>>
       /\ UNCHANGED <<BufsIn(ongoingPPQ), BufsIn(ongoingJpegQ), BufsIn(aborted)>>
       /\ UNCHANGED <<ToSet(ongoingPPQ), ToSet(ongoingJpegQ), ToSet(aborted), ToSet(jobs)>>
       /\ SoundJobs(ongoingPPQ)' /\ SoundJobs(ongoingJpegQ)' /\ SoundJobs(aborted)'
  BY <1>1, <1>2 DEF FramesOf, BufsIn, ToSet, FramesApart
<1>15. JpegTypes' /\ EncodersFree' /\ JobsApart' /\ AbortFits'  BY <1>1, JpegKept
<1>16. InputsHeld'  BY <1>1, <1>14, InputsKept
<1>17. Unstarted' = Unstarted \cup {f}
  BY <1>4, <1>9, <1>11, <1>12, <1>13, <1>14 DEF Unstarted
<1>18. FramesApart'
  <2>1. \A b \in out' : b[2] <= pics'
    <3>1. f <= f  BY <1>3 DEF PicFrames
    <3> QED  BY <1>1, <1>4, <1>5, <3>1
  <2>2. \A g \in FramesOf(inputPPQ') \cup FramesOf(ongoingPPQ') : <<"pp", g>> \notin out'
    <3>1. <<"pp", f>> \notin out
      <4>1. <<"pp", f>>[2] = f  OBVIOUS
      <4> QED  BY <1>5, <4>1
    <3>2. \A g \in FramesOf(inputPPQ) \cup FramesOf(ongoingPPQ) : <<"pp", g>> \notin out
      BY <1>2 DEF FramesApart
    <3> QED  BY <1>1, <1>4, <1>11, <1>14, <3>1, <3>2
  <2>3. Unstarted' \cap (FramesOf(ongoingJpegQ') \cup FramesOf(aborted')) = {}
        /\ Unstarted' \cup FramesOf(ongoingJpegQ') \cup FramesOf(aborted') \subseteq 1..pics'
    BY <1>1, <1>2, <1>3, <1>6, <1>14, <1>17 DEF FramesApart
  <2>4. /\ FramesOf(inputPPQ') \cap FramesOf(ongoingPPQ') = {}
        /\ (FramesOf(inputPPQ') \cup FramesOf(ongoingPPQ')) \cap FramesOf(inputJpegQ') = {}
        /\ (FramesOf(inputPPQ') \cup FramesOf(ongoingPPQ') \cup FramesOf(inputJpegQ'))
               \cap FramesOf(inputRawQ') = {}
    BY <1>2, <1>4, <1>6, <1>9, <1>11, <1>12, <1>13, <1>14 DEF FramesApart
  <2> QED  BY <1>1, <1>2, <1>11, <1>12, <1>13, <1>14, <2>1, <2>2, <2>3, <2>4 DEF FramesApart
<1>19. BuffersOwned'
  <2>1. /\ left \subseteq out /\ given \subseteq out /\ left \cap given = {}
        /\ out \ (left \cup given)
               = BufsIn(inputPPQ) \cup BufsIn(ongoingPPQ) \cup BufsIn(inputJpegQ)
                 \cup BufsIn(ongoingJpegQ) \cup BufsIn(inputRawQ) \cup BufsIn(aborted)
    BY DEF PictureInv, BuffersOwned
  <2>2. job.bufs \cap out = {} /\ out' = out \cup job.bufs  BY <1>1, <1>4, <1>5
  <2>3. BufsIn(inputPPQ') \cup BufsIn(inputJpegQ') \cup BufsIn(inputRawQ')
            = BufsIn(inputPPQ) \cup BufsIn(inputJpegQ) \cup BufsIn(inputRawQ) \cup job.bufs
    BY <1>9, <1>11, <1>12, <1>13
  <2>4. out' \ (left \cup given) = (out \ (left \cup given)) \cup job.bufs  BY <2>1, <2>2
  <2> QED  BY <1>1, <1>14, <2>1, <2>2, <2>3, <2>4 DEF BuffersOwned
<1>20. JobsKnown'
  <2>1. \A j \in ToSet(inputPPQ') \cup ToSet(ongoingPPQ') \cup ToSet(inputJpegQ') : j.id = 0
    BY <1>2, <1>4, <1>11, <1>13, <1>14 DEF JobsKnown
  <2>2. \A j \in ToSet(inputJpegQ') : j.bufs # {}
    BY <1>2, <1>4, <1>13 DEF JobsKnown
  <2>3. ToSet(jobs') \cap Unstarted' = {} /\ ToSet(jobs') \subseteq 1..pics'
    BY <1>1, <1>2, <1>3, <1>6, <1>14, <1>17 DEF JobsKnown
  <2> QED  BY <1>1, <1>2, <1>14, <2>1, <2>2, <2>3 DEF JobsKnown
<1>21. PpTypes'
  <2>1. pics' \in 0..MaxPicFrames  BY <1>1, <1>3, <1>2 DEF PicFrames
  <2> QED  BY <1>1, <1>2, <1>4, <1>8, <1>11, <1>12, <1>13, <2>1 DEF PpTypes
<1> QED  BY <1>8, <1>15, <1>16, <1>18, <1>19, <1>20, <1>21 DEF PictureInv

\* The reprocess channel has the result of a frame.
LEMMA ReprocessDoneStep ==
    ASSUME PictureInv, ReprocessDone
    PROVE  PictureInv'
<1> DEFINE job == Head(ongoingPPQ)
           f == job.frame
           bufs == {<<"pp", f>>}
           raw == [job EXCEPT !.bufs = bufs]
           both == [job EXCEPT !.bufs = @ \cup bufs]
<1>1. /\ PpTypes /\ FramesApart /\ JobsKnown
      /\ ongoingPPQ \in Seq(PpJob) /\ SoundJobs(ongoingPPQ) /\ reprocessing \in Seq(PicFrames)
      /\ inputRawQ \in Seq(PpJob) /\ SoundJobs(inputRawQ)
      /\ inputJpegQ \in Seq(PpJob) /\ SoundJobs(inputJpegQ)
      /\ Len(reprocessing) = Len(ongoingPPQ)
      /\ \A i \in DOMAIN ongoingPPQ : ongoingPPQ[i].frame = reprocessing[i]
  BY DEF PictureInv, PpTypes, FramesApart
<1>2. reprocessing # << >> /\ ongoingPPQ # << >> /\ Head(reprocessing) = f
  <2>1. reprocessing # << >>  BY DEF ReprocessDone
  <2>2. ongoingPPQ # << >> /\ 1 \in DOMAIN ongoingPPQ  BY <1>1, <2>1
  <2>3. Head(reprocessing) = reprocessing[1] /\ Head(ongoingPPQ) = ongoingPPQ[1]
    BY <1>1, <2>1, <2>2
  <2> QED  BY <1>1, <2>1, <2>2, <2>3
<1>3. /\ reprocessing' = Tail(reprocessing) /\ ongoingPPQ' = Tail(ongoingPPQ)
      /\ IF capture.raw
         THEN /\ out' = (out \cup bufs) \ job.bufs
              /\ inputRawQ' = Append(inputRawQ, raw)
              /\ UNCHANGED inputJpegQ
         ELSE /\ out' = out \cup bufs
              /\ inputJpegQ' = Append(inputJpegQ, both)
              /\ UNCHANGED inputRawQ
      /\ SendCmd(<<"NEXT">>)
      /\ UNCHANGED <<capture, ctrl, pics, pp_pc, is_active, new_session, inputPPQ,
                     ongoingJpegQ, aborted, left, given, jobs>>
      /\ UNCHANGED jpegVars
      /\ UNCHANGED <<encoder, job_queue, call, job_hist, num_omx_sessions>>
  BY <1>2 DEF ReprocessDone, history, jpegVars
<1>4. /\ Tail(ongoingPPQ) \in Seq(PpJob) /\ SoundJobs(Tail(ongoingPPQ)) /\ job \in PpJob
      /\ job \in ToSet(ongoingPPQ) /\ ToSet(Tail(ongoingPPQ)) \subseteq ToSet(ongoingPPQ)
      /\ f \in FramesOf(ongoingPPQ) /\ job.bufs \subseteq BufsIn(ongoingPPQ)
      /\ \A b \in job.bufs : b[2] = f
      /\ FramesOf(Tail(ongoingPPQ)) = FramesOf(ongoingPPQ) \ {f}
      /\ BufsIn(Tail(ongoingPPQ)) = BufsIn(ongoingPPQ) \ job.bufs
  BY <1>1, <1>2, JobTaken
<1>5. ControlFits' /\ pp_cmds' \in Seq(PpCommands)
  <2> DEFINE cmds == <<"NEXT">>
  <2>1. cmds \in Seq({"NEXT"}) /\ SendCmd(cmds)  BY <1>3
  <2> HIDE DEF cmds
  <2> QED  BY <1>3, <2>1, NextsSent
<1>6. JpegTypes' /\ EncodersFree' /\ JobsApart' /\ AbortFits'  BY <1>3, JpegKept
<1>7. /\ UNCHANGED <<FramesOf(inputPPQ), FramesOf(ongoingJpegQ), FramesOf(aborted)>>
      /\ UNCHANGED <<BufsIn(inputPPQ), BufsIn(ongoingJpegQ), BufsIn(aborted)>>
      /\ UNCHANGED <<ToSet(inputPPQ), ToSet(ongoingJpegQ), ToSet(aborted), ToSet(jobs)>>
      /\ SoundJobs(inputPPQ)' /\ SoundJobs(ongoingJpegQ)' /\ SoundJobs(aborted)'
  BY <1>1, <1>3 DEF FramesOf, BufsIn, ToSet, FramesApart
<1>8. InputsHeld'  BY <1>3, <1>7, InputsKept
<1>9. /\ f \in PicFrames /\ f \in 1..pics /\ job.id = 0
      /\ <<"pp", f>> \in Buffers /\ <<"pp", f>>[2] = f /\ <<"pp", f>> \notin out
      /\ f \notin FramesOf(inputPPQ) /\ f \notin FramesOf(inputJpegQ)
      /\ f \notin FramesOf(inputRawQ)
      /\ f \notin FramesOf(ongoingJpegQ) /\ f \notin FramesOf(aborted)
      /\ pics \in Nat
  <2>1. f \in PicFrames  BY <1>4 DEF PpJob
  <2>2. <<"pp", f>> \in Buffers /\ <<"pp", f>>[2] = f  BY <2>1 DEF Buffers
  <2>3. job.id = 0  BY <1>1, <1>4 DEF JobsKnown
  <2>4. pics \in Nat  BY <1>1, PostProcAssumption DEF PpTypes
  <2> HIDE DEF f, job
  <2> QED  BY <1>1, <1>4, <2>1, <2>2, <2>3, <2>4 DEF FramesApart, Unstarted
<1>10. /\ reprocessing' \in Seq(PicFrames) /\ Len(reprocessing') = Len(ongoingPPQ')
       /\ \A i \in DOMAIN ongoingPPQ' : ongoingPPQ'[i].frame = reprocessing'[i]
  BY <1>1, <1>2, <1>3
<1>11. /\ \A g \in FramesOf(inputPPQ') \cup FramesOf(ongoingPPQ') : <<"pp", g>> \notin out'
       /\ \A b \in out' : b[2] <= pics'
       /\ out' \subseteq Buffers
  <2>1. f <= pics  BY <1>9
  <2>2. \A g : g # f => <<"pp", g>> # <<"pp", f>>  OBVIOUS
  <2>3. out' \subseteq out \cup {<<"pp", f>>}  BY <1>3
  <2> HIDE DEF f, job
  <2>4. \A g \in FramesOf(inputPPQ') \cup FramesOf(ongoingPPQ') :
            g # f /\ g \in FramesOf(inputPPQ) \cup FramesOf(ongoingPPQ)
    BY <1>3, <1>4, <1>7, <1>9
  <2> QED  BY <1>1, <1>3, <1>9, <2>1, <2>2, <2>3, <2>4 DEF FramesApart, PpTypes
<1>12. /\ left \subseteq out /\ given \subseteq out /\ left \cap given = {}
       /\ out \ (left \cup given)
              = BufsIn(inputPPQ) \cup BufsIn(ongoingPPQ) \cup BufsIn(inputJpegQ)
                \cup BufsIn(ongoingJpegQ) \cup BufsIn(inputRawQ) \cup BufsIn(aborted)
  BY DEF PictureInv, BuffersOwned
<1>13. job.bufs \subseteq out /\ job.bufs \cap (left \cup given) = {}  BY <1>4, <1>12
<1>14. bufs \cap out = {} /\ bufs \subseteq Buffers /\ \A b \in bufs : b[2] = f  BY <1>9
<1>15. CASE capture.raw
  <2>1. raw \in PpJob /\ raw.frame = f /\ raw.bufs = bufs  BY <1>4, <1>14 DEF PpJob
  <2>2. /\ out' = (out \cup bufs) \ job.bufs /\ inputRawQ' = Append(inputRawQ, raw)
        /\ UNCHANGED inputJpegQ
    BY <1>3, <1>15
  <2> HIDE DEF raw, both, f, job, bufs
  <2>3. /\ inputRawQ' \in Seq(PpJob) /\ SoundJobs(inputRawQ')
        /\ FramesOf(inputRawQ') = FramesOf(inputRawQ) \cup {f}
        /\ BufsIn(inputRawQ') = BufsIn(inputRawQ) \cup bufs
    <3>1. \A b \in raw.bufs : b[2] = raw.frame  BY <1>14, <2>1
    <3>2. raw.frame \notin FramesOf(inputRawQ)  BY <1>9, <2>1
    <3> QED  BY <1>1, <2>1, <2>2, <3>1, <3>2, JobAppended
  <2>4. UNCHANGED <<FramesOf(inputJpegQ), BufsIn(inputJpegQ), ToSet(inputJpegQ)>>
        /\ SoundJobs(inputJpegQ)'
    BY <1>1, <2>2 DEF FramesOf, BufsIn, ToSet
  <2>5. Unstarted' = Unstarted
    BY <1>3, <1>4, <1>7, <2>3, <2>4 DEF Unstarted
  <2>6. FramesApart'
    <3>1. (FramesOf(inputPPQ') \cup FramesOf(ongoingPPQ') \cup FramesOf(inputJpegQ'))
              \cap FramesOf(inputRawQ') = {}
      BY <1>1, <1>3, <1>4, <1>7, <1>9, <2>3, <2>4 DEF FramesApart
    <3>2. /\ FramesOf(inputPPQ') \cap FramesOf(ongoingPPQ') = {}
          /\ (FramesOf(inputPPQ') \cup FramesOf(ongoingPPQ')) \cap FramesOf(inputJpegQ') = {}
      BY <1>1, <1>3, <1>4, <1>7, <2>4 DEF FramesApart
    <3> QED  BY <1>1, <1>3, <1>4, <1>7, <1>10, <1>11, <2>3, <2>4, <2>5, <3>1, <3>2
             DEF FramesApart
  <2>7. BuffersOwned'
    <3>1. BufsIn(ongoingPPQ') = BufsIn(ongoingPPQ) \ job.bufs  BY <1>3, <1>4
    <3>2. /\ \A b \in BufsIn(inputPPQ) \cup BufsIn(inputJpegQ) \cup BufsIn(ongoingJpegQ)
                      \cup BufsIn(inputRawQ) \cup BufsIn(aborted) : b \notin job.bufs
      BY <1>4, BufsApart
    <3>3. \A b \in bufs : b \notin job.bufs /\ b \notin left \cup given  BY <1>12, <1>13, <1>14
    <3>4. left \subseteq out' /\ given \subseteq out'  BY <1>12, <1>13, <2>2
    <3> DEFINE others == BufsIn(inputPPQ) \cup BufsIn(inputJpegQ) \cup BufsIn(ongoingJpegQ)
                      \cup BufsIn(inputRawQ) \cup BufsIn(aborted)
    <3>5. out \ (left \cup given) = others \cup BufsIn(ongoingPPQ)  BY <1>12
    <3>6. \A b \in others : b \notin job.bufs  BY <3>2
    <3> HIDE DEF others
    <3>7. out' \ (left \cup given) = others \cup (BufsIn(ongoingPPQ) \ job.bufs) \cup bufs
      BY <2>2, <3>3, <3>5, <3>6
    <3> QED  BY <1>3, <1>7, <1>12, <2>3, <2>4, <3>1, <3>4, <3>7 DEF BuffersOwned, others
  <2>8. JobsKnown'
    BY <1>1, <1>3, <1>4, <1>7, <2>4, <2>5 DEF JobsKnown
  <2>9. PpTypes'  BY <1>1, <1>3, <1>4, <1>5, <1>10, <1>11, <2>2, <2>3 DEF PpTypes
  <2> QED  BY <1>5, <1>6, <1>8, <2>6, <2>7, <2>8, <2>9 DEF PictureInv
<1>16. CASE ~capture.raw
  <2>1. both \in PpJob /\ both.frame = f /\ both.bufs = job.bufs \cup bufs /\ both.id = 0
    BY <1>4, <1>9, <1>14 DEF PpJob
  <2>2. /\ out' = out \cup bufs /\ inputJpegQ' = Append(inputJpegQ, both)
        /\ UNCHANGED inputRawQ
    BY <1>3, <1>16
  <2>0. bufs # {}  OBVIOUS
  <2> HIDE DEF raw, both, f, job, bufs
  <2>3. /\ inputJpegQ' \in Seq(PpJob) /\ SoundJobs(inputJpegQ')
        /\ FramesOf(inputJpegQ') = FramesOf(inputJpegQ) \cup {f}
        /\ BufsIn(inputJpegQ') = BufsIn(inputJpegQ) \cup job.bufs \cup bufs
        /\ ToSet(inputJpegQ') = ToSet(inputJpegQ) \cup {both}
    <3>1. \A b \in both.bufs : b[2] = both.frame  BY <1>4, <1>14, <2>1
    <3>2. both.frame \notin FramesOf(inputJpegQ)  BY <1>9, <2>1
    <3>3. /\ inputJpegQ' \in Seq(PpJob) /\ SoundJobs(inputJpegQ')
          /\ FramesOf(inputJpegQ') = FramesOf(inputJpegQ) \cup {both.frame}
          /\ BufsIn(inputJpegQ') = BufsIn(inputJpegQ) \cup both.bufs
          /\ ToSet(inputJpegQ') = ToSet(inputJpegQ) \cup {both}
      BY <1>1, <2>1, <2>2, <3>1, <3>2, JobAppended
    <3> QED  BY <2>1, <3>3
  <2>4. UNCHANGED <<FramesOf(inputRawQ), BufsIn(inputRawQ)>> /\ SoundJobs(inputRawQ)'
    BY <1>1, <2>2 DEF FramesOf, BufsIn
  <2>5. Unstarted' = Unstarted
    BY <1>3, <1>4, <1>7, <2>3, <2>4 DEF Unstarted
  <2>6. FramesApart'
    <3>1. (FramesOf(inputPPQ') \cup FramesOf(ongoingPPQ') \cup FramesOf(inputJpegQ'))
              \cap FramesOf(inputRawQ') = {}
      BY <1>1, <1>3, <1>4, <1>7, <1>9, <2>3, <2>4 DEF FramesApart
    <3>2. /\ FramesOf(inputPPQ') \cap FramesOf(ongoingPPQ') = {}
          /\ (FramesOf(inputPPQ') \cup FramesOf(ongoingPPQ')) \cap FramesOf(inputJpegQ') = {}
      BY <1>1, <1>3, <1>4, <1>7, <1>9, <2>3 DEF FramesApart
    <3> QED  BY <1>1, <1>3, <1>4, <1>7, <1>10, <1>11, <2>3, <2>4, <2>5, <3>1, <3>2
             DEF FramesApart
  <2>7. BuffersOwned'
    <3>1. BufsIn(ongoingPPQ') \cup BufsIn(inputJpegQ')
              = BufsIn(ongoingPPQ) \cup BufsIn(inputJpegQ) \cup bufs
      BY <1>3, <1>4, <2>3
    <3>2. left \subseteq out' /\ given \subseteq out'  BY <1>12, <2>2
    <3>3. out' \ (left \cup given) = (out \ (left \cup given)) \cup bufs
      BY <1>12, <1>14, <2>2
    <3> QED  BY <1>3, <1>7, <1>12, <2>4, <3>1, <3>2, <3>3 DEF BuffersOwned
  <2>8. JobsKnown'
    <3>1. \A j \in ToSet(inputPPQ') \cup ToSet(ongoingPPQ') \cup ToSet(inputJpegQ') : j.id = 0
      BY <1>1, <1>3, <1>4, <1>7, <2>1, <2>3 DEF JobsKnown
    <3>2. \A j \in ToSet(inputJpegQ') : j.bufs # {}
      BY <1>1, <2>0, <2>1, <2>3 DEF JobsKnown
    <3> QED  BY <1>1, <1>3, <1>7, <2>5, <3>1, <3>2 DEF JobsKnown
  <2>9. PpTypes'  BY <1>1, <1>3, <1>4, <1>5, <1>10, <1>11, <2>2, <2>3 DEF PpTypes
  <2> QED  BY <1>5, <1>6, <1>8, <2>6, <2>7, <2>8, <2>9 DEF PictureInv
<1> QED  BY <1>15, <1>16

\* What is kept of the JPEG interface while nothing of it changes but the answers under way.
LEMMA AnswerTaken ==
    ASSUME PictureInv, jpeg_evts # << >>, jpeg_evts' = Tail(jpeg_evts),
           UNCHANGED <<fault, num_omx_sessions, encoder, session_handle_q, job_hist, job_queue,
                       ongoing_job_q, mgr, mgr_on, call, capture>>
    PROVE  /\ JpegTypes' /\ EncodersFree' /\ JobsApart' /\ AbortFits'
           /\ Head(jpeg_evts).job \in 1..job_hist \ ToSet(job_queue)
           /\ ~capture.burst => Head(jpeg_evts).job # encoder[1].busy
<1>1. /\ JpegTypes /\ EncodersFree /\ JobsApart /\ AbortFits
      /\ jpeg_evts \in Seq(JpegEvents)
  BY DEF PictureInv, JpegTypes
<1>2. /\ Tail(jpeg_evts) \in Seq(JpegEvents)
      /\ ToSet(jpeg_evts) = ToSet(Tail(jpeg_evts)) \cup {Head(jpeg_evts)}
  BY <1>1, TailFacts
<1>3. JpegTypes'  BY <1>1, <1>2 DEF JpegTypes
<1>4. EncodersFree'  BY <1>1 DEF EncodersFree, InSession, Aborting, OneOf, ToSet
<1>5. JobsApart'
  <2>1. UNCHANGED ToSet(job_queue)  BY DEF ToSet
  <2> QED  BY <1>1, <1>2, <2>1 DEF JobsApart, OneOf
<1>6. AbortFits'  BY <1>1 DEF AbortFits, Aborting, InSession
<1>7. /\ Head(jpeg_evts).job \in 1..job_hist \ ToSet(job_queue)
      /\ ~capture.burst => Head(jpeg_evts).job # encoder[1].busy
  BY <1>1, <1>2 DEF JobsApart
<1> QED  BY <1>3, <1>4, <1>5, <1>6, <1>7

\* An answer is handled: the jobs of its id leave.
LEMMA HandleJpegEvtStep ==
    ASSUME PictureInv, HandleJpegEvt
    PROVE  PictureInv'
<1> DEFINE id == Head(jpeg_evts).job
           done == {i \in DOMAIN ongoingJpegQ : ongoingJpegQ[i].id = id}
           kept == DOMAIN ongoingJpegQ \ done
           gone == UNION {ongoingJpegQ[i].bufs : i \in done}
<1>1. /\ ctrl \in {"stopped", "started"} /\ jpeg_evts # << >> /\ jpeg_evts' = Tail(jpeg_evts)
      /\ IF ctrl = "stopped"
         THEN UNCHANGED <<out, pp_cmds, ongoingJpegQ>>
         ELSE /\ ongoingJpegQ' = At(ongoingJpegQ, kept) /\ out' = out \ gone
              /\ SendCmd(IF inputPPQ = << >> THEN <<"NEXT">> ELSE <<"NEXT", "NEXT">>)
      /\ UNCHANGED <<fault, num_omx_sessions, encoder, session_handle_q, job_hist, job_queue,
                     ongoing_job_q, mgr, mgr_on, call, capture>>
      /\ UNCHANGED <<ctrl, pics, left, pp_pc, is_active, new_session, inputPPQ, ongoingPPQ,
                     inputJpegQ, inputRawQ, aborted, reprocessing, given, jobs>>
  BY DEF HandleJpegEvt, sessionVars, mgrVars
<1>2. /\ JpegTypes' /\ EncodersFree' /\ JobsApart' /\ AbortFits'
      /\ id \in 1..job_hist \ ToSet(job_queue)
      /\ ~capture.burst => id # encoder[1].busy
  BY <1>1, AnswerTaken
<1>3. /\ PpTypes /\ FramesApart /\ JobsKnown /\ InputsHeld /\ JobsApart /\ JpegTypes
      /\ EncodersFree
      /\ ongoingJpegQ \in Seq(PpJob) /\ SoundJobs(ongoingJpegQ)
  BY DEF PictureInv, PpTypes, FramesApart
<1>4. CASE ctrl = "stopped"
  <2>1. UNCHANGED <<out, pp_cmds, ongoingJpegQ>>  BY <1>1, <1>4
  <2>2. FramesApart' /\ BuffersOwned' /\ JobsKnown'
    BY <1>1, <2>1, QueuesKept DEF ppQueues
  <2>3. InputsHeld'  BY <1>1, <2>1, InputsKept DEF FramesOf
  <2>4. PpTypes'  BY <1>1, <1>3, <2>1 DEF PpTypes
  <2>5. ControlFits'  BY <1>1, <2>1 DEF PictureInv, ControlFits, OneOf, ToSet
  <2> QED  BY <1>2, <2>2, <2>3, <2>4, <2>5 DEF PictureInv
<1>5. CASE ctrl # "stopped"
  <2>1. /\ ongoingJpegQ' = At(ongoingJpegQ, kept) /\ out' = out \ gone
        /\ SendCmd(IF inputPPQ = << >> THEN <<"NEXT">> ELSE <<"NEXT", "NEXT">>)
    BY <1>1, <1>5
  <2>2. ControlFits' /\ pp_cmds' \in Seq(PpCommands)
    <3> DEFINE cmds == IF inputPPQ = << >> THEN <<"NEXT">> ELSE <<"NEXT", "NEXT">>
    <3>1. <<"NEXT">> \in Seq({"NEXT"}) /\ <<"NEXT", "NEXT">> \in Seq({"NEXT"})  OBVIOUS
    <3>2. cmds \in Seq({"NEXT"}) /\ SendCmd(cmds)  BY <2>1, <3>1
    <3> HIDE DEF cmds
    <3> QED  BY <1>1, <3>2, NextsSent
  <2>3. kept \in SUBSET DOMAIN ongoingJpegQ /\ DOMAIN ongoingJpegQ \ kept = done  OBVIOUS
  <2>4. /\ ongoingJpegQ' \in Seq(PpJob) /\ SoundJobs(ongoingJpegQ')
        /\ FramesOf(ongoingJpegQ')
               = FramesOf(ongoingJpegQ) \ {ongoingJpegQ[i].frame : i \in done}
        /\ BufsIn(ongoingJpegQ') = BufsIn(ongoingJpegQ) \ gone
        /\ ToSet(ongoingJpegQ') \subseteq ToSet(ongoingJpegQ)
    <3>1. /\ ongoingJpegQ' \in Seq(PpJob)
          /\ ToSet(ongoingJpegQ') = {ongoingJpegQ[i] : i \in kept}
          /\ \A x : OneOf(ongoingJpegQ, x) => OneOf(ongoingJpegQ', x)
      <4> HIDE DEF kept
      <4> QED  BY <1>3, <2>1, <2>3, OneKept
    <3> HIDE DEF kept, done
    <3>2. /\ SoundJobs(ongoingJpegQ')
          /\ FramesOf(ongoingJpegQ')
                 = FramesOf(ongoingJpegQ)
                       \ {ongoingJpegQ[i].frame : i \in DOMAIN ongoingJpegQ \ kept}
          /\ BufsIn(ongoingJpegQ')
                 = BufsIn(ongoingJpegQ)
                       \ UNION {ongoingJpegQ[i].bufs : i \in DOMAIN ongoingJpegQ \ kept}
          /\ ToSet(ongoingJpegQ') \subseteq ToSet(ongoingJpegQ)
      BY <1>3, <2>3, <3>1, JobsKept
    <3> QED  BY <2>3, <3>1, <3>2
  <2>5. /\ gone \subseteq BufsIn(ongoingJpegQ)
        /\ \A i \in done : ongoingJpegQ[i].frame = jobs[id]
    <3>1. gone \subseteq BufsIn(ongoingJpegQ)  BY DEF BufsIn
    <3>2. ASSUME NEW i \in done  PROVE ongoingJpegQ[i].frame = jobs[id]
      <4>1. ongoingJpegQ[i] \in ToSet(ongoingJpegQ) /\ ongoingJpegQ[i].id = id  BY DEF ToSet
      <4>2. job_hist \in Nat /\ id # 0  BY <1>2, <1>3, FirstEncoder
      <4> QED  BY <1>3, <4>1, <4>2 DEF JobsKnown
    <3> QED  BY <3>1, <3>2
  <2>6. /\ UNCHANGED <<FramesOf(inputPPQ), FramesOf(ongoingPPQ), FramesOf(inputJpegQ)>>
        /\ UNCHANGED <<FramesOf(inputRawQ), FramesOf(aborted), Unstarted>>
        /\ UNCHANGED <<BufsIn(inputPPQ), BufsIn(ongoingPPQ), BufsIn(inputJpegQ)>>
        /\ UNCHANGED <<BufsIn(inputRawQ), BufsIn(aborted)>>
        /\ UNCHANGED <<ToSet(inputPPQ), ToSet(ongoingPPQ), ToSet(inputJpegQ)>>
        /\ UNCHANGED <<ToSet(aborted), ToSet(jobs), ToSet(job_queue)>>
        /\ SoundJobs(inputPPQ)' /\ SoundJobs(ongoingPPQ)' /\ SoundJobs(inputJpegQ)'
        /\ SoundJobs(inputRawQ)' /\ SoundJobs(aborted)'
    BY <1>1, <1>3 DEF FramesOf, BufsIn, ToSet, FramesApart, Unstarted
  <2> HIDE DEF gone, kept, done, id
  <2>7. out' \subseteq out /\ FramesOf(ongoingJpegQ') \subseteq FramesOf(ongoingJpegQ)
    BY <2>1, <2>4
  <2>8. FramesApart'  BY <1>1, <1>3, <2>4, <2>6, <2>7 DEF FramesApart
  <2>9. BuffersOwned'
    <3>1. gone \cap (left \cup given) = {}  BY <2>5 DEF PictureInv, BuffersOwned
    <3>2. /\ BufsIn(inputPPQ)' = BufsIn(inputPPQ) \ gone
          /\ BufsIn(ongoingPPQ)' = BufsIn(ongoingPPQ) \ gone
          /\ BufsIn(inputJpegQ)' = BufsIn(inputJpegQ) \ gone
          /\ BufsIn(ongoingJpegQ)' = BufsIn(ongoingJpegQ) \ gone
          /\ BufsIn(inputRawQ)' = BufsIn(inputRawQ) \ gone
          /\ BufsIn(aborted)' = BufsIn(aborted) \ gone
      BY <2>4, <2>5, <2>6, BufsApart
    <3> QED  BY <1>1, <2>1, <3>1, <3>2, BuffersLeave
  <2>10. JobsKnown'  BY <1>1, <1>3, <2>4, <2>6 DEF JobsKnown
  <2>11. InputsHeld'
    <3>1. job_hist \in Nat /\ DOMAIN jobs = 1..job_hist
          /\ \A i, j \in 1..job_hist : jobs[i] = jobs[j] => i = j
      <4>1. jobs \in Seq(PicFrames) /\ Len(jobs) = job_hist  BY <1>3 DEF JobsKnown, PpTypes
      <4>2. job_hist \in Nat /\ DOMAIN jobs = 1..job_hist  BY <1>3, <4>1, FirstEncoder
      <4> QED  BY <1>3, <4>2 DEF JobsKnown
    <3>2. \A j \in 1..job_hist : j # id /\ jobs[j] \in FramesOf(ongoingJpegQ)
                                     => jobs[j] \in FramesOf(ongoingJpegQ')
      BY <1>2, <2>4, <2>5, <3>1
    <3>3. \A j \in ToSet(job_queue) \ {EXIT} : j \in 1..job_hist /\ j # id
      <4>1. \A j \in ToSet(job_queue) \ {EXIT} : j \in JobIds /\ j <= job_hist
        BY <1>3 DEF JpegTypes, JobsApart, ToSet
      <4> QED  BY <1>2, <3>1, <4>1 DEF JobIds
    <3>4. encoder[1].busy # 0 => encoder[1].busy \in 1..job_hist
      BY <1>3, FirstEncoder DEF EncodersFree, JobsApart
    <3> QED  BY <1>1, <1>2, <1>3, <2>6, <3>2, <3>3, <3>4 DEF InputsHeld
  <2>12. PpTypes'  BY <1>1, <1>3, <2>2, <2>4, <2>7 DEF PpTypes
  <2> QED  BY <1>2, <2>2, <2>8, <2>9, <2>10, <2>11, <2>12 DEF PictureInv
<1> QED  BY <1>4, <1>5

\* A session is made where there is none.
LEMMA SessionMade ==
    ASSUME PictureInv, num_omx_sessions = 0, NEW n \in Encoders, CreateSession(n),
           ~capture.burst => n <= 1, call.op = "none",
           UNCHANGED <<fault, ongoing_job_q, mgr, mgr_on, call, capture>>
    PROVE  /\ EncodersFree' /\ AbortFits' /\ encoder' = encoder
           /\ num_omx_sessions' \in 0..MM_JPEG_CONCURRENT_SESSIONS_COUNT
           /\ session_handle_q' \in Seq(Encoders)
<1>1. /\ JpegTypes /\ EncodersFree /\ AbortFits /\ encoder \in [Encoders -> Encoder]
      /\ num_omx_sessions' = n /\ encoder' = [h \in Encoders |-> FreshEncoder]
      /\ session_handle_q' = [h \in 1..n |-> h] /\ 1 \in Encoders
  BY FirstEncoder DEF PictureInv, JpegTypes, CreateSession
<1>2. n \in Nat /\ n <= MM_JPEG_CONCURRENT_SESSIONS_COUNT /\ 1..n \subseteq Encoders
  BY Bounds DEF Encoders
<1>3. InSession = {} /\ \A h \in Encoders : encoder[h] = FreshEncoder
  <2>1. InSession = {}  BY DEF InSession
  <2> QED  BY <1>1, <2>1 DEF EncodersFree
<1>4. encoder' = encoder  BY <1>1, <1>3
<1>5. /\ FreshEncoder.busy = 0 /\ FreshEncoder.encoding = FALSE
      /\ FreshEncoder.abort_state = "NONE"
  BY DEF FreshEncoder
<1>6. mgr # "fills" /\ mgr_on = 0  BY <1>1, <1>3 DEF EncodersFree
<1>7. /\ session_handle_q' \in Seq(Encoders) /\ ToSet(session_handle_q') = 1..n
      /\ \A h : OneOf(session_handle_q', h)
  <2>1. session_handle_q' \in Seq(Encoders)  BY <1>1, <1>2
  <2> QED  BY <1>1, <2>1 DEF ToSet, OneOf
<1>8. EncodersFree'
  <2>1. InSession' = 1..n  BY <1>1 DEF InSession
  <2> HIDE DEF FreshEncoder
  <2>2. ToSet(session_handle_q') = {h \in InSession' : ~encoder'[h].encoding}
    BY <1>1, <1>2, <1>5, <1>7, <2>1
  <2> QED  BY <1>1, <1>3, <1>4, <1>5, <1>6, <1>7, <2>1, <2>2 DEF EncodersFree
<1>9. AbortFits'
  <2>1. ~Aborting /\ ~call.waits /\ ~Aborting'  BY <1>1 DEF AbortFits, Aborting
  <2>2. encoder'[1].busy = 0 /\ encoder'[1].abort_state = "NONE"  BY <1>1, <1>3, <1>4, <1>5
  <2> QED  BY <1>1, <2>1, <2>2 DEF AbortFits
<1> QED  BY <1>1, <1>2, <1>4, <1>7, <1>8, <1>9

\* START_DATA_PROC is taken.
LEMMA TakeStartStep ==
    ASSUME PictureInv, TakeStart
    PROVE  PictureInv'
<1>1. /\ Takes("START") /\ is_active' = TRUE /\ ctrl' = "started"
      /\ UNCHANGED <<fault, job_hist, job_queue, ongoing_job_q, mgr, mgr_on, call, jpeg_evts>>
      /\ UNCHANGED <<capture, pics, out, pp_pc, ppQueues, aborted,
                     reprocessing, left, given, jobs>>
  BY DEF TakeStart, mgrVars, history
<1>2. /\ pp_cmds' \in Seq(PpCommands) /\ ToSet(pp_cmds') \subseteq ToSet(pp_cmds)
      /\ "START" \in ToSet(pp_cmds) /\ "START" \notin ToSet(pp_cmds')
      /\ OneOf(pp_cmds', "START") /\ OneOf(pp_cmds', "STOP")
      /\ pp_pc = "waits" /\ call.op = "none" /\ aborted = << >>
  BY <1>1, PpCommandTaken DEF PictureInv, ControlFits
<1>3. ctrl = "starting" /\ new_session /\ num_omx_sessions = 0
  BY <1>2 DEF PictureInv, ControlFits
<1>4. \/ UNCHANGED <<num_omx_sessions, encoder, session_handle_q, new_session>>
      \/ /\ CreateSession(IF capture.burst THEN MM_JPEG_CONCURRENT_SESSIONS_COUNT ELSE 1)
         /\ new_session' = FALSE
  BY DEF TakeStart
<1>5. /\ EncodersFree' /\ AbortFits' /\ encoder' = encoder
      /\ num_omx_sessions' \in 0..MM_JPEG_CONCURRENT_SESSIONS_COUNT
      /\ session_handle_q' \in Seq(Encoders)
      /\ new_session' \in BOOLEAN /\ (new_session' => num_omx_sessions' = 0)
  <2>1. CASE UNCHANGED <<num_omx_sessions, encoder, session_handle_q, new_session>>
    <3>1. EncodersFree'
      BY <1>1, <2>1 DEF PictureInv, EncodersFree, InSession, Aborting, OneOf, ToSet
    <3>2. AbortFits'  BY <1>1, <2>1 DEF PictureInv, AbortFits, Aborting, InSession
    <3> QED  BY <1>3, <2>1, <3>1, <3>2 DEF PictureInv, JpegTypes, PpTypes
  <2>2. CASE /\ CreateSession(IF capture.burst THEN MM_JPEG_CONCURRENT_SESSIONS_COUNT ELSE 1)
             /\ new_session' = FALSE
    <3> DEFINE n == IF capture.burst THEN MM_JPEG_CONCURRENT_SESSIONS_COUNT ELSE 1
    <3>1. n \in Encoders /\ (~capture.burst => n <= 1) /\ CreateSession(n)
      BY <2>2, Bounds DEF Encoders
    <3> HIDE DEF n
    <3> QED  BY <1>1, <1>2, <1>3, <2>2, <3>1, SessionMade
  <2> QED  BY <1>4, <2>1, <2>2
<1>6. JpegTypes'  BY <1>1, <1>5 DEF PictureInv, JpegTypes
<1>7. JobsApart'  BY <1>1, <1>5 DEF PictureInv, JobsApart, OneOf, ToSet
<1>8. FramesApart' /\ BuffersOwned' /\ JobsKnown'  BY <1>1, <1>2, QueuesKept
<1>9. InputsHeld'
  <2>1. UNCHANGED ongoingJpegQ  BY <1>1 DEF ppQueues
  <2> QED  BY <1>1, <1>5, <2>1, InputsKept DEF FramesOf
<1>10. PpTypes'  BY <1>1, <1>2, <1>5 DEF PictureInv, PpTypes, ppQueues
<1>11. ControlFits'  BY <1>1, <1>2, <1>3, <1>5 DEF PictureInv, ControlFits
<1> QED  BY <1>5, <1>6, <1>7, <1>8, <1>9, <1>10, <1>11 DEF PictureInv

\* start_job() for the frame of a job for the encoder, in a session made for it if there is
\* none.
LEMMA JobStarts ==
    ASSUME PictureInv, Takes("NEXT"), is_active, inputJpegQ # << >>, job_hist < MaxJobs,
           StartJob, inputJpegQ' = Tail(inputJpegQ),
           IF new_session
           THEN CreateSession(IF capture.burst THEN MM_JPEG_CONCURRENT_SESSIONS_COUNT ELSE 1)
           ELSE UNCHANGED <<num_omx_sessions, encoder, session_handle_q>>,
           new_session' = FALSE, pp_pc' = "remembers",
           ongoingJpegQ' = Append(ongoingJpegQ, Head(inputJpegQ)),
           jobs' = Append(jobs, Head(inputJpegQ).frame),
           UNCHANGED <<fault, ongoing_job_q, mgr, mgr_on, call, jpeg_evts>>,
           UNCHANGED <<capture, ctrl, pics, out, is_active, inputPPQ, ongoingPPQ, inputRawQ,
                       aborted, reprocessing, left, given>>
    PROVE  PictureInv'
<1> DEFINE job == Head(inputJpegQ)
           f == job.frame
           new == job_hist + 1
<1>1. /\ JpegTypes /\ EncodersFree /\ JobsApart /\ AbortFits /\ InputsHeld
      /\ PpTypes /\ ControlFits /\ FramesApart /\ JobsKnown
      /\ inputJpegQ \in Seq(PpJob) /\ SoundJobs(inputJpegQ)
      /\ ongoingJpegQ \in Seq(PpJob) /\ SoundJobs(ongoingJpegQ)
      /\ jobs \in Seq(PicFrames) /\ Len(jobs) = job_hist
  BY DEF PictureInv, PpTypes, FramesApart, JobsKnown
<1>2. /\ pp_cmds' \in Seq(PpCommands) /\ ToSet(pp_cmds') \subseteq ToSet(pp_cmds)
      /\ OneOf(pp_cmds', "START") /\ OneOf(pp_cmds', "STOP")
      /\ pp_pc = "waits" /\ call.op = "none" /\ aborted = << >>
  BY PpCommandTaken
<1>3. /\ 1 \in Encoders /\ job_hist \in Nat /\ 1..job_hist \subseteq JobIds
      /\ new \in JobIds /\ new \in Nat /\ new \in 1..new /\ new # EXIT
      /\ new \notin 1..job_hist /\ 1..job_hist \subseteq 1..new /\ job_hist <= new
      /\ job_hist' = new /\ job_queue' = Append(job_queue, new) /\ new \in 0..MaxJobs
  <2>1. 1 \in Encoders /\ job_hist \in Nat /\ 1..job_hist \subseteq JobIds
    BY <1>1, FirstEncoder
  <2> QED  BY <2>1, Bounds DEF JobIds, EXIT, StartJob
<1>4. /\ Tail(inputJpegQ) \in Seq(PpJob) /\ SoundJobs(Tail(inputJpegQ)) /\ job \in PpJob
      /\ job \in ToSet(inputJpegQ) /\ ToSet(Tail(inputJpegQ)) \subseteq ToSet(inputJpegQ)
      /\ f \in FramesOf(inputJpegQ) /\ job.bufs \subseteq BufsIn(inputJpegQ)
      /\ \A b \in job.bufs : b[2] = job.frame
      /\ FramesOf(Tail(inputJpegQ)) = FramesOf(inputJpegQ) \ {f}
      /\ BufsIn(Tail(inputJpegQ)) = BufsIn(inputJpegQ) \ job.bufs
  BY <1>1, JobTaken
<1>5. /\ f \in PicFrames /\ job.id = 0 /\ job.bufs # {} /\ f \in 1..pics
      /\ f \notin ToSet(jobs) /\ f \notin FramesOf(ongoingJpegQ) /\ f \notin FramesOf(aborted)
      /\ f \notin FramesOf(inputPPQ) /\ f \notin FramesOf(ongoingPPQ)
      /\ f \notin FramesOf(inputRawQ)
  <2>1. f \in PicFrames  BY <1>4 DEF PpJob
  <2>2. job.id = 0 /\ job.bufs # {}  BY <1>1, <1>4 DEF JobsKnown
  <2> HIDE DEF f, job
  <2> QED  BY <1>1, <1>4, <2>1, <2>2 DEF JobsKnown, FramesApart, Unstarted
<1>6. /\ EncodersFree' /\ AbortFits' /\ encoder' = encoder
      /\ num_omx_sessions' \in 0..MM_JPEG_CONCURRENT_SESSIONS_COUNT
      /\ session_handle_q' \in Seq(Encoders)
  <2>1. CASE new_session
    <3> DEFINE n == IF capture.burst THEN MM_JPEG_CONCURRENT_SESSIONS_COUNT ELSE 1
    <3>1. n \in Encoders /\ (~capture.burst => n <= 1) /\ CreateSession(n)
      BY <2>1, Bounds DEF Encoders
    <3>2. num_omx_sessions = 0  BY <1>1, <2>1 DEF ControlFits
    <3> HIDE DEF n
    <3> QED  BY <1>2, <3>1, <3>2, SessionMade
  <2>2. CASE ~new_session
    <3>1. UNCHANGED <<num_omx_sessions, encoder, session_handle_q>>  BY <2>2
    <3>2. EncodersFree'  BY <1>1, <3>1 DEF EncodersFree, InSession, Aborting, OneOf, ToSet
    <3>3. AbortFits'  BY <1>1, <3>1 DEF AbortFits, Aborting, InSession
    <3> QED  BY <1>1, <3>1, <3>2, <3>3 DEF JpegTypes
  <2> QED  BY <2>1, <2>2
<1> HIDE DEF job, f, new
<1>7. /\ job_queue' \in Seq({EXIT} \cup JobIds)
      /\ ToSet(job_queue') = ToSet(job_queue) \cup {new}
      /\ \A j \in JobIds : OneOf(job_queue', j)
  <2>1. job_queue \in Seq({EXIT} \cup JobIds) /\ \A j \in JobIds : OneOf(job_queue, j)
    BY <1>1 DEF JpegTypes, JobsApart
  <2>2. new \notin ToSet(job_queue)
    <3>1. ~(new <= job_hist)  BY <1>3 DEF new
    <3> QED  BY <1>1, <3>1 DEF JobsApart
  <2>3. new \in {EXIT} \cup JobIds  BY <1>3
  <2>4. /\ Append(job_queue, new) \in Seq({EXIT} \cup JobIds)
        /\ ToSet(Append(job_queue, new)) = ToSet(job_queue) \cup {new}
    BY <2>1, <2>3, AppendFacts
  <2>5. \A x : OneOf(job_queue, x) /\ (x = new => x \notin ToSet(job_queue))
                  => OneOf(Append(job_queue, new), x)
    BY <2>1, <2>3, OneAppended
  <2> QED  BY <1>3, <2>1, <2>2, <2>4, <2>5
<1>8. JpegTypes'  BY <1>1, <1>3, <1>6, <1>7 DEF JpegTypes
<1>9. \A j \in 1..job_hist : j # new  BY <1>3
<1>10. JobsApart'
  <2>1. \A j \in ToSet(job_queue') : j <= job_hist'
    <3>1. \A j \in ToSet(job_queue) : j \in Nat /\ j <= job_hist
      <4>1. \A j \in ToSet(job_queue) : j \in {EXIT} \cup JobIds
        BY <1>1 DEF JpegTypes, ToSet
      <4> QED  BY <1>1, <4>1 DEF JobsApart, EXIT, JobIds
    <3>2. \A j \in ToSet(job_queue) : j <= new  BY <1>3, <3>1
    <3> QED  BY <1>3, <1>7, <3>2
  <2>2. UNCHANGED ToSet(jpeg_evts)  BY DEF ToSet
  <2>3. \A j \in 1..job_hist : j \in 1..new /\ j # new  BY <1>3, <1>9
  <2>4. \A h \in Encoders : encoder[h].encoding => encoder[h].job \in 1..new \ ToSet(job_queue')
    BY <1>1, <1>7, <2>3 DEF JobsApart
  <2>5. \A e \in ToSet(jpeg_evts) : e.job \in 1..new \ ToSet(job_queue')
    BY <1>1, <1>7, <2>3 DEF JobsApart
  <2> QED  BY <1>1, <1>3, <1>6, <1>7, <2>1, <2>2, <2>4, <2>5 DEF JobsApart
<1>11. /\ ongoingJpegQ' \in Seq(PpJob) /\ SoundJobs(ongoingJpegQ')
       /\ FramesOf(ongoingJpegQ') = FramesOf(ongoingJpegQ) \cup {f}
       /\ BufsIn(ongoingJpegQ') = BufsIn(ongoingJpegQ) \cup job.bufs
       /\ ToSet(ongoingJpegQ') = ToSet(ongoingJpegQ) \cup {job}
  <2>1. ongoingJpegQ' = Append(ongoingJpegQ, job) /\ job.frame = f  BY DEF job, f
  <2>2. job.frame \notin FramesOf(ongoingJpegQ)  BY <1>5, <2>1
  <2>3. /\ Append(ongoingJpegQ, job) \in Seq(PpJob) /\ SoundJobs(Append(ongoingJpegQ, job))
        /\ FramesOf(Append(ongoingJpegQ, job)) = FramesOf(ongoingJpegQ) \cup {job.frame}
        /\ BufsIn(Append(ongoingJpegQ, job)) = BufsIn(ongoingJpegQ) \cup job.bufs
        /\ ToSet(Append(ongoingJpegQ, job)) = ToSet(ongoingJpegQ) \cup {job}
    BY <1>1, <1>4, <2>2, JobAppended
  <2> QED  BY <2>1, <2>3
<1>12. /\ jobs' \in Seq(PicFrames) /\ Len(jobs') = new /\ DOMAIN jobs' = 1..new
       /\ jobs'[new] = f /\ \A j \in 1..job_hist : jobs'[j] = jobs[j]
       /\ ToSet(jobs') = ToSet(jobs) \cup {f}
       /\ \A i, j \in 1..new : jobs'[i] = jobs'[j] => i = j
  <2>1. jobs' = Append(jobs, f)  BY DEF job, f
  <2>2. jobs' \in Seq(PicFrames) /\ ToSet(jobs') = ToSet(jobs) \cup {f}
    BY <1>1, <1>5, <2>1, AppendFacts
  <2>3. /\ Len(jobs') = new /\ jobs'[new] = f /\ \A j \in 1..job_hist : jobs'[j] = jobs[j]
    BY <1>1, <1>3, <1>5, <2>1 DEF new
  <2>4. DOMAIN jobs' = 1..new /\ DOMAIN jobs = 1..job_hist  BY <1>1, <1>3, <2>2, <2>3
  <2>5. \A i, j \in 1..job_hist : jobs[i] = jobs[j] => i = j
    BY <1>1, <2>4 DEF JobsKnown
  <2>6. \A i \in 1..job_hist : jobs[i] # f  BY <1>5, <2>4 DEF ToSet
  <2>7. \A i \in 1..new : i = new \/ i \in 1..job_hist  BY <1>3 DEF new
  <2>8. \A i, j \in 1..new : jobs'[i] = jobs'[j] => i = j
    BY <2>3, <2>5, <2>6, <2>7
  <2> QED  BY <2>2, <2>3, <2>4, <2>8
<1>13. /\ UNCHANGED <<FramesOf(inputPPQ), FramesOf(ongoingPPQ), FramesOf(inputRawQ)>>
       /\ UNCHANGED <<FramesOf(aborted), ToSet(aborted), BufsIn(aborted)>>
       /\ UNCHANGED <<BufsIn(inputPPQ), BufsIn(ongoingPPQ), BufsIn(inputRawQ)>>
       /\ UNCHANGED <<ToSet(inputPPQ), ToSet(ongoingPPQ)>>
       /\ SoundJobs(inputPPQ)' /\ SoundJobs(ongoingPPQ)' /\ SoundJobs(inputRawQ)'
       /\ SoundJobs(aborted)' /\ ToSet(aborted) = {}
  BY <1>1, <1>2 DEF FramesOf, BufsIn, ToSet, FramesApart
<1>14. /\ inputJpegQ' \in Seq(PpJob) /\ SoundJobs(inputJpegQ')
       /\ ToSet(inputJpegQ') \subseteq ToSet(inputJpegQ)
       /\ FramesOf(inputJpegQ') = FramesOf(inputJpegQ) \ {f}
       /\ BufsIn(inputJpegQ') = BufsIn(inputJpegQ) \ job.bufs
  BY <1>4
<1>15. Unstarted' = Unstarted \ {f}
  BY <1>5, <1>13, <1>14 DEF Unstarted
<1>16. FramesApart'
  <2>1. /\ (FramesOf(inputPPQ') \cup FramesOf(ongoingPPQ')) \cap FramesOf(inputJpegQ') = {}
        /\ (FramesOf(inputPPQ') \cup FramesOf(ongoingPPQ') \cup FramesOf(inputJpegQ'))
               \cap FramesOf(inputRawQ') = {}
    BY <1>1, <1>13, <1>14 DEF FramesApart
  <2>2. /\ Unstarted' \cap (FramesOf(ongoingJpegQ') \cup FramesOf(aborted')) = {}
        /\ FramesOf(ongoingJpegQ') \cap FramesOf(aborted') = {}
        /\ Unstarted' \cup FramesOf(ongoingJpegQ') \cup FramesOf(aborted') \subseteq 1..pics
    BY <1>1, <1>5, <1>11, <1>13, <1>15 DEF FramesApart
  <2> QED  BY <1>1, <1>11, <1>13, <1>14, <2>1, <2>2 DEF FramesApart
<1>17. BuffersOwned'
  <2>1. BufsIn(inputJpegQ') \cup BufsIn(ongoingJpegQ')
            = BufsIn(inputJpegQ) \cup BufsIn(ongoingJpegQ)
    BY <1>4, <1>11, <1>14
  <2> QED  BY <1>13, <2>1 DEF PictureInv, BuffersOwned
<1>18. \A j \in ToSet(ongoingJpegQ) : j.id \in 1..job_hist /\ j.frame = jobs[j.id]
  BY <1>1, <1>2 DEF JobsKnown
<1>19. JobsKnown'
  <2>1. \A j \in ToSet(inputPPQ') \cup ToSet(ongoingPPQ') \cup ToSet(inputJpegQ') : j.id = 0
    BY <1>1, <1>13, <1>14 DEF JobsKnown
  <2>2. \A j \in ToSet(ongoingJpegQ') :
            \/ j.id = 0 /\ pp_pc' = "remembers" /\ j.frame = jobs'[job_hist']
            \/ j.id \in 1..job_hist' /\ j.frame = jobs'[j.id]
    <3>1. job.frame = f  BY DEF f
    <3> QED  BY <1>3, <1>5, <1>11, <1>12, <1>18, <3>1
  <2>3. \A j \in ToSet(inputJpegQ') \cup ToSet(ongoingJpegQ') \cup ToSet(aborted') : j.bufs # {}
    BY <1>1, <1>5, <1>11, <1>13, <1>14 DEF JobsKnown
  <2>4. ToSet(jobs') \cap Unstarted' = {} /\ ToSet(jobs') \subseteq 1..pics'
    BY <1>1, <1>5, <1>12, <1>15 DEF JobsKnown
  <2>5. job_hist' # 0  BY <1>3 DEF new, EXIT
  <2> QED  BY <1>3, <1>12, <1>13, <2>1, <2>2, <2>3, <2>4, <2>5 DEF JobsKnown
<1>20. InputsHeld'
  <2>1. \A j \in ToSet(job_queue) \ {EXIT} : j \in 1..job_hist
    <3>1. \A j \in ToSet(job_queue) \ {EXIT} : j \in JobIds /\ j <= job_hist
      BY <1>1 DEF JpegTypes, JobsApart, ToSet
    <3> QED  BY <1>3, <3>1 DEF JobIds
  <2>2. \A j \in ToSet(job_queue') \ {EXIT} : jobs'[j] \in FramesOf(ongoingJpegQ')
    BY <1>1, <1>7, <1>11, <1>12, <2>1 DEF InputsHeld
  <2>3. ASSUME ~capture.burst, encoder[1].busy # 0
        PROVE  jobs'[encoder[1].busy] \in FramesOf(ongoingJpegQ') \cup FramesOf(aborted')
    <3>1. encoder[1].busy \in 1..job_hist
      BY <1>1, <1>3, <2>3 DEF EncodersFree, JobsApart
    <3> QED  BY <1>1, <1>11, <1>12, <1>13, <2>3, <3>1 DEF InputsHeld
  <2> QED  BY <1>6, <1>13, <2>2, <2>3 DEF InputsHeld
<1>21. PpTypes'  BY <1>1, <1>2, <1>11, <1>12, <1>14 DEF PpTypes
<1>22. ControlFits'  BY <1>1, <1>2 DEF ControlFits
<1> QED  BY <1>6, <1>8, <1>10, <1>16, <1>17, <1>19, <1>20, <1>21, <1>22 DEF PictureInv

\* DO_NEXT_JOB as far as the encoder is concerned.
LEMMA TakeNextStep ==
    ASSUME PictureInv, TakeNext
    PROVE  PictureInv'
<1>1. /\ Takes("NEXT") /\ is_active
      /\ UNCHANGED <<fault, ongoing_job_q, mgr, mgr_on, call, jpeg_evts>>
      /\ UNCHANGED <<capture, ctrl, pics, is_active, inputPPQ, ongoingPPQ, inputRawQ,
                     aborted, reprocessing, left, given>>
  BY DEF TakeNext, mgrVars
<1>2. /\ pp_cmds' \in Seq(PpCommands) /\ ToSet(pp_cmds') \subseteq ToSet(pp_cmds)
      /\ OneOf(pp_cmds', "START") /\ OneOf(pp_cmds', "STOP")
      /\ pp_pc = "waits" /\ call.op = "none" /\ aborted = << >>
  BY <1>1, PpCommandTaken
<1>3. ASSUME pp_pc' = "gives",
             UNCHANGED <<num_omx_sessions, encoder, session_handle_q, job_hist, job_queue,
                         job_sem, new_session, ongoingJpegQ, jobs>>
      PROVE  /\ JpegTypes' /\ EncodersFree' /\ JobsApart' /\ AbortFits'
             /\ ControlFits' /\ InputsHeld'
  <2>1. UNCHANGED jpegVars  BY <1>1, <1>3 DEF jpegVars
  <2>2. ControlFits'  BY <1>1, <1>2, <1>3 DEF PictureInv, ControlFits
  <2> QED  BY <1>1, <1>3, <2>1, <2>2, JpegKept, InputsKept DEF FramesOf
<1>4. CASE inputJpegQ = << >>
  <2>1. /\ pp_pc' = "gives"
        /\ UNCHANGED <<num_omx_sessions, encoder, session_handle_q, job_hist, job_queue,
                       job_sem, new_session, inputJpegQ, ongoingJpegQ, out, jobs>>
    BY <1>4 DEF TakeNext
  <2>2. FramesApart' /\ BuffersOwned' /\ JobsKnown'
    BY <1>1, <1>2, <2>1, QueuesKept DEF ppQueues
  <2>3. PpTypes'  BY <1>1, <1>2, <2>1 DEF PictureInv, PpTypes
  <2> QED  BY <1>3, <2>1, <2>2, <2>3 DEF PictureInv
<1>5. CASE inputJpegQ # << >>
  <2> DEFINE job == Head(inputJpegQ)
  <2>1. inputJpegQ' = Tail(inputJpegQ)  BY <1>5 DEF TakeNext
  <2>2. CASE /\ job_hist < MaxJobs /\ StartJob
             /\ IF new_session
                THEN CreateSession(IF capture.burst
                                   THEN MM_JPEG_CONCURRENT_SESSIONS_COUNT ELSE 1)
                ELSE UNCHANGED <<num_omx_sessions, encoder, session_handle_q>>
             /\ new_session' = FALSE /\ pp_pc' = "remembers"
             /\ ongoingJpegQ' = Append(ongoingJpegQ, job)
             /\ jobs' = Append(jobs, job.frame)
             /\ UNCHANGED <<out>>
    BY <1>1, <1>5, <2>1, <2>2, JobStarts
  <2>3. CASE /\ pp_pc' = "gives" /\ out' = out \ job.bufs
             /\ UNCHANGED <<num_omx_sessions, encoder, session_handle_q, job_hist,
                            job_queue, job_sem, new_session, ongoingJpegQ, jobs>>
    <3>1. /\ PpTypes /\ FramesApart /\ JobsKnown
          /\ inputJpegQ \in Seq(PpJob) /\ SoundJobs(inputJpegQ)
      BY DEF PictureInv, PpTypes, FramesApart
    <3>2. /\ inputJpegQ' \in Seq(PpJob) /\ SoundJobs(inputJpegQ')
          /\ ToSet(inputJpegQ') \subseteq ToSet(inputJpegQ)
          /\ job.bufs \subseteq BufsIn(inputJpegQ)
          /\ FramesOf(inputJpegQ') = FramesOf(inputJpegQ) \ {job.frame}
          /\ BufsIn(inputJpegQ') = BufsIn(inputJpegQ) \ job.bufs
      BY <1>5, <2>1, <3>1, JobTaken
    <3>3. /\ UNCHANGED <<FramesOf(inputPPQ), FramesOf(ongoingPPQ), FramesOf(inputRawQ)>>
          /\ UNCHANGED <<FramesOf(ongoingJpegQ), FramesOf(aborted)>>
          /\ UNCHANGED <<BufsIn(inputPPQ), BufsIn(ongoingPPQ), BufsIn(inputRawQ)>>
          /\ UNCHANGED <<BufsIn(ongoingJpegQ), BufsIn(aborted)>>
          /\ UNCHANGED <<ToSet(inputPPQ), ToSet(ongoingPPQ), ToSet(ongoingJpegQ)>>
          /\ UNCHANGED <<ToSet(aborted), ToSet(jobs)>>
          /\ SoundJobs(inputPPQ)' /\ SoundJobs(ongoingPPQ)' /\ SoundJobs(inputRawQ)'
          /\ SoundJobs(ongoingJpegQ)' /\ SoundJobs(aborted)'
      BY <1>1, <2>3, <3>1 DEF FramesOf, BufsIn, ToSet, FramesApart
    <3> HIDE DEF job
    <3>4. out' \subseteq out  BY <2>3
    <3>5. FramesApart'  BY <1>1, <3>1, <3>2, <3>3, <3>4 DEF FramesApart, Unstarted
    <3>6. BuffersOwned'
      <4>1. job.bufs \cap (left \cup given) = {}  BY <3>2 DEF PictureInv, BuffersOwned
      <4>2. /\ BufsIn(inputPPQ)' = BufsIn(inputPPQ) \ job.bufs
            /\ BufsIn(ongoingPPQ)' = BufsIn(ongoingPPQ) \ job.bufs
            /\ BufsIn(inputJpegQ)' = BufsIn(inputJpegQ) \ job.bufs
            /\ BufsIn(ongoingJpegQ)' = BufsIn(ongoingJpegQ) \ job.bufs
            /\ BufsIn(inputRawQ)' = BufsIn(inputRawQ) \ job.bufs
            /\ BufsIn(aborted)' = BufsIn(aborted) \ job.bufs
        BY <3>2, <3>3, BufsApart
      <4> QED  BY <1>1, <2>3, <4>1, <4>2, BuffersLeave
    <3>7. JobsKnown'  BY <1>1, <1>2, <2>3, <3>1, <3>2, <3>3 DEF JobsKnown, Unstarted
    <3>8. PpTypes'  BY <1>1, <1>2, <2>3, <3>1, <3>2, <3>4 DEF PpTypes
    <3> QED  BY <1>3, <2>3, <3>5, <3>6, <3>7, <3>8 DEF PictureInv
  <2> QED  BY <1>5, <2>2, <2>3 DEF TakeNext
<1> QED  BY <1>4, <1>5

\* A job of the ongoing ones is aborted.
LEMMA AbortNextJobStep ==
    ASSUME PictureInv, AbortNextJob
    PROVE  PictureInv'
<1> DEFINE job == Head(ongoingJpegQ)
           j == job.id
           f == job.frame
           left_over == {i \in DOMAIN job_queue : job_queue[i] # j}
<1>1. /\ pp_pc = "aborts" /\ aborted = << >> /\ ongoingJpegQ # << >>
      /\ aborted' = <<job>> /\ ongoingJpegQ' = Tail(ongoingJpegQ)
      /\ call.op = "none" /\ mgr # "fills"
      /\ job_queue' = At(job_queue, left_over)
      /\ ongoing_job_q' = (IF j \in ToSet(job_queue) THEN ongoing_job_q
                           ELSE ongoing_job_q \ {j})
      /\ call' = (IF j \notin ToSet(job_queue) /\ j \in ongoing_job_q
                  THEN [op |-> "abort", at |-> 1, waits |-> FALSE]
                  ELSE [NoCall EXCEPT !.op = "returned"])
      /\ UNCHANGED <<fault, num_omx_sessions, encoder, session_handle_q, job_hist,
                     mgr, mgr_on, jpeg_evts>>
      /\ UNCHANGED <<capture, ctrl, pics, out, left, pp_cmds, pp_pc, is_active,
                     new_session, inputPPQ, ongoingPPQ, inputJpegQ, inputRawQ, reprocessing,
                     given, jobs>>
  BY DEF AbortNextJob, AbortJob, JobLockFree, sessionVars, mgrVars, history
<1>2. /\ JpegTypes /\ EncodersFree /\ JobsApart /\ AbortFits /\ InputsHeld
      /\ PpTypes /\ ControlFits /\ FramesApart /\ JobsKnown
      /\ ongoingJpegQ \in Seq(PpJob) /\ SoundJobs(ongoingJpegQ)
      /\ job_queue \in Seq({EXIT} \cup JobIds)
      /\ jobs \in Seq(PicFrames) /\ Len(jobs) = job_hist
  BY DEF PictureInv, JpegTypes, PpTypes, FramesApart, JobsKnown
<1>3. /\ Tail(ongoingJpegQ) \in Seq(PpJob) /\ SoundJobs(Tail(ongoingJpegQ)) /\ job \in PpJob
      /\ job \in ToSet(ongoingJpegQ) /\ ToSet(Tail(ongoingJpegQ)) \subseteq ToSet(ongoingJpegQ)
      /\ f \in FramesOf(ongoingJpegQ) /\ job.bufs \subseteq BufsIn(ongoingJpegQ)
      /\ \A b \in job.bufs : b[2] = f
      /\ FramesOf(Tail(ongoingJpegQ)) = FramesOf(ongoingJpegQ) \ {f}
      /\ BufsIn(Tail(ongoingJpegQ)) = BufsIn(ongoingJpegQ) \ job.bufs
  BY <1>1, <1>2, JobTaken
<1>4. /\ 1 \in Encoders /\ job_hist \in Nat /\ DOMAIN jobs = 1..job_hist
      /\ j \in 1..job_hist /\ j # 0 /\ jobs[j] = f /\ job.bufs # {}
  <2>1. 1 \in Encoders /\ job_hist \in Nat  BY <1>2, FirstEncoder
  <2>2. j \in 1..job_hist /\ jobs[j] = f /\ job.bufs # {}  BY <1>1, <1>2, <1>3 DEF JobsKnown
  <2> QED  BY <1>2, <2>1, <2>2
<1>5. /\ job_queue' \in Seq({EXIT} \cup JobIds)
      /\ ToSet(job_queue') = ToSet(job_queue) \ {j}
      /\ \A i \in JobIds : OneOf(job_queue', i)
  <2>1. left_over \in SUBSET DOMAIN job_queue  OBVIOUS
  <2>2. {job_queue[i] : i \in left_over} = ToSet(job_queue) \ {j}  BY DEF ToSet
  <2>3. /\ At(job_queue, left_over) \in Seq({EXIT} \cup JobIds)
        /\ ToSet(At(job_queue, left_over)) = {job_queue[i] : i \in left_over}
        /\ \A x : OneOf(job_queue, x) => OneOf(At(job_queue, left_over), x)
    <3> HIDE DEF left_over
    <3> QED  BY <1>2, <2>1, OneKept
  <2> HIDE DEF left_over
  <2> QED  BY <1>1, <1>2, <2>2, <2>3 DEF JobsApart
<1>6. /\ call'.op \in {"abort", "returned"} /\ call'.waits = FALSE /\ call'.at \in {0, 1}
      /\ call' \in Calls
      /\ j \notin ToSet(job_queue) /\ j \in ongoing_job_q => call'.op = "abort"
  BY <1>1 DEF NoCall, Calls
<1>7. /\ aborted' \in Seq(PpJob) /\ SoundJobs(aborted') /\ FramesOf(aborted') = {f}
      /\ BufsIn(aborted') = job.bufs /\ ToSet(aborted') = {job} /\ aborted' # << >>
  <2>1. DOMAIN <<job>> = {1} /\ <<job>>[1] = job /\ <<job>> \in Seq(PpJob) /\ <<job>> # << >>
    BY <1>3
  <2> HIDE DEF job, j
  <2> DEFINE q == <<job>>
  <2>2. aborted' = q /\ DOMAIN q = {1} /\ q[1] = job /\ q \in Seq(PpJob) /\ q # << >>
    BY <1>1, <2>1
  <2> HIDE DEF q
  <2> QED  BY <1>3, <2>2 DEF SoundJobs, FramesOf, BufsIn, ToSet
<1>8. /\ UNCHANGED <<FramesOf(inputPPQ), FramesOf(ongoingPPQ), FramesOf(inputJpegQ)>>
      /\ UNCHANGED <<FramesOf(inputRawQ), Unstarted>>
      /\ UNCHANGED <<BufsIn(inputPPQ), BufsIn(ongoingPPQ), BufsIn(inputJpegQ)>>
      /\ UNCHANGED <<BufsIn(inputRawQ), ToSet(jpeg_evts), ToSet(session_handle_q), InSession>>
      /\ UNCHANGED <<ToSet(inputPPQ), ToSet(ongoingPPQ), ToSet(inputJpegQ), ToSet(jobs)>>
      /\ SoundJobs(inputPPQ)' /\ SoundJobs(ongoingPPQ)' /\ SoundJobs(inputJpegQ)'
      /\ SoundJobs(inputRawQ)'
  BY <1>1, <1>2 DEF FramesOf, BufsIn, ToSet, FramesApart, Unstarted, InSession
<1> HIDE DEF job, j, f, left_over
<1>9. FramesOf(aborted) = {} /\ BufsIn(aborted) = {}  BY <1>1 DEF FramesOf, BufsIn
<1>10. JpegTypes'
  <2>1. ongoing_job_q' \subseteq ongoing_job_q  BY <1>1
  <2> QED  BY <1>1, <1>2, <1>5, <1>6, <2>1 DEF JpegTypes
<1>11. EncodersFree'
  <2>1. \A h \in Encoders : OneOf(session_handle_q', h)
    BY <1>1, <1>2 DEF EncodersFree
  <2> QED  BY <1>1, <1>2, <1>8, <2>1 DEF EncodersFree
<1>12. JobsApart'  BY <1>1, <1>2, <1>5, <1>8 DEF JobsApart
<1>13. encoder[1].busy # 0 => encoder[1].busy \in 1..job_hist \ ToSet(job_queue)
  BY <1>2, <1>4 DEF EncodersFree, JobsApart
<1>14. AbortFits'
  <2>1. ~call.waits  BY <1>1, <1>2 DEF AbortFits, Aborting
  <2>2. ASSUME ~capture.burst, encoder[1].busy # 0
        PROVE  encoder[1].busy \in ongoing_job_q' \/ call'.op = "abort"
    <3>1. encoder[1].busy \in ongoing_job_q  BY <1>1, <1>2, <2>2 DEF AbortFits, Aborting
    <3> QED  BY <1>1, <1>6, <3>1
  <2>3. ~(call'.at > 1)  BY <1>6
  <2> QED  BY <1>1, <1>2, <1>6, <2>1, <2>2, <2>3 DEF AbortFits, Aborting
<1>15. FramesApart'
  <2>1. FramesOf(ongoingJpegQ') \cup FramesOf(aborted') = FramesOf(ongoingJpegQ)
        /\ FramesOf(ongoingJpegQ') \cap FramesOf(aborted') = {}
    BY <1>1, <1>3, <1>7
  <2>2. /\ Unstarted' \cap (FramesOf(ongoingJpegQ') \cup FramesOf(aborted')) = {}
        /\ Unstarted' \cup FramesOf(ongoingJpegQ') \cup FramesOf(aborted') \subseteq 1..pics
    BY <1>2, <1>8, <2>1 DEF FramesApart
  <2>3. SoundJobs(ongoingJpegQ')  BY <1>1, <1>3
  <2> QED  BY <1>1, <1>2, <1>7, <1>8, <2>1, <2>2, <2>3 DEF FramesApart
<1>16. BuffersOwned'
  <2>1. BufsIn(ongoingJpegQ') \cup BufsIn(aborted') = BufsIn(ongoingJpegQ) \cup BufsIn(aborted)
    BY <1>1, <1>3, <1>7, <1>9
  <2> QED  BY <1>1, <1>8, <2>1 DEF PictureInv, BuffersOwned
<1>17. JobsKnown'
  <2>1. \A k \in ToSet(aborted') : k.id \in 1..job_hist /\ k.frame = jobs[k.id] /\ k.bufs # {}
    BY <1>4, <1>7 DEF j, f
  <2>2. ToSet(ongoingJpegQ') \subseteq ToSet(ongoingJpegQ)  BY <1>1, <1>3
  <2> QED  BY <1>1, <1>2, <1>8, <2>1, <2>2 DEF JobsKnown
<1>18. InputsHeld'
  <2>1. \A i \in ToSet(job_queue) \ {EXIT} : i \in 1..job_hist
    <3>1. \A i \in ToSet(job_queue) : i \in {EXIT} \cup JobIds  BY <1>2 DEF ToSet
    <3> QED  BY <1>2, <1>4, <3>1 DEF JobsApart, JobIds
  <2>2. \A i \in 1..job_hist : i # j => jobs[i] # f  BY <1>2, <1>4 DEF JobsKnown
  <2>3. \A i \in ToSet(job_queue') \ {EXIT} : jobs'[i] \in FramesOf(ongoingJpegQ')
    BY <1>1, <1>2, <1>3, <1>5, <2>1, <2>2 DEF InputsHeld
  <2>4. \A k \in ToSet(aborted') : k.id = j  BY <1>7 DEF j
  <2>5. ASSUME ~capture.burst, call'.op = "returned"  PROVE j # encoder[1].busy
    <3>1. encoder[1].busy # 0 => encoder[1].busy \in ongoing_job_q
      BY <1>1, <1>2, <2>5 DEF AbortFits, Aborting
    <3>2. j \in ToSet(job_queue) \/ j \notin ongoing_job_q  BY <1>6, <2>5
    <3> QED  BY <1>4, <1>13, <3>1, <3>2
  <2>6. FramesOf(ongoingJpegQ) \cup FramesOf(aborted)
            = FramesOf(ongoingJpegQ') \cup FramesOf(aborted')
    BY <1>1, <1>3, <1>7, <1>9
  <2>7. ~capture.burst /\ encoder[1].busy # 0 =>
            jobs[encoder[1].busy] \in FramesOf(ongoingJpegQ') \cup FramesOf(aborted')
    BY <1>2, <2>6 DEF InputsHeld
  <2> QED  BY <1>1, <1>5, <2>3, <2>4, <2>5, <2>7 DEF InputsHeld
<1>19. PpTypes'  BY <1>1, <1>2, <1>3, <1>7 DEF PpTypes
<1>20. ControlFits'
  <2>1. UNCHANGED <<ToSet(pp_cmds), OneOf(pp_cmds, "START"), OneOf(pp_cmds, "STOP")>>
    BY <1>1 DEF ToSet, OneOf
  <2> QED  BY <1>1, <1>2, <1>6, <2>1 DEF ControlFits
<1> QED  BY <1>10, <1>11, <1>12, <1>14, <1>15, <1>16, <1>17, <1>18, <1>19, <1>20 DEF PictureInv

\* A call that returned is over.
LEMMA CallEnds ==
    ASSUME PictureInv, call.op = "returned", call' = NoCall,
           UNCHANGED <<fault, num_omx_sessions, encoder, session_handle_q, job_hist, job_queue,
                       ongoing_job_q, mgr, mgr_on, jpeg_evts, capture>>
    PROVE  JpegTypes' /\ EncodersFree' /\ JobsApart' /\ AbortFits'
<1>1. /\ JpegTypes /\ EncodersFree /\ JobsApart /\ AbortFits
  BY DEF PictureInv
<1>2. /\ call' \in Calls /\ call'.op = "none" /\ call'.waits = FALSE /\ call'.at = 0
      /\ ~Aborting' /\ ~Aborting
  BY DEF NoCall, Calls, Aborting
<1>3. JpegTypes'  BY <1>1, <1>2 DEF JpegTypes
<1>4. EncodersFree'  BY <1>1, <1>2 DEF EncodersFree, InSession, OneOf, ToSet
<1>5. JobsApart'  BY <1>1 DEF JobsApart, OneOf, ToSet
<1>6. AbortFits'  BY <1>1, <1>2 DEF AbortFits
<1> QED  BY <1>3, <1>4, <1>5, <1>6

\* The buffers of the job that was aborted go back.
LEMMA ReleaseAbortedStep ==
    ASSUME PictureInv, ReleaseAborted
    PROVE  PictureInv'
<1>1. /\ pp_pc = "aborts" /\ call.op = "returned" /\ call' = NoCall
      /\ out' = out \ BufsIn(aborted) /\ aborted' = << >>
      /\ UNCHANGED <<fault, num_omx_sessions, encoder, session_handle_q, job_hist, job_queue,
                     ongoing_job_q, mgr, mgr_on, jpeg_evts, capture>>
      /\ UNCHANGED <<ctrl, pics, pp_cmds, pp_pc, is_active, new_session, inputPPQ, ongoingPPQ,
                     inputJpegQ, ongoingJpegQ, inputRawQ, reprocessing, left, given, jobs>>
  BY DEF ReleaseAborted, sessionVars, mgrVars, ppQueues, history
<1>2. /\ JpegTypes /\ EncodersFree /\ JobsApart /\ InputsHeld
      /\ PpTypes /\ ControlFits /\ FramesApart /\ JobsKnown
  BY DEF PictureInv
<1>3. JpegTypes' /\ EncodersFree' /\ JobsApart' /\ AbortFits'  BY <1>1, CallEnds
<1>4. /\ aborted' \in Seq(PpJob) /\ SoundJobs(aborted') /\ FramesOf(aborted') = {}
      /\ BufsIn(aborted') = {} /\ ToSet(aborted') = {}
  BY <1>1, NoJobs
<1>5. /\ UNCHANGED <<FramesOf(inputPPQ), FramesOf(ongoingPPQ), FramesOf(inputJpegQ)>>
      /\ UNCHANGED <<FramesOf(ongoingJpegQ), FramesOf(inputRawQ), Unstarted>>
      /\ UNCHANGED <<BufsIn(inputPPQ), BufsIn(ongoingPPQ), BufsIn(inputJpegQ)>>
      /\ UNCHANGED <<BufsIn(ongoingJpegQ), BufsIn(inputRawQ)>>
      /\ UNCHANGED <<ToSet(inputPPQ), ToSet(ongoingPPQ), ToSet(inputJpegQ)>>
      /\ UNCHANGED <<ToSet(ongoingJpegQ), ToSet(jobs), ToSet(job_queue)>>
      /\ SoundJobs(inputPPQ)' /\ SoundJobs(ongoingPPQ)' /\ SoundJobs(inputJpegQ)'
      /\ SoundJobs(ongoingJpegQ)' /\ SoundJobs(inputRawQ)'
  BY <1>1, <1>2 DEF FramesOf, BufsIn, ToSet, FramesApart, Unstarted
<1>6. out' \subseteq out  BY <1>1
<1>7. FramesApart'  BY <1>1, <1>2, <1>4, <1>5, <1>6 DEF FramesApart
<1>8. BuffersOwned'
  <2> DEFINE gone == BufsIn(aborted)
  <2>1. gone \cap (left \cup given) = {}  BY DEF PictureInv, BuffersOwned
  <2>2. /\ BufsIn(inputPPQ)' = BufsIn(inputPPQ) \ gone
        /\ BufsIn(ongoingPPQ)' = BufsIn(ongoingPPQ) \ gone
        /\ BufsIn(inputJpegQ)' = BufsIn(inputJpegQ) \ gone
        /\ BufsIn(ongoingJpegQ)' = BufsIn(ongoingJpegQ) \ gone
        /\ BufsIn(inputRawQ)' = BufsIn(inputRawQ) \ gone
        /\ BufsIn(aborted)' = BufsIn(aborted) \ gone
    BY <1>4, <1>5, BufsApart
  <2>3. out' = out \ gone  BY <1>1
  <2> HIDE DEF gone
  <2> QED  BY <1>1, <2>1, <2>2, <2>3, BuffersLeave
<1>9. JobsKnown'  BY <1>1, <1>2, <1>4, <1>5 DEF JobsKnown
<1>10. InputsHeld'
  <2>1. ASSUME ~capture.burst, encoder[1].busy # 0
        PROVE  jobs[encoder[1].busy] \notin FramesOf(aborted)
    <3>1. /\ job_hist \in Nat /\ 1 \in Encoders /\ jobs \in Seq(PicFrames)
          /\ Len(jobs) = job_hist
      BY <1>2, FirstEncoder DEF PpTypes, JobsKnown
    <3>2. DOMAIN jobs = 1..job_hist  BY <3>1
    <3>3. encoder[1].busy \in 1..job_hist  BY <1>2, <2>1, <3>1 DEF EncodersFree, JobsApart
    <3>4. ASSUME NEW job \in ToSet(aborted), job.frame = jobs[encoder[1].busy]  PROVE FALSE
      <4>1. job.id \in 1..job_hist /\ job.frame = jobs[job.id]  BY <1>2 DEF JobsKnown
      <4>2. job.id = encoder[1].busy  BY <1>2, <3>2, <3>3, <3>4, <4>1 DEF JobsKnown
      <4> QED  BY <1>1, <1>2, <2>1, <4>2 DEF InputsHeld
    <3> QED  BY <3>4 DEF FramesOf, ToSet
  <2> QED  BY <1>1, <1>2, <1>4, <1>5, <2>1 DEF InputsHeld
<1>11. PpTypes'  BY <1>1, <1>2, <1>4, <1>6 DEF PpTypes
<1>12. ControlFits'
  <2>1. UNCHANGED <<ToSet(pp_cmds), OneOf(pp_cmds, "START"), OneOf(pp_cmds, "STOP")>>
    BY <1>1 DEF ToSet, OneOf
  <2> QED  BY <1>1, <1>2, <2>1 DEF ControlFits, NoCall
<1> QED  BY <1>3, <1>7, <1>8, <1>9, <1>10, <1>11, <1>12 DEF PictureInv

\* The session is destroyed, if there is one.
LEMMA EndSessionStep ==
    ASSUME PictureInv, EndSession
    PROVE  PictureInv'
<1>1. /\ pp_pc = "aborts" /\ aborted = << >> /\ ongoingJpegQ = << >> /\ pp_pc' = "destroys"
      /\ UNCHANGED <<fault, num_omx_sessions, encoder, session_handle_q, job_hist, mgr, mgr_on,
                     jpeg_evts>>
      /\ UNCHANGED <<capture, ctrl, pics, out, left, pp_cmds, is_active, new_session,
                     aborted, reprocessing, given, jobs>>
      /\ UNCHANGED ppQueues /\ UNCHANGED ongoingJpegQ
  BY DEF EndSession, DestroySession, sessionVars, mgrVars, history, ppQueues
<1>2. /\ JpegTypes /\ EncodersFree /\ JobsApart /\ AbortFits /\ InputsHeld
      /\ PpTypes /\ ControlFits /\ FramesApart /\ JobsKnown
      /\ 1 \in Encoders /\ num_omx_sessions \in Nat
  <2>1. JpegTypes  BY DEF PictureInv
  <2> QED  BY <2>1, FirstEncoder DEF PictureInv
<1>3. \/ /\ num_omx_sessions > 0 /\ call.op = "none" /\ mgr # "fills"
         /\ job_queue' = << >> /\ ongoing_job_q' = {}
         /\ call'.op = "destroy" /\ call'.at = 1 /\ call'.waits = FALSE /\ call' \in Calls
      \/ /\ num_omx_sessions = 0 /\ UNCHANGED <<job_queue, ongoing_job_q>>
         /\ call'.op = "returned" /\ call'.at = 0 /\ call'.waits = FALSE /\ call' \in Calls
  <2>1. CASE num_omx_sessions > 0
    <3>1. DestroySession  BY <2>1 DEF EndSession
    <3>2. /\ call.op = "none" /\ mgr # "fills" /\ job_queue' = << >> /\ ongoing_job_q' = {}
          /\ call' = [op |-> "destroy", at |-> 1, waits |-> FALSE]
      BY <3>1 DEF DestroySession, JobLockFree
    <3> QED  BY <2>1, <3>2 DEF Calls
  <2>2. CASE ~(num_omx_sessions > 0)
    <3>1. num_omx_sessions = 0  BY <1>2, <2>2
    <3>2. /\ UNCHANGED <<job_queue, ongoing_job_q>>
          /\ call' = [NoCall EXCEPT !.op = "returned"]
      BY <2>2 DEF EndSession
    <3> QED  BY <3>1, <3>2 DEF NoCall, Calls
  <2> QED  BY <2>1, <2>2
<1>4. num_omx_sessions = 0 => InSession = {} /\ mgr # "fills" /\ encoder[1] = FreshEncoder
  <2>1. num_omx_sessions = 0 => InSession = {}  BY DEF InSession
  <2> QED  BY <1>2, <2>1 DEF EncodersFree
<1>5. /\ job_queue' \in Seq({EXIT} \cup JobIds) /\ ongoing_job_q' \subseteq JobIds
      /\ ToSet(job_queue') \subseteq ToSet(job_queue) /\ \A j \in JobIds : OneOf(job_queue', j)
  <2>1. CASE job_queue' = << >> /\ ongoing_job_q' = {}  BY <2>1 DEF ToSet, OneOf
  <2>2. CASE UNCHANGED <<job_queue, ongoing_job_q>>
    BY <1>2, <2>2 DEF JpegTypes, JobsApart, ToSet, OneOf
  <2> QED  BY <1>3, <2>1, <2>2
<1>6. UNCHANGED <<ToSet(session_handle_q), ToSet(jpeg_evts), ToSet(aborted), InSession>>
  BY <1>1 DEF ToSet, InSession
<1>7. JpegTypes'  BY <1>1, <1>2, <1>3, <1>5 DEF JpegTypes
<1>8. EncodersFree'
  <2>1. \A h \in Encoders : OneOf(session_handle_q', h)  BY <1>1, <1>2 DEF EncodersFree
  <2>2. mgr' # "fills"  BY <1>1, <1>3, <1>4
  <2> QED  BY <1>1, <1>2, <1>6, <2>1, <2>2 DEF EncodersFree
<1>9. JobsApart'  BY <1>1, <1>2, <1>5, <1>6 DEF JobsApart
<1>10. AbortFits'
  <2>1. CASE num_omx_sessions > 0
    <3>1. call.op = "none" /\ call'.op = "destroy" /\ call'.at = 1 /\ call'.waits = FALSE
      BY <1>3, <2>1
    <3>2. ~call.waits  BY <1>2, <3>1 DEF AbortFits, Aborting
    <3> QED  BY <1>1, <1>2, <3>1, <3>2 DEF AbortFits, Aborting
  <2>2. CASE num_omx_sessions = 0
    <3>1. encoder[1].abort_state = "NONE" /\ encoder[1].busy = 0
      BY <1>4, <2>2 DEF FreshEncoder
    <3>2. ~call'.waits  BY <1>3, <2>2
    <3> QED  BY <1>1, <2>2, <3>1, <3>2 DEF AbortFits
  <2> QED  BY <1>2, <2>1, <2>2
<1>11. FramesApart' /\ BuffersOwned' /\ JobsKnown'
  <2>1. FramesApart' /\ UNCHANGED Unstarted  BY <1>1, FramesKept
  <2>2. UNCHANGED <<inputPPQ, ongoingPPQ, inputJpegQ, ongoingJpegQ, inputRawQ>>
    BY <1>1 DEF ppQueues
  <2>3. BuffersOwned'  BY <1>1, <2>2 DEF PictureInv, BuffersOwned, BufsIn
  <2>4. JobsKnown'  BY <1>1, <1>2, <2>1, <2>2 DEF JobsKnown, ToSet
  <2> QED  BY <2>1, <2>3, <2>4
<1>12. InputsHeld'
  <2>1. ToSet(aborted) = {}  BY <1>1 DEF ToSet
  <2>2. UNCHANGED <<FramesOf(ongoingJpegQ), FramesOf(aborted)>>  BY <1>1 DEF FramesOf
  <2> QED  BY <1>1, <1>2, <1>5, <1>6, <2>1, <2>2 DEF InputsHeld
<1>13. PpTypes'  BY <1>1, <1>2 DEF PpTypes, ppQueues
<1>14. ControlFits'
  <2>1. UNCHANGED <<ToSet(pp_cmds), OneOf(pp_cmds, "START"), OneOf(pp_cmds, "STOP")>>
    BY <1>1 DEF ToSet, OneOf
  <2> QED  BY <1>1, <1>2, <1>3, <2>1 DEF ControlFits
<1> QED  BY <1>7, <1>8, <1>9, <1>10, <1>11, <1>12, <1>13, <1>14 DEF PictureInv

\* The queues are flushed, and the stop is over.
LEMMA FlushQueuesStep ==
    ASSUME PictureInv, FlushQueues
    PROVE  PictureInv'
<1> DEFINE gone == BufsIn(ongoingPPQ) \cup BufsIn(inputJpegQ) \cup BufsIn(inputPPQ)
                       \cup BufsIn(inputRawQ)
<1>1. /\ pp_pc = "destroys" /\ call.op = "returned" /\ call' = NoCall
      /\ pp_pc' = "waits" /\ new_session' = TRUE
      /\ out' = (out \ gone) \ {b \in left : b[1] = "pp"}
      /\ left' = {b \in left : b[1] = "src"}
      /\ inputPPQ' = << >> /\ ongoingPPQ' = << >> /\ inputJpegQ' = << >> /\ inputRawQ' = << >>
      /\ reprocessing' = << >>
      /\ UNCHANGED <<fault, num_omx_sessions, encoder, session_handle_q, job_hist, job_queue,
                     ongoing_job_q, mgr, mgr_on, jpeg_evts, capture>>
      /\ UNCHANGED <<pics, is_active, ongoingJpegQ, aborted, given, jobs>>
  <2>1. UNION {BufsIn(q) : q \in {ongoingPPQ, inputJpegQ, inputPPQ, inputRawQ}} = gone
    OBVIOUS
  <2> HIDE DEF gone
  <2> QED  BY <2>1 DEF FlushQueues, sessionVars, mgrVars, history
<1>2. /\ JpegTypes /\ EncodersFree /\ JobsApart /\ InputsHeld
      /\ PpTypes /\ ControlFits /\ FramesApart /\ BuffersOwned /\ JobsKnown
  BY DEF PictureInv
<1>3. /\ ctrl \in {"stopping", "closing"} /\ aborted = << >> /\ num_omx_sessions = 0
      /\ is_active = FALSE /\ "STOP" \notin ToSet(pp_cmds) /\ "START" \notin ToSet(pp_cmds)
      /\ "EXIT" \notin ToSet(pp_cmds)
  BY <1>1, <1>2 DEF ControlFits, PpTypes
<1>4. JpegTypes' /\ EncodersFree' /\ JobsApart' /\ AbortFits'  BY <1>1, CallEnds
<1>5. /\ << >> \in Seq(PpJob) /\ SoundJobs(<< >>) /\ FramesOf(<< >>) = {}
      /\ BufsIn(<< >>) = {} /\ ToSet(<< >>) = {}
  BY NoJobs
<1>6. /\ SoundJobs(inputPPQ') /\ SoundJobs(ongoingPPQ') /\ SoundJobs(inputJpegQ')
      /\ SoundJobs(inputRawQ') /\ SoundJobs(ongoingJpegQ)' /\ SoundJobs(aborted)'
      /\ FramesOf(inputPPQ') = {} /\ FramesOf(ongoingPPQ') = {}
      /\ FramesOf(inputJpegQ') = {} /\ FramesOf(inputRawQ') = {} /\ Unstarted' = {}
      /\ BufsIn(inputPPQ') = {} /\ BufsIn(ongoingPPQ') = {} /\ BufsIn(inputJpegQ') = {}
      /\ BufsIn(inputRawQ') = {}
      /\ ToSet(inputPPQ') = {} /\ ToSet(ongoingPPQ') = {} /\ ToSet(inputJpegQ') = {}
      /\ FramesOf(ongoingJpegQ') = FramesOf(ongoingJpegQ)
      /\ FramesOf(aborted') = FramesOf(aborted)
      /\ BufsIn(ongoingJpegQ') = BufsIn(ongoingJpegQ) /\ BufsIn(aborted') = BufsIn(aborted)
      /\ ToSet(ongoingJpegQ') = ToSet(ongoingJpegQ) /\ ToSet(aborted') = ToSet(aborted)
      /\ ToSet(jobs') = ToSet(jobs) /\ ToSet(job_queue') = ToSet(job_queue)
  BY <1>1, <1>2, <1>5 DEF FramesApart, Unstarted
<1>7. FramesApart'
  <2>1. out' \subseteq out  BY <1>1
  <2>2. FramesOf(ongoingJpegQ) \cap FramesOf(aborted) = {}
        /\ FramesOf(ongoingJpegQ) \cup FramesOf(aborted) \subseteq 1..pics
    BY <1>2 DEF FramesApart
  <2>3. \A b \in out' : b[2] <= pics'  BY <1>1, <1>2, <2>1 DEF FramesApart
  <2>4. Len(reprocessing') = Len(ongoingPPQ') /\ DOMAIN ongoingPPQ' = {}  BY <1>1
  <2>5. \A f \in FramesOf(inputPPQ') \cup FramesOf(ongoingPPQ') : <<"pp", f>> \notin out'
    BY <1>6
  <2>6. FramesOf(ongoingJpegQ') \cup FramesOf(aborted') \subseteq 1..pics'
    BY <1>1, <1>6, <2>2
  <2>7. \A i \in DOMAIN ongoingPPQ' : ongoingPPQ'[i].frame = reprocessing'[i]
    BY <2>4
  <2> HIDE DEF gone
  <2> QED  BY <1>6, <2>2, <2>3, <2>4, <2>5, <2>6, <2>7 DEF FramesApart
<1>8. BuffersOwned'
  <2>1. /\ left \subseteq out /\ given \subseteq out /\ left \cap given = {}
        /\ out \ (left \cup given)
               = gone \cup BufsIn(ongoingJpegQ) \cup BufsIn(aborted)
        /\ gone \cap (BufsIn(ongoingJpegQ) \cup BufsIn(aborted)) = {}
    BY <1>2, BufsApart DEF BuffersOwned
  <2>2. \A b \in left : b[1] \in {"src", "pp"}  BY <1>2, <2>1 DEF PpTypes, Buffers
  <2> HIDE DEF gone
  <2>3. /\ left' \subseteq out' /\ given' \subseteq out' /\ left' \cap given' = {}
    BY <1>1, <2>1
  <2>4. out' \ (left' \cup given') = BufsIn(ongoingJpegQ) \cup BufsIn(aborted)
    BY <1>1, <2>1, <2>2
  <2> QED  BY <1>6, <2>3, <2>4 DEF BuffersOwned
<1>9. JobsKnown'
  <2>1. ToSet(jobs') \subseteq 1..pics'  BY <1>1, <1>2 DEF JobsKnown, ToSet
  <2>2. pp_pc # "remembers" /\ pp_pc' # "remembers"  BY <1>1
  <2> QED  BY <1>1, <1>2, <1>6, <2>1, <2>2 DEF JobsKnown
<1>10. InputsHeld'
  <2>1. ToSet(aborted) = {}  BY <1>3 DEF ToSet
  <2> QED  BY <1>1, <1>2, <1>6, <2>1 DEF InputsHeld
<1>11. /\ pp_cmds' \in Seq(PpCommands) /\ OneOf(pp_cmds', "START") /\ OneOf(pp_cmds', "STOP")
       /\ \/ ctrl' = "exiting" /\ ToSet(pp_cmds') = ToSet(pp_cmds) \cup {"EXIT"}
          \/ ctrl' = "stopped" /\ ToSet(pp_cmds') = ToSet(pp_cmds)
  <2>1. CASE ctrl = "closing"
    <3>1. ctrl' = "exiting" /\ pp_cmds' = <<"EXIT">> \o pp_cmds /\ "EXIT" \in PpCommands
      BY <2>1 DEF FlushQueues, PpCommands
    <3> QED  BY <1>3, <3>1, FirstSent
  <2>2. CASE ctrl # "closing"
    <3>1. ctrl' = "stopped" /\ UNCHANGED pp_cmds  BY <2>2 DEF FlushQueues
    <3> QED  BY <1>2, <3>1 DEF PpTypes, ControlFits
  <2> QED  BY <2>1, <2>2
<1>12. PpTypes'
  <2>1. out' \subseteq Buffers  BY <1>1, <1>2 DEF PpTypes
  <2>2. reprocessing' \in Seq(PicFrames)  BY <1>1
  <2> QED  BY <1>1, <1>2, <1>5, <1>11, <2>1, <2>2 DEF PpTypes
<1>13. ControlFits'
  BY <1>1, <1>3, <1>11 DEF ControlFits, NoCall
<1> QED  BY <1>4, <1>7, <1>8, <1>9, <1>10, <1>12, <1>13 DEF PictureInv

-----------------------------------------------------------------------------
(* The invariant holds.                                                    *)

\* Nothing has been taken yet.
LEMMA PictureInitInv == PostProcInit => PictureInv
<1> SUFFICES ASSUME PostProcInit  PROVE PictureInv
  OBVIOUS
<1>1. /\ fault \in {"none", "call", "event"} /\ num_omx_sessions = 0
      /\ encoder = [h \in Encoders |-> FreshEncoder] /\ session_handle_q = << >>
      /\ job_hist = 0 /\ job_queue = << >> /\ ongoing_job_q = {} /\ mgr = "waits"
      /\ mgr_on = 0 /\ call = NoCall /\ jpeg_evts = << >>
      /\ capture \in Captures /\ ctrl = "stopped" /\ pics = 0 /\ out = {} /\ left = {}
      /\ pp_cmds = << >> /\ pp_pc = "waits" /\ is_active = FALSE /\ new_session = TRUE
      /\ inputPPQ = << >> /\ ongoingPPQ = << >> /\ inputJpegQ = << >>
      /\ ongoingJpegQ = << >> /\ inputRawQ = << >> /\ aborted = << >>
      /\ reprocessing = << >> /\ given = {} /\ jobs = << >>
  BY DEF PostProcInit, JpegInit
<1>2. /\ InSession = {} /\ 0 \in 0..MM_JPEG_CONCURRENT_SESSIONS_COUNT /\ 0 \in 0..MaxJobs
      /\ 0 \in 0..MaxPicFrames /\ 1 \in Encoders
  <2>1. MaxPicFrames \in Nat  BY PostProcAssumption
  <2> QED  BY <1>1, <2>1, Bounds DEF InSession, Encoders
<1>3. FreshEncoder \in Encoder /\ call \in Calls /\ ~Aborting /\ ~call.waits /\ call.op = "none"
  BY <1>1 DEF FreshEncoder, Encoder, Calls, NoCall, Aborting
<1>4. \A h \in Encoders : encoder[h] = FreshEncoder  BY <1>1
<1>5. FreshEncoder.busy = 0 /\ FreshEncoder.encoding = FALSE
      /\ FreshEncoder.abort_state = "NONE" /\ FreshEncoder.job = 0
  BY DEF FreshEncoder
<1>6. ToSet(<< >>) = {} /\ \A x : OneOf(<< >>, x)  BY DEF ToSet, OneOf
<1>7. JpegTypes
  <2>1. encoder \in [Encoders -> Encoder]  BY <1>1, <1>3
  <2> QED  BY <1>1, <1>2, <1>3, <2>1 DEF JpegTypes
<1>8. EncodersFree  BY <1>1, <1>2, <1>4, <1>5, <1>6 DEF EncodersFree
<1>9. JobsApart  BY <1>1, <1>2, <1>4, <1>5, <1>6 DEF JobsApart
<1>10. AbortFits  BY <1>1, <1>2, <1>3, <1>4, <1>5 DEF AbortFits
<1>11. PpTypes
  <2>1. << >> \in Seq(PpJob) /\ << >> \in Seq(PicFrames) /\ << >> \in Seq(PpCommands)
    OBVIOUS
  <2>2. {is_active, new_session} \subseteq BOOLEAN  BY <1>1
  <2> QED  BY <1>1, <1>2, <2>1, <2>2 DEF PpTypes
<1>12. ControlFits  BY <1>1, <1>3, <1>6 DEF ControlFits
<1>13. FramesApart /\ Unstarted = {}
  <2>1. SoundJobs(<< >>) /\ FramesOf(<< >>) = {}  BY NoJobs
  <2> QED  BY <1>1, <2>1 DEF FramesApart, Unstarted
<1>14. BuffersOwned
  <2>1. BufsIn(<< >>) = {}  BY NoJobs
  <2> QED  BY <1>1, <2>1 DEF BuffersOwned
<1>15. JobsKnown  BY <1>1, <1>6, <1>13 DEF JobsKnown
<1>16. InputsHeld  BY <1>1, <1>2, <1>4, <1>5, <1>6 DEF InputsHeld
<1> QED
  BY <1>7, <1>8, <1>9, <1>10, <1>11, <1>12, <1>13, <1>14, <1>15, <1>16 DEF PictureInv

\* Every step, of every thread.
LEMMA PictureInvStep == PictureInv /\ [PostProcNext]_postprocVars => PictureInv'
<1> SUFFICES ASSUME PictureInv, [PostProcNext]_postprocVars  PROVE PictureInv'
  OBVIOUS
<1>1. CASE StartPostProc  BY <1>1, StartPostProcStep
<1>2. CASE StopPostProc  BY <1>2, StopPostProcStep
<1>3. CASE Close  BY <1>3, CloseStep
<1>4. CASE HandleJpegEvt  BY <1>4, HandleJpegEvtStep
<1>5. CASE ProcessData  BY <1>5, ProcessDataStep
<1>6. CASE SourceStops  BY <1>6, SourceStopsStep
<1>7. CASE ReprocessDone  BY <1>7, ReprocessDoneStep
<1>8. CASE \E b \in given : RawGiven(b)  BY <1>8, RawGivenStep
<1>9. CASE DataThread
  <2>1. CASE TakeStart  BY <2>1, TakeStartStep
  <2>2. CASE TakeNextInactive  BY <2>2, TakeNextInactiveStep
  <2>3. CASE TakeNext  BY <2>3, TakeNextStep
  <2>4. CASE RememberJobId  BY <2>4, RememberJobIdStep
  <2>5. CASE GiveRaw  BY <2>5, GiveRawStep
  <2>6. CASE Reprocess  BY <2>6, ReprocessStep
  <2>7. CASE TakeStop  BY <2>7, TakeStopStep
  <2>8. CASE AbortNextJob  BY <2>8, AbortNextJobStep
  <2>9. CASE ReleaseAborted  BY <2>9, ReleaseAbortedStep
  <2>10. CASE EndSession  BY <2>10, EndSessionStep
  <2>11. CASE FlushQueues  BY <2>11, FlushQueuesStep
  <2>12. CASE TakeExit  BY <2>12, TakeExitStep
  <2> QED
    BY <1>9, <2>1, <2>2, <2>3, <2>4, <2>5, <2>6, <2>7, <2>8, <2>9, <2>10, <2>11, <2>12
    DEF DataThread
<1>10. CASE JpegThreads  BY <1>10, JpegThreadsStep
<1>11. CASE UNCHANGED postprocVars
  <2>1. /\ UNCHANGED <<jpegVars, capture, pics, out, left, new_session, ppQueues,
                       aborted, reprocessing, given, jobs>>
        /\ UNCHANGED <<pp_cmds, pp_pc, ctrl, is_active>>
    BY <1>11 DEF postprocVars, ppVars, history
  <2>2. ControlFits'
    BY <2>1 DEF PictureInv, ControlFits, OneOf, ToSet, jpegVars
  <2>3. pp_cmds' \in Seq(PpCommands) /\ is_active' \in BOOLEAN
    BY <2>1 DEF PictureInv, PpTypes
  <2> QED  BY <2>1, <2>2, <2>3, ControlMoves
<1> QED
  BY <1>1, <1>2, <1>3, <1>4, <1>5, <1>6, <1>7, <1>8, <1>9, <1>10, <1>11 DEF PostProcNext

\* The invariant of the postprocessor and the JPEG interface holds.
THEOREM PictureInvariant == PostProcSpec => []PictureInv
<1>1. PostProcInit => PictureInv  BY PictureInitInv
<1>2. PictureInv /\ [PostProcNext]_postprocVars => PictureInv'  BY PictureInvStep
<1> QED  BY <1>1, <1>2, PTL DEF PostProcSpec

-----------------------------------------------------------------------------
(* What the invariant says of buffers, encoders and inputs.                *)

\* Two queues without a frame in common, one behind the other.
LEMMA JobsJoined ==
    ASSUME NEW q \in Seq(PpJob), NEW r \in Seq(PpJob), SoundJobs(q), SoundJobs(r),
           FramesOf(q) \cap FramesOf(r) = {}
    PROVE  /\ q \o r \in Seq(PpJob) /\ SoundJobs(q \o r)
           /\ FramesOf(q \o r) = FramesOf(q) \cup FramesOf(r)
           /\ BufsIn(q \o r) = BufsIn(q) \cup BufsIn(r)
           /\ ToSet(q \o r) = ToSet(q) \cup ToSet(r)
<1> DEFINE n == Len(q)
           z == q \o r
<1>1. /\ z \in Seq(PpJob) /\ DOMAIN z = 1..n + Len(r)
      /\ n \in Nat /\ Len(r) \in Nat /\ DOMAIN q = 1..n /\ DOMAIN r = 1..Len(r)
      /\ \A i \in 1..n + Len(r) : z[i] = IF i <= n THEN q[i] ELSE r[i - n]
  BY ConcatProperties
<1>2. ToSet(z) = ToSet(q) \cup ToSet(r)  BY JoinedQueues
<1> HIDE DEF n, z
<1>3. \A i \in DOMAIN z : \/ i \in DOMAIN q /\ z[i] = q[i]
                          \/ i > n /\ i - n \in DOMAIN r /\ z[i] = r[i - n]
  BY <1>1
<1>4. \A job \in ToSet(q) : job.frame \in FramesOf(q)  BY DEF ToSet, FramesOf
<1>5. \A job \in ToSet(r) : job.frame \in FramesOf(r)  BY DEF ToSet, FramesOf
<1>6. SoundJobs(z)
  <2>1. ASSUME NEW i \in DOMAIN z, NEW j \in DOMAIN z, z[i].frame = z[j].frame  PROVE i = j
    <3>1. i \in Nat /\ j \in Nat  BY <1>1
    <3>2. CASE i \in DOMAIN q /\ z[i] = q[i] /\ j \in DOMAIN q /\ z[j] = q[j]
      BY <2>1, <3>2 DEF SoundJobs
    <3>3. CASE i - n \in DOMAIN r /\ z[i] = r[i - n] /\ j - n \in DOMAIN r /\ z[j] = r[j - n]
      <4>1. i - n = j - n  BY <2>1, <3>3 DEF SoundJobs
      <4> QED  BY <1>1, <3>1, <4>1
    <3>4. \A k \in DOMAIN q, l \in DOMAIN r : q[k].frame # r[l].frame  BY DEF FramesOf
    <3> QED  BY <1>3, <2>1, <3>2, <3>3, <3>4
  <2>2. \A i \in DOMAIN z : \A b \in z[i].bufs : b[2] = z[i].frame
    BY <1>3 DEF SoundJobs
  <2> QED  BY <2>1, <2>2 DEF SoundJobs
<1>7. /\ \A s \in Seq(PpJob) : FramesOf(s) = {job.frame : job \in ToSet(s)}
      /\ \A s \in Seq(PpJob) : BufsIn(s) = UNION {job.bufs : job \in ToSet(s)}
  BY DEF FramesOf, BufsIn, ToSet
<1>8. FramesOf(z) = FramesOf(q) \cup FramesOf(r)  BY <1>1, <1>2, <1>7
<1>9. BufsIn(z) = BufsIn(q) \cup BufsIn(r)  BY <1>1, <1>2, <1>7
<1> QED  BY <1>1, <1>2, <1>6, <1>8, <1>9 DEF z

\* All jobs, one queue behind the other.
LEMMA AllJobsFacts ==
    ASSUME PictureInv
    PROVE  /\ AllJobs \in Seq(PpJob) /\ SoundJobs(AllJobs)
           /\ BufsIn(AllJobs) = out \ (left \cup given)
           /\ ToSet(ongoingJpegQ) \cup ToSet(aborted) \subseteq ToSet(AllJobs)
<1>1. /\ inputPPQ \in Seq(PpJob) /\ ongoingPPQ \in Seq(PpJob) /\ inputJpegQ \in Seq(PpJob)
      /\ ongoingJpegQ \in Seq(PpJob) /\ inputRawQ \in Seq(PpJob) /\ aborted \in Seq(PpJob)
      /\ FramesApart
  BY DEF PictureInv, PpTypes
<1>2. /\ SoundJobs(inputPPQ) /\ SoundJobs(ongoingPPQ) /\ SoundJobs(inputJpegQ)
      /\ SoundJobs(ongoingJpegQ) /\ SoundJobs(inputRawQ) /\ SoundJobs(aborted)
  BY <1>1 DEF FramesApart
<1> DEFINE q1 == inputPPQ \o ongoingPPQ
           q2 == q1 \o inputJpegQ
           q3 == q2 \o ongoingJpegQ
           q4 == q3 \o inputRawQ
           q5 == q4 \o aborted
<1>3. /\ q1 \in Seq(PpJob) /\ SoundJobs(q1)
      /\ FramesOf(q1) = FramesOf(inputPPQ) \cup FramesOf(ongoingPPQ)
      /\ BufsIn(q1) = BufsIn(inputPPQ) \cup BufsIn(ongoingPPQ)
  <2>1. FramesOf(inputPPQ) \cap FramesOf(ongoingPPQ) = {}  BY <1>1 DEF FramesApart
  <2> QED  BY <1>1, <1>2, <2>1, JobsJoined
<1> HIDE DEF q1
<1>4. /\ q2 \in Seq(PpJob) /\ SoundJobs(q2)
      /\ FramesOf(q2) = FramesOf(q1) \cup FramesOf(inputJpegQ)
      /\ BufsIn(q2) = BufsIn(q1) \cup BufsIn(inputJpegQ)
  <2>1. FramesOf(q1) \cap FramesOf(inputJpegQ) = {}  BY <1>1, <1>3 DEF FramesApart
  <2> QED  BY <1>1, <1>2, <1>3, <2>1, JobsJoined
<1> HIDE DEF q2
<1>5. /\ q3 \in Seq(PpJob) /\ SoundJobs(q3)
      /\ FramesOf(q3) = FramesOf(q2) \cup FramesOf(ongoingJpegQ)
      /\ BufsIn(q3) = BufsIn(q2) \cup BufsIn(ongoingJpegQ)
      /\ ToSet(q3) = ToSet(q2) \cup ToSet(ongoingJpegQ)
  <2>1. FramesOf(q2) \cap FramesOf(ongoingJpegQ) = {}
    BY <1>1, <1>3, <1>4 DEF FramesApart, Unstarted
  <2> QED  BY <1>1, <1>2, <1>4, <2>1, JobsJoined
<1> HIDE DEF q3
<1>6. /\ q4 \in Seq(PpJob) /\ SoundJobs(q4)
      /\ FramesOf(q4) = FramesOf(q3) \cup FramesOf(inputRawQ)
      /\ BufsIn(q4) = BufsIn(q3) \cup BufsIn(inputRawQ)
      /\ ToSet(q4) = ToSet(q3) \cup ToSet(inputRawQ)
  <2>1. FramesOf(q3) \cap FramesOf(inputRawQ) = {}
    BY <1>1, <1>3, <1>4, <1>5 DEF FramesApart, Unstarted
  <2> QED  BY <1>1, <1>2, <1>5, <2>1, JobsJoined
<1> HIDE DEF q4
<1>7. /\ q5 \in Seq(PpJob) /\ SoundJobs(q5)
      /\ BufsIn(q5) = BufsIn(q4) \cup BufsIn(aborted)
      /\ ToSet(q5) = ToSet(q4) \cup ToSet(aborted)
  <2>1. FramesOf(q4) \cap FramesOf(aborted) = {}
    BY <1>1, <1>3, <1>4, <1>5, <1>6 DEF FramesApart, Unstarted
  <2> QED  BY <1>1, <1>2, <1>6, <2>1, JobsJoined
<1>8. q5 = AllJobs  BY DEF AllJobs, q1, q2, q3, q4
<1> HIDE DEF q5
<1>9. BufsIn(q5) = out \ (left \cup given)
  BY <1>3, <1>4, <1>5, <1>6, <1>7 DEF PictureInv, BuffersOwned
<1> QED  BY <1>5, <1>6, <1>7, <1>8, <1>9

\* A buffer that is out has one owner, whatever the order of callbacks, stop and flush,
\* and so has an encoder.
THEOREM OwnersAreOne == PostProcSpec => []OwnedOnce
<1>1. PictureInv => OwnedOnce
  <2> SUFFICES ASSUME PictureInv  PROVE OwnedOnce
    OBVIOUS
  <2>1. EncodersAccounted
    <3> SUFFICES ASSUME NEW h \in InSession
                 PROVE  Cardinality({i \in DOMAIN session_handle_q : session_handle_q[i] = h})
                            = IF encoder[h].encoding THEN 0 ELSE 1
      BY DEF EncodersAccounted
    <3> DEFINE places == {i \in DOMAIN session_handle_q : session_handle_q[i] = h}
    <3>1. h \in Encoders /\ EncodersFree  BY FirstEncoder DEF PictureInv
    <3>2. encoder[h].encoding \in BOOLEAN  BY <3>1 DEF PictureInv, JpegTypes, Encoder
    <3>3. \A i, j \in places : i = j  BY <3>1 DEF EncodersFree, OneOf
    <3>4. places = {} <=> encoder[h].encoding
      <4>1. places = {} <=> h \notin ToSet(session_handle_q)  BY DEF ToSet
      <4>2. h \notin ToSet(session_handle_q) <=> encoder[h].encoding
        BY <3>1 DEF EncodersFree
      <4> QED  BY <4>1, <4>2
    <3>5. Cardinality(places) = IF places = {} THEN 0 ELSE 1
      <4> HIDE DEF places
      <4> QED  BY <3>3, AtMostOne
    <3> QED  BY <3>4, <3>5
  <2>2. ASSUME NEW b \in Buffers
        PROVE  Cardinality({i \in DOMAIN AllJobs : b \in AllJobs[i].bufs})
                   = IF b \in out \ (left \cup given) THEN 1 ELSE 0
    <3> DEFINE places == {i \in DOMAIN AllJobs : b \in AllJobs[i].bufs}
    <3>1. SoundJobs(AllJobs) /\ BufsIn(AllJobs) = out \ (left \cup given)
      BY AllJobsFacts
    <3>2. \A i, j \in places : i = j  BY <3>1 DEF SoundJobs
    <3>3. places # {} <=> b \in out \ (left \cup given)
      <4>1. places # {} <=> b \in BufsIn(AllJobs)  BY DEF BufsIn
      <4> QED  BY <3>1, <4>1
    <3>4. Cardinality(places) = IF places = {} THEN 0 ELSE 1
      <4> HIDE DEF places
      <4> QED  BY <3>2, AtMostOne
    <3> QED  BY <3>3, <3>4
  <2> QED  BY <2>1, <2>2 DEF OwnedOnce
<1> QED  BY <1>1, PictureInvariant, PTL

\* What a component reads is of a job that still has its buffers, not in burst mode.
THEOREM InputsAreHeld == PostProcSpec => []EncoderOwnsInput
<1>1. PictureInv => EncoderOwnsInput
  <2> SUFFICES ASSUME PictureInv, ~capture.burst, NEW h \in InSession, encoder[h].busy # 0
               PROVE  \E i \in DOMAIN AllJobs : /\ AllJobs[i].frame = jobs[encoder[h].busy]
                                                /\ AllJobs[i].bufs # {}
    BY DEF EncoderOwnsInput
  <2>1. h = 1  BY FirstEncoder DEF PictureInv, AbortFits
  <2>2. jobs[encoder[h].busy] \in FramesOf(ongoingJpegQ) \cup FramesOf(aborted)
    BY <2>1 DEF PictureInv, InputsHeld
  <2>3. PICK job \in ToSet(ongoingJpegQ) \cup ToSet(aborted) :
            job.frame = jobs[encoder[h].busy]
    BY <2>2 DEF FramesOf, ToSet
  <2>4. job.bufs # {}  BY DEF PictureInv, JobsKnown
  <2>5. job \in ToSet(AllJobs)  BY AllJobsFacts
  <2> QED  BY <2>3, <2>4, <2>5 DEF ToSet
<1> QED  BY <1>1, PictureInvariant, PTL

=============================================================================
