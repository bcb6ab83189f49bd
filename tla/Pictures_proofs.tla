--------------------------- MODULE Pictures_proofs ---------------------------
(***************************************************************************)
(* What is proved of the way of a picture through the hardware interface.  *)
(*                                                                         *)
(* The callback notifier: commands that were sent with priority are ahead  *)
(* of those that ask for the next callback, so the notifier has seen every *)
(* start and stop of a capture before it counts a picture; and a stream    *)
(* that is being deleted has no thread that could queue a callback, nor    *)
(* any callback in the queue, since it was flushed.                        *)
(*                                                                         *)
(* Superbufs: frames of one number from all streams of a channel come      *)
(* together in a queue that stays sorted, matched ones first.  A buffer is *)
(* in one place at a time, besides the callback that shows it, and has a   *)
(* reference for each; a frame that is still a command is newer than all   *)
(* of its stream that were handled, so the client gets its superbufs in    *)
(* order.                                                                  *)
(***************************************************************************)
EXTENDS QCameraCbNotifier, MmSuperbuf, WellFoundedInduction, FiniteSetTheorems,
        SequenceTheorems, TLAPS

-----------------------------------------------------------------------------
(* Lemmas about sublists and queues.                                       *)

\* Of some natural numbers there is a least one.
LEMMA LeastNumber ==
    ASSUME NEW T \in SUBSET Nat, T # {}
    PROVE  \E x \in T : \A y \in T : x <= y
<1>1. \A x, y \in Nat : ~(<<y, x>> \in OpToRel(<, Nat)) => x <= y
  BY DEF OpToRel
<1>2. PICK x \in T : \A y \in T : ~(<<y, x>> \in OpToRel(<, Nat))
  BY NatLessThanWellFounded, WFMin
<1> QED  BY <1>1, <1>2

\* The places up to k.
UpTo(places, k) == {q \in places : q <= k}

\* They are some of the places, so there are finitely many.
LEMMA UpToFacts ==
    ASSUME NEW n \in Nat, NEW places \in SUBSET (1..n)
    PROVE  /\ IsFiniteSet(places) /\ Cardinality(places) \in Nat
           /\ \A k : /\ UpTo(places, k) \in SUBSET places
                     /\ IsFiniteSet(UpTo(places, k))
                     /\ Cardinality(UpTo(places, k)) \in Nat
                     /\ Cardinality(UpTo(places, k)) <= Cardinality(places)
<1>1. IsFiniteSet(1..n)
  <2>1. 1 \in Int /\ n \in Int  OBVIOUS
  <2> QED  BY <2>1, FS_Interval
<1>2. IsFiniteSet(places)  BY <1>1, FS_Subset
<1>3. Cardinality(places) \in Nat  BY <1>2, FS_CardinalityType
<1>4. ASSUME NEW k
      PROVE  /\ UpTo(places, k) \in SUBSET places
             /\ IsFiniteSet(UpTo(places, k))
             /\ Cardinality(UpTo(places, k)) \in Nat
             /\ Cardinality(UpTo(places, k)) <= Cardinality(places)
  <2>1. UpTo(places, k) \in SUBSET places  BY DEF UpTo
  <2>2. IsFiniteSet(UpTo(places, k)) /\ Cardinality(UpTo(places, k)) <= Cardinality(places)
    BY <1>2, <2>1, FS_Subset
  <2> QED  BY <2>1, <2>2, FS_CardinalityType
<1> QED  BY <1>2, <1>3, <1>4

\* There is an ith place, and it is one of the places.
LEMMA NthIsAPlace ==
    ASSUME NEW n \in Nat, NEW places \in SUBSET (1..n), NEW i \in 1..Cardinality(places)
    PROVE  /\ Nth(places, i) \in places
           /\ Cardinality(UpTo(places, Nth(places, i))) = i
<1>0. \A q \in places : q \in Nat /\ q <= n /\ q # 0  OBVIOUS
<1>01. \A q, m : q \in UpTo(places, m) <=> q \in places /\ q <= m  BY DEF UpTo
<1> DEFINE T == {k \in Nat : Cardinality(UpTo(places, k)) >= i}
<1>1. IsFiniteSet(places) /\ Cardinality(places) \in Nat  BY UpToFacts
<1>2. \A k : IsFiniteSet(UpTo(places, k)) /\ Cardinality(UpTo(places, k)) \in Nat
  BY UpToFacts
<1>3. i \in Nat /\ i # 0 /\ i <= Cardinality(places)  BY <1>1
<1>4. n \in T
  <2>1. UpTo(places, n) = places  BY <1>0, <1>01
  <2> QED  BY <1>1, <1>3, <2>1
<1>5. PICK k \in T : \A l \in T : k <= l
  <2>1. T \in SUBSET Nat /\ T # {}  BY <1>4
  <2> HIDE DEF T
  <2> QED  BY <2>1, LeastNumber
<1>6. k \in Nat /\ Cardinality(UpTo(places, k)) >= i  OBVIOUS
<1>7. k # 0
  <2>1. ASSUME NEW q \in UpTo(places, 0)  PROVE FALSE
    <3>1. q \in places /\ q <= 0  BY <1>01
    <3> QED  BY <1>0, <3>1
  <2>2. Cardinality(UpTo(places, 0)) = 0  
    <3>1. UpTo(places, 0) = {}  BY <2>1
    <3> QED  BY <3>1, FS_EmptySet
  <2> QED  BY <1>3, <1>6, <2>2
<1>8. k - 1 \in Nat /\ k - 1 \notin T  BY <1>5, <1>6, <1>7
<1>9. ~(Cardinality(UpTo(places, k - 1)) >= i)  BY <1>8
<1>10. k \in places
  <2>1. CASE k \notin places
    <3>1. \A q \in places : q <= k <=> q <= k - 1  BY <1>0, <1>6, <2>1
    <3>2. UpTo(places, k) = UpTo(places, k - 1)  BY <3>1 DEF UpTo
    <3> QED  BY <1>6, <1>9, <3>2
  <2> QED  BY <2>1
<1>11. Cardinality(UpTo(places, k)) = Cardinality(UpTo(places, k - 1)) + 1
  <2>1. UpTo(places, k) = UpTo(places, k - 1) \cup {k} /\ k \notin UpTo(places, k - 1)
    <3>1. \A q \in places : q <= k <=> q <= k - 1 \/ q = k  BY <1>0, <1>6
    <3>2. ~(k <= k - 1)  BY <1>6
    <3> QED  BY <1>10, <3>1, <3>2 DEF UpTo
  <2> QED  BY <1>2, <2>1, FS_AddElement
<1>12. Cardinality(UpTo(places, k)) = i  
  <2>1. Cardinality(UpTo(places, k)) \in Nat /\ Cardinality(UpTo(places, k - 1)) \in Nat
    BY <1>2
  <2> QED  BY <2>1, <1>3, <1>6, <1>9, <1>11
<1> QED  BY <1>10, <1>12 DEF Nth, UpTo

\* A place is the one that its rank says.
LEMMA NthOfRank ==
    ASSUME NEW n \in Nat, NEW places \in SUBSET (1..n), NEW p \in places
    PROVE  /\ Cardinality(UpTo(places, p)) \in 1..Cardinality(places)
           /\ Nth(places, Cardinality(UpTo(places, p))) = p
<1>0. \A q \in places : q \in Int  OBVIOUS
<1> DEFINE c == Cardinality(UpTo(places, p))
           r == Nth(places, c)
<1>1. p \in UpTo(places, p) /\ p \in Int  BY DEF UpTo
<1>2. IsFiniteSet(UpTo(places, p)) /\ c \in Nat /\ c <= Cardinality(places)
      /\ Cardinality(places) \in Nat
  BY UpToFacts
<1>3. c # 0  BY <1>1, <1>2, FS_EmptySet
<1>4. c \in 1..Cardinality(places)  BY <1>2, <1>3
<1>5. r \in places /\ Cardinality(UpTo(places, r)) = c
  <2> HIDE DEF c
  <2> QED  BY <1>4, NthIsAPlace
<1> HIDE DEF r
<1>6. IsFiniteSet(UpTo(places, r))  BY UpToFacts
<1>7. r \in Int /\ r \in UpTo(places, r)  BY <1>5 DEF UpTo
<1>8. CASE r <= p
  <2>1. UpTo(places, r) \in SUBSET UpTo(places, p)
    <3>1. \A q \in places : q <= r => q <= p  BY <1>0, <1>1, <1>7, <1>8
    <3> QED  BY <3>1 DEF UpTo
  <2>2. UpTo(places, p) = UpTo(places, r)  BY <1>2, <1>5, <2>1, FS_Subset
  <2>3. p <= r  BY <1>1, <2>2 DEF UpTo
  <2> QED  BY <1>1, <1>4, <1>7, <1>8, <2>3 DEF r
<1>9. CASE p <= r
  <2>1. UpTo(places, p) \in SUBSET UpTo(places, r)
    <3>1. \A q \in places : q <= p => q <= r  BY <1>0, <1>1, <1>7, <1>9
    <3> QED  BY <3>1 DEF UpTo
  <2>2. UpTo(places, p) = UpTo(places, r)  BY <1>5, <1>6, <2>1, FS_Subset
  <2>3. r <= p  BY <1>7, <2>2 DEF UpTo
  <2> QED  BY <1>1, <1>4, <1>7, <1>9, <2>3 DEF r
<1> QED  BY <1>1, <1>7, <1>8, <1>9

\* What is at some places of a list, and nothing else, is in the sublist, once for each.
LEMMA SublistFacts ==
    ASSUME NEW S, NEW list \in Seq(S), NEW places \in SUBSET DOMAIN list
    PROVE  /\ At(list, places) \in Seq(S)
           /\ DOMAIN At(list, places) = 1..Cardinality(places)
           /\ \A i \in DOMAIN At(list, places) :
                  Nth(places, i) \in places /\ At(list, places)[i] = list[Nth(places, i)]
           /\ \A i, j \in DOMAIN At(list, places) :
                  Nth(places, i) = Nth(places, j) => i = j
           /\ \A p \in places : \E i \in DOMAIN At(list, places) : Nth(places, i) = p
<1> DEFINE n == Len(list)
           c == Cardinality(places)
<1>1. n \in Nat /\ DOMAIN list = 1..n /\ \A p \in 1..n : list[p] \in S  OBVIOUS
<1>2. places \in SUBSET (1..n)  BY <1>1
<1> HIDE DEF n
<1>3. c \in Nat  BY <1>1, <1>2, UpToFacts
<1>4. \A i \in 1..c : Nth(places, i) \in places /\ Cardinality(UpTo(places, Nth(places, i))) = i
  BY <1>1, <1>2, NthIsAPlace
<1>5. \A p \in places : Cardinality(UpTo(places, p)) \in 1..c
                        /\ Nth(places, Cardinality(UpTo(places, p))) = p
  BY <1>1, <1>2, NthOfRank
<1>6. At(list, places) = [i \in 1..c |-> list[Nth(places, i)]]  BY DEF At
<1> HIDE DEF c
<1>7. At(list, places) \in [1..c -> S]  BY <1>1, <1>2, <1>4, <1>6
<1>8. At(list, places) \in Seq(S)
  <2> DEFINE f == At(list, places)
  <2>1. f \in [1..c -> S]  BY <1>7
  <2> HIDE DEF f
  <2>2. f \in Seq(S)  BY <1>3, <2>1
  <2> QED  BY <2>2 DEF f
<1>9. DOMAIN At(list, places) = 1..c  BY <1>6
<1>10. \A i \in 1..c : At(list, places)[i] = list[Nth(places, i)]  BY <1>6
<1>11. \A i, j \in 1..c : Nth(places, i) = Nth(places, j) => i = j  BY <1>4
<1> QED  BY <1>4, <1>5, <1>8, <1>9, <1>10, <1>11 DEF c

-----------------------------------------------------------------------------
(* The queues of the notifier.                                             *)

Commands == {"START", "STOP", "NEXT", "EXIT"}

\* What appending to a queue does to what is in it, ...
LEMMA AppendFacts ==
    ASSUME NEW S, NEW q \in Seq(S), NEW x \in S
    PROVE  Append(q, x) \in Seq(S) /\ ToSet(Append(q, x)) = ToSet(q) \cup {x}
<1>1. \A i \in 1..Len(q) : Append(q, x)[i] = q[i] /\ i \in 1..Len(Append(q, x))  OBVIOUS
<1>2. Append(q, x)[Len(q) + 1] = x /\ Len(Append(q, x)) = Len(q) + 1
      /\ Len(q) + 1 \in 1..Len(Append(q, x))
  OBVIOUS
<1>3. \A i \in 1..Len(Append(q, x)) : i \in 1..Len(q) \/ i = Len(q) + 1  OBVIOUS
<1> QED  BY <1>1, <1>2, <1>3 DEF ToSet

\* ... what sending with priority does, ...
LEMMA PriorityFacts ==
    ASSUME NEW S, NEW q \in Seq(S), NEW x \in S
    PROVE  <<x>> \o q \in Seq(S) /\ ToSet(<<x>> \o q) = ToSet(q) \cup {x}
<1> DEFINE r == <<x>> \o q
<1>1. r \in Seq(S) /\ Len(r) = Len(q) + 1 /\ r[1] = x  OBVIOUS
<1>2. \A i \in 1..Len(q) : r[i + 1] = q[i]  OBVIOUS
<1> HIDE DEF r
<1>3. \A i \in 1..Len(q) : q[i] \in ToSet(r)
  <2>1. \A i \in 1..Len(q) : i + 1 \in DOMAIN r  BY <1>1
  <2> QED  BY <1>2, <2>1 DEF ToSet
<1>4. x \in ToSet(r)
  <2>1. 1 \in DOMAIN r  BY <1>1
  <2> QED  BY <1>1, <2>1 DEF ToSet
<1>5. \A i \in DOMAIN r : r[i] = x \/ \E j \in DOMAIN q : r[i] = q[j]
  <2> TAKE i \in DOMAIN r
  <2>1. i = 1 \/ i - 1 \in 1..Len(q)  BY <1>1
  <2>2. CASE i = 1  BY <1>1, <2>2
  <2>3. CASE i - 1 \in 1..Len(q)
    <3>1. r[(i - 1) + 1] = q[i - 1]  BY <1>2, <2>3
    <3>2. (i - 1) + 1 = i /\ i - 1 \in DOMAIN q  BY <1>1, <2>3
    <3> QED  BY <3>1, <3>2
  <2> QED  BY <2>1, <2>2, <2>3
<1>6. ToSet(r) \subseteq ToSet(q) \cup {x}  BY <1>5 DEF ToSet
<1>7. ToSet(q) \subseteq ToSet(r)  BY <1>3 DEF ToSet
<1> QED  BY <1>1, <1>4, <1>6, <1>7 DEF r

\* ... and what taking the head does.
LEMMA TailFacts ==
    ASSUME NEW S, NEW q \in Seq(S), q # << >>
    PROVE  /\ Tail(q) \in Seq(S) /\ Head(q) \in S
           /\ ToSet(q) = ToSet(Tail(q)) \cup {Head(q)}
<1>1. Tail(q) \in Seq(S) /\ Len(Tail(q)) = Len(q) - 1 /\ Head(q) = q[1]
      /\ Len(q) \in Nat /\ Len(q) # 0
  OBVIOUS
<1>2. \A i \in 1..Len(q) - 1 : Tail(q)[i] = q[i + 1]  OBVIOUS
<1>3. 1 \in DOMAIN q /\ q[1] \in S  BY <1>1
<1>4. \A i \in DOMAIN Tail(q) : i + 1 \in DOMAIN q /\ Tail(q)[i] = q[i + 1]  BY <1>1, <1>2
<1>5. \A i \in DOMAIN q : i = 1 \/ (i - 1 \in DOMAIN Tail(q) /\ q[i] = Tail(q)[i - 1])
  BY <1>1, <1>2
<1>6. ToSet(Tail(q)) \cup {Head(q)} \subseteq ToSet(q)  BY <1>1, <1>3, <1>4 DEF ToSet
<1>7. ToSet(q) \subseteq ToSet(Tail(q)) \cup {Head(q)}  BY <1>1, <1>5 DEF ToSet
<1> QED  BY <1>1, <1>3, <1>6, <1>7

\* Nothing is in an empty queue.
LEMMA EmptyFacts == ToSet(<< >>) = {}
BY DEF ToSet

\* A flush leaves callbacks that were there, of other kinds.
LEMMA FlushFacts ==
    ASSUME NEW q \in Seq(Callback), NEW kind
    PROVE  /\ NotOf(q, kind) \in Seq(Callback)
           /\ \A cb \in ToSet(NotOf(q, kind)) : cb \in ToSet(q) /\ cb.kind # kind
<1> DEFINE others == {i \in DOMAIN q : q[i].kind # kind}
<1>1. others \in SUBSET DOMAIN q  OBVIOUS
<1>2. \A p \in others : q[p] \in ToSet(q) /\ q[p].kind # kind  BY DEF ToSet
<1> HIDE DEF others
<1>3. /\ At(q, others) \in Seq(Callback)
      /\ \A i \in DOMAIN At(q, others) :
             Nth(others, i) \in others /\ At(q, others)[i] = q[Nth(others, i)]
  BY <1>1, SublistFacts
<1>4. \A cb \in ToSet(At(q, others)) : cb \in ToSet(q) /\ cb.kind # kind
  BY <1>2, <1>3 DEF ToSet
<1>5. NotOf(q, kind) = At(q, others)  BY DEF NotOf, others
<1> QED  BY <1>3, <1>4, <1>5

\* Behind a command that asks for the next callback there are only such commands.
Sorted(q) == \A i, j \in DOMAIN q : i < j /\ q[i] = "NEXT" => q[j] = "NEXT"

\* The queue of commands stays so, whatever the sender.
LEMMA SortedFacts ==
    ASSUME NEW q \in Seq(Commands), Sorted(q), NEW c \in Commands \ {"NEXT"}
    PROVE  /\ Sorted(Append(q, "NEXT")) /\ Sorted(<<c>> \o q)
           /\ q # << >> => Sorted(Tail(q))
           /\ (q # << >> /\ Head(q) = "NEXT") => ToSet(q) \subseteq {"NEXT"}
<1>1. Sorted(Append(q, "NEXT"))
  <2> DEFINE r == Append(q, "NEXT")
  <2>1. Len(r) = Len(q) + 1 /\ r[Len(q) + 1] = "NEXT" /\ \A i \in 1..Len(q) : r[i] = q[i]
        /\ DOMAIN r = 1..Len(q) + 1 /\ DOMAIN q = 1..Len(q) /\ Len(q) \in Nat
    OBVIOUS
  <2> HIDE DEF r
  <2>2. Sorted(r)  BY <2>1 DEF Sorted
  <2> QED  BY <2>2 DEF r
<1>2. Sorted(<<c>> \o q)
  <2> DEFINE r == <<c>> \o q
  <2>1. DOMAIN r = 1..Len(q) + 1 /\ r[1] = c /\ c # "NEXT" /\ Len(q) \in Nat
        /\ DOMAIN q = 1..Len(q)
    OBVIOUS
  <2>2. \A i \in 2..Len(q) + 1 : r[i] = q[i - 1]  OBVIOUS
  <2> HIDE DEF r
  <2>3. ASSUME NEW i \in DOMAIN r, NEW j \in DOMAIN r, i < j, r[i] = "NEXT"
        PROVE  r[j] = "NEXT"
    <3>1. i # 1 /\ i \in 2..Len(q) + 1 /\ j \in 2..Len(q) + 1  BY <2>1, <2>3
    <3>2. i - 1 \in DOMAIN q /\ j - 1 \in DOMAIN q /\ i - 1 < j - 1  BY <2>1, <2>3, <3>1
    <3>3. q[i - 1] = "NEXT"  BY <2>2, <2>3, <3>1
    <3>4. q[j - 1] = "NEXT"  BY <3>2, <3>3 DEF Sorted
    <3> QED  BY <2>2, <3>1, <3>4
  <2>4. Sorted(r)  BY <2>3 DEF Sorted
  <2> QED  BY <2>4 DEF r
<1>3. ASSUME q # << >>  PROVE Sorted(Tail(q))
  <2> DEFINE r == Tail(q)
  <2>1. DOMAIN r = 1..Len(q) - 1 /\ \A i \in 1..Len(q) - 1 : r[i] = q[i + 1]  BY <1>3
  <2>2. DOMAIN q = 1..Len(q) /\ Len(q) \in Nat  OBVIOUS
  <2> HIDE DEF r
  <2>3. ASSUME NEW i \in DOMAIN r, NEW j \in DOMAIN r, i < j, r[i] = "NEXT"
        PROVE  r[j] = "NEXT"
    <3>1. i + 1 \in DOMAIN q /\ j + 1 \in DOMAIN q /\ i + 1 < j + 1  BY <2>1, <2>2, <2>3
    <3>2. q[i + 1] = "NEXT"  BY <2>1, <2>3
    <3>3. q[j + 1] = "NEXT"  BY <3>1, <3>2 DEF Sorted
    <3> QED  BY <2>1, <3>3
  <2>4. Sorted(r)  BY <2>3 DEF Sorted
  <2> QED  BY <2>4 DEF r
<1>4. ASSUME q # << >>, Head(q) = "NEXT"  PROVE ToSet(q) \subseteq {"NEXT"}
  <2>1. 1 \in DOMAIN q /\ q[1] = "NEXT" /\ DOMAIN q = 1..Len(q) /\ Len(q) \in Nat  BY <1>4
  <2>2. \A j \in DOMAIN q : j = 1 \/ 1 < j  BY <2>1
  <2>3. \A j \in DOMAIN q : q[j] = "NEXT"  BY <2>1, <2>2 DEF Sorted
  <2> QED  BY <2>3 DEF ToSet
<1> QED  BY <1>1, <1>2, <1>3, <1>4

-----------------------------------------------------------------------------
(* The callback notifier: its inductive invariant.                         *)

NotifierTypes ==
    /\ mActive \in BOOLEAN /\ late \in BOOLEAN
    /\ cmd_queue \in Seq(Commands) /\ mDataQ \in Seq(Callback)
    /\ notifier \in {"waits", "tells", "calls", "exited"}
    /\ posting \in [Producers -> {"no", "enqueues", "sends"}]
    /\ stream \in [Streams -> {"none", "streams", "stopped", "flushed"}]
    /\ life \in [Streams -> Nat] /\ frames \in [Streams -> Nat]
    /\ taking \in {"no", "taking", "stopping"}
    /\ captures \in Nat /\ counted \in Seq(Nat) /\ told \in Nat

\* What has been sent with priority is ahead of what asks for the next callback.
PriorityFirst == Sorted(cmd_queue)

\* The callbacks of a stream are of the life it has, and gone once they are flushed.
OfLiveStreams ==
    mActive => \A cb \in ToSet(mDataQ) :
                   cb.kind \in Streams => /\ stream[cb.kind] \in {"streams", "stopped"}
                                          /\ cb.life = life[cb.kind]

\* A stream that has stopped has no thread in notifyCallback().
StoppedIsQuiet == \A s \in Streams : posting[s] # "no" => stream[s] = "streams"

\* Nor has a postprocessor that has.
PicturesOfCaptures == posting["pictures"] # "no" => taking # "no"

\* A picture in the queue is of the capture there is, or STOP is under way, which flushes it.
OldOnesFlushed ==
    \/ late \/ "STOP" \in ToSet(cmd_queue)
    \/ \A cb \in ToSet(mDataQ) : cb.kind = "pictures" => taking = "taking" /\ cb.life = captures

\* The same of those counted: START and STOP make the notifier forget them.
OldOnesForgotten ==
    \/ late \/ "START" \in ToSet(cmd_queue) \/ "STOP" \in ToSet(cmd_queue)
    \/ ToSet(counted) \subseteq {captures}

\* What it tells SNAPSHOT_DONE of.
ToldOfCounted == late \/ notifier # "tells" \/ ToSet(counted) \subseteq {told}

NotifierInv ==
    /\ NotifierTypes /\ PriorityFirst /\ OfLiveStreams /\ StoppedIsQuiet
    /\ PicturesOfCaptures /\ OldOnesFlushed /\ OldOnesForgotten /\ ToldOfCounted

\* The pictures are not a stream; a callback is of its producer.
LEMMA ProducerFacts ==
    ASSUME NotifierTypes
    PROVE  /\ "pictures" \notin Streams /\ "pictures" \in Producers
           /\ Streams \subseteq Producers
           /\ \A p \in Producers : /\ CallbackOf(p) \in Callback /\ CallbackOf(p).kind = p
                                   /\ p \in Streams => CallbackOf(p).life = life[p]
                                   /\ p = "pictures" => CallbackOf(p).life = captures
<1>1. "pictures" \notin Streams /\ "pictures" \in Producers /\ Streams \subseteq Producers
  BY NotifierAssumption DEF NotifierAssumption, Producers
<1>2. \A p \in Producers : (IF p \in Streams THEN life[p] ELSE captures) \in Nat
  BY DEF NotifierTypes
<1>3. \A p \in Producers : CallbackOf(p) \in Callback /\ CallbackOf(p).kind = p
  BY <1>2 DEF CallbackOf, Callback
<1>4. \A p \in Producers : /\ p \in Streams => CallbackOf(p).life = life[p]
                           /\ p = "pictures" => CallbackOf(p).life = captures
  BY <1>1 DEF CallbackOf
<1> QED  BY <1>1, <1>3, <1>4

\* The steps of producers.
LEMMA ProducerSteps ==
    ASSUME NotifierInv,
           \/ \E s \in Streams : PostFrame(s)
           \/ PostPicture
           \/ \E p \in Producers : Enqueue(p) \/ SendNext(p)
    PROVE  NotifierInv'
<1> USE DEF NotifierInv
<1>1. "pictures" \notin Streams /\ "pictures" \in Producers /\ Streams \subseteq Producers
  BY ProducerFacts
<1>2. ASSUME NEW s \in Streams, PostFrame(s)  PROVE NotifierInv'
  <2>1. NotifierTypes'  BY <1>1, <1>2 DEF PostFrame, NotifierTypes, thread, excuses
  <2>2. UNCHANGED <<mActive, cmd_queue, mDataQ, stream, life, taking, captures, counted,
                    notifier, late, told>>
    BY <1>2 DEF PostFrame, thread, excuses
  <2>3. \A q \in Producers : q # s => posting'[q] = posting[q]
    BY <1>1, <1>2 DEF PostFrame, NotifierTypes
  <2>4. StoppedIsQuiet'  BY <1>1, <1>2, <2>2, <2>3 DEF PostFrame, StoppedIsQuiet
  <2>5. PicturesOfCaptures'  BY <1>1, <2>2, <2>3 DEF PicturesOfCaptures
  <2> QED
    BY <2>1, <2>2, <2>4, <2>5 DEF PriorityFirst, OfLiveStreams, OldOnesFlushed,
       OldOnesForgotten, ToldOfCounted
<1>3. CASE PostPicture
  <2>1. NotifierTypes'  BY <1>1, <1>3 DEF PostPicture, NotifierTypes, thread, excuses
  <2>2. UNCHANGED <<mActive, cmd_queue, mDataQ, stream, life, taking, captures, counted,
                    notifier, late, told>>
    BY <1>3 DEF PostPicture, thread, excuses
  <2>3. \A q \in Producers : q # "pictures" => posting'[q] = posting[q]
    BY <1>1, <1>3 DEF PostPicture, NotifierTypes
  <2>4. StoppedIsQuiet'  BY <1>1, <2>2, <2>3 DEF StoppedIsQuiet
  <2>5. PicturesOfCaptures'  BY <1>3, <2>2 DEF PostPicture, PicturesOfCaptures
  <2> QED
    BY <2>1, <2>2, <2>4, <2>5 DEF PriorityFirst, OfLiveStreams, OldOnesFlushed,
       OldOnesForgotten, ToldOfCounted
<1>4. ASSUME NEW p \in Producers, Enqueue(p)  PROVE NotifierInv'
  <2> DEFINE cb == CallbackOf(p)
  <2>1. cb \in Callback /\ cb.kind = p /\ (p \in Streams => cb.life = life[p])
        /\ (p = "pictures" => cb.life = captures)
    BY ProducerFacts
  <2> HIDE DEF cb
  <2>2. mDataQ' = Append(mDataQ, cb)  BY <1>4 DEF Enqueue, cb
  <2>3. mDataQ' \in Seq(Callback) /\ ToSet(mDataQ') = ToSet(mDataQ) \cup {cb}
    <3>1. mDataQ \in Seq(Callback)  BY DEF NotifierTypes
    <3>2. Append(mDataQ, cb) \in Seq(Callback)
          /\ ToSet(Append(mDataQ, cb)) = ToSet(mDataQ) \cup {cb}
      BY <2>1, <3>1, AppendFacts
    <3> QED  BY <2>2, <3>2
  <2>4. UNCHANGED <<mActive, cmd_queue, stream, life, frames, taking, captures, counted,
                    notifier, told>>
    BY <1>4 DEF Enqueue, thread, client
  <2>5. posting[p] = "enqueues" /\ posting' = [posting EXCEPT ![p] = "sends"]
        /\ late' = (late \/ (p = "pictures" /\ taking = "stopping"))
    BY <1>4 DEF Enqueue
  <2>6. late' \in BOOLEAN  BY <2>5
  <2>7. posting' \in [Producers -> {"no", "enqueues", "sends"}]  BY <2>5 DEF NotifierTypes
  <2>8. NotifierTypes'  BY <2>3, <2>4, <2>6, <2>7 DEF NotifierTypes
  <2>9. \A q \in Producers : posting'[q] # "no" <=> posting[q] # "no"
    BY <2>5 DEF NotifierTypes
  <2>10. StoppedIsQuiet'  BY <1>1, <2>4, <2>9 DEF StoppedIsQuiet
  <2>11. PicturesOfCaptures'  BY <1>1, <2>4, <2>9 DEF PicturesOfCaptures
  <2>12. p \in Streams => stream[p] = "streams"  BY <2>5 DEF StoppedIsQuiet
  <2>13. OfLiveStreams'  BY <2>1, <2>3, <2>4, <2>12 DEF OfLiveStreams
  <2>14. late'  \/ p # "pictures" \/ taking = "taking"
    BY <2>5 DEF PicturesOfCaptures, NotifierTypes
  <2>15. late => late'  BY <2>5
  <2>16. OldOnesFlushed'  BY <2>1, <2>3, <2>4, <2>14, <2>15 DEF OldOnesFlushed
  <2> QED
    BY <2>4, <2>8, <2>10, <2>11, <2>13, <2>15, <2>16 DEF PriorityFirst, OldOnesForgotten,
       ToldOfCounted
<1>5. ASSUME NEW p \in Producers, SendNext(p)  PROVE NotifierInv'
  <2>1. "NEXT" \in Commands /\ "START" \in Commands  BY DEF Commands
  <2>2. cmd_queue' = Append(cmd_queue, "NEXT")  BY <1>5 DEF SendNext
  <2>3. cmd_queue' \in Seq(Commands) /\ ToSet(cmd_queue') = ToSet(cmd_queue) \cup {"NEXT"}
    <3>1. cmd_queue \in Seq(Commands)  BY DEF NotifierTypes
    <3> DEFINE c == "NEXT"
    <3>2. c \in Commands  BY <2>1
    <3> HIDE DEF c
    <3>3. Append(cmd_queue, c) \in Seq(Commands)
          /\ ToSet(Append(cmd_queue, c)) = ToSet(cmd_queue) \cup {c}
      BY <3>1, <3>2, AppendFacts
    <3> QED  BY <2>2, <3>3 DEF c
  <2>4. PriorityFirst'
    <3>1. "START" \in Commands \ {"NEXT"}  BY <2>1
    <3> QED  BY <2>2, <3>1, SortedFacts DEF NotifierTypes, PriorityFirst
  <2>5. UNCHANGED <<mActive, mDataQ, stream, life, frames, taking, captures, counted,
                    notifier, told, late>>
    BY <1>5 DEF SendNext, thread, client, excuses
  <2>6. posting' = [posting EXCEPT ![p] = "no"]  BY <1>5 DEF SendNext
  <2>7. NotifierTypes'  BY <2>3, <2>5, <2>6 DEF NotifierTypes
  <2>8. \A q \in Producers : posting'[q] # "no" => posting[q] # "no"
    BY <2>6 DEF NotifierTypes
  <2>9. StoppedIsQuiet'  BY <1>1, <2>5, <2>8 DEF StoppedIsQuiet
  <2>10. PicturesOfCaptures'  BY <1>1, <2>5, <2>8 DEF PicturesOfCaptures
  <2> QED
    BY <2>3, <2>4, <2>5, <2>7, <2>9, <2>10 DEF OfLiveStreams, OldOnesFlushed,
       OldOnesForgotten, ToldOfCounted
<1> QED  BY <1>2, <1>3, <1>4, <1>5

\* What sending a command with priority does to the queue of commands.
LEMMA PrioritySends ==
    ASSUME NotifierInv, NEW c \in Commands \ {"NEXT"}, cmd_queue' = <<c>> \o cmd_queue
    PROVE  /\ cmd_queue' \in Seq(Commands)
           /\ ToSet(cmd_queue') = ToSet(cmd_queue) \cup {c}
           /\ PriorityFirst'
<1>1. cmd_queue \in Seq(Commands) /\ Sorted(cmd_queue)
  BY DEF NotifierInv, NotifierTypes, PriorityFirst
<1>2. c \in Commands  OBVIOUS
<1>3. <<c>> \o cmd_queue \in Seq(Commands)
      /\ ToSet(<<c>> \o cmd_queue) = ToSet(cmd_queue) \cup {c}
  BY <1>1, <1>2, PriorityFacts
<1>4. Sorted(<<c>> \o cmd_queue)  BY <1>1, SortedFacts
<1> QED  BY <1>3, <1>4 DEF PriorityFirst

\* The steps of the state machine's thread that start and stop streams.
LEMMA StreamSteps ==
    ASSUME NotifierInv, NEW s \in Streams,
           StartStream(s) \/ StopStream(s) \/ Flush(s) \/ DeleteStream(s)
    PROVE  NotifierInv'
<1> USE DEF NotifierInv
<1>1. UNCHANGED <<mActive, cmd_queue, notifier, posting, taking, captures, counted, told, late>>
  BY DEF StartStream, StopStream, Flush, DeleteStream, queues, thread, excuses
<1>2. PriorityFirst'  BY <1>1 DEF PriorityFirst
<1>3. PicturesOfCaptures'  BY <1>1 DEF PicturesOfCaptures
<1>4. OldOnesForgotten'  BY <1>1 DEF OldOnesForgotten
<1>5. ToldOfCounted'  BY <1>1 DEF ToldOfCounted
<1>6. SUFFICES NotifierTypes' /\ StoppedIsQuiet' /\ OfLiveStreams' /\ OldOnesFlushed'
  BY <1>2, <1>3, <1>4, <1>5
<1>7. CASE StartStream(s)
  <2>1. /\ stream[s] = "none" /\ stream' = [stream EXCEPT ![s] = "streams"]
        /\ life' = [life EXCEPT ![s] = @ + 1] /\ frames' = [frames EXCEPT ![s] = 0]
        /\ mDataQ' = mDataQ
    BY <1>7 DEF StartStream, queues
  <2>2. NotifierTypes'  BY <1>1, <2>1 DEF NotifierTypes
  <2>3. \A t \in Streams : t # s => stream'[t] = stream[t] /\ life'[t] = life[t]
    BY <2>1 DEF NotifierTypes
  <2>4. StoppedIsQuiet'
    <3>1. stream'[s] = "streams"  BY <2>1 DEF NotifierTypes
    <3> QED  BY <1>1, <2>3, <3>1 DEF StoppedIsQuiet
  <2>5. OfLiveStreams'  BY <1>1, <2>1, <2>3 DEF OfLiveStreams
  <2>6. OldOnesFlushed'  BY <1>1, <2>1 DEF OldOnesFlushed
  <2> QED  BY <2>2, <2>4, <2>5, <2>6
<1>8. CASE StopStream(s)
  <2>1. /\ stream[s] = "streams" /\ posting[s] = "no"
        /\ stream' = [stream EXCEPT ![s] = "stopped"]
        /\ UNCHANGED <<mDataQ, life, frames>>
    BY <1>8 DEF StopStream, queues
  <2>2. NotifierTypes'  BY <1>1, <2>1 DEF NotifierTypes
  <2>3. \A t \in Streams : t # s => stream'[t] = stream[t]  BY <2>1 DEF NotifierTypes
  <2>4. StoppedIsQuiet'  BY <1>1, <2>1, <2>3 DEF StoppedIsQuiet
  <2>5. OfLiveStreams'
    <3>1. stream'[s] = "stopped"  BY <2>1 DEF NotifierTypes
    <3> QED  BY <1>1, <2>1, <2>3, <3>1 DEF OfLiveStreams
  <2>6. OldOnesFlushed'  BY <1>1, <2>1 DEF OldOnesFlushed
  <2> QED  BY <2>2, <2>4, <2>5, <2>6
<1>9. CASE Flush(s)
  <2>1. /\ stream[s] = "stopped" /\ stream' = [stream EXCEPT ![s] = "flushed"]
        /\ mDataQ' = (IF mActive THEN NotOf(mDataQ, s) ELSE mDataQ)
        /\ UNCHANGED <<life, frames>>
    BY <1>9 DEF Flush
  <2>2. /\ NotOf(mDataQ, s) \in Seq(Callback)
        /\ \A cb \in ToSet(NotOf(mDataQ, s)) : cb \in ToSet(mDataQ) /\ cb.kind # s
    <3>1. mDataQ \in Seq(Callback)  BY DEF NotifierTypes
    <3> QED  BY <3>1, FlushFacts
  <2>3. mDataQ' \in Seq(Callback)  BY <2>1, <2>2 DEF NotifierTypes
  <2>4. \A cb \in ToSet(mDataQ') : cb \in ToSet(mDataQ) /\ (mActive => cb.kind # s)
    BY <2>1, <2>2
  <2>5. stream' \in [Streams -> {"none", "streams", "stopped", "flushed"}]
    BY <2>1 DEF NotifierTypes
  <2>6. NotifierTypes'  BY <1>1, <2>1, <2>3, <2>5 DEF NotifierTypes
  <2>7. \A t \in Streams : t # s => stream'[t] = stream[t]  BY <2>1 DEF NotifierTypes
  <2>8. StoppedIsQuiet'  BY <1>1, <2>1, <2>7 DEF StoppedIsQuiet
  <2>9. OfLiveStreams'  BY <1>1, <2>1, <2>4, <2>7 DEF OfLiveStreams
  <2>10. OldOnesFlushed'  BY <1>1, <2>4 DEF OldOnesFlushed
  <2> QED  BY <2>6, <2>8, <2>9, <2>10
<1>10. CASE DeleteStream(s)
  <2>1. /\ stream[s] = "flushed" /\ stream' = [stream EXCEPT ![s] = "none"]
        /\ UNCHANGED <<mDataQ, life, frames>>
    BY <1>10 DEF DeleteStream, queues
  <2>2. NotifierTypes'  BY <1>1, <2>1 DEF NotifierTypes
  <2>3. \A t \in Streams : t # s => stream'[t] = stream[t]  BY <2>1 DEF NotifierTypes
  <2>4. StoppedIsQuiet'  BY <1>1, <2>1, <2>3 DEF StoppedIsQuiet
  <2>5. OfLiveStreams'  BY <1>1, <2>1, <2>3 DEF OfLiveStreams
  <2>6. OldOnesFlushed'  BY <1>1, <2>1 DEF OldOnesFlushed
  <2> QED  BY <2>2, <2>4, <2>5, <2>6
<1> QED  BY <1>7, <1>8, <1>9, <1>10

\* Its steps that start and stop captures, and the end of the camera.
LEMMA CaptureSteps ==
    ASSUME NotifierInv,
           \/ StartSnapshots \/ StopSnapshots \/ PostprocessorStopped
           \/ HandleSnapshotDone \/ SnapshotDoneHandled \/ Exit
    PROVE  NotifierInv'
<1> USE DEF NotifierInv
<1> DEFINE st == "START"  sp == "STOP"  ex == "EXIT"
<1>1. {st, sp, ex} \subseteq Commands \ {"NEXT"}  BY DEF Commands
<1>2. UNCHANGED <<mDataQ, posting, stream, life, frames, counted, told, late>>
  BY DEF StartSnapshots, StopSnapshots, PostprocessorStopped, HandleSnapshotDone,
     SnapshotDoneHandled, Exit, queues, thread, excuses
<1>3. StoppedIsQuiet'  BY <1>2 DEF StoppedIsQuiet
<1>4. mActive' => mActive
  BY DEF StartSnapshots, StopSnapshots, PostprocessorStopped, HandleSnapshotDone,
     SnapshotDoneHandled, Exit, queues
<1>5. OfLiveStreams'  BY <1>2, <1>4 DEF OfLiveStreams
<1>6. SUFFICES /\ NotifierTypes' /\ PriorityFirst' /\ PicturesOfCaptures'
               /\ OldOnesFlushed' /\ OldOnesForgotten' /\ ToldOfCounted'
  BY <1>3, <1>5
<1>7. CASE StartSnapshots
  <2>1. /\ taking = "no" /\ taking' = "taking" /\ captures' = captures + 1
        /\ cmd_queue' = <<st>> \o cmd_queue /\ UNCHANGED <<mActive, notifier>>
    BY <1>7 DEF StartSnapshots, SendWithPriority, thread
  <2>2. /\ cmd_queue' \in Seq(Commands) /\ PriorityFirst'
        /\ ToSet(cmd_queue') = ToSet(cmd_queue) \cup {st}
    <3> HIDE DEF st
    <3> QED  BY <1>1, <2>1, PrioritySends
  <2>3. NotifierTypes'  BY <1>2, <2>1, <2>2 DEF NotifierTypes
  <2>4. PicturesOfCaptures'  BY <2>1 DEF PicturesOfCaptures
  <2>5. OldOnesFlushed'  BY <1>2, <2>1, <2>2 DEF OldOnesFlushed
  <2>6. OldOnesForgotten'  BY <2>2 DEF OldOnesForgotten
  <2>7. ToldOfCounted'  BY <1>2, <2>1 DEF ToldOfCounted
  <2> QED  BY <2>2, <2>3, <2>4, <2>5, <2>6, <2>7
<1>8. ASSUME taking = "taking", taking' = "stopping", cmd_queue' = <<sp>> \o cmd_queue,
             UNCHANGED <<mActive, notifier, captures>>
      PROVE  NotifierInv'
  <2>1. /\ cmd_queue' \in Seq(Commands) /\ PriorityFirst'
        /\ ToSet(cmd_queue') = ToSet(cmd_queue) \cup {sp}
    <3> HIDE DEF sp
    <3> QED  BY <1>1, <1>8, PrioritySends
  <2>2. NotifierTypes'  BY <1>2, <1>8, <2>1 DEF NotifierTypes
  <2>3. PicturesOfCaptures'  BY <1>8 DEF PicturesOfCaptures
  <2>4. OldOnesFlushed'  BY <2>1 DEF OldOnesFlushed
  <2>5. OldOnesForgotten'  BY <2>1 DEF OldOnesForgotten
  <2>6. ToldOfCounted'  BY <1>2, <1>8 DEF ToldOfCounted
  <2> QED  BY <1>3, <1>5, <2>1, <2>2, <2>3, <2>4, <2>5, <2>6
<1>9. CASE StopSnapshots
  <2>1. /\ taking = "taking" /\ taking' = "stopping" /\ cmd_queue' = <<sp>> \o cmd_queue
        /\ UNCHANGED <<mActive, notifier, captures>>
    BY <1>9 DEF StopSnapshots, SendWithPriority, thread
  <2> QED  BY <1>8, <2>1
<1>10. CASE PostprocessorStopped
  <2>1. /\ taking = "stopping" /\ taking' = "no" /\ posting["pictures"] = "no"
        /\ UNCHANGED <<mActive, cmd_queue, notifier, captures>>
    BY <1>10 DEF PostprocessorStopped, queues, thread
  <2>2. NotifierTypes'  BY <1>2, <2>1 DEF NotifierTypes
  <2>3. PriorityFirst'  BY <2>1 DEF PriorityFirst
  <2>4. PicturesOfCaptures'  BY <1>2, <2>1 DEF PicturesOfCaptures
  <2>5. OldOnesFlushed'  BY <1>2, <2>1 DEF OldOnesFlushed
  <2>6. OldOnesForgotten'  BY <1>2, <2>1 DEF OldOnesForgotten
  <2>7. ToldOfCounted'  BY <1>2, <2>1 DEF ToldOfCounted
  <2> QED  BY <2>2, <2>3, <2>4, <2>5, <2>6, <2>7
<1>11. CASE HandleSnapshotDone
  <2>1. UNCHANGED <<mActive, notifier, captures>>  BY <1>11 DEF HandleSnapshotDone, thread
  <2>2. CASE taking = "taking"
    <3>1. taking' = "stopping" /\ cmd_queue' = <<sp>> \o cmd_queue
      BY <1>11, <2>2 DEF HandleSnapshotDone, SendWithPriority
    <3> QED  BY <1>8, <2>1, <2>2, <3>1
  <2>3. CASE taking # "taking"
    <3>1. UNCHANGED <<taking, cmd_queue>>  BY <1>11, <2>3 DEF HandleSnapshotDone
    <3> QED
      BY <1>2, <2>1, <3>1 DEF NotifierTypes, PriorityFirst, PicturesOfCaptures,
         OldOnesFlushed, OldOnesForgotten, ToldOfCounted
  <2> QED  BY <2>2, <2>3
<1>12. CASE SnapshotDoneHandled
  <2>1. notifier' = "calls" /\ UNCHANGED <<mActive, cmd_queue, taking, captures>>
    BY <1>12 DEF SnapshotDoneHandled, queues
  <2> QED
    BY <1>2, <2>1 DEF NotifierTypes, PriorityFirst, PicturesOfCaptures, OldOnesFlushed,
       OldOnesForgotten, ToldOfCounted
<1>13. CASE Exit
  <2>1. /\ mActive' = FALSE /\ cmd_queue' = <<ex>> \o cmd_queue
        /\ UNCHANGED <<notifier, taking, captures>>
    BY <1>13 DEF Exit, SendWithPriority, thread
  <2>2. /\ cmd_queue' \in Seq(Commands) /\ PriorityFirst'
        /\ ToSet(cmd_queue') = ToSet(cmd_queue) \cup {ex}
    <3> HIDE DEF ex
    <3> QED  BY <1>1, <2>1, PrioritySends
  <2>3. NotifierTypes'  BY <1>2, <2>1, <2>2 DEF NotifierTypes
  <2>4. PicturesOfCaptures'  BY <1>2, <2>1 DEF PicturesOfCaptures
  <2>5. OldOnesFlushed'  BY <1>2, <2>1, <2>2 DEF OldOnesFlushed
  <2>6. OldOnesForgotten'  BY <1>2, <2>1, <2>2 DEF OldOnesForgotten
  <2>7. ToldOfCounted'  BY <1>2, <2>1 DEF ToldOfCounted
  <2> QED  BY <2>2, <2>3, <2>4, <2>5, <2>6, <2>7
<1> QED  BY <1>7, <1>9, <1>10, <1>11, <1>12, <1>13

\* What taking a command does to their queue.
LEMMA CommandTaken ==
    ASSUME NotifierInv, NEW c, GetCmd(c)
    PROVE  /\ cmd_queue' \in Seq(Commands) /\ PriorityFirst'
           /\ ToSet(cmd_queue) = ToSet(cmd_queue') \cup {c}
           /\ c = "NEXT" => ToSet(cmd_queue) \subseteq {"NEXT"}
           /\ notifier = "waits"
<1>1. /\ notifier = "waits" /\ cmd_queue # << >> /\ Head(cmd_queue) = c
      /\ cmd_queue' = Tail(cmd_queue)
  BY DEF GetCmd
<1>2. cmd_queue \in Seq(Commands) /\ Sorted(cmd_queue)
  BY DEF NotifierInv, NotifierTypes, PriorityFirst
<1>3. /\ Tail(cmd_queue) \in Seq(Commands)
      /\ ToSet(cmd_queue) = ToSet(Tail(cmd_queue)) \cup {Head(cmd_queue)}
  BY <1>1, <1>2, TailFacts
<1> DEFINE e == "EXIT"
<1>4. e \in Commands \ {"NEXT"}  BY DEF Commands
<1> HIDE DEF e
<1>5. /\ Sorted(Tail(cmd_queue))
      /\ Head(cmd_queue) = "NEXT" => ToSet(cmd_queue) \subseteq {"NEXT"}
  BY <1>1, <1>2, <1>4, SortedFacts
<1> QED  BY <1>1, <1>3, <1>5 DEF PriorityFirst

\* The steps of the notifier's thread.
LEMMA NotifierSteps ==
    ASSUME NotifierInv, CbNotifyRoutine
    PROVE  NotifierInv'
<1> USE DEF NotifierInv
<1>1. UNCHANGED <<mActive, posting, stream, life, frames, taking, captures, late>>
  BY DEF CbNotifyRoutine, NotifyStart, NotifyStop, NotifyNext, CallAndRelease, NotifyExit,
     queues, client, excuses
<1>2. StoppedIsQuiet'  BY <1>1 DEF StoppedIsQuiet
<1>3. PicturesOfCaptures'  BY <1>1 DEF PicturesOfCaptures
<1>4. ASSUME mDataQ' \in Seq(Callback), ToSet(mDataQ') \subseteq ToSet(mDataQ),
             cmd_queue' \in Seq(Commands), PriorityFirst', OldOnesFlushed',
             OldOnesForgotten', ToldOfCounted', counted' \in Seq(Nat), told' \in Nat,
             notifier' \in {"waits", "tells", "calls", "exited"}
      PROVE  NotifierInv'
  <2>1. OfLiveStreams'  BY <1>1, <1>4 DEF OfLiveStreams
  <2>2. NotifierTypes'  BY <1>1, <1>4 DEF NotifierTypes
  <2> QED  BY <1>2, <1>3, <1>4, <2>1, <2>2
<1>5. /\ mDataQ \in Seq(Callback) /\ counted \in Seq(Nat) /\ told \in Nat
      /\ captures \in Nat /\ cmd_queue \in Seq(Commands)
  BY DEF NotifierTypes
<1>6. << >> \in Seq(Nat)  OBVIOUS
<1>7. << >> \in Seq(Callback)  OBVIOUS
<1>8. CASE NotifyStart
  <2>1. GetCmd("START") /\ counted' = << >> /\ UNCHANGED <<mDataQ, notifier, told>>
    BY <1>8 DEF NotifyStart
  <2>2. /\ cmd_queue' \in Seq(Commands) /\ PriorityFirst' /\ notifier = "waits"
        /\ ToSet(cmd_queue) = ToSet(cmd_queue') \cup {"START"}
    BY <2>1, CommandTaken
  <2>3. OldOnesFlushed'  BY <1>1, <2>1, <2>2 DEF OldOnesFlushed
  <2>4. OldOnesForgotten'  BY <2>1, EmptyFacts DEF OldOnesForgotten
  <2>5. ToldOfCounted'  BY <2>1, <2>2 DEF ToldOfCounted
  <2> QED  BY <1>4, <1>5, <1>6, <2>1, <2>2, <2>3, <2>4, <2>5
<1>9. CASE NotifyStop
  <2>1. /\ GetCmd("STOP") /\ mDataQ' = NotOf(mDataQ, "pictures") /\ counted' = << >>
        /\ UNCHANGED <<notifier, told>>
    BY <1>9 DEF NotifyStop
  <2>2. cmd_queue' \in Seq(Commands) /\ PriorityFirst' /\ notifier = "waits"
    BY <2>1, CommandTaken
  <2>3. /\ mDataQ' \in Seq(Callback) /\ ToSet(mDataQ') \subseteq ToSet(mDataQ)
        /\ \A cb \in ToSet(mDataQ') : cb.kind # "pictures"
    <3> DEFINE k == "pictures"
    <3>1. mDataQ' = NotOf(mDataQ, k)  BY <2>1
    <3> HIDE DEF k
    <3>2. mDataQ' \in Seq(Callback)
          /\ \A cb \in ToSet(mDataQ') : cb \in ToSet(mDataQ) /\ cb.kind # k
      BY <1>5, <3>1, FlushFacts
    <3> QED  BY <3>2 DEF k
  <2>4. OldOnesFlushed'  BY <2>3 DEF OldOnesFlushed
  <2>5. OldOnesForgotten'  BY <2>1, EmptyFacts DEF OldOnesForgotten
  <2>6. ToldOfCounted'  BY <2>1, <2>2 DEF ToldOfCounted
  <2> QED  BY <1>4, <1>5, <1>6, <2>1, <2>2, <2>3, <2>4, <2>5, <2>6
<1>10. CASE NotifyNext
  <2>1. GetCmd("NEXT")  BY <1>10 DEF NotifyNext
  <2>2. /\ cmd_queue' \in Seq(Commands) /\ PriorityFirst' /\ notifier = "waits"
        /\ ToSet(cmd_queue) = ToSet(cmd_queue') \cup {"NEXT"}
        /\ ToSet(cmd_queue) \subseteq {"NEXT"}
    BY <2>1, CommandTaken
  <2>3. "STOP" \notin ToSet(cmd_queue) /\ "START" \notin ToSet(cmd_queue)  BY <2>2
  <2>4. late \/ ToSet(counted) \subseteq {captures}  BY <2>3 DEF OldOnesForgotten
  <2>5. late \/ \A cb \in ToSet(mDataQ) : cb.kind = "pictures"
                                          => taking = "taking" /\ cb.life = captures
    BY <2>3 DEF OldOnesFlushed
  <2>6. CASE mDataQ = << >>
    <3>1. UNCHANGED <<mDataQ, notifier, counted, told>>  BY <1>10, <2>6 DEF NotifyNext
    <3>2. OldOnesFlushed'  BY <1>1, <2>5, <3>1 DEF OldOnesFlushed
    <3>3. OldOnesForgotten'  BY <1>1, <2>4, <3>1 DEF OldOnesForgotten
    <3>4. ToldOfCounted'  BY <2>2, <3>1 DEF ToldOfCounted
    <3> QED  BY <1>4, <1>5, <2>2, <3>1, <3>2, <3>3, <3>4 DEF NotifierTypes
  <2>7. CASE mDataQ # << >>
    <3> DEFINE cb == Head(mDataQ)
               counts == cb.kind = "pictures" /\ isSnapshotActive
               last == counts /\ numOfSnapshotRcvd + 1 = NumOfSnapshots
    <3>1. /\ mDataQ' = Tail(mDataQ)
          /\ counted' = IF counts THEN Append(counted, cb.life) ELSE counted
          /\ notifier' = IF last THEN "tells" ELSE "calls"
          /\ told' = IF last THEN captures ELSE told
      BY <1>10, <2>7 DEF NotifyNext
    <3>2. /\ mDataQ' \in Seq(Callback) /\ cb \in Callback
          /\ ToSet(mDataQ) = ToSet(mDataQ') \cup {cb}
      BY <1>5, <2>7, <3>1, TailFacts
    <3>3. cb.life \in Nat  BY <3>2 DEF Callback
    <3> HIDE DEF cb
    <3>4. /\ Append(counted, cb.life) \in Seq(Nat)
          /\ ToSet(Append(counted, cb.life)) = ToSet(counted) \cup {cb.life}
      <4> DEFINE n == cb.life
      <4>1. n \in Nat  BY <3>3
      <4> HIDE DEF n
      <4>2. /\ Append(counted, n) \in Seq(Nat)
            /\ ToSet(Append(counted, n)) = ToSet(counted) \cup {n}
        BY <1>5, <4>1, AppendFacts
      <4> QED  BY <4>2 DEF n
    <3>5. late \/ (counts => cb.life = captures)  BY <2>5, <3>2
    <3> HIDE DEF counts, last
    <3>6. counted' \in Seq(Nat)  BY <1>5, <3>1, <3>4
    <3>7. late \/ ToSet(counted') \subseteq {captures}  BY <2>4, <3>1, <3>4, <3>5
    <3>8. OldOnesFlushed'  BY <1>1, <2>5, <3>2 DEF OldOnesFlushed
    <3>9. OldOnesForgotten'  BY <1>1, <3>7 DEF OldOnesForgotten
    <3>10. ToldOfCounted'  BY <1>1, <3>1, <3>7 DEF ToldOfCounted
    <3>11. told' \in Nat /\ notifier' \in {"waits", "tells", "calls", "exited"}
      BY <1>5, <3>1
    <3> QED  BY <1>4, <2>2, <3>2, <3>6, <3>8, <3>9, <3>10, <3>11
  <2> QED  BY <2>6, <2>7
<1>11. CASE CallAndRelease
  <2>1. notifier' = "waits" /\ UNCHANGED <<cmd_queue, mDataQ, counted, told>>
    BY <1>11 DEF CallAndRelease, queues
  <2>2. PriorityFirst'  BY <2>1 DEF PriorityFirst
  <2>3. OldOnesFlushed'  BY <1>1, <2>1 DEF OldOnesFlushed
  <2>4. OldOnesForgotten'  BY <1>1, <2>1 DEF OldOnesForgotten
  <2>5. ToldOfCounted'  BY <2>1 DEF ToldOfCounted
  <2> QED  BY <1>4, <1>5, <2>1, <2>2, <2>3, <2>4, <2>5
<1>12. CASE NotifyExit
  <2>1. /\ GetCmd("EXIT") /\ notifier' = "exited" /\ mDataQ' = << >>
        /\ UNCHANGED <<counted, told>>
    BY <1>12 DEF NotifyExit
  <2>2. /\ cmd_queue' \in Seq(Commands) /\ PriorityFirst'
        /\ ToSet(cmd_queue) = ToSet(cmd_queue') \cup {"EXIT"}
    BY <2>1, CommandTaken
  <2>3. ToSet(mDataQ') = {}  BY <2>1, EmptyFacts
  <2>4. OldOnesFlushed'  BY <2>3 DEF OldOnesFlushed
  <2>5. OldOnesForgotten'  BY <1>1, <2>1, <2>2 DEF OldOnesForgotten
  <2>6. ToldOfCounted'  BY <2>1 DEF ToldOfCounted
  <2> QED  BY <1>4, <1>5, <1>7, <2>1, <2>2, <2>3, <2>4, <2>5, <2>6
<1> QED  BY <1>8, <1>9, <1>10, <1>11, <1>12 DEF CbNotifyRoutine

-----------------------------------------------------------------------------
(* The callback notifier: theorems.                                        *)

\* The invariant holds of the first state and stays.
LEMMA NotifierInvStep == NotifierInv /\ [NotifierNext]_notifierVars => NotifierInv'
<1> SUFFICES ASSUME NotifierInv, [NotifierNext]_notifierVars  PROVE NotifierInv'
  OBVIOUS
<1>1. CASE UNCHANGED notifierVars
  BY <1>1 DEF notifierVars, queues, thread, client, excuses, NotifierInv, NotifierTypes,
     PriorityFirst, OfLiveStreams, StoppedIsQuiet, PicturesOfCaptures, OldOnesFlushed,
     OldOnesForgotten, ToldOfCounted
<1>2. CASE NotifierNext
  <2>1. CASE \/ \E s \in Streams : PostFrame(s)
             \/ PostPicture
             \/ \E p \in Producers : Enqueue(p) \/ SendNext(p)
    BY <2>1, ProducerSteps
  <2>2. CASE \E s \in Streams : StartStream(s) \/ StopStream(s) \/ Flush(s) \/ DeleteStream(s)
    BY <2>2, StreamSteps
  <2>3. CASE \/ StartSnapshots \/ StopSnapshots \/ PostprocessorStopped
             \/ HandleSnapshotDone \/ SnapshotDoneHandled \/ Exit
    BY <2>3, CaptureSteps
  <2>4. CASE CbNotifyRoutine  BY <2>4, NotifierSteps
  <2> QED  BY <1>2, <2>1, <2>2, <2>3, <2>4 DEF NotifierNext, GoOn
<1> QED  BY <1>1, <1>2

\* Priority commands are ahead, what is stopped is quiet and flushed, and what the
\* notifier counts is of the capture there is, whatever the threads do when.
THEOREM NotifierInvariant == NotifierSpec => []NotifierInv
<1>1. NotifierInit => NotifierInv
  <2> SUFFICES ASSUME NotifierInit  PROVE NotifierInv
    OBVIOUS
  <2>1. << >> \in Seq(Nat)  OBVIOUS
  <2>2. << >> \in Seq(Callback)  OBVIOUS
  <2>3. << >> \in Seq(Commands)  OBVIOUS
  <2>4. /\ cmd_queue = << >> /\ mDataQ = << >> /\ counted = << >> /\ notifier = "waits"
        /\ posting = [p \in Producers |-> "no"]
    BY DEF NotifierInit
  <2>5. NotifierTypes  BY <2>1, <2>2, <2>3 DEF NotifierInit, NotifierTypes
  <2>6. PriorityFirst  BY <2>4 DEF PriorityFirst, Sorted
  <2>7. ToSet(mDataQ) = {} /\ ToSet(counted) = {}  BY <2>4, EmptyFacts
  <2>8. "pictures" \in Producers /\ Streams \subseteq Producers  BY DEF Producers
  <2>9. StoppedIsQuiet /\ PicturesOfCaptures
    BY <2>4, <2>8 DEF StoppedIsQuiet, PicturesOfCaptures
  <2>10. OfLiveStreams /\ OldOnesFlushed /\ OldOnesForgotten /\ ToldOfCounted
    BY <2>7 DEF OfLiveStreams, OldOnesFlushed, OldOnesForgotten, ToldOfCounted
  <2> QED  BY <2>5, <2>6, <2>9, <2>10 DEF NotifierInv
<1> QED  BY <1>1, NotifierInvStep, PTL DEF NotifierSpec

\* While the camera is open no callback in the queue is of a stream that has been deleted,
\* whose buffers its release would give back.
THEOREM NoDeadCallbacks == NotifierSpec => []NoCallbackOfDeadStream
<1>1. NotifierInv => NoCallbackOfDeadStream
  BY DEF NotifierInv, OfLiveStreams, NoCallbackOfDeadStream, ToSet
<1> QED  BY <1>1, NotifierInvariant, PTL

\* SNAPSHOT_DONE is told of the capture whose pictures were counted, of no earlier one.
THEOREM DoneCorrect == NotifierSpec => []DoneAfterItsPictures
<1>1. NotifierInv => DoneAfterItsPictures
  BY DEF NotifierInv, ToldOfCounted, DoneAfterItsPictures, ToSet
<1> QED  BY <1>1, NotifierInvariant, PTL

-----------------------------------------------------------------------------
(* Superbufs: the invariant.                                               *)

\* The superbuf queue: matched superbufs first, each kind in the order of its frames, a
\* matched one with the frames of all streams, no frame in two of them, and none waiting
\* for others if there is one stream only.
SoundQueue(q) ==
    /\ q \in Seq(Superbuf)
    /\ \A i \in DOMAIN q : /\ q[i].bufs \subseteq Bundled
                           /\ q[i].matched => q[i].bufs = Bundled
                           /\ Cardinality(Bundled) = 1 => q[i].matched
    /\ \A i, j \in DOMAIN q :
           /\ i < j /\ q[j].matched => q[i].matched
           /\ i < j /\ (q[j].matched \/ ~q[i].matched) => q[i].frame_idx < q[j].frame_idx
           /\ i # j /\ q[i].frame_idx = q[j].frame_idx => q[i].bufs \cap q[j].bufs = {}

IsFrameOf(c, s) == c.type = "DATA" /\ c.stream = s

\* Frame n of a stream has arrived and is no longer a command, nor is any before it.
Handled(s, n) ==
    /\ n <= last_idx[s]
    /\ \A i \in DOMAIN ch_cmds : IsFrameOf(ch_cmds[i], s) => n < ch_cmds[i].frame

\* While the channel runs, and until it ends if it borrows no stream, no buffer is lost.
Exact == stop_pc = 0 \/ ch.linked = {}

SuperbufTypes ==
    /\ ch \in Setups
    /\ buf_refcnt \in [ChStreams -> [Frames -> Nat]]
    /\ last_idx \in [ChStreams -> Nat]
    /\ active \subseteq ChStreams /\ known \subseteq Bundled
    /\ Exact => known = Bundled
    /\ ch_cmds \in Seq(ChCommand)
    /\ match_cnt \in Int /\ pending_cnt \in Nat /\ stop_pc \in Nat
    /\ shown \subseteq ChStreams \X Frames /\ superbufs \subseteq ChStreams \X Frames
    /\ delivered \in Seq(Frames)

CommandsInOrder ==
    /\ \A i \in DOMAIN ch_cmds, s \in ChStreams : IsFrameOf(ch_cmds[i], s) =>
           s \in Bundled /\ ch_cmds[i].frame <= last_idx[s]
    /\ \A i, j \in DOMAIN ch_cmds, s \in ChStreams :
           i < j /\ IsFrameOf(ch_cmds[i], s) /\ IsFrameOf(ch_cmds[j], s)
           => ch_cmds[i].frame < ch_cmds[j].frame

FramesHandled ==
    /\ \A b \in BufsOf(superbuf_queue) \cup superbufs : Handled(b[1], b[2])
    /\ \A b \in shown : b[2] <= last_idx[b[1]]
    /\ BufsOf(superbuf_queue) \cap superbufs = {}

\* What the client was given is older than all that is left for it.
DeliveredInOrder ==
    /\ \A k \in DOMAIN delivered, s \in Bundled : Handled(s, delivered[k])
    /\ \A k \in DOMAIN delivered, j \in DOMAIN superbuf_queue :
           superbuf_queue[j].matched => delivered[k] < superbuf_queue[j].frame_idx
    /\ \A i, j \in DOMAIN delivered : i < j => delivered[i] < delivered[j]

\* The buffers held by commands.
Commanded == {b \in ChStreams \X Frames :
                  \E i \in DOMAIN ch_cmds : IsFrameOf(ch_cmds[i], b[1])
                                            /\ ch_cmds[i].frame = b[2]}
Held == Commanded \cup BufsOf(superbuf_queue) \cup superbufs

Count(b, held, sh) == (IF b \in held THEN 1 ELSE 0) + (IF b \in sh THEN 1 ELSE 0)

Fits(refcnt, held, sh) ==
    /\ refcnt \in [ChStreams -> [Frames -> Nat]]
    /\ \A s \in active, f \in Frames :
           /\ refcnt[s][f] >= Count(<<s, f>>, held, sh)
           /\ Exact => refcnt[s][f] = Count(<<s, f>>, held, sh)

\* Without a borrowed stream, those that are active are still to be stopped.
StoppingInOrder ==
    ch.linked = {} => \A s \in active : \E k \in 1..Cardinality(Bundled) :
                          StopOrder[k] = s /\ stop_pc <= 2 * k

SuperbufInv ==
    /\ SuperbufTypes
    /\ CommandsInOrder
    /\ SoundQueue(superbuf_queue)
    /\ stop_pc # StopDone => match_cnt = CountMatched(superbuf_queue)
    /\ FramesHandled
    /\ DeliveredInOrder
    /\ StoppingInOrder
    /\ Fits(buf_refcnt, Held, shown)

-----------------------------------------------------------------------------
(* Superbufs: the queue.                                                   *)

\* The matched ones are the first m.
FirstMatched(q, m) == \A i \in DOMAIN q : q[i].matched <=> i <= m

\* Which is what Min is.
LEMMA MinIsLeast ==
    ASSUME NEW T \in SUBSET Nat, T # {}
    PROVE  Min(T) \in T /\ \A y \in T : Min(T) <= y
<1>1. \E x \in T : \A y \in T : x <= y  BY LeastNumber
<1> QED  BY <1>1 DEF Min

\* How many an interval has.
LEMMA IntervalSize ==
    ASSUME NEW a \in Nat, NEW b \in Nat, a <= b + 1
    PROVE  IsFiniteSet(a..b) /\ Cardinality(a..b) = b - a + 1
<1>1. a \in Int /\ b \in Int  OBVIOUS
<1>2. /\ IsFiniteSet(a..b)
      /\ Cardinality(a..b) = IF a > b THEN 0 ELSE b - a + 1
  BY <1>1, FS_Interval
<1> QED  BY <1>2

\* If the matched ones are the first m, that is their number, and they are the head.
LEMMA HeadFacts ==
    ASSUME NEW q, q \in Seq(Superbuf), NEW m \in 0..Len(q), FirstMatched(q, m)
    PROVE  CountMatched(q) = m /\ Len(MatchedHead(q)) = m
<1>1. {i \in DOMAIN q : q[i].matched} = 1..m  BY DEF FirstMatched
<1>2. CountMatched(q) = m
  <2>1. m \in Nat /\ 1 \in Nat /\ 1 <= m + 1  OBVIOUS
  <2>2. Cardinality(1..m) = m - 1 + 1  BY <2>1, IntervalSize
  <2>3. CountMatched(q) = Cardinality(1..m)  BY <1>1 DEF CountMatched
  <2> QED  BY <2>1, <2>2, <2>3
<1> DEFINE T == {n \in 0..Len(q) : \A i \in 1..n : q[i].matched}
<1>3. m \in T  BY DEF FirstMatched
<1>4. \A n \in T : n <= m
  <2>1. ASSUME NEW n \in T, n > m  PROVE FALSE
    <3>1. n \in 0..Len(q) /\ \A i \in 1..n : q[i].matched  OBVIOUS
    <3>2. n \in 1..n /\ n \in DOMAIN q  BY <3>1, <2>1
    <3>3. n <= m  BY <3>1, <3>2 DEF FirstMatched
    <3> QED  BY <3>3, <3>2, <2>1
  <2> QED  BY <2>1
<1>5. \A n \in T : n \in Nat  OBVIOUS
<1> HIDE DEF T
<1>6. Max(T) = m
  <2>1. \A x \in T : (\A y \in T : x >= y) => x = m  BY <1>3, <1>4, <1>5
  <2>2. \A y \in T : m >= y  BY <1>3, <1>4, <1>5
  <2> QED  BY <1>3, <2>1, <2>2 DEF Max
<1>7. MatchedHead(q) = SubSeq(q, 1, m)  BY <1>6 DEF MatchedHead, T
<1> QED  BY <1>2, <1>7

\* In a sound queue they are.
LEMMA SoundHasHead ==
    ASSUME NEW q, SoundQueue(q)
    PROVE  \E m \in 0..Len(q) : FirstMatched(q, m)
<1>0. q \in Seq(Superbuf) /\ Len(q) \in Nat /\ DOMAIN q = 1..Len(q)  BY DEF SoundQueue
<1>1. \A i, j \in DOMAIN q : i < j /\ q[j].matched => q[i].matched  BY DEF SoundQueue
<1> DEFINE T == {k \in Nat : k = Len(q) + 1 \/ (k \in DOMAIN q /\ ~q[k].matched)}
<1>2. T \in SUBSET Nat /\ T # {}  BY <1>0
<1>3. PICK x \in T : \A y \in T : x <= y  BY <1>2, LeastNumber
<1>4. x \in 1..Len(q) + 1  BY <1>0, <1>3
<1>5. \A i \in DOMAIN q : i < x => q[i].matched
  <2>1. ASSUME NEW i \in DOMAIN q, i < x, ~q[i].matched  PROVE FALSE
    <3>1. i \in T  BY <1>0, <2>1
    <3> QED  BY <3>1, <1>3, <2>1, <1>0, <1>4
  <2> QED  BY <2>1
<1>6. \A i \in DOMAIN q : q[i].matched => i < x
  <2>1. ASSUME NEW i \in DOMAIN q, q[i].matched, ~(i < x)  PROVE FALSE
    <3>1. x \in DOMAIN q /\ ~q[x].matched  BY <1>0, <1>3, <1>4, <2>1
    <3>2. q[x].matched  BY <1>0, <1>1, <3>1, <2>1, <1>4
    <3> QED  BY <3>1, <3>2
  <2> QED  BY <2>1
<1>7. x - 1 \in 0..Len(q) /\ FirstMatched(q, x - 1)
  BY <1>0, <1>4, <1>5, <1>6 DEF FirstMatched
<1> QED  BY <1>7

\* What is left of a sound queue, in its order, is sound.
LEMMA SoundSublist ==
    ASSUME NEW q, SoundQueue(q), NEW r, r \in Seq(Superbuf),
           NEW g \in [DOMAIN r -> DOMAIN q], \A i \in DOMAIN r : r[i] = q[g[i]],
           \A i, j \in DOMAIN r : i < j => g[i] < g[j]
    PROVE  SoundQueue(r)
<1>0. q \in Seq(Superbuf)  BY DEF SoundQueue
<1>1. \A i \in DOMAIN r : /\ r[i].bufs \subseteq Bundled
                          /\ r[i].matched => r[i].bufs = Bundled
                          /\ Cardinality(Bundled) = 1 => r[i].matched
  BY DEF SoundQueue
<1>2. ASSUME NEW i \in DOMAIN r, NEW j \in DOMAIN r
      PROVE  /\ i < j /\ r[j].matched => r[i].matched
             /\ i < j /\ (r[j].matched \/ ~r[i].matched) => r[i].frame_idx < r[j].frame_idx
             /\ i # j /\ r[i].frame_idx = r[j].frame_idx => r[i].bufs \cap r[j].bufs = {}
  <2>1. g[i] \in DOMAIN q /\ g[j] \in DOMAIN q /\ r[i] = q[g[i]] /\ r[j] = q[g[j]]
    OBVIOUS
  <2>2. i < j => g[i] < g[j]  OBVIOUS
  <2>3. i # j => g[i] # g[j]
    <3>1. i \in Nat /\ j \in Nat /\ g[i] \in Nat /\ g[j] \in Nat  BY <1>0, <2>1
    <3>2. CASE i < j  BY <3>1, <3>2, <2>2
    <3>3. CASE j < i  BY <3>1, <3>3
    <3> QED  BY <3>1, <3>2, <3>3
  <2> HIDE DEF SoundQueue
  <2>4. /\ g[i] < g[j] /\ q[g[j]].matched => q[g[i]].matched
        /\ g[i] < g[j] /\ (q[g[j]].matched \/ ~q[g[i]].matched)
           => q[g[i]].frame_idx < q[g[j]].frame_idx
        /\ g[i] # g[j] /\ q[g[i]].frame_idx = q[g[j]].frame_idx
           => q[g[i]].bufs \cap q[g[j]].bufs = {}
    BY <2>1 DEF SoundQueue
  <2> QED  BY <2>1, <2>2, <2>3, <2>4
<1> QED  BY <1>1, <1>2 DEF SoundQueue

\* A buffer is in a superbuf.
HasBuf(superbuf, b) == superbuf.frame_idx = b[2] /\ b[1] \in superbuf.bufs

\* What the superbufs at some places hold, and all.
LEMMA BufFacts ==
    ASSUME NEW q
    PROVE  /\ BufsOf(q) = BufsAt(q, DOMAIN q)
           /\ \A places : \A b : b \in BufsAt(q, places) <=>
                  b \in ChStreams \X Frames /\ \E i \in places : HasBuf(q[i], b)
           /\ \A b : b \in BufsOf(q) <=>
                  b \in ChStreams \X Frames /\ \E i \in DOMAIN q : HasBuf(q[i], b)
BY DEF BufsOf, BufsAt, HasBuf

\* A buffer of a sound queue is in one superbuf.
LEMMA OneSuperbufEach ==
    ASSUME NEW q, SoundQueue(q), NEW b \in BufsOf(q), NEW i \in DOMAIN q, NEW j \in DOMAIN q,
           HasBuf(q[i], b), HasBuf(q[j], b)
    PROVE  i = j
<1>1. i # j /\ q[i].frame_idx = q[j].frame_idx => q[i].bufs \cap q[j].bufs = {}
  BY DEF SoundQueue
<1> QED  BY <1>1 DEF HasBuf

\* What follows the first n of a sequence.
LEMMA BackFacts ==
    ASSUME NEW S, NEW q, q \in Seq(S), NEW n \in 0..Len(q)
    PROVE  /\ SubSeq(q, n + 1, Len(q)) \in Seq(S)
           /\ Len(SubSeq(q, n + 1, Len(q))) = Len(q) - n
           /\ DOMAIN SubSeq(q, n + 1, Len(q)) = 1..Len(q) - n
           /\ \A i \in 1..Len(q) - n : SubSeq(q, n + 1, Len(q))[i] = q[i + n]
<1>1. n + 1 \in 1..Len(q) + 1 /\ Len(q) \in n..Len(q) /\ Len(q) \in Nat /\ n \in Nat  OBVIOUS
<1>2. \A i \in n + 1..Len(q) : q[i] \in S  BY <1>1
<1>3. /\ SubSeq(q, n + 1, Len(q)) \in Seq(S)
      /\ Len(SubSeq(q, n + 1, Len(q))) =
         IF n + 1 <= Len(q) THEN Len(q) - (n + 1) + 1 ELSE 0
      /\ \A i \in 1..Len(q) - (n + 1) + 1 :
             SubSeq(q, n + 1, Len(q))[i] = q[(n + 1) + i - 1]
  BY <1>1, <1>2, SubSeqProperties
<1> QED  BY <1>1, <1>3

\* The first n of a queue and the rest.
IsSplit(q, n, front, back) ==
    /\ front \in Seq(Superbuf) /\ Len(front) = n /\ \A i \in 1..n : front[i] = q[i]
    /\ back \in Seq(Superbuf) /\ Len(back) = Len(q) - n
    /\ \A i \in 1..Len(q) - n : back[i] = q[i + n]

\* A sound queue falls into two sound ones.
LEMMA TwoParts ==
    ASSUME NEW q, SoundQueue(q), NEW n \in 0..Len(q), NEW front, NEW back,
           IsSplit(q, n, front, back)
    PROVE  /\ SoundQueue(front) /\ SoundQueue(back)
           /\ CountMatched(front) \in Nat /\ CountMatched(back) \in Nat
           /\ CountMatched(q) = CountMatched(front) + CountMatched(back)
           /\ BufsOf(q) = BufsOf(front) \cup BufsOf(back)
           /\ BufsOf(front) \cap BufsOf(back) = {}
<1>0. q \in Seq(Superbuf) /\ Len(q) \in Nat /\ DOMAIN q = 1..Len(q)  BY DEF SoundQueue
<1>1. /\ front \in Seq(Superbuf) /\ Len(front) = n /\ DOMAIN front = 1..n
      /\ \A i \in 1..n : front[i] = q[i]
  BY DEF IsSplit
<1>2. /\ back \in Seq(Superbuf) /\ Len(back) = Len(q) - n /\ DOMAIN back = 1..Len(q) - n
      /\ \A i \in 1..Len(q) - n : back[i] = q[i + n]
  BY <1>0 DEF IsSplit
<1>3. SoundQueue(front)
  <2> DEFINE g == [i \in DOMAIN front |-> i]
  <2>1. g \in [DOMAIN front -> DOMAIN q]  BY <1>0, <1>1
  <2>2. \A i \in DOMAIN front : front[i] = q[g[i]]  BY <1>1
  <2>3. \A i, j \in DOMAIN front : i < j => g[i] < g[j]  OBVIOUS
  <2> HIDE DEF g
  <2> QED  BY <1>1, <2>1, <2>2, <2>3, SoundSublist
<1>4. SoundQueue(back)
  <2> DEFINE g == [i \in DOMAIN back |-> i + n]
  <2>1. g \in [DOMAIN back -> DOMAIN q]  BY <1>0, <1>2
  <2>2. \A i \in DOMAIN back : back[i] = q[g[i]]  BY <1>2
  <2>3. \A i, j \in DOMAIN back : i < j => g[i] < g[j]  BY <1>2
  <2> HIDE DEF g
  <2> QED  BY <1>2, <2>1, <2>2, <2>3, SoundSublist
<1>5. PICK m \in 0..Len(q) : FirstMatched(q, m)  BY SoundHasHead
<1>6. CountMatched(q) = m  BY <1>0, <1>5, HeadFacts
<1> DEFINE k == IF m < n THEN m ELSE n
<1>7. CountMatched(front) = k
  <2>1. k \in 0..Len(front)  BY <1>0, <1>1
  <2>2. FirstMatched(front, k)  BY <1>0, <1>1, <1>5 DEF FirstMatched
  <2> HIDE DEF k
  <2> QED  BY <1>1, <2>1, <2>2, HeadFacts
<1>8. CountMatched(back) = m - k
  <2> DEFINE l == m - k
  <2>1. l \in 0..Len(back)  BY <1>0, <1>2
  <2>2. FirstMatched(back, l)
    <3>1. \A i \in 1..Len(q) - n : i + n \in DOMAIN q /\ back[i] = q[i + n]  BY <1>0, <1>2
    <3>2. \A i \in 1..Len(q) - n : back[i].matched <=> i + n <= m
      BY <3>1, <1>5 DEF FirstMatched
    <3>3. \A i \in 1..Len(q) - n : i + n <= m <=> i <= l  BY <1>0
    <3> HIDE DEF l
    <3> QED  BY <1>2, <3>2, <3>3 DEF FirstMatched
  <2>3. CountMatched(back) = l
    <3> HIDE DEF l
    <3> QED  BY <1>2, <2>1, <2>2, HeadFacts
  <2> QED  BY <2>3
<1>9. \A b \in ChStreams \X Frames :
          b \in BufsOf(q) <=> b \in BufsOf(front) \/ b \in BufsOf(back)
  <2>1. \A i \in DOMAIN q : i \in 1..n \/ (i - n \in 1..Len(q) - n /\ (i - n) + n = i)
    BY <1>0
  <2>2. \A i \in 1..Len(q) - n : i + n \in DOMAIN q  BY <1>0
  <2>3. \A i \in 1..n : i \in DOMAIN q  BY <1>0
  <2> TAKE b \in ChStreams \X Frames
  <2>4. ASSUME NEW i \in DOMAIN q, HasBuf(q[i], b)
        PROVE  b \in BufsOf(front) \/ b \in BufsOf(back)
    <3>1. CASE i \in 1..n
      <4>1. i \in DOMAIN front /\ front[i] = q[i]  BY <1>1, <3>1
      <4> QED  BY <2>4, <4>1, BufFacts
    <3>2. CASE i \notin 1..n
      <4>1. i - n \in DOMAIN back /\ back[i - n] = q[(i - n) + n] /\ (i - n) + n = i
        BY <1>2, <2>1, <3>2
      <4> QED  BY <2>4, <4>1, BufFacts
    <3> QED  BY <3>1, <3>2
  <2>5. b \in BufsOf(front) => b \in BufsOf(q)  BY <1>1, <2>3, BufFacts
  <2>6. ASSUME b \in BufsOf(back)  PROVE b \in BufsOf(q)
    <3>1. PICK i \in DOMAIN back : HasBuf(back[i], b)  BY <2>6, BufFacts
    <3>2. i + n \in DOMAIN q /\ HasBuf(q[i + n], b)  BY <1>2, <2>2, <3>1
    <3> QED  BY <3>2, BufFacts
  <2> QED  BY <2>4, <2>5, <2>6, BufFacts
<1>10. BufsOf(q) = BufsOf(front) \cup BufsOf(back)
  <2>1. \A r : BufsOf(r) \subseteq ChStreams \X Frames  BY BufFacts
  <2> QED  BY <1>9, <2>1
<1>11. BufsOf(front) \cap BufsOf(back) = {}
  <2>1. ASSUME NEW b \in BufsOf(front), b \in BufsOf(back)  PROVE FALSE
    <3>1. b \in ChStreams \X Frames  BY BufFacts
    <3>2. PICK i \in DOMAIN front : HasBuf(front[i], b)
      BY <3>1, BufFacts
    <3>3. PICK j \in DOMAIN back : HasBuf(back[j], b)
      BY <2>1, <3>1, BufFacts
    <3>4. /\ i \in DOMAIN q /\ j + n \in DOMAIN q /\ i # j + n
          /\ front[i] = q[i] /\ back[j] = q[j + n]
      BY <1>0, <1>1, <1>2
    <3>5. b \in BufsOf(q)  BY <1>10
    <3> DEFINE l == j + n
    <3>6. HasBuf(q[l], b)  BY <3>3, <3>4
    <3>7. HasBuf(q[i], b)  BY <3>2, <3>4
    <3>8. l \in DOMAIN q /\ i # l  BY <3>4
    <3> HIDE DEF l
    <3> QED  BY <3>4, <3>5, <3>6, <3>7, <3>8, OneSuperbufEach
  <2> QED  BY <2>1
<1>12. CountMatched(front) \in Nat /\ CountMatched(back) \in Nat
       /\ CountMatched(q) = CountMatched(front) + CountMatched(back)
  BY <1>0, <1>5, <1>6, <1>7, <1>8
<1> QED  BY <1>1, <1>2, <1>3, <1>4, <1>10, <1>11, <1>12

\* So do the first n of it, and the rest.
SplitsInto(q, n, front, back) ==
    /\ SoundQueue(front) /\ SoundQueue(back)
    /\ CountMatched(front) \in Nat /\ CountMatched(back) \in Nat
    /\ CountMatched(q) = CountMatched(front) + CountMatched(back)
    /\ BufsOf(q) = BufsOf(front) \cup BufsOf(back)
    /\ BufsOf(front) \cap BufsOf(back) = {}
    /\ DOMAIN front = 1..n /\ DOMAIN back = 1..Len(q) - n
    /\ \A i \in 1..n : front[i] = q[i]
    /\ \A i \in 1..Len(q) - n : back[i] = q[i + n]

\* A queue cut anywhere gives two sound queues that share its buffers between them.
LEMMA SplitFacts ==
    ASSUME NEW q, SoundQueue(q), NEW n \in 0..Len(q)
    PROVE  SplitsInto(q, n, SubSeq(q, 1, n), SubSeq(q, n + 1, Len(q)))
<1>0. q \in Seq(Superbuf) /\ Len(q) \in Nat  BY DEF SoundQueue
<1> DEFINE front == SubSeq(q, 1, n)
           back == SubSeq(q, n + 1, Len(q))
<1>1. /\ front \in Seq(Superbuf) /\ Len(front) = n /\ DOMAIN front = 1..n
      /\ \A i \in 1..n : front[i] = q[i]
  BY <1>0
<1>2. /\ back \in Seq(Superbuf) /\ Len(back) = Len(q) - n /\ DOMAIN back = 1..Len(q) - n
      /\ \A i \in 1..Len(q) - n : back[i] = q[i + n]
  BY <1>0, BackFacts
<1> HIDE DEF front, back
<1>3. IsSplit(q, n, front, back)  BY <1>1, <1>2 DEF IsSplit
<1>4. /\ SoundQueue(front) /\ SoundQueue(back)
      /\ CountMatched(front) \in Nat /\ CountMatched(back) \in Nat
      /\ CountMatched(q) = CountMatched(front) + CountMatched(back)
      /\ BufsOf(q) = BufsOf(front) \cup BufsOf(back)
      /\ BufsOf(front) \cap BufsOf(back) = {}
  BY <1>3, TwoParts
<1>5. SplitsInto(q, n, front, back)  BY <1>1, <1>2, <1>4 DEF SplitsInto
<1> QED  BY <1>5 DEF front, back

\* A queue that loses the superbufs at a, a + 1, ..., b - 1.
IsWithout(r, q, a, b) ==
    /\ r \in Seq(Superbuf) /\ Len(r) = Len(q) - (b - a)
    /\ \A i \in DOMAIN r : r[i] = IF i < a THEN q[i] ELSE q[i + (b - a)]

\* It is sound, and has lost just the buffers of those superbufs.
LEMMA WithoutFacts ==
    ASSUME NEW q, SoundQueue(q), NEW a \in 1..Len(q) + 1, NEW b \in a..Len(q) + 1,
           NEW r, IsWithout(r, q, a, b)
    PROVE  /\ SoundQueue(r)
           /\ BufsAt(q, a..b - 1) \subseteq BufsOf(q)
           /\ BufsOf(r) = BufsOf(q) \ BufsAt(q, a..b - 1)
<1>0. /\ q \in Seq(Superbuf) /\ Len(q) \in Nat /\ DOMAIN q = 1..Len(q)
      /\ r \in Seq(Superbuf) /\ DOMAIN r = 1..Len(q) - (b - a)
  BY DEF SoundQueue, IsWithout
<1> DEFINE g == [i \in DOMAIN r |-> IF i < a THEN i ELSE i + (b - a)]
<1>1. g \in [DOMAIN r -> DOMAIN q]
  <2>1. \A i \in DOMAIN r : (IF i < a THEN i ELSE i + (b - a)) \in DOMAIN q  BY <1>0
  <2> QED  BY <2>1
<1>2. \A i \in DOMAIN r : r[i] = q[g[i]]
  BY DEF IsWithout
<1>3. \A i, j \in DOMAIN r : i < j => g[i] < g[j]  BY <1>0
<1>4. \A i \in DOMAIN r : g[i] \notin a..b - 1  BY <1>0
<1>5. \A k \in DOMAIN q : k \notin a..b - 1 => \E i \in DOMAIN r : g[i] = k
  <2> TAKE k \in DOMAIN q
  <2>1. CASE k < a  BY <1>0, <2>1
  <2>2. CASE k >= b
    <3>1. k - (b - a) \in DOMAIN r /\ g[k - (b - a)] = k  BY <1>0, <2>2
    <3> QED  BY <3>1
  <2> QED  BY <1>0, <2>1, <2>2
<1> HIDE DEF g
<1>6. SoundQueue(r)  BY <1>0, <1>1, <1>2, <1>3, SoundSublist
<1>7. a..b - 1 \subseteq DOMAIN q  BY <1>0
<1>8. BufsAt(q, a..b - 1) \subseteq BufsOf(q)  BY <1>7, BufFacts
<1>9. ASSUME NEW x \in BufsOf(r)  PROVE x \in BufsOf(q) \ BufsAt(q, a..b - 1)
  <2>1. PICK i \in DOMAIN r : HasBuf(r[i], x)  BY BufFacts
  <2>2. g[i] \in DOMAIN q /\ HasBuf(q[g[i]], x) /\ g[i] \notin a..b - 1
    BY <1>1, <1>2, <1>4, <2>1
  <2>3. x \in ChStreams \X Frames  BY BufFacts
  <2>4. x \in BufsOf(q)  BY <2>2, <2>3, BufFacts
  <2>5. ASSUME x \in BufsAt(q, a..b - 1)  PROVE FALSE
    <3>1. PICK k \in a..b - 1 : HasBuf(q[k], x)  BY <2>5, BufFacts
    <3>2. k = g[i]  BY <1>7, <2>2, <2>4, <3>1, OneSuperbufEach
    <3> QED  BY <2>2, <3>2
  <2> QED  BY <2>4, <2>5
<1>10. ASSUME NEW x \in BufsOf(q) \ BufsAt(q, a..b - 1)  PROVE x \in BufsOf(r)
  <2>1. x \in ChStreams \X Frames  BY BufFacts
  <2>2. PICK k \in DOMAIN q : HasBuf(q[k], x)  BY BufFacts
  <2>3. k \notin a..b - 1  BY <2>1, <2>2, BufFacts
  <2>4. PICK i \in DOMAIN r : g[i] = k  BY <1>5, <2>3
  <2> QED  BY <1>2, <2>1, <2>2, <2>4, BufFacts
<1> QED  BY <1>6, <1>8, <1>9, <1>10

\* A frame that comes is of a stream of the channel, and later than all that are queued
\* of that stream.
Comes(s, f, q) ==
    /\ s \in Bundled /\ s \in ChStreams /\ f \in Frames
    /\ \A b \in BufsOf(q) : b[1] = s => b[2] < f

\* What becomes of the queue: it is sound, has the frame, and no superbuf is complete that
\* was not, but perhaps that frame's.
Gains(r, q, s, f) ==
    /\ SoundQueue(r)
    /\ BufsOf(r) = BufsOf(q) \cup {<<s, f>>}
    /\ \A j \in DOMAIN r : r[j].matched =>
           \/ r[j].frame_idx = f
           \/ \E k \in DOMAIN q : q[k].matched /\ q[k].frame_idx = r[j].frame_idx

\* A channel has finitely many streams.
LEMMA BundledFinite ==
    ASSUME ch \in Setups
    PROVE  Bundled \subseteq ChStreams /\ IsFiniteSet(Bundled) /\ Cardinality(Bundled) \in Nat
<1>1. ch.streams \in Seq(ChStreams) /\ ch.linked \subseteq ChStreams
  BY MmSuperbufAssumption
<1>2. ToSet(ch.streams) \subseteq ChStreams  BY <1>1 DEF ToSet
<1>3. Bundled \subseteq ChStreams  BY <1>1, <1>2 DEF Bundled
<1>4. IsFiniteSet({"preview"})  BY FS_Singleton
<1>5. IsFiniteSet({"preview"} \cup {"snapshot"})  BY <1>4, FS_AddElement
<1>6. IsFiniteSet(({"preview"} \cup {"snapshot"}) \cup {"metadata"})  BY <1>5, FS_AddElement
<1>7. ({"preview"} \cup {"snapshot"}) \cup {"metadata"} = ChStreams  BY DEF ChStreams
<1>8. IsFiniteSet(ChStreams)  BY <1>6, <1>7
<1> QED  BY <1>3, <1>8, FS_Subset, FS_CardinalityType

\* The fields of a superbuf.
LEMMA SuperbufFields ==
    ASSUME NEW x \in Superbuf
    PROVE  x.frame_idx \in Frames /\ x.bufs \subseteq ChStreams
BY DEF Superbuf

\* No complete superbuf is of the frame or a later one, and none of the frame has its stream.
LEMMA ComesFacts ==
    ASSUME NEW q, SoundQueue(q), NEW s, NEW f, Comes(s, f, q), NEW i \in DOMAIN q
    PROVE  /\ q[i].matched => q[i].frame_idx < f
           /\ q[i].frame_idx = f => s \notin q[i].bufs
<1>0. q[i] \in Superbuf  BY DEF SoundQueue
<1>1. q[i] \in Superbuf /\ q[i].frame_idx \in Frames  BY <1>0, SuperbufFields
<1>2. s \in q[i].bufs => q[i].frame_idx < f
  <2>1. SUFFICES ASSUME s \in q[i].bufs  PROVE q[i].frame_idx < f
    OBVIOUS
  <2> DEFINE b == <<s, q[i].frame_idx>>
  <2>2. b \in ChStreams \X Frames /\ b[1] = s /\ b[2] = q[i].frame_idx  BY <1>1 DEF Comes
  <2> HIDE DEF b
  <2>3. HasBuf(q[i], b)  BY <2>1, <2>2 DEF HasBuf
  <2>4. b \in BufsOf(q)  BY <2>2, <2>3, BufFacts
  <2> QED  BY <2>2, <2>4 DEF Comes
<1>3. q[i].matched => s \in q[i].bufs  BY DEF SoundQueue, Comes
<1>4. f \in Int /\ q[i].frame_idx \in Int  BY <1>1 DEF Comes, Frames
<1> QED  BY <1>2, <1>3, <1>4

\* A frame joins the superbuf i of its number, which has become the first that waits, if
\* it is complete with it.
LEMMA JoinFacts ==
    ASSUME NEW q, SoundQueue(q), NEW s, NEW f, Comes(s, f, q),
           NEW i \in DOMAIN q, ~q[i].matched, q[i].frame_idx = f,
           NEW node \in Superbuf, node.frame_idx = f, node.bufs = q[i].bufs \cup {s},
           node.matched <=> node.bufs = Bundled,
           node.matched => \A j \in DOMAIN q : j < i => q[j].matched,
           NEW r, r \in Seq(Superbuf), Len(r) = Len(q),
           \A j \in DOMAIN r : r[j] = IF j = i THEN node ELSE q[j]
    PROVE  Gains(r, q, s, f)
<1>0. q \in Seq(Superbuf) /\ DOMAIN r = DOMAIN q /\ DOMAIN q \subseteq Nat
  BY DEF SoundQueue
<1>1. \A j \in DOMAIN q : /\ q[j].matched => q[j].frame_idx < f
                          /\ q[j].frame_idx = f => s \notin q[j].bufs
  BY ComesFacts
<1>2. Cardinality(Bundled) # 1  BY DEF SoundQueue
<1>3. \A j \in DOMAIN r : /\ r[j].bufs \subseteq Bundled
                          /\ r[j].matched => r[j].bufs = Bundled
  BY <1>0 DEF SoundQueue, Comes
<1>4. ASSUME NEW j \in DOMAIN r, NEW k \in DOMAIN r
      PROVE  /\ j < k /\ r[k].matched => r[j].matched
             /\ j < k /\ (r[k].matched \/ ~r[j].matched) => r[j].frame_idx < r[k].frame_idx
             /\ j # k /\ r[j].frame_idx = r[k].frame_idx => r[j].bufs \cap r[k].bufs = {}
  <2>1. /\ j < k /\ q[k].matched => q[j].matched
        /\ j < k /\ (q[k].matched \/ ~q[j].matched) => q[j].frame_idx < q[k].frame_idx
        /\ j # k /\ q[j].frame_idx = q[k].frame_idx => q[j].bufs \cap q[k].bufs = {}
    BY <1>0 DEF SoundQueue
  <2> HIDE DEF SoundQueue
  <2>2. CASE j # i /\ k # i  BY <2>1, <2>2
  <2>3. CASE j = i /\ k = i  BY <1>0, <2>3
  <2>4. CASE j = i /\ k # i
    <3>1. r[j] = node /\ r[k] = q[k]  BY <2>4
    <3>2. j < k => ~q[k].matched  BY <2>1, <2>4
    <3>3. j < k => q[j].frame_idx < q[k].frame_idx  BY <2>1, <2>4
    <3>4. j < k => f < q[k].frame_idx  BY <3>3, <2>4
    <3>5. q[k].frame_idx = f => q[k].bufs \cap (q[i].bufs \cup {s}) = {}
      BY <1>0, <1>1, <2>1, <2>4
    <3> QED  BY <3>1, <3>2, <3>4, <3>5
  <2>5. CASE j # i /\ k = i
    <3>1. r[k] = node /\ r[j] = q[j]  BY <2>5
    <3>2. j < k /\ node.matched => q[j].matched  BY <1>0, <2>5
    <3>3. j < k => q[j].frame_idx < f
      <4>1. CASE q[j].matched  BY <4>1, <1>0, <1>1
      <4>2. CASE ~q[j].matched  BY <4>2, <2>1, <2>5
      <4> QED  BY <4>1, <4>2
    <3>4. q[j].frame_idx = f => q[j].bufs \cap (q[i].bufs \cup {s}) = {}
      BY <1>0, <1>1, <2>1, <2>5
    <3> QED  BY <3>1, <3>2, <3>3, <3>4
  <2> QED  BY <2>2, <2>3, <2>4, <2>5
<1>5. SoundQueue(r)  BY <1>2, <1>3, <1>4 DEF SoundQueue
<1>6. \A b : b \in BufsOf(r) <=> b \in BufsOf(q) \/ b = <<s, f>>
  <2> TAKE b
  <2>1. \A j \in DOMAIN q : j # i => (HasBuf(r[j], b) <=> HasBuf(q[j], b))  BY <1>0
  <2>2. ASSUME b \in ChStreams \X Frames
        PROVE  HasBuf(r[i], b) <=> HasBuf(q[i], b) \/ b = <<s, f>>
    <3>1. b = <<b[1], b[2]>>  BY <2>2
    <3>2. r[i] = node  BY <1>0
    <3>3. HasBuf(node, b) <=> b[2] = f /\ (b[1] \in q[i].bufs \/ b[1] = s)  BY DEF HasBuf
    <3>4. HasBuf(q[i], b) <=> b[2] = f /\ b[1] \in q[i].bufs  BY DEF HasBuf
    <3>5. b = <<s, f>> <=> b[1] = s /\ b[2] = f  BY <3>1
    <3> QED  BY <3>2, <3>3, <3>4, <3>5
  <2>3. <<s, f>> \in ChStreams \X Frames  BY DEF Comes
  <2>4. ASSUME b \in BufsOf(r)  PROVE b \in BufsOf(q) \/ b = <<s, f>>
    <3>1. PICK j \in DOMAIN r : HasBuf(r[j], b)  BY <2>4, BufFacts
    <3>2. b \in ChStreams \X Frames  BY <2>4, BufFacts
    <3>3. HasBuf(q[j], b) \/ b = <<s, f>>  BY <1>0, <2>1, <2>2, <3>1, <3>2
    <3> QED  BY <1>0, <3>2, <3>3, BufFacts
  <2>5. ASSUME b \in BufsOf(q)  PROVE b \in BufsOf(r)
    <3>1. PICK j \in DOMAIN q : HasBuf(q[j], b)  BY <2>5, BufFacts
    <3>2. b \in ChStreams \X Frames  BY <2>5, BufFacts
    <3>3. HasBuf(r[j], b)  BY <2>1, <2>2, <3>1, <3>2
    <3> QED  BY <1>0, <3>2, <3>3, BufFacts
  <2>6. ASSUME b = <<s, f>>  PROVE b \in BufsOf(r)
    <3>1. HasBuf(r[i], b)  BY <2>2, <2>3, <2>6
    <3> QED  BY <1>0, <2>3, <2>6, <3>1, BufFacts
  <2> QED  BY <2>4, <2>5, <2>6
<1>7. BufsOf(r) = BufsOf(q) \cup {<<s, f>>}  BY <1>6
<1>8. \A j \in DOMAIN r : r[j].matched =>
          \/ r[j].frame_idx = f
          \/ \E k \in DOMAIN q : q[k].matched /\ q[k].frame_idx = r[j].frame_idx
  <2> TAKE j \in DOMAIN r
  <2>1. CASE j = i  BY <2>1
  <2>2. CASE j # i  BY <1>0, <2>2
  <2> QED  BY <2>1, <2>2
<1> QED  BY <1>5, <1>7, <1>8 DEF Gains

\* A frame that finds no superbuf of its number begins one, before those that wait for
\* later frames.
LEMMA InsertFacts ==
    ASSUME ch \in Setups, NEW q, SoundQueue(q), NEW s, NEW f, Comes(s, f, q),
           NEW at \in 1..Len(q) + 1,
           \A j \in DOMAIN q : ~q[j].matched => (j < at => q[j].frame_idx < f),
           \A j \in DOMAIN q : at <= j => ~q[j].matched /\ f < q[j].frame_idx,
           NEW node \in Superbuf, node.frame_idx = f, node.bufs = {s},
           node.matched <=> Cardinality(Bundled) = 1,
           NEW r, r \in Seq(Superbuf), Len(r) = Len(q) + 1,
           \A j \in DOMAIN r : r[j] = IF j < at THEN q[j] ELSE IF j = at THEN node ELSE q[j - 1]
    PROVE  Gains(r, q, s, f)
<1>0. /\ q \in Seq(Superbuf) /\ Len(q) \in Nat
      /\ DOMAIN q = 1..Len(q) /\ DOMAIN r = 1..Len(q) + 1
  BY DEF SoundQueue
<1>1. \A j \in DOMAIN q : /\ q[j].matched => q[j].frame_idx < f
                          /\ q[j].frame_idx = f => s \notin q[j].bufs
  BY ComesFacts
<1> DEFINE g == [j \in DOMAIN r |-> IF j < at THEN j ELSE j - 1]
<1>2. \A j \in DOMAIN r : j # at => g[j] \in DOMAIN q /\ r[j] = q[g[j]]  BY <1>0
<1>3. \A j, k \in DOMAIN r : j # at /\ k # at /\ j < k => g[j] < g[k]  BY <1>0
<1>4. \A j \in DOMAIN r : j < at => g[j] < at  BY <1>0
<1>5. \A j \in DOMAIN r : at < j => at <= g[j]  BY <1>0
<1>6. r[at] = node /\ at \in DOMAIN r  BY <1>0
<1>7. \A k \in DOMAIN q : \E j \in DOMAIN r : j # at /\ g[j] = k
  <2> TAKE k \in DOMAIN q
  <2>1. CASE k < at  BY <1>0, <2>1
  <2>2. CASE k >= at
    <3>1. k + 1 \in DOMAIN r /\ k + 1 # at /\ g[k + 1] = k  BY <1>0, <2>2
    <3> QED  BY <3>1
  <2> QED  BY <1>0, <2>1, <2>2
<1> HIDE DEF g
<1>8. node.matched => node.bufs = Bundled
  <2>1. ASSUME Cardinality(Bundled) = 1  PROVE Bundled = {s}
    <3>1. IsFiniteSet(Bundled)  BY BundledFinite
    <3>2. PICK x : Bundled = {x}  BY <2>1, <3>1, FS_Singleton
    <3> QED  BY <3>2 DEF Comes
  <2> QED  BY <2>1
<1>9. node.matched => \A j \in DOMAIN q : q[j].matched  BY DEF SoundQueue
<1>10. ASSUME NEW j \in DOMAIN r
       PROVE  /\ r[j].bufs \subseteq Bundled
              /\ r[j].matched => r[j].bufs = Bundled
              /\ Cardinality(Bundled) = 1 => r[j].matched
  <2>1. CASE j = at  BY <1>6, <1>8, <2>1 DEF Comes
  <2>2. CASE j # at  BY <1>2, <2>2 DEF SoundQueue
  <2> QED  BY <2>1, <2>2
<1>11. ASSUME NEW j \in DOMAIN r, NEW k \in DOMAIN r
      PROVE  /\ j < k /\ r[k].matched => r[j].matched
             /\ j < k /\ (r[k].matched \/ ~r[j].matched) => r[j].frame_idx < r[k].frame_idx
             /\ j # k /\ r[j].frame_idx = r[k].frame_idx => r[j].bufs \cap r[k].bufs = {}
  <2>1. CASE j # at /\ k # at
    <3>1. /\ g[j] \in DOMAIN q /\ g[k] \in DOMAIN q /\ r[j] = q[g[j]] /\ r[k] = q[g[k]]
      BY <1>2, <2>1
    <3>2. j < k => g[j] < g[k]  BY <1>3, <2>1
    <3>3. j # k => g[j] # g[k]
      <4>1. k < j => g[k] < g[j]  BY <1>3, <2>1
      <4>2. g[j] \in Nat /\ g[k] \in Nat /\ j \in Nat /\ k \in Nat  BY <1>0, <3>1
      <4> QED  BY <3>2, <4>1, <4>2
    <3>4. /\ g[j] < g[k] /\ q[g[k]].matched => q[g[j]].matched
          /\ g[j] < g[k] /\ (q[g[k]].matched \/ ~q[g[j]].matched)
             => q[g[j]].frame_idx < q[g[k]].frame_idx
          /\ g[j] # g[k] /\ q[g[j]].frame_idx = q[g[k]].frame_idx
             => q[g[j]].bufs \cap q[g[k]].bufs = {}
      BY <3>1 DEF SoundQueue
    <3> QED  BY <3>1, <3>2, <3>3, <3>4
  <2>2. CASE j = at /\ k = at  BY <1>0, <2>2
  <2>3. CASE j = at /\ k # at
    <3>1. r[j] = node /\ r[k] = q[g[k]] /\ g[k] \in DOMAIN q  BY <1>2, <1>6, <2>3
    <3>2. j < k => ~q[g[k]].matched /\ f < q[g[k]].frame_idx
      <4>1. SUFFICES ASSUME j < k  PROVE ~q[g[k]].matched /\ f < q[g[k]].frame_idx
        OBVIOUS
      <4>2. at <= g[k]  BY <1>5, <2>3, <4>1
      <4> QED  BY <3>1, <4>2
    <3>3. q[g[k]].frame_idx = f => q[g[k]].bufs \cap {s} = {}  BY <1>1, <3>1
    <3> QED  BY <3>1, <3>2, <3>3
  <2>4. CASE j # at /\ k = at
    <3>1. r[k] = node /\ r[j] = q[g[j]] /\ g[j] \in DOMAIN q  BY <1>2, <1>6, <2>4
    <3>2. node.matched => q[g[j]].matched  BY <1>9, <3>1
    <3>3. j < k => q[g[j]].frame_idx < f
      <4>1. SUFFICES ASSUME j < k  PROVE q[g[j]].frame_idx < f
        OBVIOUS
      <4>2. g[j] < at  BY <1>4, <2>4, <4>1
      <4>3. CASE q[g[j]].matched  BY <1>1, <3>1, <4>3
      <4>4. CASE ~q[g[j]].matched  BY <3>1, <4>2, <4>4
      <4> QED  BY <4>3, <4>4
    <3>4. q[g[j]].frame_idx = f => q[g[j]].bufs \cap {s} = {}  BY <1>1, <3>1
    <3> QED  BY <3>1, <3>2, <3>3, <3>4
  <2> QED  BY <2>1, <2>2, <2>3, <2>4
<1>12. SoundQueue(r)  BY <1>10, <1>11 DEF SoundQueue
<1>13. <<s, f>> \in ChStreams \X Frames  BY DEF Comes
<1>14. ASSUME NEW b \in BufsOf(r)  PROVE b \in BufsOf(q) \/ b = <<s, f>>
  <2>1. b \in ChStreams \X Frames  BY BufFacts
  <2>2. PICK j \in DOMAIN r : HasBuf(r[j], b)  BY BufFacts
  <2>3. CASE j = at
    <3>1. b[2] = f /\ b[1] = s  BY <1>6, <2>2, <2>3 DEF HasBuf
    <3> QED  BY <2>1, <3>1
  <2>4. CASE j # at
    <3>1. g[j] \in DOMAIN q /\ HasBuf(q[g[j]], b)  BY <1>2, <2>2, <2>4
    <3> QED  BY <2>1, <3>1, BufFacts
  <2> QED  BY <2>3, <2>4
<1>15. ASSUME NEW b \in BufsOf(q)  PROVE b \in BufsOf(r)
  <2>1. b \in ChStreams \X Frames  BY BufFacts
  <2>2. PICK k \in DOMAIN q : HasBuf(q[k], b)  BY BufFacts
  <2>3. PICK j \in DOMAIN r : j # at /\ g[j] = k  BY <1>7
  <2>4. HasBuf(r[j], b)  BY <1>2, <2>2, <2>3
  <2> QED  BY <2>1, <2>4, BufFacts
<1>16. <<s, f>> \in BufsOf(r)
  <2> DEFINE b == <<s, f>>
  <2>1. b[1] = s /\ b[2] = f  OBVIOUS
  <2>2. HasBuf(node, b)  BY <2>1 DEF HasBuf
  <2> HIDE DEF b
  <2>3. b \in BufsOf(r)
    <3>1. b \in ChStreams \X Frames  BY <1>13 DEF b
    <3> QED  BY <1>6, <2>2, <3>1, BufFacts
  <2> QED  BY <2>3 DEF b
<1>17. BufsOf(r) = BufsOf(q) \cup {<<s, f>>}  BY <1>14, <1>15, <1>16
<1>18. \A j \in DOMAIN r : r[j].matched =>
          \/ r[j].frame_idx = f
          \/ \E k \in DOMAIN q : q[k].matched /\ q[k].frame_idx = r[j].frame_idx
  <2> TAKE j \in DOMAIN r
  <2>1. CASE j = at  BY <1>6, <2>1
  <2>2. CASE j # at  BY <1>2, <2>2
  <2> QED  BY <2>1, <2>2
<1> QED  BY <1>12, <1>17, <1>18 DEF Gains

\* How sequences are cut and extended.
LEMMA CutFacts ==
    ASSUME NEW q, q \in Seq(Superbuf), NEW a \in 1..Len(q) + 1, NEW b \in a..Len(q) + 1
    PROVE  IsWithout(SubSeq(q, 1, a - 1) \o SubSeq(q, b, Len(q)), q, a, b)
<1>0. Len(q) \in Nat /\ a - 1 \in 0..Len(q) /\ b - 1 \in 0..Len(q)  OBVIOUS
<1> DEFINE front == SubSeq(q, 1, a - 1)
           back == SubSeq(q, b, Len(q))
<1>1. /\ front \in Seq(Superbuf) /\ Len(front) = a - 1
      /\ \A i \in 1..a - 1 : front[i] = q[i]
  BY <1>0
<1>2. /\ back \in Seq(Superbuf) /\ Len(back) = Len(q) - (b - 1)
      /\ \A i \in 1..Len(q) - (b - 1) : back[i] = q[i + (b - 1)]
  <2> DEFINE n == b - 1
  <2>1. n \in 0..Len(q) /\ n + 1 = b  BY <1>0
  <2>2. /\ SubSeq(q, n + 1, Len(q)) \in Seq(Superbuf)
        /\ Len(SubSeq(q, n + 1, Len(q))) = Len(q) - n
        /\ \A i \in 1..Len(q) - n : SubSeq(q, n + 1, Len(q))[i] = q[i + n]
    <3> HIDE DEF n, back, front
    <3> QED  BY <2>1, BackFacts
  <2> QED  BY <2>1, <2>2
<1> HIDE DEF front, back
<1> DEFINE r == front \o back
<1>3. r \in Seq(Superbuf) /\ Len(r) = Len(q) - (b - a) /\ DOMAIN r = 1..Len(r)
  <2>1. front \in Seq(Superbuf) /\ back \in Seq(Superbuf)  BY <1>1, <1>2
  <2>2. r \in Seq(Superbuf) /\ Len(r) = Len(front) + Len(back)
    BY <2>1, ConcatProperties
  <2>3. DOMAIN r = 1..Len(r)  BY <2>2
  <2>4. (a - 1) + (Len(q) - (b - 1)) = Len(q) - (b - a)  BY <1>0
  <2> HIDE DEF r
  <2> QED  BY <1>1, <1>2, <2>2, <2>3, <2>4
<1>4. \A i \in 1..Len(r) : r[i] = IF i < a THEN q[i] ELSE q[i + (b - a)]
  <2> TAKE i \in 1..Len(r)
  <2>1. CASE i < a
    <3>1. i \in 1..Len(front) /\ r[i] = front[i]  BY <1>0, <1>1, <1>2, <2>1
    <3> QED  BY <1>0, <1>1, <2>1, <3>1
  <2>2. CASE ~(i < a)
    <3>1. i - (a - 1) \in 1..Len(q) - (b - 1)  BY <1>0, <1>3, <2>2
    <3>2. r[i] = back[i - (a - 1)]  BY <1>0, <1>1, <1>2, <1>3, <2>2
    <3>3. back[i - (a - 1)] = q[(i - (a - 1)) + (b - 1)]  BY <1>2, <3>1
    <3>4. (i - (a - 1)) + (b - 1) = i + (b - a)  BY <1>0, <1>3
    <3> QED  BY <2>2, <3>2, <3>3, <3>4
  <2> QED  BY <2>1, <2>2
<1> HIDE DEF r
<1>5. IsWithout(r, q, a, b)  BY <1>3, <1>4 DEF IsWithout
<1> QED  BY <1>5 DEF r, front, back

\* A queue with a new superbuf at a place.
Inserted(r, q, at, node) ==
    /\ r \in Seq(Superbuf) /\ Len(r) = Len(q) + 1
    /\ \A j \in DOMAIN r : r[j] = IF j < at THEN q[j] ELSE IF j = at THEN node ELSE q[j - 1]

\* Which is what InsertAt makes of it.
LEMMA InsertAtFacts ==
    ASSUME NEW q, q \in Seq(Superbuf), NEW at \in 1..Len(q) + 1, NEW node \in Superbuf
    PROVE  Inserted(InsertAt(q, at, node), q, at, node)
<1>0. Len(q) \in Nat /\ at - 1 \in 0..Len(q)  OBVIOUS
<1> DEFINE front == SubSeq(q, 1, at - 1)
           back == SubSeq(q, at, Len(q))
           r == InsertAt(q, at, node)
<1>1. /\ front \in Seq(Superbuf) /\ Len(front) = at - 1
      /\ \A i \in 1..at - 1 : front[i] = q[i]
  BY <1>0
<1>2. /\ back \in Seq(Superbuf) /\ Len(back) = Len(q) - (at - 1)
      /\ \A i \in 1..Len(q) - (at - 1) : back[i] = q[i + (at - 1)]
  <2> DEFINE n == at - 1
  <2>1. n \in 0..Len(q) /\ n + 1 = at  BY <1>0
  <2>2. /\ SubSeq(q, n + 1, Len(q)) \in Seq(Superbuf)
        /\ Len(SubSeq(q, n + 1, Len(q))) = Len(q) - n
        /\ \A i \in 1..Len(q) - n : SubSeq(q, n + 1, Len(q))[i] = q[i + n]
    <3> HIDE DEF n, back, front
    <3> QED  BY <2>1, BackFacts
  <2> QED  BY <2>1, <2>2
<1>3. r = (front \o <<node>>) \o back  BY DEF InsertAt
<1> HIDE DEF front, back, r
<1> DEFINE head == front \o <<node>>
<1>4. /\ head \in Seq(Superbuf) /\ Len(head) = at
      /\ \A i \in 1..at - 1 : head[i] = front[i]
      /\ head[at] = node
  BY <1>0, <1>1
<1> HIDE DEF head
<1>5. r = head \o back  BY <1>3 DEF head
<1>6. r \in Seq(Superbuf) /\ Len(r) = Len(q) + 1
  <2>1. head \in Seq(Superbuf) /\ back \in Seq(Superbuf)  BY <1>2, <1>4
  <2>2. r \in Seq(Superbuf) /\ Len(r) = Len(head) + Len(back)
    BY <1>5, <2>1, ConcatProperties
  <2>3. at + (Len(q) - (at - 1)) = Len(q) + 1  BY <1>0
  <2> QED  BY <1>2, <1>4, <2>2, <2>3
<1>7. ASSUME NEW j \in 1..Len(r)
      PROVE  r[j] = IF j < at THEN q[j] ELSE IF j = at THEN node ELSE q[j - 1]
  <2>1. CASE j <= at
    <3>1. r[j] = head[j]  BY <1>0, <1>2, <1>4, <1>5, <2>1
    <3> QED  BY <1>0, <1>1, <1>4, <2>1, <3>1
  <2>2. CASE ~(j <= at)
    <3>1. j - at \in 1..Len(q) - (at - 1)  BY <1>0, <1>6, <2>2
    <3>2. r[j] = back[j - at]  BY <1>0, <1>2, <1>4, <1>5, <1>6, <2>2
    <3>3. back[j - at] = q[(j - at) + (at - 1)]  BY <1>2, <3>1
    <3>4. (j - at) + (at - 1) = j - 1  BY <1>0, <1>6
    <3> QED  BY <1>0, <1>6, <2>2, <3>2, <3>3, <3>4
  <2> QED  BY <1>0, <1>6, <2>1, <2>2
<1>8. Inserted(r, q, at, node)  BY <1>6, <1>7 DEF Inserted
<1> QED  BY <1>8 DEF r

\* As Gains, while the buffers of B leave the queue or never enter it.
Enqueues(r, q, s, f, B) ==
    /\ SoundQueue(r)
    /\ B \subseteq BufsOf(q) \cup {<<s, f>>}
    /\ BufsOf(r) = (BufsOf(q) \cup {<<s, f>>}) \ B
    /\ \A j \in DOMAIN r : r[j].matched =>
           \/ r[j].frame_idx = f
           \/ \E k \in DOMAIN q : q[k].matched /\ q[k].frame_idx = r[j].frame_idx

\* A queue that lost superbufs before the frame joined.
LEMMA GainsAfterLoss ==
    ASSUME NEW q, SoundQueue(q), NEW s, NEW f, Comes(s, f, q),
           NEW a \in 1..Len(q) + 1, NEW b \in a..Len(q) + 1,
           NEW p, IsWithout(p, q, a, b), NEW r, Gains(r, p, s, f)
    PROVE  Enqueues(r, q, s, f, BufsAt(q, a..b - 1))
<1>1. /\ BufsAt(q, a..b - 1) \subseteq BufsOf(q)
      /\ BufsOf(p) = BufsOf(q) \ BufsAt(q, a..b - 1)
  BY WithoutFacts
<1>2. <<s, f>> \notin BufsOf(q)
  <2>1. ASSUME <<s, f>> \in BufsOf(q)  PROVE FALSE
    <3>1. f < f  BY <2>1 DEF Comes
    <3>2. f \in Int  BY DEF Comes, Frames
    <3> QED  BY <3>1, <3>2
  <2> QED  BY <2>1
<1>3. BufsOf(r) = (BufsOf(q) \cup {<<s, f>>}) \ BufsAt(q, a..b - 1)
  BY <1>1, <1>2 DEF Gains
<1>4. \A k \in DOMAIN p : \E l \in DOMAIN q : p[k] = q[l]
  <2> TAKE k \in DOMAIN p
  <2>1. q \in Seq(Superbuf) /\ p \in Seq(Superbuf) /\ Len(p) = Len(q) - (b - a)
    BY DEF SoundQueue, IsWithout
  <2>2. k \in 1..Len(q) - (b - a) /\ Len(q) \in Nat /\ DOMAIN q = 1..Len(q)  BY <2>1
  <2>3. p[k] = IF k < a THEN q[k] ELSE q[k + (b - a)]  BY DEF IsWithout
  <2>4. k \in DOMAIN q /\ k + (b - a) \in DOMAIN q  BY <2>2
  <2> QED  BY <2>3, <2>4
<1>5. \A j \in DOMAIN r : r[j].matched =>
          \/ r[j].frame_idx = f
          \/ \E k \in DOMAIN q : q[k].matched /\ q[k].frame_idx = r[j].frame_idx
  <2> SUFFICES ASSUME NEW j \in DOMAIN r, r[j].matched, r[j].frame_idx # f
               PROVE  \E k \in DOMAIN q : q[k].matched /\ q[k].frame_idx = r[j].frame_idx
    OBVIOUS
  <2>1. PICK k \in DOMAIN p : p[k].matched /\ p[k].frame_idx = r[j].frame_idx  BY DEF Gains
  <2>2. PICK l \in DOMAIN q : p[k] = q[l]  BY <1>4
  <2> QED  BY <2>1, <2>2
<1> QED  BY <1>1, <1>3, <1>5 DEF Enqueues, Gains

\* A smaller queue expects no less of a frame that comes.
LEMMA ComesToLess ==
    ASSUME NEW q, NEW p, BufsOf(p) \subseteq BufsOf(q), NEW s, NEW f, Comes(s, f, q)
    PROVE  Comes(s, f, p)
BY DEF Comes

\* The queue with place i replaced and those from a to before it gone.
Joined(r, q, i, a, node) ==
    /\ r \in Seq(Superbuf) /\ Len(r) = Len(q) - (i - a)
    /\ \A j \in DOMAIN r : r[j] = IF j = a THEN node ELSE IF j < a THEN q[j] ELSE q[j + (i - a)]

\* Which is what joining the superbuf at i and dropping the older ones makes of it.
LEMMA JoinShape ==
    ASSUME NEW q, q \in Seq(Superbuf), NEW i \in DOMAIN q, NEW a \in 1..i,
           NEW node \in Superbuf
    PROVE  LET joined == [q EXCEPT ![i] = node]
           IN  Joined(SubSeq(joined, 1, a - 1) \o SubSeq(joined, i, Len(q)), q, i, a, node)
<1>0. /\ Len(q) \in Nat /\ DOMAIN q = 1..Len(q) /\ i \in Nat /\ a \in Nat
      /\ a <= i /\ i <= Len(q)
  OBVIOUS
<1> DEFINE joined == [q EXCEPT ![i] = node]
<1>1. /\ joined \in Seq(Superbuf) /\ Len(joined) = Len(q)
      /\ \A j \in 1..Len(q) : joined[j] = IF j = i THEN node ELSE q[j]
  BY <1>0
<1> HIDE DEF joined
<1> DEFINE r == SubSeq(joined, 1, a - 1) \o SubSeq(joined, i, Len(joined))
<1>2. a \in 1..Len(joined) + 1 /\ i \in a..Len(joined) + 1  BY <1>0, <1>1
<1>3. IsWithout(r, joined, a, i)  BY <1>1, <1>2, CutFacts
<1> HIDE DEF r
<1>4. /\ r \in Seq(Superbuf) /\ Len(r) = Len(q) - (i - a)
      /\ \A j \in DOMAIN r : r[j] = IF j < a THEN joined[j] ELSE joined[j + (i - a)]
  BY <1>1, <1>3 DEF IsWithout
<1>5. DOMAIN r = 1..Len(q) - (i - a)  BY <1>4
<1>6. ASSUME NEW j \in DOMAIN r
      PROVE  r[j] = IF j = a THEN node ELSE IF j < a THEN q[j] ELSE q[j + (i - a)]
  <2>0. j \in Nat /\ j \in 1..Len(q) - (i - a)  BY <1>0, <1>5
  <2>1. j \in 1..Len(q) /\ j + (i - a) \in 1..Len(q)  BY <1>0, <2>0
  <2>2. r[j] = IF j < a THEN joined[j] ELSE joined[j + (i - a)]  BY <1>4
  <2>3. joined[j] = IF j = i THEN node ELSE q[j]  BY <1>1, <2>1
  <2>4. joined[j + (i - a)] = IF j + (i - a) = i THEN node ELSE q[j + (i - a)]
    BY <1>1, <2>1
  <2>5. j + (i - a) = i <=> j = a  BY <1>0, <2>0
  <2>6. j < a => j # i /\ j # a  BY <1>0, <2>0
  <2> QED  BY <2>2, <2>3, <2>4, <2>5, <2>6
<1>7. Joined(r, q, i, a, node)  BY <1>4, <1>6 DEF Joined
<1> QED  BY <1>1, <1>7 DEF r, joined

\* A superbuf of the frame's number that waits, what it becomes, and from where on those
\* before it wait for earlier frames.
CanJoin(q, s, f, i, node, a) ==
    /\ i \in DOMAIN q /\ ~q[i].matched /\ q[i].frame_idx = f
    /\ node \in Superbuf /\ node.frame_idx = f /\ node.bufs = q[i].bufs \cup {s}
    /\ node.matched <=> node.bufs = Bundled
    /\ a \in 1..i
    /\ ~node.matched => a = i
    /\ node.matched => FirstMatched(q, a - 1)

\* A frame joins the superbuf i of its number.  With it complete, those that waited
\* before it, from a on, are dropped.
LEMMA JoinStep ==
    ASSUME NEW q, SoundQueue(q), NEW s, NEW f, Comes(s, f, q),
           NEW i, NEW node, NEW a, CanJoin(q, s, f, i, node, a), NEW r, Joined(r, q, i, a, node)
    PROVE  /\ Enqueues(r, q, s, f, BufsAt(q, a..i - 1))
           /\ CountMatched(q) \in Nat
           /\ CountMatched(r) = CountMatched(q) + (IF node.matched THEN 1 ELSE 0)
<1>1. q \in Seq(Superbuf)  BY DEF SoundQueue
<1> USE DEF CanJoin
<1>2. /\ q \in Seq(Superbuf) /\ Len(q) \in Nat /\ DOMAIN q = 1..Len(q)
      /\ a \in 1..Len(q) + 1 /\ i \in a..Len(q) + 1 /\ a <= i /\ i <= Len(q)
      /\ i \in Nat /\ a \in Nat
  BY <1>1
<1>3. /\ r \in Seq(Superbuf) /\ Len(r) = Len(q) - (i - a)
      /\ DOMAIN r = 1..Len(q) - (i - a)
  BY DEF Joined
<1>4. ASSUME NEW j \in DOMAIN r
      PROVE  r[j] = IF j = a THEN node ELSE IF j < a THEN q[j] ELSE q[j + (i - a)]
  BY DEF Joined
<1> DEFINE p == SubSeq(q, 1, a - 1) \o SubSeq(q, i, Len(q))
<1>5. IsWithout(p, q, a, i)  BY <1>2, CutFacts
<1> HIDE DEF p
<1>6. /\ p \in Seq(Superbuf) /\ Len(p) = Len(q) - (i - a)
      /\ DOMAIN p = 1..Len(q) - (i - a)
      /\ \A j \in DOMAIN p : p[j] = IF j < a THEN q[j] ELSE q[j + (i - a)]
  BY <1>2, <1>5 DEF IsWithout
<1>7. SoundQueue(p) /\ BufsOf(p) \subseteq BufsOf(q)  BY <1>2, <1>5, WithoutFacts
<1>8. Comes(s, f, p)  BY <1>7, ComesToLess
<1>9. a \in DOMAIN p /\ p[a] = q[i]
  <2>1. a \in DOMAIN p /\ a + (i - a) = i /\ ~(a < a)  BY <1>2, <1>6
  <2> QED  BY <1>6, <2>1
<1>10. \A j \in DOMAIN r : r[j] = IF j = a THEN node ELSE p[j]
  BY <1>3, <1>4, <1>6
<1>11. ASSUME node.matched, NEW j \in DOMAIN p, j < a  PROVE p[j].matched
  <2>1. p[j] = q[j] /\ j \in DOMAIN q /\ j <= a - 1  BY <1>2, <1>6, <1>11
  <2> QED  BY <1>11, <2>1 DEF FirstMatched
<1>12. Gains(r, p, s, f)
  <2>1. ~p[a].matched /\ p[a].frame_idx = f /\ node.bufs = p[a].bufs \cup {s}  BY <1>9
  <2>2. Len(r) = Len(p)  BY <1>3, <1>6
  <2>3. node.matched => \A j \in DOMAIN p : j < a => p[j].matched  BY <1>11
  <2> QED  BY <1>3, <1>7, <1>8, <1>9, <1>10, <2>1, <2>2, <2>3, JoinFacts
<1>13. Enqueues(r, q, s, f, BufsAt(q, a..i - 1))
  BY <1>2, <1>5, <1>12, GainsAfterLoss
<1>14. PICK m \in 0..Len(q) : FirstMatched(q, m)  BY SoundHasHead
<1>15. CountMatched(q) = m  BY <1>2, <1>14, HeadFacts
<1>16. m < i  BY <1>2, <1>14 DEF FirstMatched
<1>17. CASE node.matched
  <2>1. m = a - 1
    <3>1. a - 1 \in 0..Len(q)  BY <1>2
    <3> QED  BY <1>2, <1>15, <1>17, <3>1, HeadFacts
  <2>2. FirstMatched(r, m + 1)
    <3>1. ASSUME NEW j \in DOMAIN r  PROVE r[j].matched <=> j <= m + 1
      <4>1. CASE j = a  BY <1>2, <1>4, <1>17, <2>1, <4>1
      <4>2. CASE j < a
        <5>1. r[j] = q[j] /\ j \in DOMAIN q  BY <1>2, <1>3, <1>4, <4>2
        <5>2. j <= m /\ j <= m + 1  BY <1>2, <1>3, <2>1, <4>2
        <5>3. q[j].matched  BY <1>14, <5>1, <5>2 DEF FirstMatched
        <5> QED  BY <5>1, <5>2, <5>3
      <4>3. CASE j > a
        <5> DEFINE k == j + (i - a)
        <5>1. j \in Nat /\ j <= Len(q) - (i - a)
          <6>1. j \in 1..Len(q) - (i - a)  BY <1>3
          <6>2. \A x \in 1..Len(q) - (i - a) : x \in Nat /\ x <= Len(q) - (i - a)  BY <1>2
          <6> QED  BY <6>1, <6>2
        <5>2. j # a /\ ~(j < a)  BY <1>2, <4>3, <5>1
        <5>3. r[j] = q[k]  BY <1>4, <5>2
        <5>4. k \in DOMAIN q /\ ~(k <= m)  BY <1>2, <2>1, <4>3, <5>1
        <5>5. ~(j <= m + 1)  BY <1>2, <1>3, <2>1, <4>3
        <5> HIDE DEF k
        <5>6. ~q[k].matched  BY <1>14, <5>4 DEF FirstMatched
        <5> QED  BY <5>3, <5>5, <5>6
      <4> QED  BY <1>2, <1>3, <4>1, <4>2, <4>3
    <3> QED  BY <3>1 DEF FirstMatched
  <2>3. m + 1 \in 0..Len(r)  BY <1>2, <1>3, <2>1
  <2>4. CountMatched(r) = m + 1  BY <1>3, <2>2, <2>3, HeadFacts
  <2> QED  BY <1>13, <1>15, <1>17, <2>4
<1>18. CASE ~node.matched
  <2>1. a = i /\ Len(r) = Len(q) /\ DOMAIN r = DOMAIN q  BY <1>2, <1>3, <1>18
  <2>2. ASSUME NEW j \in DOMAIN r  PROVE r[j].matched <=> j <= m
    <3>1. CASE j = i  BY <1>4, <1>16, <1>18, <2>1, <3>1
    <3>2. CASE j # i
      <4>1. r[j] = q[j]
        <5>1. j + (i - a) = j  BY <1>2, <1>3, <2>1
        <5> QED  BY <1>4, <2>1, <3>2, <5>1
      <4> QED  BY <1>14, <2>1, <4>1 DEF FirstMatched
    <3> QED  BY <3>1, <3>2
  <2>3. FirstMatched(r, m) /\ m \in 0..Len(r)  BY <2>1, <2>2 DEF FirstMatched
  <2>4. CountMatched(r) = m  BY <1>3, <2>3, HeadFacts
  <2> QED  BY <1>13, <1>15, <1>18, <2>4
<1> QED  BY <1>17, <1>18

\* The superbufs that wait and are of earlier, and of later, frames.
OlderOf(q, f) == {j \in DOMAIN q : ~q[j].matched /\ q[j].frame_idx < f}
NewerOf(q, f) == {j \in DOMAIN q : ~q[j].matched /\ q[j].frame_idx > f}
PlaceFor(q, f) == IF NewerOf(q, f) = {} THEN Len(q) + 1 ELSE Min(NewerOf(q, f))

\* Those before the place of a new one wait for earlier frames or not at all.
LEMMA PlaceFacts ==
    ASSUME NEW q, SoundQueue(q), NEW s, NEW f, Comes(s, f, q),
           \A j \in DOMAIN q : ~q[j].matched => q[j].frame_idx # f
    PROVE  /\ PlaceFor(q, f) \in 1..Len(q) + 1
           /\ \A j \in DOMAIN q :
                  ~q[j].matched => (j < PlaceFor(q, f) => q[j].frame_idx < f)
           /\ \A j \in DOMAIN q :
                  PlaceFor(q, f) <= j => ~q[j].matched /\ f < q[j].frame_idx
           /\ \A j \in OlderOf(q, f) : j < PlaceFor(q, f)
<1>0. q \in Seq(Superbuf) /\ Len(q) \in Nat /\ DOMAIN q = 1..Len(q)
  BY DEF SoundQueue
<1>1. f \in Int /\ \A j \in DOMAIN q : q[j].frame_idx \in Int
  <2>1. \A j \in DOMAIN q : q[j] \in Superbuf  BY <1>0
  <2>2. \A j \in DOMAIN q : q[j].frame_idx \in Frames  BY <2>1, SuperbufFields
  <2> QED  BY <2>2 DEF Comes, Frames
<1> DEFINE at == PlaceFor(q, f)
<1>2. ASSUME NewerOf(q, f) # {}
      PROVE  at \in NewerOf(q, f) /\ \A j \in NewerOf(q, f) : at <= j
  <2>1. NewerOf(q, f) \in SUBSET Nat  BY <1>0 DEF NewerOf
  <2>2. /\ Min(NewerOf(q, f)) \in NewerOf(q, f)
        /\ \A j \in NewerOf(q, f) : Min(NewerOf(q, f)) <= j
    BY <1>2, <2>1, MinIsLeast
  <2> QED  BY <1>2, <2>2 DEF PlaceFor
<1>3. ASSUME NewerOf(q, f) = {}  PROVE at = Len(q) + 1
  BY <1>3 DEF PlaceFor
<1> HIDE DEF at
<1>4. at \in 1..Len(q) + 1  BY <1>0, <1>2, <1>3 DEF NewerOf
<1>5. ASSUME NEW j \in DOMAIN q, ~q[j].matched, j < at  PROVE q[j].frame_idx < f
  <2>1. j \notin NewerOf(q, f)
    <3>1. CASE NewerOf(q, f) = {}  BY <3>1
    <3>2. CASE NewerOf(q, f) # {}
      <4>1. j \in NewerOf(q, f) => at <= j  BY <1>2, <3>2
      <4> QED  BY <1>0, <1>4, <1>5, <4>1
    <3> QED  BY <3>1, <3>2
  <2>2. ~(q[j].frame_idx > f)  BY <1>5, <2>1 DEF NewerOf
  <2>3. q[j].frame_idx # f  BY <1>5
  <2> QED  BY <1>1, <2>2, <2>3
<1>6. ASSUME NEW j \in DOMAIN q, at <= j  PROVE ~q[j].matched /\ f < q[j].frame_idx
  <2>1. NewerOf(q, f) # {}  BY <1>0, <1>3, <1>6
  <2>2. at \in DOMAIN q /\ ~q[at].matched /\ q[at].frame_idx > f
    BY <1>2, <2>1 DEF NewerOf
  <2>3. CASE j = at  BY <1>1, <2>2, <2>3
  <2>4. CASE j # at
    <3>1. at < j  BY <1>0, <1>4, <1>6, <2>4
    <3>2. ~q[j].matched  BY <2>2, <3>1 DEF SoundQueue
    <3>3. q[at].frame_idx < q[j].frame_idx  BY <2>2, <3>1 DEF SoundQueue
    <3>4. f < q[j].frame_idx  BY <1>1, <2>2, <3>3
    <3> QED  BY <3>2, <3>4
  <2> QED  BY <2>3, <2>4
<1>7. ASSUME NEW j \in OlderOf(q, f)  PROVE j < at
  <2>1. j \in DOMAIN q /\ q[j].frame_idx < f  BY DEF OlderOf
  <2>2. at <= j => f < q[j].frame_idx  BY <1>6, <2>1
  <2>3. ~(at <= j)  BY <1>1, <2>1, <2>2
  <2> QED  BY <1>0, <1>4, <2>1, <2>3
<1> QED  BY <1>4, <1>5, <1>6, <1>7 DEF at

\* A new superbuf.
LEMMA InsertStep ==
    ASSUME ch \in Setups, NEW q, SoundQueue(q), NEW s, NEW f, Comes(s, f, q),
           \A j \in DOMAIN q : ~q[j].matched => q[j].frame_idx # f,
           NEW node \in Superbuf, node.frame_idx = f, node.bufs = {s},
           node.matched <=> Cardinality(Bundled) = 1
    PROVE  LET r == InsertAt(q, PlaceFor(q, f), node)
           IN  /\ Gains(r, q, s, f)
               /\ Len(r) = Len(q) + 1
               /\ \A j \in OlderOf(q, f) : r[j] = q[j]
               /\ \E m \in 0..Len(q) :
                      /\ CountMatched(q) = m
                      /\ FirstMatched(r, IF node.matched THEN m + 1 ELSE m)
                      /\ CountMatched(r) = (IF node.matched THEN m + 1 ELSE m)
                      /\ \A j \in OlderOf(q, f) : m < j /\ ~node.matched
<1> DEFINE at == PlaceFor(q, f)
           r == InsertAt(q, at, node)
<1>1. q \in Seq(Superbuf)  BY DEF SoundQueue
<1>2. q \in Seq(Superbuf) /\ Len(q) \in Nat /\ DOMAIN q = 1..Len(q)
  BY <1>1
<1>3. /\ at \in 1..Len(q) + 1
      /\ \A j \in DOMAIN q : ~q[j].matched => (j < at => q[j].frame_idx < f)
      /\ \A j \in DOMAIN q : at <= j => ~q[j].matched /\ f < q[j].frame_idx
      /\ \A j \in OlderOf(q, f) : j < at
  BY PlaceFacts
<1> HIDE DEF at
<1>4. /\ r \in Seq(Superbuf) /\ Len(r) = Len(q) + 1
      /\ \A j \in DOMAIN r :
             r[j] = IF j < at THEN q[j] ELSE IF j = at THEN node ELSE q[j - 1]
  <2>1. Inserted(r, q, at, node)  BY <1>2, <1>3, InsertAtFacts
  <2> QED  BY <2>1 DEF Inserted
<1> HIDE DEF r
<1>5. Gains(r, q, s, f)  BY <1>3, <1>4, InsertFacts
<1>6. PICK m \in 0..Len(q) : FirstMatched(q, m)  BY SoundHasHead
<1>7. CountMatched(q) = m  BY <1>2, <1>6, HeadFacts
<1>8. DOMAIN r = 1..Len(q) + 1  BY <1>4
<1>9. ASSUME NEW j \in OlderOf(q, f)  PROVE r[j] = q[j] /\ m < j /\ ~node.matched
  <2>1. j \in DOMAIN q /\ ~q[j].matched  BY DEF OlderOf
  <2>2. j < at /\ j \in DOMAIN r  BY <1>2, <1>3, <1>8, <2>1
  <2>3. m < j  BY <1>2, <1>6, <2>1 DEF FirstMatched
  <2>4. ~node.matched  BY <2>1 DEF SoundQueue
  <2>5. r[j] = q[j]  BY <1>4, <2>2
  <2> QED  BY <2>3, <2>4, <2>5
<1>10. m < at
  <2>1. CASE at = Len(q) + 1  BY <1>2, <2>1
  <2>2. CASE at # Len(q) + 1
    <3>1. at \in DOMAIN q  BY <1>2, <1>3, <2>2
    <3>2. ~q[at].matched  BY <1>2, <1>3, <3>1
    <3> QED  BY <1>2, <1>6, <3>1, <3>2 DEF FirstMatched
  <2> QED  BY <2>1, <2>2
<1>11. ASSUME NEW j \in DOMAIN r, ~node.matched  PROVE r[j].matched <=> j <= m
  <2>1. CASE j < at
    <3>1. r[j] = q[j] /\ j \in DOMAIN q  BY <1>2, <1>3, <1>4, <1>8, <2>1
    <3> QED  BY <1>6, <3>1 DEF FirstMatched
  <2>2. CASE j = at  BY <1>2, <1>3, <1>4, <1>10, <1>11, <2>2
  <2>3. CASE j > at
    <3> DEFINE k == j - 1
    <3>1. k \in DOMAIN q /\ at <= k /\ ~(j < at) /\ j # at  BY <1>2, <1>3, <1>8, <2>3
    <3>2. r[j] = q[k]  BY <1>4, <3>1
    <3>3. ~(j <= m)  BY <1>2, <1>3, <1>8, <1>10, <2>3
    <3> HIDE DEF k
    <3>4. ~q[k].matched  BY <1>3, <3>1
    <3> QED  BY <3>2, <3>3, <3>4
  <2> QED  BY <1>2, <1>3, <1>8, <2>1, <2>2, <2>3
<1>12. CASE ~node.matched
  <2>1. FirstMatched(r, m)  BY <1>11, <1>12 DEF FirstMatched
  <2>2. CountMatched(r) = m
    <3>1. m \in 0..Len(r)  BY <1>2, <1>4
    <3> QED  BY <1>4, <2>1, <3>1, HeadFacts
  <2> QED  BY <1>4, <1>5, <1>7, <1>9, <1>12, <2>1, <2>2 DEF r, at
<1>13. CASE node.matched
  <2>1. \A j \in DOMAIN q : q[j].matched  BY <1>13 DEF SoundQueue
  <2>2. m = Len(q)
    <3>1. CASE Len(q) = 0  BY <1>2, <3>1
    <3>2. CASE Len(q) # 0
      <4>1. Len(q) \in DOMAIN q  BY <1>2, <3>2
      <4>2. Len(q) <= m  BY <1>6, <2>1, <4>1 DEF FirstMatched
      <4>3. m \in Int /\ m <= Len(q)  BY <1>2
      <4> HIDE DEF FirstMatched
      <4> QED  BY <1>1, <4>2, <4>3
    <3> QED  BY <3>1, <3>2
  <2>3. at = Len(q) + 1  BY <1>2, <1>3, <1>10, <2>2
  <2>4. ASSUME NEW j \in DOMAIN r  PROVE r[j].matched
    <3>1. CASE j = at  BY <1>2, <1>4, <1>13, <2>3, <3>1
    <3>2. CASE j # at
      <4>1. j < at /\ j \in DOMAIN q  BY <1>2, <1>8, <2>3, <3>2
      <4>2. r[j] = q[j]  BY <1>4, <4>1
      <4> QED  BY <2>1, <4>1, <4>2
    <3> QED  BY <3>1, <3>2
  <2>5. \A j \in DOMAIN r : j <= m + 1  BY <1>2, <1>8, <2>2
  <2>6. FirstMatched(r, m + 1)  BY <2>4, <2>5 DEF FirstMatched
  <2>7. CountMatched(r) = m + 1
    <3>1. m + 1 \in 0..Len(r)  BY <1>2, <1>4
    <3> QED  BY <1>4, <2>6, <3>1, HeadFacts
  <2> QED  BY <1>4, <1>5, <1>7, <1>9, <1>13, <2>6, <2>7 DEF r, at
<1> QED  BY <1>12, <1>13

\* A new superbuf for which the oldest that waits is dropped.
LEMMA ReplaceStep ==
    ASSUME ch \in Setups, NEW q, SoundQueue(q), NEW s, NEW f, Comes(s, f, q),
           \A j \in DOMAIN q : ~q[j].matched => q[j].frame_idx # f,
           NEW node \in Superbuf, node.frame_idx = f, node.bufs = {s},
           node.matched <=> Cardinality(Bundled) = 1,
           OlderOf(q, f) # {}
    PROVE  LET k == Min(OlderOf(q, f))
               r == RemoveAt(InsertAt(q, PlaceFor(q, f), node), k)
           IN  /\ Enqueues(r, q, s, f, BufsAt(q, {k}))
               /\ CountMatched(q) \in Nat /\ CountMatched(r) = CountMatched(q)
               /\ ~node.matched
<1>1. q \in Seq(Superbuf)  BY DEF SoundQueue
<1>2. q \in Seq(Superbuf) /\ Len(q) \in Nat /\ DOMAIN q = 1..Len(q)
  BY <1>1
<1> DEFINE k == Min(OlderOf(q, f))
           p == InsertAt(q, PlaceFor(q, f), node)
           r == RemoveAt(p, k)
<1>3. k \in OlderOf(q, f)
  <2>1. OlderOf(q, f) \in SUBSET Nat  BY <1>2 DEF OlderOf
  <2> QED  BY <2>1, MinIsLeast
<1>4. k \in DOMAIN q  BY <1>3 DEF OlderOf
<1>5. /\ Gains(p, q, s, f) /\ Len(p) = Len(q) + 1 /\ p[k] = q[k]
      /\ \E m \in 0..Len(q) : /\ CountMatched(q) = m
                              /\ FirstMatched(p, IF node.matched THEN m + 1 ELSE m)
                              /\ m < k /\ ~node.matched
  BY <1>3, InsertStep
<1> HIDE DEF k, p
<1>6. PICK m \in 0..Len(q) : CountMatched(q) = m /\ FirstMatched(p, m) /\ m < k /\ ~node.matched
  BY <1>5
<1>7. SoundQueue(p) /\ p \in Seq(Superbuf)  BY <1>5 DEF Gains, SoundQueue
<1>8. k \in 1..Len(p) + 1 /\ k + 1 \in k..Len(p) + 1 /\ k \in Nat /\ DOMAIN p = 1..Len(p)
  BY <1>2, <1>4, <1>5, <1>7
<1>9. r = SubSeq(p, 1, k - 1) \o SubSeq(p, k + 1, Len(p))  BY DEF RemoveAt
<1> HIDE DEF r
<1>10. IsWithout(r, p, k, k + 1)  BY <1>7, <1>8, <1>9, CutFacts
<1>11. k..(k + 1) - 1 = {k}  BY <1>8
<1>12. /\ SoundQueue(r) /\ BufsAt(p, {k}) \subseteq BufsOf(p)
       /\ BufsOf(r) = BufsOf(p) \ BufsAt(p, {k})
  <2>1. /\ SoundQueue(r) /\ BufsAt(p, k..(k + 1) - 1) \subseteq BufsOf(p)
        /\ BufsOf(r) = BufsOf(p) \ BufsAt(p, k..(k + 1) - 1)
    <3> DEFINE n == k + 1
    <3>1. n \in k..Len(p) + 1 /\ IsWithout(r, p, k, n)  BY <1>8, <1>10
    <3> HIDE DEF n
    <3>2. /\ SoundQueue(r) /\ BufsAt(p, k..n - 1) \subseteq BufsOf(p)
          /\ BufsOf(r) = BufsOf(p) \ BufsAt(p, k..n - 1)
      BY <1>7, <1>8, <3>1, WithoutFacts
    <3> QED  BY <3>2 DEF n
  <2> QED  BY <1>11, <2>1
<1>13. BufsAt(p, {k}) = BufsAt(q, {k})  BY <1>5 DEF BufsAt
<1>14. /\ r \in Seq(Superbuf) /\ Len(r) = Len(q) /\ DOMAIN r = 1..Len(q)
       /\ \A i \in DOMAIN r : r[i] = IF i < k THEN p[i] ELSE p[i + 1]
  <2>1. /\ r \in Seq(Superbuf) /\ Len(r) = Len(p) - ((k + 1) - k)
        /\ \A i \in DOMAIN r : r[i] = IF i < k THEN p[i] ELSE p[i + ((k + 1) - k)]
    BY <1>10 DEF IsWithout
  <2>2. (k + 1) - k = 1 /\ Len(p) - 1 = Len(q)  BY <1>2, <1>5, <1>8
  <2>3. Len(r) = Len(q) /\ \A i \in DOMAIN r : r[i] = IF i < k THEN p[i] ELSE p[i + 1]
    BY <2>1, <2>2
  <2>4. DOMAIN r = 1..Len(r)  BY <2>1
  <2> QED  BY <2>1, <2>3, <2>4
<1>15. \A i \in DOMAIN r : \E l \in DOMAIN p : r[i] = p[l] /\ (l <= m <=> i <= m)
  <2> TAKE i \in DOMAIN r
  <2>1. i \in Nat /\ i <= Len(q) /\ i \in DOMAIN p /\ i + 1 \in DOMAIN p
    BY <1>2, <1>5, <1>8, <1>14
  <2>2. CASE i < k  BY <1>14, <2>1, <2>2
  <2>3. CASE ~(i < k)
    <3>1. r[i] = p[i + 1] /\ ~(i <= m) /\ ~(i + 1 <= m)  BY <1>6, <1>8, <1>14, <2>1, <2>3
    <3> QED  BY <2>1, <3>1
  <2> QED  BY <2>2, <2>3
<1>16. FirstMatched(r, m)
  <2>1. ASSUME NEW i \in DOMAIN r  PROVE r[i].matched <=> i <= m
    <3>1. PICK l \in DOMAIN p : r[i] = p[l] /\ (l <= m <=> i <= m)  BY <1>15
    <3>2. p[l].matched <=> l <= m  BY <1>6 DEF FirstMatched
    <3> QED  BY <3>1, <3>2
  <2> QED  BY <2>1 DEF FirstMatched
<1>17. CountMatched(r) = m  BY <1>14, <1>16, HeadFacts
<1>18. \A j \in DOMAIN r : r[j].matched =>
          \/ r[j].frame_idx = f
          \/ \E l \in DOMAIN q : q[l].matched /\ q[l].frame_idx = r[j].frame_idx
  <2> SUFFICES ASSUME NEW j \in DOMAIN r, r[j].matched, r[j].frame_idx # f
               PROVE  \E l \in DOMAIN q : q[l].matched /\ q[l].frame_idx = r[j].frame_idx
    OBVIOUS
  <2>1. PICK l \in DOMAIN p : r[j] = p[l]  BY <1>15
  <2> QED  BY <1>5, <2>1 DEF Gains
<1>19. BufsAt(q, {k}) \subseteq BufsOf(q) \cup {<<s, f>>}
       /\ BufsOf(r) = (BufsOf(q) \cup {<<s, f>>}) \ BufsAt(q, {k})
  BY <1>5, <1>12, <1>13 DEF Gains
<1>20. Enqueues(r, q, s, f, BufsAt(q, {k}))  BY <1>12, <1>18, <1>19 DEF Enqueues
<1> QED  BY <1>6, <1>17, <1>20 DEF k, p, r

\* Whatever becomes of the frame, the queue stays sound, and every buffer stays in it or is
\* given up.
LEMMA EnqueueFacts ==
    ASSUME ch \in Setups, NEW q, SoundQueue(q), NEW s, NEW f, Comes(s, f, q),
           NEW count \in Int, NEW exp, NEW fl, NEW refcnt,
           EnqueueSuperbuf(s, f, q, count, exp, fl, refcnt)
    PROVE  \E B : /\ Enqueues(superbuf_queue', q, s, f, B)
                  /\ \/ buf_refcnt' = ChannelQbuf(refcnt, B)
                     \/ B = {} /\ buf_refcnt' = refcnt
                  /\ match_cnt' = count + (CountMatched(superbuf_queue') - CountMatched(q))
                  /\ CountMatched(q) \in Nat /\ CountMatched(superbuf_queue') \in Nat
<1>1. q \in Seq(Superbuf)  BY DEF SoundQueue
<1>2. q \in Seq(Superbuf) /\ Len(q) \in Nat /\ DOMAIN q = 1..Len(q)
  BY <1>1
<1>3. s \in ChStreams /\ f \in Frames /\ s \in Bundled  BY DEF Comes
<1> DEFINE unmatched == {i \in DOMAIN q : ~q[i].matched}
           mine == {i \in unmatched : q[i].frame_idx = f}
           older == {i \in unmatched : q[i].frame_idx < f}
           newer == {i \in unmatched : q[i].frame_idx > f}
           full == ch.max_unmatched_frames < Cardinality(unmatched)
           alone == Cardinality(Bundled) = 1
           node == [frame_idx |-> f, bufs |-> {s}, matched |-> alone]
           i0 == Min(mine)
           all == q[i0].bufs \cup {s}
           complete == all = Bundled
           gone == IF complete /\ older # {} THEN Min(older)..i0 - 1 ELSE {}
           whole == [frame_idx |-> f, bufs |-> all, matched |-> complete]
           joined == [q EXCEPT ![i0] = whole]
           at == IF newer = {} THEN Len(q) + 1 ELSE Min(newer)
           inserted == InsertAt(q, at, node)
<1>4. \/ /\ mine # {}
         /\ superbuf_queue' = SubSeq(joined, 1, i0 - 1 - Cardinality(gone))
                              \o SubSeq(joined, i0, Len(q))
         /\ buf_refcnt' = ChannelQbuf(refcnt, BufsAt(q, gone))
         /\ match_cnt' = IF complete THEN count + 1 ELSE count
      \/ /\ mine = {} /\ superbuf_queue' = q
         /\ buf_refcnt' = ChannelQbuf(refcnt, {<<s, f>>})
         /\ match_cnt' = count
      \/ /\ mine = {} /\ (full => older # {})
         /\ superbuf_queue' = IF full THEN RemoveAt(inserted, Min(older)) ELSE inserted
         /\ buf_refcnt' = IF full THEN ChannelQbuf(refcnt, BufsAt(q, {Min(older)}))
                          ELSE refcnt
         /\ match_cnt' = IF alone THEN count + 1 ELSE count
  BY DEF EnqueueSuperbuf
<1>5. /\ node \in Superbuf /\ node.frame_idx = f /\ node.bufs = {s}
      /\ node.matched <=> alone
  <2> HIDE DEF alone
  <2>1. {s} \in SUBSET ChStreams  BY <1>3
  <2>2. node.frame_idx = f /\ node.bufs = {s}  OBVIOUS
  <2>3. node.matched <=> alone  OBVIOUS
  <2>4. alone \in BOOLEAN  BY DEF alone
  <2> QED  BY <1>3, <2>1, <2>2, <2>3, <2>4 DEF Superbuf
<1>6. older = OlderOf(q, f) /\ newer = NewerOf(q, f)  BY DEF OlderOf, NewerOf
<1>7. at = PlaceFor(q, f)  BY <1>6 DEF PlaceFor
<1>8. mine \in SUBSET Nat /\ older \in SUBSET Nat  BY <1>2
<1>9. ASSUME mine = {}  PROVE \A j \in DOMAIN q : ~q[j].matched => q[j].frame_idx # f
  BY <1>9
<1> HIDE DEF node
<1>10. CASE /\ mine = {} /\ superbuf_queue' = q
            /\ buf_refcnt' = ChannelQbuf(refcnt, {<<s, f>>})
            /\ match_cnt' = count
  <2> DEFINE B == {<<s, f>>}
  <2>1. Enqueues(q, q, s, f, B)
    <3>1. <<s, f>> \notin BufsOf(q)
      <4>1. <<s, f>> \in BufsOf(q) => f < f  BY DEF Comes
      <4>2. f \in Int  BY <1>3 DEF Frames
      <4> QED  BY <4>1, <4>2
    <3>2. BufsOf(q) = (BufsOf(q) \cup {<<s, f>>}) \ B  BY <3>1
    <3>3. B \subseteq BufsOf(q) \cup {<<s, f>>}  OBVIOUS
    <3>4. \A j \in DOMAIN q : q[j].matched =>
              \/ q[j].frame_idx = f
              \/ \E k \in DOMAIN q : q[k].matched /\ q[k].frame_idx = q[j].frame_idx
      OBVIOUS
    <3> HIDE DEF B
    <3> QED  BY <3>2, <3>3, <3>4 DEF Enqueues
  <2>2. PICK m \in 0..Len(q) : FirstMatched(q, m)  BY SoundHasHead
  <2>3. CountMatched(q) = m /\ m \in Nat  BY <1>2, <2>2, HeadFacts
  <2>4. match_cnt' = count + (CountMatched(superbuf_queue') - CountMatched(q))
    BY <1>10, <2>3
  <2> HIDE DEF B, mine
  <2>5. Enqueues(superbuf_queue', q, s, f, B)  BY <1>10, <2>1
  <2>6. buf_refcnt' = ChannelQbuf(refcnt, B)  BY <1>10 DEF B
  <2>7. CountMatched(q) \in Nat /\ CountMatched(superbuf_queue') \in Nat  BY <1>10, <2>3
  <2> QED  BY <2>4, <2>5, <2>6, <2>7
<1>11. CASE /\ mine = {} /\ (full => older # {})
            /\ superbuf_queue' = IF full THEN RemoveAt(inserted, Min(older)) ELSE inserted
            /\ buf_refcnt' = IF full THEN ChannelQbuf(refcnt, BufsAt(q, {Min(older)}))
                             ELSE refcnt
            /\ match_cnt' = IF alone THEN count + 1 ELSE count
  <2>1. inserted = InsertAt(q, PlaceFor(q, f), node)  BY <1>7
  <2>2. \A j \in DOMAIN q : ~q[j].matched => q[j].frame_idx # f  BY <1>9, <1>11
  <2>3. CASE full
    <3>1. OlderOf(q, f) # {}  BY <1>6, <1>11, <2>3
    <3>2. superbuf_queue' = RemoveAt(InsertAt(q, PlaceFor(q, f), node), Min(OlderOf(q, f)))
      BY <1>6, <1>11, <2>1, <2>3
    <3>3. buf_refcnt' = ChannelQbuf(refcnt, BufsAt(q, {Min(OlderOf(q, f))}))
      BY <1>6, <1>11, <2>3
    <3> HIDE DEF older, mine, newer, full, at, inserted
    <3> DEFINE B == BufsAt(q, {Min(OlderOf(q, f))})
    <3>4. /\ Enqueues(superbuf_queue', q, s, f, B)
          /\ CountMatched(q) \in Nat /\ CountMatched(superbuf_queue') = CountMatched(q)
          /\ ~node.matched
      BY <1>5, <2>2, <3>1, <3>2, ReplaceStep
    <3>5. match_cnt' = count  BY <1>5, <1>11, <3>4
    <3>6. match_cnt' = count + (CountMatched(superbuf_queue') - CountMatched(q))
      BY <3>4, <3>5
    <3>7. buf_refcnt' = ChannelQbuf(refcnt, B)  BY <3>3
    <3> HIDE DEF B
    <3> QED  BY <3>4, <3>6, <3>7
  <2>4. CASE ~full
    <3>1. superbuf_queue' = InsertAt(q, PlaceFor(q, f), node) /\ buf_refcnt' = refcnt
      BY <1>11, <2>1, <2>4
    <3>2. match_cnt' = IF node.matched THEN count + 1 ELSE count  BY <1>5, <1>11
    <3> HIDE DEF older, mine, newer, full, at, inserted
    <3>3. /\ Gains(superbuf_queue', q, s, f)
          /\ \E m \in 0..Len(q) :
                 /\ CountMatched(q) = m
                 /\ CountMatched(superbuf_queue') = (IF node.matched THEN m + 1 ELSE m)
      BY <1>5, <2>2, <3>1, InsertStep
    <3>4. PICK m \in 0..Len(q) :
              /\ CountMatched(q) = m
              /\ CountMatched(superbuf_queue') = (IF node.matched THEN m + 1 ELSE m)
      BY <3>3
    <3>5. Enqueues(superbuf_queue', q, s, f, {})  BY <3>3 DEF Gains, Enqueues
    <3>6. match_cnt' = count + (CountMatched(superbuf_queue') - CountMatched(q))
      BY <3>2, <3>4
    <3>7. CountMatched(q) \in Nat /\ CountMatched(superbuf_queue') \in Nat  BY <3>4
    <3> QED  BY <3>1, <3>5, <3>6, <3>7
  <2> QED  BY <2>3, <2>4
<1>12. CASE /\ mine # {}
            /\ superbuf_queue' = SubSeq(joined, 1, i0 - 1 - Cardinality(gone))
                                 \o SubSeq(joined, i0, Len(q))
            /\ buf_refcnt' = ChannelQbuf(refcnt, BufsAt(q, gone))
            /\ match_cnt' = IF complete THEN count + 1 ELSE count
  <2>1. i0 \in mine  BY <1>8, <1>12, MinIsLeast
  <2>2. i0 \in DOMAIN q /\ ~q[i0].matched /\ q[i0].frame_idx = f  BY <2>1
  <2> DEFINE a == IF complete /\ older # {} THEN Min(older) ELSE i0
  <2>3. ASSUME older # {}  PROVE Min(older) \in older /\ \A j \in older : Min(older) <= j
    BY <1>8, <2>3, MinIsLeast
  <2>4. a \in 1..i0 /\ gone = a..i0 - 1 /\ Cardinality(gone) = i0 - a
    <3>1. CASE complete /\ older # {}
      <4> DEFINE k == Min(older)
      <4>1. k \in DOMAIN q /\ ~q[k].matched /\ q[k].frame_idx < f  BY <2>3, <3>1
      <4>2. a = k /\ gone = k..i0 - 1  BY <3>1
      <4> HIDE DEF k, a, gone, i0, mine, older, complete, joined, all
      <4>3. i0 < k => q[i0].frame_idx < q[k].frame_idx
        BY <2>2, <4>1 DEF SoundQueue
      <4>4. f \in Int  BY <1>3 DEF Frames
      <4>5. q[k].frame_idx \in Int
        <5>1. q[k] \in Superbuf  BY <1>2, <4>1
        <5>2. q[k].frame_idx \in Frames  BY <5>1, SuperbufFields
        <5> QED  BY <5>2 DEF Frames
      <4>6. k # i0  BY <2>2, <4>1, <4>4
      <4>7. ~(i0 < k)  BY <2>2, <4>1, <4>3, <4>4, <4>5
      <4>8. k <= i0 /\ k \in Nat /\ i0 \in Nat /\ 1 <= k /\ k # i0
        BY <1>2, <2>2, <4>1, <4>6, <4>7
      <4>9. i0 - 1 \in Nat /\ k <= (i0 - 1) + 1  BY <4>8
      <4>10. Cardinality(k..i0 - 1) = (i0 - 1) - k + 1  BY <4>8, <4>9, IntervalSize
      <4> QED  BY <4>2, <4>8, <4>10
    <3>2. CASE ~(complete /\ older # {})
      <4>1. a = i0 /\ gone = {}  BY <3>2
      <4> HIDE DEF a, gone, i0, mine, older, complete, joined, all
      <4>2. i0 \in Nat /\ 1 <= i0  BY <1>2, <2>2
      <4>3. i0..i0 - 1 = {}  BY <4>2
      <4>4. Cardinality({}) = 0  BY FS_EmptySet
      <4> QED  BY <4>1, <4>2, <4>3, <4>4
    <3> QED  BY <3>1, <3>2
  <2>5. ASSUME complete  PROVE FirstMatched(q, a - 1)
    <3>1. ASSUME NEW j \in DOMAIN q  PROVE q[j].matched <=> j <= a - 1
      <4>1. q[j].frame_idx \in Int /\ f \in Int /\ j \in Nat /\ a \in Nat
        <5>1. q[j] \in Superbuf  BY <1>2
        <5>2. q[j].frame_idx \in Frames  BY <5>1, SuperbufFields
        <5> HIDE DEF a, i0
        <5> QED  BY <1>2, <1>3, <2>2, <2>4, <5>2 DEF Frames
      <4>2. a \in DOMAIN q /\ ~q[a].matched
        <5>1. CASE older # {}  BY <2>3, <2>5, <5>1
        <5>2. CASE older = {}  BY <2>2, <5>2
        <5> QED  BY <5>1, <5>2
      <4>3. ASSUME j < a  PROVE q[j].matched
        <5>1. j \notin older
          <6>1. CASE older = {}  BY <6>1
          <6>2. CASE older # {}
            <7>1. a = Min(older)  BY <2>5, <6>2
            <7>2. j \in older => a <= j  BY <2>3, <6>2, <7>1
            <7> QED  BY <4>1, <4>3, <7>2
          <6> QED  BY <6>1, <6>2
        <5>2. ~q[j].matched => ~(q[j].frame_idx < f)  BY <5>1
        <5>3. j < i0
          <6> HIDE DEF a, i0
          <6> QED  BY <1>2, <2>2, <2>4, <4>1, <4>3
        <5> HIDE DEF a, i0, mine, older, complete, joined, all
        <5>4. ~q[j].matched => q[j].frame_idx < q[i0].frame_idx
          BY <2>2, <5>3 DEF SoundQueue
        <5> QED  BY <2>2, <5>2, <5>4
      <4> HIDE DEF a, i0, mine, older, complete, joined, all
      <4>4. ASSUME a <= j  PROVE ~q[j].matched
        <5>1. CASE j = a  BY <4>2, <5>1
        <5>2. CASE j # a
          <6>1. a < j  BY <4>1, <4>4, <5>2
          <6> QED  BY <4>2, <6>1 DEF SoundQueue
        <5> QED  BY <5>1, <5>2
      <4>5. j < a <=> j <= a - 1  BY <4>1
      <4>6. j < a \/ a <= j  BY <4>1
      <4> QED  BY <4>1, <4>3, <4>4, <4>5, <4>6
    <3> HIDE DEF a
    <3> QED  BY <3>1 DEF FirstMatched
  <2>6. /\ whole \in Superbuf /\ whole.frame_idx = f /\ whole.bufs = all
        /\ whole.matched <=> complete
    <3>1. q[i0] \in Superbuf  BY <1>2, <2>2
    <3>2. q[i0].bufs \subseteq ChStreams  BY <3>1, SuperbufFields
    <3>3. all \in SUBSET ChStreams  BY <1>3, <3>2
    <3> HIDE DEF complete, all
    <3>4. complete \in BOOLEAN  BY DEF complete
    <3>5. whole.frame_idx = f /\ whole.bufs = all  OBVIOUS
    <3>6. whole.matched <=> complete  OBVIOUS
    <3> QED  BY <1>3, <3>3, <3>4, <3>5, <3>6 DEF Superbuf
  <2>7. ~complete => a = i0  OBVIOUS
  <2>8. complete <=> all = Bundled  OBVIOUS
  <2>9. all = q[i0].bufs \cup {s}  OBVIOUS
  <2>10. joined = [q EXCEPT ![i0] = whole]  OBVIOUS
  <2>11. i0 - 1 - Cardinality(gone) = a - 1
    <3> HIDE DEF a, i0, gone
    <3> QED  BY <1>2, <2>2, <2>4
  <2>12. superbuf_queue' = SubSeq(joined, 1, a - 1) \o SubSeq(joined, i0, Len(q))
    BY <1>12, <2>11
  <2> HIDE DEF a, i0, mine, older, complete, joined, all, whole, gone
  <2>13. Joined(superbuf_queue', q, i0, a, whole)
    <3>1. Joined(SubSeq(joined, 1, a - 1) \o SubSeq(joined, i0, Len(q)), q, i0, a, whole)
      BY <1>2, <2>2, <2>4, <2>6, <2>10, JoinShape
    <3> QED  BY <2>12, <3>1
  <2>14. /\ Enqueues(superbuf_queue', q, s, f, BufsAt(q, a..i0 - 1))
         /\ CountMatched(q) \in Nat
         /\ CountMatched(superbuf_queue') = CountMatched(q) + (IF whole.matched THEN 1 ELSE 0)
    <3>1. whole.bufs = q[i0].bufs \cup {s}  BY <2>6, <2>9
    <3>2. whole.matched <=> whole.bufs = Bundled  BY <2>6, <2>8
    <3>3. ~whole.matched => a = i0  BY <2>6, <2>7
    <3>4. whole.matched => FirstMatched(q, a - 1)  BY <2>5, <2>6
    <3>5. a \in 1..i0 /\ whole \in Superbuf /\ whole.frame_idx = f  BY <2>4, <2>6
    <3>6. CanJoin(q, s, f, i0, whole, a)
      BY <2>2, <3>1, <3>2, <3>3, <3>4, <3>5 DEF CanJoin
    <3> QED  BY <2>13, <3>6, JoinStep
  <2>15. match_cnt' = IF whole.matched THEN count + 1 ELSE count  BY <1>12, <2>6
  <2>16. match_cnt' = count + (CountMatched(superbuf_queue') - CountMatched(q))
         /\ CountMatched(superbuf_queue') \in Nat
    BY <2>14, <2>15
  <2> DEFINE B == BufsAt(q, gone)
  <2>17. buf_refcnt' = ChannelQbuf(refcnt, B)  BY <1>12
  <2>18. Enqueues(superbuf_queue', q, s, f, B)  BY <2>4, <2>14
  <2> HIDE DEF B
  <2> QED  BY <2>14, <2>16, <2>17, <2>18
<1> QED  BY <1>4, <1>10, <1>11, <1>12

-----------------------------------------------------------------------------
(* Superbufs: buffers and commands.                                        *)

\* Giving up references of buffers that are held leaves a reference for each holder that
\* remains.
LEMMA DoneFacts ==
    ASSUME active \subseteq ChStreams, NEW refcnt, NEW held, NEW sh, Fits(refcnt, held, sh),
           NEW B, NEW held2, NEW sh2,
           \A b \in B : b[1] \in active =>
               Count(b, held2, sh2) <= Count(b, held, sh) - 1,
           \A b : b \notin B => Count(b, held2, sh2) <= Count(b, held, sh),
           Exact => /\ \A b \in B : b[1] \in active =>
                           Count(b, held2, sh2) = Count(b, held, sh) - 1
                    /\ \A b : b \notin B => Count(b, held2, sh2) = Count(b, held, sh)
    PROVE  Fits(BufDone(refcnt, B), held2, sh2)
<1>1. refcnt \in [ChStreams -> [Frames -> Nat]]  BY DEF Fits
<1>2. \A b, h, x : Count(b, h, x) \in Nat  BY DEF Count
<1> DEFINE r == BufDone(refcnt, B)
<1>3. r \in [ChStreams -> [Frames -> Nat]]  BY <1>1 DEF BufDone
<1>4. ASSUME NEW s \in active, NEW f \in Frames
      PROVE  /\ r[s][f] >= Count(<<s, f>>, held2, sh2)
             /\ Exact => r[s][f] = Count(<<s, f>>, held2, sh2)
  <2> DEFINE b == <<s, f>>
             n == refcnt[s][f]
  <2>1. n \in Nat  BY <1>1, <1>4
  <2>2. r[s][f] = IF b \in B /\ n > 0 THEN n - 1 ELSE n  BY <1>4 DEF BufDone
  <2>3. n >= Count(b, held, sh) /\ (Exact => n = Count(b, held, sh))  BY DEF Fits
  <2>4. b[1] = s  OBVIOUS
  <2> HIDE DEF b, n, r
  <2>5. Count(b, held, sh) \in Nat /\ Count(b, held2, sh2) \in Nat  BY <1>2
  <2>6. CASE b \in B
    <3>1. Count(b, held2, sh2) <= Count(b, held, sh) - 1  BY <2>4, <2>6
    <3>2. Exact => Count(b, held2, sh2) = Count(b, held, sh) - 1  BY <2>4, <2>6
    <3> QED  BY <2>1, <2>2, <2>3, <2>5, <2>6, <3>1, <3>2 DEF b
  <2>7. CASE b \notin B
    <3>1. Count(b, held2, sh2) <= Count(b, held, sh)  BY <2>7
    <3>2. Exact => Count(b, held2, sh2) = Count(b, held, sh)  BY <2>7
    <3> QED  BY <2>1, <2>2, <2>3, <2>5, <2>7, <3>1, <3>2 DEF b
  <2> QED  BY <2>6, <2>7
<1> QED  BY <1>3, <1>4 DEF Fits

\* mm_stream_buf_done() for buffers that a command, the queue or the client held, or for one
\* that was shown.
LEMMA HeldReturned ==
    ASSUME active \subseteq ChStreams, NEW refcnt, NEW held, NEW sh, Fits(refcnt, held, sh),
           NEW B, B \subseteq held
    PROVE  Fits(BufDone(refcnt, B), held \ B, sh)
<1> DEFINE rest == held \ B
<1>1. \A b \in B : Count(b, rest, sh) = Count(b, held, sh) - 1  BY DEF Count
<1>2. \A b : b \notin B => Count(b, rest, sh) = Count(b, held, sh)  BY DEF Count
<1>3. \A b, h, x : Count(b, h, x) \in Nat  BY DEF Count
<1> HIDE DEF rest
<1>4. \A b \in B : Count(b, rest, sh) <= Count(b, held, sh) - 1  BY <1>1, <1>3
<1>5. \A b : b \notin B => Count(b, rest, sh) <= Count(b, held, sh)  BY <1>2, <1>3
<1>6. Fits(BufDone(refcnt, B), rest, sh)  BY <1>1, <1>2, <1>4, <1>5, DoneFacts
<1> QED  BY <1>6 DEF rest

\* So does the return of buffers that were shown.
LEMMA ShownReturned ==
    ASSUME active \subseteq ChStreams, NEW refcnt, NEW held, NEW sh, Fits(refcnt, held, sh),
           NEW B, B \subseteq sh
    PROVE  Fits(BufDone(refcnt, B), held, sh \ B)
<1> DEFINE rest == sh \ B
<1>1. \A b \in B : Count(b, held, rest) = Count(b, held, sh) - 1  BY DEF Count
<1>2. \A b : b \notin B => Count(b, held, rest) = Count(b, held, sh)  BY DEF Count
<1>3. \A b, h, x : Count(b, h, x) \in Nat  BY DEF Count
<1> HIDE DEF rest
<1>4. \A b \in B : Count(b, held, rest) <= Count(b, held, sh) - 1  BY <1>1, <1>3
<1>5. \A b : b \notin B => Count(b, held, rest) <= Count(b, held, sh)  BY <1>2, <1>3
<1>6. Fits(BufDone(refcnt, B), held, rest)  BY <1>1, <1>2, <1>4, <1>5, DoneFacts
<1> QED  BY <1>6 DEF rest

\* Holders that only go away leave too many references, which is allowed for once a
\* stream that was borrowed is given back.
LEMMA FewerHold ==
    ASSUME active \subseteq ChStreams, NEW refcnt, NEW held, NEW sh, Fits(refcnt, held, sh),
           NEW held2, held2 \subseteq held, Exact => held2 = held
    PROVE  Fits(refcnt, held2, sh)
<1>1. \A b : Count(b, held2, sh) <= Count(b, held, sh)  BY DEF Count
<1>2. \A b, h, x : Count(b, h, x) \in Nat  BY DEF Count
<1>3. refcnt \in [ChStreams -> [Frames -> Nat]]  BY DEF Fits
<1>4. ASSUME NEW s \in active, NEW f \in Frames
      PROVE  /\ refcnt[s][f] >= Count(<<s, f>>, held2, sh)
             /\ Exact => refcnt[s][f] = Count(<<s, f>>, held2, sh)
  <2> DEFINE b == <<s, f>>
             n == refcnt[s][f]
  <2>1. n \in Nat  BY <1>3
  <2>2. n >= Count(b, held, sh) /\ (Exact => n = Count(b, held, sh))  BY DEF Fits
  <2> HIDE DEF b, n
  <2>3. n >= Count(b, held2, sh)  BY <1>1, <1>2, <2>1, <2>2
  <2>4. Exact => n = Count(b, held2, sh)  BY <2>2
  <2> QED  BY <2>3, <2>4 DEF b, n
<1> QED  BY <1>3, <1>4 DEF Fits

\* mm_channel_qbuf() for buffers that a command or the queue held.
LEMMA QbufFacts ==
    ASSUME active \subseteq ChStreams, NEW refcnt, NEW held, NEW sh, Fits(refcnt, held, sh),
           NEW B, B \subseteq held, Exact => \A b \in B : b[1] \in known
    PROVE  Fits(ChannelQbuf(refcnt, B), held \ B, sh)
<1> DEFINE K == {b \in B : b[1] \in known}
<1>1. K \subseteq held /\ K \subseteq B  OBVIOUS
<1>2. Exact => K = B  OBVIOUS
<1>3. ChannelQbuf(refcnt, B) = BufDone(refcnt, K)  BY DEF ChannelQbuf
<1> HIDE DEF K
<1>4. Fits(BufDone(refcnt, K), held \ K, sh)  BY <1>1, HeldReturned
<1>5. held \ B \subseteq held \ K  BY <1>1
<1>6. Exact => held \ B = held \ K  BY <1>2
<1>7. Fits(BufDone(refcnt, K), held \ B, sh)  BY <1>4, <1>5, <1>6, FewerHold
<1> QED  BY <1>3, <1>7

\* What a frame's command says.
LEMMA CommandFacts ==
    ASSUME NEW c \in ChCommand, c.type = "DATA"
    PROVE  c.stream \in ChStreams /\ c.frame \in Frames
<1>1. CASE c \in [type: {"DATA"}, stream: ChStreams, frame: Frames]  BY <1>1
<1>2. CASE c \in [type: {"REQ"}, num: 0..2]  BY <1>2
<1>3. CASE c \in [type: {"FLUSH"}, frame: Frames]  BY <1>3
<1>4. CASE c \in [type: {"BRACKETING", "FLASH_BRACKETING", "ZOOM_1X"}, start: BOOLEAN]
  BY <1>4
<1>5. CASE c \in [type: {"START_ZSL", "STOP_ZSL"}]  BY <1>5
<1> QED  BY <1>1, <1>2, <1>3, <1>4, <1>5 DEF ChCommand

\* How many superbufs a request asks for.
LEMMA RequestFacts ==
    ASSUME NEW c \in ChCommand, c.type = "REQ"
    PROVE  c.num \in Nat
<1>1. CASE c \in [type: {"DATA"}, stream: ChStreams, frame: Frames]  BY <1>1
<1>2. CASE c \in [type: {"REQ"}, num: 0..2]  BY <1>2
<1>3. CASE c \in [type: {"FLUSH"}, frame: Frames]  BY <1>3
<1>4. CASE c \in [type: {"BRACKETING", "FLASH_BRACKETING", "ZOOM_1X"}, start: BOOLEAN]
  BY <1>4
<1>5. CASE c \in [type: {"START_ZSL", "STOP_ZSL"}]  BY <1>5
<1> QED  BY <1>1, <1>2, <1>3, <1>4, <1>5 DEF ChCommand

\* What a frame's command holds.
LEMMA CommandedFacts ==
    /\ Commanded \subseteq ChStreams \X Frames
    /\ \A s \in ChStreams, f \in Frames :
           <<s, f>> \in Commanded <=>
           \E i \in DOMAIN ch_cmds : IsFrameOf(ch_cmds[i], s) /\ ch_cmds[i].frame = f
<1>1. Commanded \subseteq ChStreams \X Frames  BY DEF Commanded
<1>2. ASSUME NEW s \in ChStreams, NEW f \in Frames
      PROVE  <<s, f>> \in Commanded <=>
             \E i \in DOMAIN ch_cmds : IsFrameOf(ch_cmds[i], s) /\ ch_cmds[i].frame = f
  <2> DEFINE b == <<s, f>>
  <2>1. b \in ChStreams \X Frames /\ b[1] = s /\ b[2] = f  OBVIOUS
  <2> HIDE DEF b
  <2>2. b \in Commanded <=>
        \E i \in DOMAIN ch_cmds : IsFrameOf(ch_cmds[i], s) /\ ch_cmds[i].frame = f
    BY <2>1 DEF Commanded
  <2> QED  BY <2>2 DEF b
<1> QED  BY <1>1, <1>2

\* The command thread takes a command: the rest are in order, and what was handled is.
LEMMA TakeFacts ==
    ASSUME SuperbufInv, NEW c, TakeCommand(c), ch' = ch, last_idx' = last_idx
    PROVE  /\ ch_cmds' \in Seq(ChCommand)
           /\ c \in ChCommand
           /\ CommandsInOrder'
           /\ \A s, n : Handled(s, n) => Handled(s, n)'
           /\ c.type # "DATA" => Commanded' = Commanded
<1>0. ch_cmds \in Seq(ChCommand) /\ ch_cmds # << >>
      /\ c = Head(ch_cmds) /\ ch_cmds' = Tail(ch_cmds)
  BY DEF SuperbufInv, SuperbufTypes, TakeCommand
<1>1. /\ ch_cmds' \in Seq(ChCommand) /\ Len(ch_cmds') = Len(ch_cmds) - 1
      /\ \A i \in 1..Len(ch_cmds') : ch_cmds'[i] = ch_cmds[i + 1]
  BY <1>0
<1>2. /\ Len(ch_cmds) \in Nat /\ DOMAIN ch_cmds = 1..Len(ch_cmds)
      /\ DOMAIN ch_cmds' = 1..Len(ch_cmds) - 1
  BY <1>0, <1>1
<1>3. \A i \in DOMAIN ch_cmds' : i + 1 \in DOMAIN ch_cmds /\ ch_cmds'[i] = ch_cmds[i + 1]
  BY <1>1, <1>2
<1>4. c = ch_cmds[1] /\ 1 \in DOMAIN ch_cmds /\ c \in ChCommand  BY <1>0
<1>5. Bundled' = Bundled  BY DEF Bundled
<1>6. CommandsInOrder'
  <2>1. ASSUME NEW i \in DOMAIN ch_cmds', NEW s \in ChStreams, IsFrameOf(ch_cmds'[i], s)
        PROVE  s \in Bundled /\ ch_cmds'[i].frame <= last_idx[s]
    <3> DEFINE k == i + 1
    <3>1. k \in DOMAIN ch_cmds /\ ch_cmds'[i] = ch_cmds[k]  BY <1>3
    <3> HIDE DEF k
    <3> QED  BY <2>1, <3>1 DEF SuperbufInv, CommandsInOrder
  <2>2. ASSUME NEW i \in DOMAIN ch_cmds', NEW j \in DOMAIN ch_cmds', NEW s \in ChStreams,
               i < j, IsFrameOf(ch_cmds'[i], s), IsFrameOf(ch_cmds'[j], s)
        PROVE  ch_cmds'[i].frame < ch_cmds'[j].frame
    <3> DEFINE k == i + 1
               l == j + 1
    <3>1. k \in DOMAIN ch_cmds /\ ch_cmds'[i] = ch_cmds[k]  BY <1>3
    <3>2. l \in DOMAIN ch_cmds /\ ch_cmds'[j] = ch_cmds[l]  BY <1>3
    <3>3. k < l  BY <1>2, <2>2
    <3> HIDE DEF k, l
    <3> QED  BY <2>2, <3>1, <3>2, <3>3 DEF SuperbufInv, CommandsInOrder
  <2> QED  BY <1>5, <2>1, <2>2 DEF CommandsInOrder, IsFrameOf
<1>7. ASSUME NEW s, NEW n, Handled(s, n)  PROVE Handled(s, n)'
  <2>1. n <= last_idx'[s]  BY <1>7 DEF Handled
  <2>2. ASSUME NEW i \in DOMAIN ch_cmds', IsFrameOf(ch_cmds'[i], s)
        PROVE  n < ch_cmds'[i].frame
    <3> DEFINE k == i + 1
    <3>1. k \in DOMAIN ch_cmds /\ ch_cmds'[i] = ch_cmds[k]  BY <1>3
    <3> HIDE DEF k
    <3> QED  BY <1>7, <2>2, <3>1 DEF Handled
  <2> QED  BY <2>1, <2>2 DEF Handled, IsFrameOf
<1>8. ASSUME c.type # "DATA"  PROVE Commanded' = Commanded
  <2>1. ASSUME NEW b \in ChStreams \X Frames
        PROVE  (\E i \in DOMAIN ch_cmds : IsFrameOf(ch_cmds[i], b[1])
                                          /\ ch_cmds[i].frame = b[2])
               <=> (\E i \in DOMAIN ch_cmds' : IsFrameOf(ch_cmds'[i], b[1])
                                               /\ ch_cmds'[i].frame = b[2])
    <3>1. ASSUME NEW i \in DOMAIN ch_cmds, IsFrameOf(ch_cmds[i], b[1]),
                 ch_cmds[i].frame = b[2]
          PROVE  \E j \in DOMAIN ch_cmds' : IsFrameOf(ch_cmds'[j], b[1])
                                            /\ ch_cmds'[j].frame = b[2]
      <4>1. i # 1  BY <1>4, <1>8, <3>1 DEF IsFrameOf
      <4> DEFINE j == i - 1
      <4>2. j \in DOMAIN ch_cmds' /\ j + 1 = i  BY <1>2, <4>1
      <4> HIDE DEF j
      <4>3. ch_cmds'[j] = ch_cmds[i]  BY <1>3, <4>2
      <4> QED  BY <3>1, <4>2, <4>3
    <3>2. ASSUME NEW i \in DOMAIN ch_cmds', IsFrameOf(ch_cmds'[i], b[1]),
                 ch_cmds'[i].frame = b[2]
          PROVE  \E j \in DOMAIN ch_cmds : IsFrameOf(ch_cmds[j], b[1])
                                           /\ ch_cmds[j].frame = b[2]
      BY <1>3, <3>2
    <3> QED  BY <3>1, <3>2
  <2> QED  BY <2>1 DEF Commanded, IsFrameOf
<1> QED  BY <1>1, <1>4, <1>6, <1>7, <1>8

\* The command of a frame: it is of a stream of the channel, later than all that were
\* handled, and is handled now.
LEMMA TakeFrame ==
    ASSUME SuperbufInv, NEW c, TakeCommand(c), ch' = ch, last_idx' = last_idx,
           c.type = "DATA"
    PROVE  /\ c.stream \in ChStreams /\ c.stream \in Bundled /\ c.frame \in Frames
           /\ Handled(c.stream, c.frame)'
           /\ \A n : Handled(c.stream, n) => n < c.frame
           /\ <<c.stream, c.frame>> \in Commanded
           /\ Commanded' = Commanded \ {<<c.stream, c.frame>>}
<1>0. ch_cmds \in Seq(ChCommand) /\ ch_cmds # << >>
      /\ c = Head(ch_cmds) /\ ch_cmds' = Tail(ch_cmds)
  BY DEF SuperbufInv, SuperbufTypes, TakeCommand
<1>1. /\ ch_cmds' \in Seq(ChCommand) /\ Len(ch_cmds') = Len(ch_cmds) - 1
      /\ \A i \in 1..Len(ch_cmds') : ch_cmds'[i] = ch_cmds[i + 1]
  BY <1>0
<1>2. /\ Len(ch_cmds) \in Nat /\ DOMAIN ch_cmds = 1..Len(ch_cmds)
      /\ DOMAIN ch_cmds' = 1..Len(ch_cmds) - 1
  BY <1>0, <1>1
<1>3. \A i \in DOMAIN ch_cmds' : /\ i + 1 \in DOMAIN ch_cmds /\ 1 < i + 1
                                 /\ ch_cmds'[i] = ch_cmds[i + 1]
  BY <1>1, <1>2
<1>4. c = ch_cmds[1] /\ 1 \in DOMAIN ch_cmds /\ c \in ChCommand  BY <1>0
<1> DEFINE s == c.stream
           f == c.frame
<1>5. s \in ChStreams /\ f \in Frames  BY <1>4, CommandFacts
<1>6. IsFrameOf(ch_cmds[1], s) /\ ch_cmds[1].frame = f  BY <1>4 DEF IsFrameOf
<1> HIDE DEF s, f
<1>7. s \in Bundled /\ f <= last_idx[s]
  BY <1>4, <1>5, <1>6 DEF SuperbufInv, CommandsInOrder
<1>8. ASSUME NEW i \in DOMAIN ch_cmds', IsFrameOf(ch_cmds'[i], s)
      PROVE  f < ch_cmds'[i].frame
  <2> DEFINE k == i + 1
  <2>1. k \in DOMAIN ch_cmds /\ 1 < k /\ ch_cmds'[i] = ch_cmds[k]  BY <1>3
  <2> HIDE DEF k
  <2> QED  BY <1>4, <1>5, <1>6, <1>8, <2>1 DEF SuperbufInv, CommandsInOrder
<1>9. Handled(s, f)'
  <2>1. f <= last_idx'[s]  BY <1>7
  <2> QED  BY <1>8, <2>1 DEF Handled, IsFrameOf, s, f
<1>10. \A n : Handled(s, n) => n < f  BY <1>4, <1>6 DEF Handled
<1>11. <<s, f>> \in Commanded  BY <1>4, <1>5, <1>6, CommandedFacts
<1>12. ASSUME NEW b \in ChStreams \X Frames
       PROVE  (\E i \in DOMAIN ch_cmds' : IsFrameOf(ch_cmds'[i], b[1])
                                          /\ ch_cmds'[i].frame = b[2])
              <=> b # <<s, f>> /\ (\E i \in DOMAIN ch_cmds : IsFrameOf(ch_cmds[i], b[1])
                                                      /\ ch_cmds[i].frame = b[2])
  <2>0. b = <<b[1], b[2]>>  OBVIOUS
  <2>1. ASSUME NEW i \in DOMAIN ch_cmds, IsFrameOf(ch_cmds[i], b[1]),
               ch_cmds[i].frame = b[2], b # <<s, f>>
        PROVE  \E j \in DOMAIN ch_cmds' : IsFrameOf(ch_cmds'[j], b[1])
                                          /\ ch_cmds'[j].frame = b[2]
    <3>1. i # 1  BY <1>6, <2>0, <2>1 DEF IsFrameOf
    <3> DEFINE j == i - 1
    <3>2. j \in DOMAIN ch_cmds' /\ j + 1 = i  BY <1>2, <3>1
    <3> HIDE DEF j
    <3>3. ch_cmds'[j] = ch_cmds[i]  BY <1>3, <3>2
    <3> QED  BY <2>1, <3>2, <3>3
  <2>2. ASSUME NEW i \in DOMAIN ch_cmds', IsFrameOf(ch_cmds'[i], b[1]),
               ch_cmds'[i].frame = b[2]
        PROVE  \E j \in DOMAIN ch_cmds : IsFrameOf(ch_cmds[j], b[1])
                                         /\ ch_cmds[j].frame = b[2]
    BY <1>3, <2>2
  <2>3. ASSUME NEW i \in DOMAIN ch_cmds', IsFrameOf(ch_cmds'[i], b[1]),
               ch_cmds'[i].frame = b[2], b = <<s, f>>
        PROVE  FALSE
    <3>1. b[1] = s /\ b[2] = f  BY <2>3
    <3>2. f < f  BY <1>8, <2>3, <3>1
    <3>3. f \in Int  BY <1>5 DEF Frames
    <3> QED  BY <3>2, <3>3
  <2> QED  BY <2>1, <2>2, <2>3
<1>13. Commanded' = Commanded \ {<<s, f>>}
  <2> DEFINE old == {b \in ChStreams \X Frames :
                         \E i \in DOMAIN ch_cmds : IsFrameOf(ch_cmds[i], b[1])
                                                   /\ ch_cmds[i].frame = b[2]}
             new == {b \in ChStreams \X Frames :
                         \E i \in DOMAIN ch_cmds' : IsFrameOf(ch_cmds'[i], b[1])
                                                    /\ ch_cmds'[i].frame = b[2]}
  <2>1. new = old \ {<<s, f>>}  BY <1>12
  <2>2. Commanded = old /\ Commanded' = new  BY DEF Commanded, IsFrameOf
  <2> QED  BY <2>1, <2>2
<1> QED  BY <1>5, <1>7, <1>9, <1>10, <1>11, <1>13 DEF s, f

\* What a command holds has not been handled.
LEMMA CommandedApart ==
    ASSUME SuperbufInv
    PROVE  Commanded \cap (BufsOf(superbuf_queue) \cup superbufs) = {}
<1> SUFFICES ASSUME NEW b \in Commanded, b \in BufsOf(superbuf_queue) \cup superbufs
             PROVE  FALSE
  OBVIOUS
<1>1. Handled(b[1], b[2])  BY DEF SuperbufInv, FramesHandled
<1>2. b \in ChStreams \X Frames  BY CommandedFacts
<1>3. PICK i \in DOMAIN ch_cmds : IsFrameOf(ch_cmds[i], b[1]) /\ ch_cmds[i].frame = b[2]
  BY DEF Commanded
<1>4. b[2] < b[2] /\ b[2] \in Int  BY <1>1, <1>2, <1>3 DEF Handled, Frames
<1> QED  BY <1>4

-----------------------------------------------------------------------------
(* Superbufs: the steps.                                                   *)

\* What does not change as long as the channel is the same.
LEMMA SameChannel ==
    ASSUME ch' = ch
    PROVE  /\ Bundled' = Bundled /\ StopDone' = StopDone
           /\ stop_pc' = stop_pc => Exact' = Exact
           /\ \A q : SoundQueue(q) => SoundQueue(q)'
           /\ UNCHANGED <<active, stop_pc>> /\ StoppingInOrder => StoppingInOrder'
<1>1. Bundled' = Bundled  BY DEF Bundled
<1>2. StopDone' = StopDone  BY <1>1 DEF StopDone, AllStopped
<1>3. stop_pc' = stop_pc => Exact' = Exact  BY DEF Exact
<1>4. \A q : SoundQueue(q) => SoundQueue(q)'  BY <1>1 DEF SoundQueue
<1>5. ASSUME UNCHANGED <<active, stop_pc>>, StoppingInOrder  PROVE StoppingInOrder'
  <2>1. StopOrder' = StopOrder  BY DEF StopOrder
  <2> QED  BY <1>1, <1>5, <2>1 DEF StoppingInOrder
<1> QED  BY <1>1, <1>2, <1>3, <1>4, <1>5

\* A command that is done: the queue may have lost superbufs and gained the frame.
CommandDone(c, new) ==
    /\ TakeCommand(c)
    /\ UNCHANGED <<ch, last_idx, active, known, shown, stop_pc, superbufs, delivered>>
    /\ SoundQueue(superbuf_queue')
    /\ BufsOf(superbuf_queue') \subseteq BufsOf(superbuf_queue) \cup new
    /\ new = {} \/ (c.type = "DATA" /\ new = {<<c.stream, c.frame>>})
    /\ \A j \in DOMAIN superbuf_queue' : superbuf_queue'[j].matched =>
           \/ c.type = "DATA" /\ superbuf_queue'[j].frame_idx = c.frame
           \/ \E k \in DOMAIN superbuf_queue :
                  /\ superbuf_queue[k].matched
                  /\ superbuf_queue[k].frame_idx = superbuf_queue'[j].frame_idx
    /\ match_cnt' \in Int /\ pending_cnt' \in Nat
    /\ stop_pc # StopDone => match_cnt' = CountMatched(superbuf_queue')
    /\ Fits(buf_refcnt', Commanded' \cup BufsOf(superbuf_queue') \cup superbufs, shown)

\* It preserves the invariant.
LEMMA CommandStep ==
    ASSUME SuperbufInv, NEW c, NEW new, CommandDone(c, new)
    PROVE  SuperbufInv'
<1> USE DEF CommandDone
<1>1. /\ Bundled' = Bundled /\ StopDone' = StopDone /\ Exact' = Exact
  BY SameChannel
<1>2. /\ ch_cmds' \in Seq(ChCommand) /\ CommandsInOrder'
      /\ \A s, n : Handled(s, n) => Handled(s, n)'
  BY TakeFacts
<1>3. SoundQueue(superbuf_queue)'  BY <1>1 DEF SoundQueue
<1>4. SuperbufTypes'
  BY <1>1, <1>2 DEF SuperbufInv, SuperbufTypes, Fits
<1>5. (stop_pc # StopDone => match_cnt = CountMatched(superbuf_queue))'
  BY <1>1 DEF CountMatched
<1>6. FramesHandled'
  <2>1. ASSUME NEW b \in BufsOf(superbuf_queue') \cup superbufs  PROVE Handled(b[1], b[2])'
    <3>1. CASE b \in BufsOf(superbuf_queue) \cup superbufs
      BY <1>2, <3>1 DEF SuperbufInv, FramesHandled
    <3>2. CASE b \in new
      <4>1. c.type = "DATA" /\ b[1] = c.stream /\ b[2] = c.frame  BY <3>2
      <4>2. Handled(c.stream, c.frame)'  BY <4>1, TakeFrame
      <4> QED  BY <4>1, <4>2
    <3> QED  BY <2>1, <3>1, <3>2
  <2>2. \A b \in shown : b[2] <= last_idx[b[1]]  BY DEF SuperbufInv, FramesHandled
  <2>3. BufsOf(superbuf_queue') \cap superbufs = {}
    <3>1. BufsOf(superbuf_queue) \cap superbufs = {}  BY DEF SuperbufInv, FramesHandled
    <3>2. new \cap superbufs = {}
      <4>1. CASE new = {}  BY <4>1
      <4>2. CASE c.type = "DATA" /\ new = {<<c.stream, c.frame>>}
        <5>1. <<c.stream, c.frame>> \in Commanded  BY <4>2, TakeFrame
        <5> QED  BY <4>2, <5>1, CommandedApart
      <4> QED  BY <4>1, <4>2
    <3> QED  BY <3>1, <3>2
  <2> QED  BY <2>1, <2>2, <2>3 DEF FramesHandled, BufsOf, BufsAt
<1>7. DeliveredInOrder'
  <2>1. \A k \in DOMAIN delivered, s \in Bundled : Handled(s, delivered[k])'
    BY <1>2 DEF SuperbufInv, DeliveredInOrder
  <2>2. ASSUME NEW k \in DOMAIN delivered, NEW j \in DOMAIN superbuf_queue',
               superbuf_queue'[j].matched
        PROVE  delivered[k] < superbuf_queue'[j].frame_idx
    <3>1. CASE c.type = "DATA" /\ superbuf_queue'[j].frame_idx = c.frame
      <4>1. c.stream \in Bundled /\ \A n : Handled(c.stream, n) => n < c.frame
        BY <3>1, TakeFrame
      <4>2. Handled(c.stream, delivered[k])  BY <4>1 DEF SuperbufInv, DeliveredInOrder
      <4> QED  BY <3>1, <4>1, <4>2
    <3>2. CASE \E l \in DOMAIN superbuf_queue :
                   /\ superbuf_queue[l].matched
                   /\ superbuf_queue[l].frame_idx = superbuf_queue'[j].frame_idx
      BY <3>2 DEF SuperbufInv, DeliveredInOrder
    <3> QED  BY <2>2, <3>1, <3>2
  <2>3. \A i, j \in DOMAIN delivered : i < j => delivered[i] < delivered[j]
    BY DEF SuperbufInv, DeliveredInOrder
  <2> QED  BY <1>1, <2>1, <2>2, <2>3 DEF DeliveredInOrder
<1>8. Fits(buf_refcnt, Held, shown)'
  BY <1>1 DEF Fits, Held, Count, BufsOf, BufsAt
<1>9. StoppingInOrder'  BY SameChannel DEF SuperbufInv
<1> QED  BY <1>2, <1>3, <1>4, <1>5, <1>6, <1>7, <1>8, <1>9 DEF SuperbufInv

\* The streams of queued buffers are the channel's, so it knows them while nothing is lost.
LEMMA QueueKnown ==
    ASSUME SuperbufInv, Exact
    PROVE  \A b \in BufsOf(superbuf_queue) : b[1] \in known
<1>1. known = Bundled  BY DEF SuperbufInv, SuperbufTypes
<1> TAKE b \in BufsOf(superbuf_queue)
<1>2. PICK i \in DOMAIN superbuf_queue : HasBuf(superbuf_queue[i], b)  BY BufFacts
<1>3. superbuf_queue[i].bufs \subseteq Bundled  BY DEF SuperbufInv, SoundQueue
<1> QED  BY <1>1, <1>2, <1>3 DEF HasBuf

\* What is left when superbufs leave the front of the queue and their buffers go back.
Leaves(front, back) ==
    /\ SoundQueue(back) /\ BufsOf(back) \subseteq BufsOf(superbuf_queue)
    /\ \A j \in DOMAIN back : \E k \in DOMAIN superbuf_queue : back[j] = superbuf_queue[k]
    /\ CountMatched(front) \in Nat /\ CountMatched(back) \in Nat
    /\ match_cnt - CountMatched(front) \in Int
    /\ stop_pc # StopDone => match_cnt - CountMatched(front) = CountMatched(back)
    /\ BufsOf(front) \subseteq BufsOf(superbuf_queue)
    /\ Fits(ChannelQbuf(buf_refcnt, BufsOf(front)),
            Commanded \cup BufsOf(back) \cup superbufs, shown)

\* Superbufs taken from the front of the queue leave what is needed of the rest.
LEMMA DropFacts ==
    ASSUME SuperbufInv, NEW n \in 0..Len(superbuf_queue)
    PROVE  Leaves(SubSeq(superbuf_queue, 1, n),
                  SubSeq(superbuf_queue, n + 1, Len(superbuf_queue)))
<1> DEFINE front == SubSeq(superbuf_queue, 1, n)
           back == SubSeq(superbuf_queue, n + 1, Len(superbuf_queue))
<1>1. SplitsInto(superbuf_queue, n, front, back)
  BY SplitFacts DEF SuperbufInv
<1> HIDE DEF front, back
<1>2. SoundQueue(superbuf_queue)  BY DEF SuperbufInv
<1>3. /\ SoundQueue(back) /\ CountMatched(front) \in Nat /\ CountMatched(back) \in Nat
      /\ CountMatched(superbuf_queue) = CountMatched(front) + CountMatched(back)
      /\ BufsOf(superbuf_queue) = BufsOf(front) \cup BufsOf(back)
      /\ BufsOf(front) \cap BufsOf(back) = {}
  BY <1>1 DEF SplitsInto
<1>4. \A j \in DOMAIN back : \E k \in DOMAIN superbuf_queue : back[j] = superbuf_queue[k]
  <2>1. /\ DOMAIN back = 1..Len(superbuf_queue) - n
        /\ \A i \in 1..Len(superbuf_queue) - n : back[i] = superbuf_queue[i + n]
    BY <1>1 DEF SplitsInto
  <2>2. Len(superbuf_queue) \in Nat /\ DOMAIN superbuf_queue = 1..Len(superbuf_queue)
    BY <1>2 DEF SoundQueue
  <2>3. \A i \in 1..Len(superbuf_queue) - n : i + n \in DOMAIN superbuf_queue  BY <2>2
  <2> QED  BY <2>1, <2>3
<1>5. match_cnt \in Int /\ (stop_pc # StopDone => match_cnt = CountMatched(superbuf_queue))
  BY DEF SuperbufInv, SuperbufTypes
<1>6. Fits(ChannelQbuf(buf_refcnt, BufsOf(front)), Held \ BufsOf(front), shown)
  <2>1. BufsOf(front) \subseteq Held  BY <1>3 DEF Held
  <2>2. Exact => \A b \in BufsOf(front) : b[1] \in known  BY <1>3, QueueKnown
  <2>3. active \subseteq ChStreams /\ Fits(buf_refcnt, Held, shown)
    BY DEF SuperbufInv, SuperbufTypes
  <2> QED  BY <2>1, <2>2, <2>3, QbufFacts
<1>7. Held \ BufsOf(front) = Commanded \cup BufsOf(back) \cup superbufs
  <2>1. BufsOf(front) \cap superbufs = {}  BY <1>3 DEF SuperbufInv, FramesHandled
  <2>2. BufsOf(front) \cap Commanded = {}  BY <1>3, CommandedApart
  <2> QED  BY <1>3, <2>1, <2>2 DEF Held
<1>8. /\ match_cnt - CountMatched(front) \in Int
      /\ stop_pc # StopDone => match_cnt - CountMatched(front) = CountMatched(back)
  BY <1>3, <1>5
<1>9. Leaves(front, back)  BY <1>3, <1>4, <1>6, <1>7, <1>8 DEF Leaves
<1> QED  BY <1>9 DEF front, back

\* A command that does so preserves the invariant.
LEMMA DropStep ==
    ASSUME SuperbufInv, NEW c, TakeCommand(c), c.type # "DATA", pending_cnt' \in Nat,
           UNCHANGED <<ch, last_idx, active, known, shown, stop_pc, superbufs, delivered>>,
           NEW n \in 0..Len(superbuf_queue), Dequeue(n),
           buf_refcnt' = ChannelQbuf(buf_refcnt, BufsOf(SubSeq(superbuf_queue, 1, n)))
    PROVE  SuperbufInv'
<1> DEFINE front == SubSeq(superbuf_queue, 1, n)
           back == SubSeq(superbuf_queue, n + 1, Len(superbuf_queue))
<1>1. superbuf_queue' = back /\ match_cnt' = match_cnt - CountMatched(front)
  BY DEF Dequeue
<1>2. buf_refcnt' = ChannelQbuf(buf_refcnt, BufsOf(front))  OBVIOUS
<1>3. Leaves(front, back)  BY DropFacts
<1> HIDE DEF front, back
<1>4. /\ SoundQueue(back) /\ BufsOf(back) \subseteq BufsOf(superbuf_queue)
      /\ \A j \in DOMAIN back : \E k \in DOMAIN superbuf_queue : back[j] = superbuf_queue[k]
      /\ match_cnt - CountMatched(front) \in Int
      /\ stop_pc # StopDone => match_cnt - CountMatched(front) = CountMatched(back)
      /\ Fits(ChannelQbuf(buf_refcnt, BufsOf(front)),
              Commanded \cup BufsOf(back) \cup superbufs, shown)
  BY <1>3 DEF Leaves
<1>5. Commanded' = Commanded  BY TakeFacts
<1>6. SoundQueue(superbuf_queue')  BY <1>1, <1>4
<1>7. BufsOf(superbuf_queue') \subseteq BufsOf(superbuf_queue) \cup {}  BY <1>1, <1>4
<1>8. \A j \in DOMAIN superbuf_queue' : superbuf_queue'[j].matched =>
          \/ c.type = "DATA" /\ superbuf_queue'[j].frame_idx = c.frame
          \/ \E k \in DOMAIN superbuf_queue :
                 /\ superbuf_queue[k].matched
                 /\ superbuf_queue[k].frame_idx = superbuf_queue'[j].frame_idx
  <2> TAKE j \in DOMAIN superbuf_queue'
  <2>1. PICK k \in DOMAIN superbuf_queue : superbuf_queue'[j] = superbuf_queue[k]
    BY <1>1, <1>4
  <2> QED  BY <2>1
<1>9. /\ match_cnt' \in Int
      /\ stop_pc # StopDone => match_cnt' = CountMatched(superbuf_queue')
  BY <1>1, <1>4
<1>10. Fits(buf_refcnt', Commanded' \cup BufsOf(superbuf_queue') \cup superbufs, shown)
  BY <1>1, <1>2, <1>4, <1>5
<1>11. CommandDone(c, {})  BY <1>6, <1>7, <1>8, <1>9, <1>10 DEF CommandDone
<1> QED  BY <1>11, CommandStep

\* A request makes room first.
LEMMA RequestStep ==
    ASSUME SuperbufInv, NEW c, ProcessRequest(c)
    PROVE  SuperbufInv'
<1> DEFINE n == IF match_cnt > ch.look_back THEN match_cnt - ch.look_back ELSE 0
<1>1. /\ TakeCommand(c) /\ c.type = "REQ"
      /\ UNCHANGED <<ch, last_idx, active, known, shown, stop_pc, superbufs, delivered>>
      /\ n <= Len(MatchedHead(superbuf_queue)) /\ Dequeue(n)
      /\ buf_refcnt' = ChannelQbuf(buf_refcnt, BufsOf(SubSeq(superbuf_queue, 1, n)))
  BY DEF ProcessRequest, TrimTo, streamVars, clientVars
<1>2. match_cnt \in Int /\ ch.look_back \in Nat
  BY MmSuperbufAssumption DEF SuperbufInv, SuperbufTypes
<1>3. n \in Nat  BY <1>2
<1>4. SoundQueue(superbuf_queue) /\ superbuf_queue \in Seq(Superbuf)
  BY DEF SuperbufInv, SoundQueue
<1>5. PICK m \in 0..Len(superbuf_queue) : FirstMatched(superbuf_queue, m)
  BY <1>4, SoundHasHead
<1>6. Len(MatchedHead(superbuf_queue)) = m  BY <1>4, <1>5, HeadFacts
<1>7. n \in 0..Len(superbuf_queue)
  <2>1. m <= Len(superbuf_queue) /\ Len(superbuf_queue) \in Nat /\ m \in Nat  BY <1>4
  <2> HIDE DEF n
  <2> QED  BY <1>1, <1>3, <1>6, <2>1
<1> HIDE DEF n
<1>8. c.type # "DATA"  BY <1>1
<1>9. pending_cnt' \in Nat
  <2>1. c \in ChCommand /\ c.type = "REQ" /\ pending_cnt' = c.num
    BY <1>1, TakeFacts DEF ProcessRequest
  <2> QED  BY <2>1, RequestFacts
<1> QED  BY <1>1, <1>7, <1>8, <1>9, DropStep

\* The whole queue leaves.
LEMMA FlushStep ==
    ASSUME SuperbufInv, NEW c, TakeCommand(c), c.type # "DATA", pending_cnt' = pending_cnt,
           UNCHANGED <<ch, last_idx, active, known, shown, stop_pc, superbufs, delivered>>,
           FlushQueue
    PROVE  SuperbufInv'
<1>1. superbuf_queue \in Seq(Superbuf)  BY DEF SuperbufInv, SoundQueue
<1> DEFINE n == Len(superbuf_queue)
<1>2. n \in 0..Len(superbuf_queue)  BY <1>1
<1>3. SubSeq(superbuf_queue, 1, n) = superbuf_queue  BY <1>1, SubSeqFull
<1>4. /\ Dequeue(n)
      /\ buf_refcnt' = ChannelQbuf(buf_refcnt, BufsOf(SubSeq(superbuf_queue, 1, n)))
  BY <1>3 DEF FlushQueue
<1>5. pending_cnt' \in Nat  BY DEF SuperbufInv, SuperbufTypes
<1> HIDE DEF n
<1> QED  BY <1>2, <1>4, <1>5, DropStep

\* A flag changes.
LEMMA ZslStep ==
    ASSUME SuperbufInv, NEW c, ProcessZsl(c)
    PROVE  SuperbufInv'
<1>1. /\ TakeCommand(c) /\ c.type # "DATA"
      /\ UNCHANGED <<ch, last_idx, active, known, shown, stop_pc, superbufs, delivered>>
      /\ UNCHANGED <<buf_refcnt, superbuf_queue, match_cnt, pending_cnt>>
  BY DEF ProcessZsl, streamVars, queueVars, clientVars
<1>2. Commanded' = Commanded  BY <1>1, TakeFacts
<1>3. SoundQueue(superbuf_queue')  BY <1>1 DEF SuperbufInv
<1>4. BufsOf(superbuf_queue') \subseteq BufsOf(superbuf_queue) \cup {}  BY <1>1
<1>5. /\ match_cnt' \in Int /\ pending_cnt' \in Nat
      /\ stop_pc # StopDone => match_cnt' = CountMatched(superbuf_queue')
  BY <1>1 DEF SuperbufInv, SuperbufTypes
<1>6. Fits(buf_refcnt', Commanded' \cup BufsOf(superbuf_queue') \cup superbufs, shown)
  BY <1>1, <1>2 DEF SuperbufInv, Held
<1>7. \A j \in DOMAIN superbuf_queue' : superbuf_queue'[j].matched =>
          \/ c.type = "DATA" /\ superbuf_queue'[j].frame_idx = c.frame
          \/ \E k \in DOMAIN superbuf_queue :
                 /\ superbuf_queue[k].matched
                 /\ superbuf_queue[k].frame_idx = superbuf_queue'[j].frame_idx
  BY <1>1
<1>8. CommandDone(c, {})  BY <1>1, <1>3, <1>4, <1>5, <1>6, <1>7 DEF CommandDone
<1> QED  BY <1>8, CommandStep

\* What only empties the queue.
LEMMA FlushingStep ==
    ASSUME SuperbufInv, NEW c, ProcessFlush(c) \/ ProcessGeneral(c)
    PROVE  SuperbufInv'
<1>1. CASE ProcessFlush(c)
  <2>1. /\ TakeCommand(c) /\ c.type # "DATA" /\ FlushQueue /\ pending_cnt' = pending_cnt
        /\ UNCHANGED <<ch, last_idx, active, known, shown, stop_pc, superbufs, delivered>>
    BY <1>1 DEF ProcessFlush, streamVars, clientVars
  <2> QED  BY <2>1, FlushStep
<1>2. CASE ProcessGeneral(c)
  <2>1. /\ TakeCommand(c) /\ c.type # "DATA" /\ FlushQueue /\ pending_cnt' = pending_cnt
        /\ UNCHANGED <<ch, last_idx, active, known, shown, stop_pc, superbufs, delivered>>
    BY <1>2 DEF ProcessGeneral, streamVars, clientVars
  <2> QED  BY <2>1, FlushStep
<1> QED  BY <1>1, <1>2

\* The queue, the count and the references when some of the queue has gone.
Left(q, count, refcnt) ==
    /\ SoundQueue(q) /\ BufsOf(q) \subseteq BufsOf(superbuf_queue)
    /\ \A j \in DOMAIN q : \E k \in DOMAIN superbuf_queue : q[j] = superbuf_queue[k]
    /\ CountMatched(q) \in Nat /\ count \in Int
    /\ stop_pc # StopDone => count = CountMatched(q)
    /\ Fits(refcnt, Commanded \cup BufsOf(q) \cup superbufs, shown)

\* As at first.
LEMMA NothingLeft ==
    ASSUME SuperbufInv
    PROVE  Left(superbuf_queue, match_cnt, buf_refcnt)
<1>1. SoundQueue(superbuf_queue) /\ superbuf_queue \in Seq(Superbuf)
  BY DEF SuperbufInv, SoundQueue
<1>2. PICK m \in 0..Len(superbuf_queue) : FirstMatched(superbuf_queue, m)
  BY <1>1, SoundHasHead
<1>3. CountMatched(superbuf_queue) \in Nat
  <2>1. CountMatched(superbuf_queue) = m  BY <1>1, <1>2, HeadFacts
  <2> QED  BY <2>1
<1>4. \A j \in DOMAIN superbuf_queue :
          \E k \in DOMAIN superbuf_queue : superbuf_queue[j] = superbuf_queue[k]
  OBVIOUS
<1>5. match_cnt \in Int /\ (stop_pc # StopDone => match_cnt = CountMatched(superbuf_queue))
  BY DEF SuperbufInv, SuperbufTypes
<1>6. Fits(buf_refcnt, Commanded \cup BufsOf(superbuf_queue) \cup superbufs, shown)
  BY DEF SuperbufInv, Held
<1> QED  BY <1>1, <1>3, <1>4, <1>5, <1>6 DEF Left

\* What a flush leaves.
LEMMA FlushedFacts ==
    ASSUME SuperbufInv, NEW how \in {"none", "matched", "all"}
    PROVE  LET q == Flushed(superbuf_queue, how)
               gone == SubSeq(superbuf_queue, 1, Len(superbuf_queue) - Len(q))
           IN  Left(q, match_cnt - CountMatched(gone), ChannelQbuf(buf_refcnt, BufsOf(gone)))
<1>1. /\ SoundQueue(superbuf_queue) /\ superbuf_queue \in Seq(Superbuf)
      /\ Len(superbuf_queue) \in Nat
  BY DEF SuperbufInv, SoundQueue
<1> DEFINE total == Len(superbuf_queue)
           q == Flushed(superbuf_queue, how)
<1>2. PICK m \in 0..total : FirstMatched(superbuf_queue, m)
  BY <1>1, SoundHasHead
<1>3. Len(MatchedHead(superbuf_queue)) = m  BY <1>1, <1>2, HeadFacts
<1>4. \E n \in 0..total : q = SubSeq(superbuf_queue, n + 1, total)
  <2>1. CASE how = "none"
    <3>1. q = superbuf_queue  BY <2>1 DEF Flushed
    <3>2. q = SubSeq(superbuf_queue, 0 + 1, total)  BY <1>1, <3>1, SubSeqFull
    <3> QED  BY <1>1, <3>2
  <2>2. CASE how = "matched"
    <3>1. q = SubSeq(superbuf_queue, m + 1, total)  BY <1>3, <2>2 DEF Flushed
    <3> QED  BY <1>2, <3>1
  <2>3. CASE how = "all"
    <3>1. q = << >>  BY <2>3 DEF Flushed
    <3>2. SubSeq(superbuf_queue, total + 1, total) = << >>  BY <1>1
    <3> QED  BY <1>1, <3>1, <3>2
  <2> QED  BY <2>1, <2>2, <2>3
<1>5. PICK n \in 0..total : q = SubSeq(superbuf_queue, n + 1, total)  BY <1>4
<1> DEFINE gone == SubSeq(superbuf_queue, 1, total - Len(q))
<1>6. total - Len(q) = n
  <2>1. Len(SubSeq(superbuf_queue, n + 1, total)) = total - n  BY <1>1, BackFacts
  <2> HIDE DEF q
  <2> QED  BY <1>1, <1>5, <2>1
<1>7. Leaves(gone, q)
  <2>1. Leaves(SubSeq(superbuf_queue, 1, n), SubSeq(superbuf_queue, n + 1, total))
    BY DropFacts
  <2> HIDE DEF q
  <2> QED  BY <1>5, <1>6, <2>1
<1> HIDE DEF gone, q
<1>8. Left(q, match_cnt - CountMatched(gone), ChannelQbuf(buf_refcnt, BufsOf(gone)))
  BY <1>7 DEF Leaves, Left
<1> QED  BY <1>8 DEF gone, q

\* The command of a frame is done: some of the queue may have gone before, and the frame has
\* joined the rest or its buffer is among those that went back.
FrameDone(c, q, count, refcnt, B) ==
    /\ TakeCommand(c) /\ c.type = "DATA"
    /\ UNCHANGED <<ch, last_idx, active, known, shown, stop_pc, superbufs, delivered,
                   pending_cnt>>
    /\ Left(q, count, refcnt)
    /\ Enqueues(superbuf_queue', q, c.stream, c.frame, B)
    /\ \/ buf_refcnt' = ChannelQbuf(refcnt, B)
       \/ B = {} /\ buf_refcnt' = refcnt
    /\ match_cnt' = count + (CountMatched(superbuf_queue') - CountMatched(q))
    /\ CountMatched(superbuf_queue') \in Nat

\* So the invariant holds after a frame was handled.
LEMMA FrameDoneStep ==
    ASSUME SuperbufInv, NEW c, NEW q, NEW count, NEW refcnt, NEW B,
           FrameDone(c, q, count, refcnt, B)
    PROVE  SuperbufInv'
<1> DEFINE s == c.stream
           f == c.frame
           held == Commanded \cup BufsOf(q) \cup superbufs
<1>1. /\ TakeCommand(c) /\ c.type = "DATA"
      /\ UNCHANGED <<ch, last_idx, active, known, shown, stop_pc, superbufs, delivered,
                   pending_cnt>>
      /\ Left(q, count, refcnt) /\ Enqueues(superbuf_queue', q, s, f, B)
  BY DEF FrameDone
<1>2. /\ buf_refcnt' = ChannelQbuf(refcnt, B) \/ (B = {} /\ buf_refcnt' = refcnt)
      /\ match_cnt' = count + (CountMatched(superbuf_queue') - CountMatched(q))
      /\ CountMatched(superbuf_queue') \in Nat
  BY DEF FrameDone
<1>3. /\ s \in ChStreams /\ s \in Bundled /\ f \in Frames
      /\ <<s, f>> \in Commanded /\ Commanded' = Commanded \ {<<s, f>>}
  BY <1>1, TakeFrame
<1>4. BufsOf(q) \subseteq BufsOf(superbuf_queue) /\ Fits(refcnt, held, shown)
  BY <1>1 DEF Left
<1>5. /\ SoundQueue(superbuf_queue')
      /\ B \subseteq BufsOf(q) \cup {<<s, f>>}
      /\ BufsOf(superbuf_queue') = (BufsOf(q) \cup {<<s, f>>}) \ B
  BY <1>1 DEF Enqueues
<1> HIDE DEF s, f
<1>6. Exact => \A b \in B : b[1] \in known
  <2>1. SUFFICES ASSUME Exact  PROVE \A b \in B : b[1] \in known
    OBVIOUS
  <2>2. \A b \in BufsOf(superbuf_queue) : b[1] \in known  BY <2>1, QueueKnown
  <2>3. s \in known  BY <1>3, <2>1 DEF SuperbufInv, SuperbufTypes
  <2>4. \A b \in {<<s, f>>} : b[1] \in known  BY <2>3
  <2> QED  BY <1>4, <1>5, <2>2, <2>4
<1>7. Fits(buf_refcnt', held \ B, shown)
  <2>1. CASE buf_refcnt' = ChannelQbuf(refcnt, B)
    <3>1. B \subseteq held  BY <1>3, <1>5
    <3>2. active \subseteq ChStreams  BY DEF SuperbufInv, SuperbufTypes
    <3> HIDE DEF held
    <3>3. Fits(ChannelQbuf(refcnt, B), held \ B, shown)
      BY <1>4, <1>6, <3>1, <3>2, QbufFacts
    <3> QED  BY <2>1, <3>3
  <2>2. CASE B = {} /\ buf_refcnt' = refcnt
    <3>1. held \ B = held  BY <2>2
    <3> QED  BY <1>4, <2>2, <3>1
  <2> QED  BY <1>2, <2>1, <2>2
<1>8. held \ B = Commanded' \cup BufsOf(superbuf_queue') \cup superbufs
  <2>1. Commanded \cap (BufsOf(superbuf_queue) \cup superbufs) = {}  BY CommandedApart
  <2>2. BufsOf(superbuf_queue) \cap superbufs = {}  BY DEF SuperbufInv, FramesHandled
  <2>3. B \cap superbufs = {}  BY <1>3, <1>4, <1>5, <2>1, <2>2
  <2>4. B \cap Commanded' = {}  BY <1>3, <1>4, <1>5, <2>1
  <2>5. held = Commanded' \cup (BufsOf(q) \cup {<<s, f>>}) \cup superbufs  BY <1>3
  <2> HIDE DEF held
  <2> QED  BY <1>5, <2>3, <2>4, <2>5
<1>9. \A j \in DOMAIN superbuf_queue' : superbuf_queue'[j].matched =>
          \/ c.type = "DATA" /\ superbuf_queue'[j].frame_idx = c.frame
          \/ \E k \in DOMAIN superbuf_queue :
                 /\ superbuf_queue[k].matched
                 /\ superbuf_queue[k].frame_idx = superbuf_queue'[j].frame_idx
  <2> SUFFICES ASSUME NEW j \in DOMAIN superbuf_queue', superbuf_queue'[j].matched,
                      superbuf_queue'[j].frame_idx # f
               PROVE  \E k \in DOMAIN superbuf_queue :
                          /\ superbuf_queue[k].matched
                          /\ superbuf_queue[k].frame_idx = superbuf_queue'[j].frame_idx
    BY <1>1 DEF f
  <2>1. PICK l \in DOMAIN q : q[l].matched /\ q[l].frame_idx = superbuf_queue'[j].frame_idx
    BY <1>1 DEF Enqueues, f
  <2>2. PICK k \in DOMAIN superbuf_queue : q[l] = superbuf_queue[k]  BY <1>1 DEF Left
  <2> QED  BY <2>1, <2>2
<1>10. /\ match_cnt' \in Int /\ pending_cnt' \in Nat
       /\ stop_pc # StopDone => match_cnt' = CountMatched(superbuf_queue')
  <2>1. /\ count \in Int /\ CountMatched(q) \in Nat
        /\ stop_pc # StopDone => count = CountMatched(q)
    BY <1>1 DEF Left
  <2>2. pending_cnt' \in Nat  BY <1>1 DEF SuperbufInv, SuperbufTypes
  <2> QED  BY <1>2, <2>1, <2>2
<1>11. BufsOf(superbuf_queue') \subseteq BufsOf(superbuf_queue) \cup {<<s, f>>}
  BY <1>4, <1>5
<1>12. CommandDone(c, {<<s, f>>})
  BY <1>1, <1>5, <1>7, <1>8, <1>9, <1>10, <1>11 DEF CommandDone, s, f
<1> QED  BY <1>12, CommandStep

\* A frame that is not used.
LEMMA UnusedFacts ==
    ASSUME NEW q, SoundQueue(q), NEW s, NEW f, Comes(s, f, q)
    PROVE  Enqueues(q, q, s, f, {<<s, f>>})
<1>1. <<s, f>> \notin BufsOf(q)
  <2>1. ASSUME <<s, f>> \in BufsOf(q)  PROVE FALSE
    <3>1. f < f  BY <2>1 DEF Comes
    <3>2. f \in Int  BY DEF Comes, Frames
    <3> QED  BY <3>1, <3>2
  <2> QED  BY <2>1
<1> QED  BY <1>1 DEF Enqueues

\* What a frame's metadata may flush.
LEMMA FlushKinds ==
    ASSUME NEW m, NEW f
    PROVE  HandleMetadata(m, f).flush \in {"none", "matched", "all"}
BY DEF HandleMetadata

\* A frame.
LEMMA FrameStep ==
    ASSUME SuperbufInv, NEW c, NEW m, ProcessFrame(c, m)
    PROVE  SuperbufInv'
<1> DEFINE s == c.stream
           f == c.frame
           own_metadata == s = "metadata" /\ s \notin ch.linked
           r == HandleMetadata(m, f)
           q == IF own_metadata THEN Flushed(superbuf_queue, r.flush) ELSE superbuf_queue
           exp == IF own_metadata THEN [id |-> r.id, without_led |-> r.without_led]
                  ELSE expected
           fl == IF own_metadata THEN r.flags ELSE flags
           gone == SubSeq(superbuf_queue, 1, Len(superbuf_queue) - Len(q))
           count == match_cnt - CountMatched(gone)
           refcnt == ChannelQbuf(buf_refcnt, BufsOf(gone))
<1>1. /\ TakeCommand(c) /\ c.type = "DATA"
      /\ UNCHANGED <<ch, last_idx, active, known, shown, stop_pc, superbufs, delivered,
                   pending_cnt>>
  BY DEF ProcessFrame, streamVars, clientVars
<1>2. \/ DropFrame(s, f)
      \/ /\ superbuf_queue' = q /\ match_cnt' = count
         /\ buf_refcnt' = ChannelQbuf(refcnt, {<<s, f>>})
      \/ EnqueueSuperbuf(s, f, q, count, exp, fl, refcnt)
  BY DEF ProcessFrame
<1>3. /\ s \in ChStreams /\ s \in Bundled /\ f \in Frames
      /\ \A n : Handled(s, n) => n < f
  BY <1>1, TakeFrame
<1>4. Left(q, count, refcnt)
  <2>1. PICK how \in {"none", "matched", "all"} : q = Flushed(superbuf_queue, how)
    <3>1. r.flush \in {"none", "matched", "all"}  BY FlushKinds
    <3>2. superbuf_queue = Flushed(superbuf_queue, "none")  BY DEF Flushed
    <3> HIDE DEF r, own_metadata
    <3>3. CASE own_metadata  BY <3>1, <3>3
    <3>4. CASE ~own_metadata  BY <3>2, <3>4
    <3> QED  BY <3>3, <3>4
  <2> HIDE DEF q
  <2> QED  BY <2>1, FlushedFacts
<1> HIDE DEF s, f, own_metadata, r, q, exp, fl, gone, count, refcnt
<1>5. ch \in Setups  BY DEF SuperbufInv, SuperbufTypes
<1>6. Comes(s, f, superbuf_queue)
  <2>1. \A b \in BufsOf(superbuf_queue) : Handled(b[1], b[2])
    BY DEF SuperbufInv, FramesHandled
  <2>2. \A b \in BufsOf(superbuf_queue) : b[1] = s => b[2] < f  BY <1>3, <2>1
  <2> QED  BY <1>3, <2>2 DEF Comes
<1>7. SoundQueue(q) /\ BufsOf(q) \subseteq BufsOf(superbuf_queue) /\ count \in Int
      /\ CountMatched(q) \in Nat
  BY <1>4 DEF Left
<1>8. Comes(s, f, q)  BY <1>6, <1>7, ComesToLess
<1>9. CASE DropFrame(s, f)
  <2>1. /\ superbuf_queue' = superbuf_queue /\ match_cnt' = match_cnt
        /\ buf_refcnt' = ChannelQbuf(buf_refcnt, {<<s, f>>})
    BY <1>9 DEF DropFrame, queueVars
  <2>2. Left(superbuf_queue, match_cnt, buf_refcnt)  BY NothingLeft
  <2>3. CountMatched(superbuf_queue) \in Nat /\ match_cnt \in Int  BY <2>2 DEF Left
  <2>4. Enqueues(superbuf_queue, superbuf_queue, s, f, {<<s, f>>})
    BY <1>6, UnusedFacts DEF SuperbufInv
  <2>5. match_cnt' = match_cnt + (CountMatched(superbuf_queue') - CountMatched(superbuf_queue))
    BY <2>1, <2>3
  <2>6. FrameDone(c, superbuf_queue, match_cnt, buf_refcnt, {<<s, f>>})
    BY <1>1, <2>1, <2>2, <2>3, <2>4, <2>5 DEF FrameDone, s, f
  <2> QED  BY <2>6, FrameDoneStep
<1>10. CASE /\ superbuf_queue' = q /\ match_cnt' = count
            /\ buf_refcnt' = ChannelQbuf(refcnt, {<<s, f>>})
  <2>1. Enqueues(q, q, s, f, {<<s, f>>})  BY <1>7, <1>8, UnusedFacts
  <2>2. match_cnt' = count + (CountMatched(superbuf_queue') - CountMatched(q))
    BY <1>7, <1>10
  <2>3. FrameDone(c, q, count, refcnt, {<<s, f>>})
    BY <1>1, <1>4, <1>7, <1>10, <2>1, <2>2 DEF FrameDone, s, f
  <2> QED  BY <2>3, FrameDoneStep
<1>11. CASE EnqueueSuperbuf(s, f, q, count, exp, fl, refcnt)
  <2>1. PICK B : /\ Enqueues(superbuf_queue', q, s, f, B)
                 /\ \/ buf_refcnt' = ChannelQbuf(refcnt, B)
                    \/ B = {} /\ buf_refcnt' = refcnt
                 /\ match_cnt' = count + (CountMatched(superbuf_queue') - CountMatched(q))
                 /\ CountMatched(q) \in Nat /\ CountMatched(superbuf_queue') \in Nat
    BY <1>5, <1>7, <1>8, <1>11, EnqueueFacts
  <2>2. FrameDone(c, q, count, refcnt, B)  BY <1>1, <1>4, <2>1 DEF FrameDone, s, f
  <2> QED  BY <2>2, FrameDoneStep
<1> QED  BY <1>2, <1>9, <1>10, <1>11

\* The queue loses `over' superbufs, whose buffers go back, and the next `wanted', which the
\* client gets.  All are matched.
Serves(q, over, wanted, old, given, back) ==
    /\ SoundQueue(back) /\ CountMatched(back) \in Nat
    /\ CountMatched(SubSeq(q, 1, over + wanted)) \in Nat
    /\ CountMatched(q) = CountMatched(SubSeq(q, 1, over + wanted)) + CountMatched(back)
    /\ BufsOf(q) = (BufsOf(old) \cup BufsOf(given)) \cup BufsOf(back)
    /\ BufsOf(old) \cap (BufsOf(given) \cup BufsOf(back)) = {}
    /\ BufsOf(given) \cap BufsOf(back) = {}
    /\ \A i \in 1..wanted :
           over + i \in DOMAIN q /\ q[over + i].matched /\ given[i] = q[over + i]
    /\ \A j \in DOMAIN back :
           j + (over + wanted) \in DOMAIN q /\ back[j] = q[j + (over + wanted)]

\* Which is how the queue is divided when old superbufs go back and wanted ones go out.
LEMMA ServeFacts ==
    ASSUME NEW q, SoundQueue(q), NEW m \in 0..Len(q), FirstMatched(q, m),
           NEW over \in 0..m, NEW wanted \in 0..m - over
    PROVE  Serves(q, over, wanted, SubSeq(q, 1, over), SubSeq(q, over + 1, over + wanted),
                  SubSeq(q, over + wanted + 1, Len(q)))
<1>0. q \in Seq(Superbuf)  BY DEF SoundQueue
<1> DEFINE n == over + wanted
           front == SubSeq(q, 1, n)
           old == SubSeq(q, 1, over)
           given == SubSeq(q, over + 1, n)
           back == SubSeq(q, n + 1, Len(q))
<1>1. /\ Len(q) \in Nat /\ DOMAIN q = 1..Len(q) /\ n \in 0..Len(q) /\ n <= m /\ over <= n
      /\ n - over = wanted
  BY <1>0
<1>2. SplitsInto(q, n, front, back)  BY <1>1, SplitFacts
<1>3. front \in Seq(Superbuf) /\ Len(front) = n /\ \A i \in 1..n : front[i] = q[i]
  <2> HIDE DEF n
  <2> QED  BY <1>0, <1>1
<1>4. old \in Seq(Superbuf) /\ Len(old) = over /\ \A i \in 1..over : old[i] = q[i]
  <2> HIDE DEF n
  <2> QED  BY <1>0, <1>1
<1>5. /\ given \in Seq(Superbuf) /\ Len(given) = wanted
      /\ \A i \in 1..wanted : given[i] = q[over + i]
  <2>1. over + 1 \in 1..Len(q) + 1 /\ n \in over..Len(q)  BY <1>1
  <2> HIDE DEF n
  <2>2. \A i \in over + 1..n : q[i] \in Superbuf  BY <1>0, <1>1
  <2>3. /\ SubSeq(q, over + 1, n) \in Seq(Superbuf)
        /\ Len(SubSeq(q, over + 1, n)) = IF over + 1 <= n THEN n - (over + 1) + 1 ELSE 0
        /\ \A i \in 1..n - (over + 1) + 1 :
               SubSeq(q, over + 1, n)[i] = q[(over + 1) + i - 1]
    BY <1>1, <2>1, <2>2, SubSeqProperties
  <2>4. n - (over + 1) + 1 = wanted  BY <1>1
  <2>5. Len(SubSeq(q, over + 1, n)) = wanted  BY <1>1, <2>3
  <2>6. \A i \in 1..wanted : (over + 1) + i - 1 = over + i  BY <1>1
  <2> QED  BY <2>3, <2>4, <2>5, <2>6
<1> HIDE DEF front, old, given, back
<1>6. SoundQueue(front) /\ over \in 0..Len(front)  BY <1>1, <1>2, <1>3 DEF SplitsInto
<1>7. /\ BufsOf(front) = BufsOf(old) \cup BufsOf(given)
      /\ BufsOf(old) \cap BufsOf(given) = {}
  <2>1. Len(given) = Len(front) - over  BY <1>1, <1>3, <1>5
  <2>2. \A i \in 1..over : old[i] = front[i]  BY <1>1, <1>3, <1>4
  <2>3. \A i \in 1..Len(front) - over : given[i] = front[i + over]
    BY <1>1, <1>3, <1>5
  <2>4. IsSplit(front, over, old, given)  BY <1>4, <1>5, <2>1, <2>2, <2>3 DEF IsSplit
  <2> QED  BY <1>6, <2>4, TwoParts
<1>8. \A i \in 1..wanted :
          over + i \in DOMAIN q /\ q[over + i].matched /\ given[i] = q[over + i]
  BY <1>1, <1>5 DEF FirstMatched
<1>9. \A j \in DOMAIN back : j + n \in DOMAIN q /\ back[j] = q[j + n]
  <2>1. DOMAIN back = 1..Len(q) - n /\ \A i \in 1..Len(q) - n : back[i] = q[i + n]
    BY <1>2 DEF SplitsInto
  <2> HIDE DEF n
  <2> QED  BY <1>1, <2>1
<1>10. /\ SoundQueue(back) /\ CountMatched(back) \in Nat /\ CountMatched(front) \in Nat
       /\ CountMatched(q) = CountMatched(front) + CountMatched(back)
       /\ BufsOf(q) = BufsOf(front) \cup BufsOf(back)
       /\ BufsOf(front) \cap BufsOf(back) = {}
  BY <1>2 DEF SplitsInto
<1>11. Serves(q, over, wanted, old, given, back)
  BY <1>7, <1>8, <1>9, <1>10 DEF Serves, front
<1> QED  BY <1>11 DEF old, given, back

\* A complete superbuf has been handled, on every stream.
LEMMA CompleteHandled ==
    ASSUME SuperbufInv, NEW i \in DOMAIN superbuf_queue, superbuf_queue[i].matched,
           NEW s \in Bundled
    PROVE  Handled(s, superbuf_queue[i].frame_idx)
<1>1. s \in ChStreams  BY BundledFinite DEF SuperbufInv, SuperbufTypes
<1>2. superbuf_queue[i] \in Superbuf /\ superbuf_queue[i].bufs = Bundled
  BY DEF SuperbufInv, SoundQueue
<1>3. superbuf_queue[i].frame_idx \in Frames  BY <1>2, SuperbufFields
<1> DEFINE b == <<s, superbuf_queue[i].frame_idx>>
<1>4. b \in ChStreams \X Frames /\ b[1] = s /\ b[2] = superbuf_queue[i].frame_idx
  BY <1>1, <1>3
<1> HIDE DEF b
<1>5. HasBuf(superbuf_queue[i], b)  BY <1>2, <1>4 DEF HasBuf
<1>6. b \in BufsOf(superbuf_queue)  BY <1>4, <1>5, BufFacts
<1> QED  BY <1>4, <1>6 DEF SuperbufInv, FramesHandled

\* What the client gets is in order and follows what it had.
LEMMA GivenInOrder ==
    ASSUME SuperbufInv, NEW over \in Nat, NEW wanted \in Nat, NEW old, NEW given, NEW back,
           Serves(superbuf_queue, over, wanted, old, given, back),
           NEW d, d = delivered \o [i \in 1..wanted |-> given[i].frame_idx]
    PROVE  /\ d \in Seq(Frames)
           /\ \A k \in DOMAIN d, s \in Bundled : Handled(s, d[k])
           /\ \A k \in DOMAIN d, j \in DOMAIN back :
                  back[j].matched => d[k] < back[j].frame_idx
           /\ \A i, j \in DOMAIN d : i < j => d[i] < d[j]
<1> DEFINE q == superbuf_queue
           n == over + wanted
           L == Len(delivered)
           new == [i \in 1..wanted |-> given[i].frame_idx]
<1>1. /\ \A i \in 1..wanted : over + i \in DOMAIN q /\ q[over + i].matched
                             /\ given[i] = q[over + i]
      /\ \A j \in DOMAIN back : j + n \in DOMAIN q /\ back[j] = q[j + n]
      /\ back \in Seq(Superbuf)
  BY DEF Serves, SoundQueue
<1>2. /\ q \in Seq(Superbuf) /\ DOMAIN q \subseteq Nat
      /\ \A i, j \in DOMAIN q : i < j /\ q[j].matched => q[i].frame_idx < q[j].frame_idx
  BY DEF SuperbufInv, SoundQueue
<1>3. /\ delivered \in Seq(Frames)
      /\ \A k \in DOMAIN delivered, s \in Bundled : Handled(s, delivered[k])
      /\ \A k \in DOMAIN delivered, j \in DOMAIN q :
             q[j].matched => delivered[k] < q[j].frame_idx
      /\ \A i, j \in DOMAIN delivered : i < j => delivered[i] < delivered[j]
  BY DEF SuperbufInv, SuperbufTypes, DeliveredInOrder
<1>4. \A j \in DOMAIN q, s \in Bundled : q[j].matched => Handled(s, q[j].frame_idx)
  BY CompleteHandled
<1>5. \A j \in DOMAIN q : q[j].frame_idx \in Frames  BY <1>2, SuperbufFields
<1>6. new \in Seq(Frames) /\ Len(new) = wanted
      /\ \A i \in 1..wanted : new[i] = q[over + i].frame_idx
  <2>1. \A i \in 1..wanted : given[i].frame_idx \in Frames  BY <1>1, <1>5
  <2>2. new \in [1..wanted -> Frames]  BY <2>1
  <2>3. new \in Seq(Frames) /\ Len(new) = wanted  BY <2>2
  <2>4. \A i \in 1..wanted : new[i] = given[i].frame_idx  OBVIOUS
  <2> HIDE DEF new
  <2> QED  BY <1>1, <2>3, <2>4
<1> HIDE DEF q, new
<1>7. d \in Seq(Frames) /\ Len(d) = L + wanted
      /\ \A k \in 1..L + wanted : d[k] = IF k <= L THEN delivered[k] ELSE new[k - L]
  <2>1. d = delivered \o new  BY DEF new
  <2>2. /\ d \in Seq(Frames) /\ Len(d) = L + wanted
        /\ \A k \in 1..Len(delivered) + Len(new) :
               d[k] = IF k <= Len(delivered) THEN delivered[k] ELSE new[k - Len(delivered)]
    <3>1. delivered \in Seq(Frames) /\ new \in Seq(Frames)  BY <1>3, <1>6
    <3>2. /\ delivered \o new \in Seq(Frames)
          /\ Len(delivered \o new) = Len(delivered) + Len(new)
          /\ \A k \in 1..Len(delivered) + Len(new) :
                 (delivered \o new)[k] =
                 IF k <= Len(delivered) THEN delivered[k] ELSE new[k - Len(delivered)]
      BY <3>1, ConcatProperties
    <3> QED  BY <1>6, <2>1, <3>2
  <2> QED  BY <1>6, <2>2
<1>8. L \in Nat /\ DOMAIN delivered = 1..L /\ DOMAIN d = 1..L + wanted  BY <1>3, <1>7
<1> HIDE DEF L
\* Each is an old one, or of a superbuf of the queue.
<1>9. \A k \in DOMAIN d :
          \/ k \in DOMAIN delivered /\ d[k] = delivered[k]
          \/ /\ k > L /\ over + (k - L) \in DOMAIN q /\ over + (k - L) <= n
             /\ q[over + (k - L)].matched /\ d[k] = q[over + (k - L)].frame_idx
  <2> TAKE k \in DOMAIN d
  <2>1. CASE k <= L  BY <1>7, <1>8, <2>1
  <2>2. CASE ~(k <= L)
    <3>1. k - L \in 1..wanted /\ k > L  BY <1>8, <2>2
    <3>2. d[k] = q[over + (k - L)].frame_idx  BY <1>6, <1>7, <1>8, <2>2, <3>1
    <3>3. over + (k - L) \in DOMAIN q /\ q[over + (k - L)].matched  BY <1>1, <3>1 DEF q
    <3>4. over + (k - L) <= n  BY <1>8, <3>1
    <3> QED  BY <3>1, <3>2, <3>3, <3>4
  <2> QED  BY <2>1, <2>2
<1>10. \A k \in DOMAIN d, s \in Bundled : Handled(s, d[k])
  <2> TAKE k \in DOMAIN d, s \in Bundled
  <2>1. CASE k \in DOMAIN delivered /\ d[k] = delivered[k]  BY <1>3, <2>1
  <2>2. CASE ~(k \in DOMAIN delivered /\ d[k] = delivered[k])
    <3> DEFINE i == over + (k - L)
    <3>1. i \in DOMAIN q /\ q[i].matched /\ d[k] = q[i].frame_idx  BY <1>9, <2>2
    <3> HIDE DEF i
    <3> QED  BY <1>4, <3>1
  <2> QED  BY <2>1, <2>2
<1>11. ASSUME NEW k \in DOMAIN d, NEW j \in DOMAIN back, back[j].matched
       PROVE  d[k] < back[j].frame_idx
  <2> DEFINE l == j + n
  <2>1. l \in DOMAIN q /\ back[j] = q[l] /\ q[l].matched  BY <1>1, <1>11 DEF q
  <2>2. n < l
    <3>1. j \in Nat /\ j > 0 /\ n \in Nat  BY <1>1
    <3> QED  BY <3>1
  <2>3. CASE k \in DOMAIN delivered /\ d[k] = delivered[k]
    <3> HIDE DEF l
    <3> QED  BY <1>3, <2>1, <2>3 DEF q
  <2>4. CASE ~(k \in DOMAIN delivered /\ d[k] = delivered[k])
    <3> DEFINE i == over + (k - L)
    <3>1. i \in DOMAIN q /\ d[k] = q[i].frame_idx /\ i <= n  BY <1>9, <2>4
    <3>2. i < l
      <4>1. i \in Nat /\ l \in Nat /\ n \in Nat  BY <1>2, <2>1, <3>1 DEF q
      <4> HIDE DEF i, l, n
      <4> QED  BY <2>2, <3>1, <4>1
    <3> HIDE DEF i, l
    <3> QED  BY <1>2, <2>1, <3>1, <3>2 DEF q
  <2> QED  BY <2>3, <2>4
<1>12. ASSUME NEW k \in DOMAIN d, NEW l \in DOMAIN d, k < l  PROVE d[k] < d[l]
  <2>1. CASE l \in DOMAIN delivered /\ d[l] = delivered[l]
    <3>1. k \in DOMAIN delivered  BY <1>8, <1>12, <2>1
    <3>2. d[k] = delivered[k]  BY <1>7, <1>8, <3>1
    <3> QED  BY <1>3, <1>12, <2>1, <3>1, <3>2
  <2>2. CASE ~(l \in DOMAIN delivered /\ d[l] = delivered[l])
    <3> DEFINE j == over + (l - L)
               i == over + (k - L)
    <3>1. j \in DOMAIN q /\ q[j].matched /\ d[l] = q[j].frame_idx  BY <1>9, <2>2
    <3>2. CASE k \in DOMAIN delivered /\ d[k] = delivered[k]
      <4> HIDE DEF j
      <4> QED  BY <1>3, <3>1, <3>2 DEF q
    <3>3. CASE ~(k \in DOMAIN delivered /\ d[k] = delivered[k])
      <4>1. i \in DOMAIN q /\ d[k] = q[i].frame_idx  BY <1>9, <3>3
      <4>2. i < j  BY <1>8, <1>12
      <4> HIDE DEF i, j
      <4> QED  BY <1>2, <3>1, <4>1, <4>2 DEF q
    <3> QED  BY <3>2, <3>3
  <2> QED  BY <2>1, <2>2
<1> QED  BY <1>7, <1>10, <1>11, <1>12

\* The least of two numbers.
LEMMA MinOfTwo ==
    ASSUME NEW a \in Nat, NEW b \in Nat
    PROVE  Min({a, b}) \in Nat /\ Min({a, b}) <= a /\ Min({a, b}) <= b
<1>1. {a, b} \in SUBSET Nat /\ {a, b} # {}  OBVIOUS
<1> DEFINE T == {a, b}
<1>2. T \in SUBSET Nat /\ T # {} /\ a \in T /\ b \in T  BY <1>1
<1> HIDE DEF T
<1>3. Min(T) \in T /\ \A y \in T : Min(T) <= y  BY <1>2, MinIsLeast
<1>4. Min(T) \in Nat /\ Min(T) <= a /\ Min(T) <= b  BY <1>2, <1>3
<1> QED  BY <1>4 DEF T

\* Dispatching.
LEMMA DispatchStep ==
    ASSUME SuperbufInv, Dispatch
    PROVE  SuperbufInv'
<1> DEFINE q == superbuf_queue
           over == IF ch.burst /\ match_cnt > ch.water_mark
                   THEN match_cnt - ch.water_mark ELSE 0
           ready == Len(MatchedHead(q))
           wanted == IF ch.burst THEN Min({pending_cnt, ready - over}) ELSE ready
           given == SubSeq(q, over + 1, over + wanted)
           old == SubSeq(q, 1, over)
           back == SubSeq(q, over + wanted + 1, Len(q))
           new == [i \in 1..wanted |-> given[i].frame_idx]
<1>1. /\ over <= ready
      /\ superbuf_queue' = back
      /\ match_cnt' = match_cnt - CountMatched(SubSeq(q, 1, over + wanted))
      /\ buf_refcnt' = ChannelQbuf(buf_refcnt, BufsOf(old))
      /\ superbufs' = superbufs \cup BufsOf(given)
      /\ delivered' = delivered \o new
  BY DEF Dispatch, Dequeue
<1>2. /\ pending_cnt' = IF ch.burst THEN pending_cnt - wanted ELSE pending_cnt
      /\ UNCHANGED <<ch, last_idx, active, known, ch_cmds, shown, stop_pc>>
  BY DEF Dispatch, streamVars
<1>3. /\ SoundQueue(q) /\ q \in Seq(Superbuf) /\ match_cnt \in Int /\ pending_cnt \in Nat
      /\ stop_pc # StopDone => match_cnt = CountMatched(q)
  BY DEF SuperbufInv, SoundQueue, SuperbufTypes
<1>4. ch.water_mark \in Nat
  BY MmSuperbufAssumption DEF SuperbufInv, SuperbufTypes
<1>5. PICK m \in 0..Len(q) : FirstMatched(q, m)  BY <1>3, SoundHasHead
<1>6. ready = m
  <2> HIDE DEF q
  <2> QED  BY <1>3, <1>5, HeadFacts
<1>7. over \in 0..m
  <2>1. over \in Nat  BY <1>3, <1>4
  <2> HIDE DEF over
  <2> QED  BY <1>1, <1>6, <2>1
<1>8. wanted \in 0..m - over /\ pending_cnt' \in Nat
  <2>1. ready - over \in Nat /\ m - over = ready - over /\ ready \in Nat  BY <1>6, <1>7
  <2>2. CASE ch.burst
    <3>1. wanted = Min({pending_cnt, ready - over})  BY <2>2
    <3>2. wanted \in Nat /\ wanted <= pending_cnt /\ wanted <= ready - over
      <4> DEFINE rest == ready - over
      <4>1. rest \in Nat  BY <2>1
      <4> HIDE DEF rest, wanted
      <4>2. wanted = Min({pending_cnt, rest})  BY <3>1 DEF rest
      <4>3. wanted \in Nat /\ wanted <= pending_cnt /\ wanted <= rest
        BY <1>3, <4>1, <4>2, MinOfTwo
      <4> QED  BY <4>3 DEF rest
    <3> HIDE DEF wanted, ready, over
    <3>3. pending_cnt' = pending_cnt - wanted  BY <1>2, <2>2
    <3> QED  BY <1>3, <2>1, <3>2, <3>3
  <2>3. CASE ~ch.burst
    <3>1. over = 0 /\ wanted = ready /\ pending_cnt' = pending_cnt  BY <1>2, <2>3
    <3> HIDE DEF wanted, ready, over
    <3> QED  BY <1>3, <1>6, <2>1, <3>1
  <2> QED  BY <2>2, <2>3
<1>9. Serves(q, over, wanted, old, given, back)
  <2> HIDE DEF q, over, wanted
  <2> QED  BY <1>3, <1>5, <1>7, <1>8, ServeFacts
<1>10. over \in Nat /\ wanted \in Nat  BY <1>7, <1>8
<1> DEFINE front == SubSeq(q, 1, over + wanted)
<1>11. match_cnt' = match_cnt - CountMatched(front)  BY <1>1
<1>12. /\ SoundQueue(back) /\ CountMatched(back) \in Nat /\ CountMatched(front) \in Nat
       /\ CountMatched(q) = CountMatched(front) + CountMatched(back)
       /\ BufsOf(q) = (BufsOf(old) \cup BufsOf(given)) \cup BufsOf(back)
       /\ BufsOf(old) \cap (BufsOf(given) \cup BufsOf(back)) = {}
       /\ BufsOf(given) \cap BufsOf(back) = {}
  BY <1>9 DEF Serves
<1>13. /\ delivered' \in Seq(Frames)
       /\ \A k \in DOMAIN delivered', s \in Bundled : Handled(s, delivered'[k])
       /\ \A k \in DOMAIN delivered', j \in DOMAIN back :
              back[j].matched => delivered'[k] < back[j].frame_idx
       /\ \A i, j \in DOMAIN delivered' : i < j => delivered'[i] < delivered'[j]
  <2> DEFINE d == delivered \o new
  <2>1. Serves(superbuf_queue, over, wanted, old, given, back)  BY <1>9
  <2>2. d = delivered \o [i \in 1..wanted |-> given[i].frame_idx]  OBVIOUS
  <2> HIDE DEF d, over, wanted, old, given, back, q
  <2>3. /\ d \in Seq(Frames)
        /\ \A k \in DOMAIN d, s \in Bundled : Handled(s, d[k])
        /\ \A k \in DOMAIN d, j \in DOMAIN back :
               back[j].matched => d[k] < back[j].frame_idx
        /\ \A i, j \in DOMAIN d : i < j => d[i] < d[j]
    BY <1>10, <2>1, <2>2, GivenInOrder
  <2>4. delivered' = d  BY <1>1 DEF d
  <2> QED  BY <2>3, <2>4
<1>14. \A s, f : Handled(s, f)' <=> Handled(s, f)  BY <1>2 DEF Handled, IsFrameOf
<1>15. Bundled' = Bundled /\ StopDone' = StopDone /\ Exact' = Exact
  BY <1>2, SameChannel
<1>16. BufsOf(superbuf_queue)' = BufsOf(back)  BY <1>1 DEF BufsOf, BufsAt
<1> HIDE DEF q, over, wanted, old, given, back, front, ready, new
<1>17. SuperbufTypes'
  <2>1. BufsOf(given) \subseteq ChStreams \X Frames  BY BufFacts
  <2>2. superbufs' \subseteq ChStreams \X Frames
    BY <1>1, <2>1 DEF SuperbufInv, SuperbufTypes
  <2>3. match_cnt' \in Int  BY <1>3, <1>11, <1>12
  <2>4. buf_refcnt' \in [ChStreams -> [Frames -> Nat]]
    <3>1. buf_refcnt \in [ChStreams -> [Frames -> Nat]]  BY DEF SuperbufInv, SuperbufTypes
    <3> QED  BY <1>1, <3>1 DEF ChannelQbuf, BufDone
  <2> QED
    BY <1>2, <1>8, <1>13, <1>15, <2>2, <2>3, <2>4 DEF SuperbufInv, SuperbufTypes
<1>18. CommandsInOrder'
  BY <1>2, <1>15 DEF SuperbufInv, CommandsInOrder, IsFrameOf
<1>19. SoundQueue(superbuf_queue)'  BY <1>1, <1>12, <1>15 DEF SoundQueue
<1>20. (stop_pc # StopDone => match_cnt = CountMatched(superbuf_queue))'
  <2>1. stop_pc # StopDone => match_cnt' = CountMatched(back)  BY <1>3, <1>11, <1>12
  <2> QED  BY <1>1, <1>2, <1>15, <2>1 DEF CountMatched
<1>21. FramesHandled'
  <2>1. \A b \in BufsOf(q) \cup superbufs : Handled(b[1], b[2])
    BY DEF SuperbufInv, FramesHandled, q
  <2>2. \A b \in shown : b[2] <= last_idx[b[1]]  BY DEF SuperbufInv, FramesHandled
  <2>3. BufsOf(q) \cap superbufs = {}  BY DEF SuperbufInv, FramesHandled, q
  <2>4. BufsOf(superbuf_queue)' \cup superbufs' \subseteq BufsOf(q) \cup superbufs
    BY <1>1, <1>12, <1>16
  <2>5. BufsOf(superbuf_queue)' \cap superbufs' = {}  BY <1>1, <1>12, <1>16, <2>3
  <2>6. \A b \in BufsOf(superbuf_queue)' \cup superbufs' : Handled(b[1], b[2])'
    BY <1>14, <2>1, <2>4
  <2> QED  BY <1>2, <2>2, <2>5, <2>6 DEF FramesHandled
<1>22. DeliveredInOrder'
  BY <1>1, <1>13, <1>14, <1>15 DEF DeliveredInOrder
<1>23. Fits(buf_refcnt, Held, shown)'
  <2> DEFINE B == BufsOf(old)
  <2>1. /\ B \subseteq BufsOf(q) /\ BufsOf(given) \subseteq BufsOf(q)
        /\ BufsOf(q) \ B = BufsOf(given) \cup BufsOf(back)
    BY <1>12
  <2>2. B \subseteq Held  BY <2>1 DEF Held, q
  <2>3. Exact => \A b \in B : b[1] \in known  BY <2>1, QueueKnown DEF q
  <2>4. active \subseteq ChStreams /\ Fits(buf_refcnt, Held, shown)
    BY DEF SuperbufInv, SuperbufTypes
  <2> HIDE DEF B
  <2>5. Fits(ChannelQbuf(buf_refcnt, B), Held \ B, shown)
    BY <2>2, <2>3, <2>4, QbufFacts
  <2>6. B \cap Commanded = {} /\ B \cap superbufs = {}
    BY <2>1, CommandedApart DEF SuperbufInv, FramesHandled, q
  <2>7. Commanded' = Commanded  BY <1>2 DEF Commanded, IsFrameOf
  <2>8. Held \ B = Commanded \cup BufsOf(back) \cup (superbufs \cup BufsOf(given))
    BY <2>1, <2>6 DEF Held, q
  <2>9. Held' = Held \ B  BY <1>1, <1>16, <2>7, <2>8 DEF Held
  <2>10. buf_refcnt' = ChannelQbuf(buf_refcnt, B)  BY <1>1 DEF B
  <2> QED  BY <1>2, <1>15, <2>5, <2>9, <2>10 DEF Fits, Count
<1>24. StoppingInOrder'  BY <1>2, SameChannel DEF SuperbufInv
<1> QED  BY <1>17, <1>18, <1>19, <1>20, <1>21, <1>22, <1>23, <1>24 DEF SuperbufInv

\* A buffer of a queue, of the client or of a command is of a frame that has arrived.
LEMMA HeldArrived ==
    ASSUME SuperbufInv, NEW b \in Held \cup shown
    PROVE  b \in ChStreams \X Frames /\ b[2] <= last_idx[b[1]]
<1>1. CASE b \in Commanded
  <2>1. b \in ChStreams \X Frames  BY <1>1, CommandedFacts
  <2>2. PICK i \in DOMAIN ch_cmds : IsFrameOf(ch_cmds[i], b[1]) /\ ch_cmds[i].frame = b[2]
    BY <1>1 DEF Commanded
  <2>3. b[1] \in ChStreams  BY <2>1
  <2>4. ch_cmds[i].frame <= last_idx[b[1]]  BY <2>2, <2>3 DEF SuperbufInv, CommandsInOrder
  <2> QED  BY <2>1, <2>2, <2>4
<1>2. CASE b \in BufsOf(superbuf_queue) \cup superbufs
  <2>1. b \in ChStreams \X Frames
    BY <1>2, BufFacts DEF SuperbufInv, SuperbufTypes
  <2>2. Handled(b[1], b[2])  BY <1>2 DEF SuperbufInv, FramesHandled
  <2> QED  BY <2>1, <2>2 DEF Handled
<1>3. CASE b \in shown
  BY <1>3 DEF SuperbufInv, SuperbufTypes, FramesHandled
<1> QED  BY <1>1, <1>2, <1>3 DEF Held

\* What the polling thread adds to the commands.
LEMMA CommandAdded ==
    ASSUME SuperbufInv, NEW c \in ChCommand, ch' = ch, ch_cmds' = Append(ch_cmds, c),
           \A s \in ChStreams : last_idx[s] <= last_idx'[s],
           \A s \in ChStreams : IsFrameOf(c, s) =>
               s \in Bundled /\ last_idx[s] < c.frame /\ c.frame <= last_idx'[s],
           last_idx' \in [ChStreams -> Nat]
    PROVE  /\ ch_cmds' \in Seq(ChCommand) /\ CommandsInOrder'
           /\ \A s \in ChStreams, n \in Nat : Handled(s, n) => Handled(s, n)'
           /\ \A b : b \in Commanded' <=>
                  b \in Commanded \/ (b \in ChStreams \X Frames /\ IsFrameOf(c, b[1])
                                      /\ c.frame = b[2])
<1>1. ch_cmds \in Seq(ChCommand) /\ last_idx \in [ChStreams -> Nat]
  BY DEF SuperbufInv, SuperbufTypes
<1> DEFINE L == Len(ch_cmds)
<1>2. /\ L \in Nat /\ DOMAIN ch_cmds = 1..L
      /\ ch_cmds' \in Seq(ChCommand) /\ DOMAIN ch_cmds' = 1..L + 1
      /\ \A i \in 1..L : ch_cmds'[i] = ch_cmds[i]
      /\ ch_cmds'[L + 1] = c
  BY <1>1
<1> HIDE DEF L
<1>3. \A i \in DOMAIN ch_cmds' : \/ i \in DOMAIN ch_cmds /\ ch_cmds'[i] = ch_cmds[i]
                                 \/ i = L + 1 /\ ch_cmds'[i] = c
  <2> TAKE i \in DOMAIN ch_cmds'
  <2>1. i \in 1..L \/ i = L + 1  BY <1>2
  <2> QED  BY <1>2, <2>1
<1>4. \A i \in DOMAIN ch_cmds, s \in ChStreams : IsFrameOf(ch_cmds[i], s) =>
          s \in Bundled /\ ch_cmds[i].frame <= last_idx[s] /\ ch_cmds[i].frame \in Frames
  <2> TAKE i \in DOMAIN ch_cmds, s \in ChStreams
  <2>1. ch_cmds[i] \in ChCommand  BY <1>1
  <2>2. IsFrameOf(ch_cmds[i], s) => ch_cmds[i].frame \in Frames
    BY <2>1, CommandFacts DEF IsFrameOf
  <2> QED  BY <2>2 DEF SuperbufInv, CommandsInOrder
<1>5. \A s \in ChStreams : IsFrameOf(c, s) => c.frame \in Frames
  BY CommandFacts DEF IsFrameOf
<1>6. Frames \subseteq Int  BY DEF Frames
<1>7. Bundled' = Bundled  BY SameChannel
<1>8. \A s \in ChStreams : last_idx[s] \in Int /\ last_idx'[s] \in Int
  <2> TAKE s \in ChStreams
  <2>1. last_idx[s] \in Nat /\ last_idx'[s] \in Nat  BY <1>1
  <2> QED  BY <2>1
<1>9. CommandsInOrder'
  <2>1. ASSUME NEW i \in DOMAIN ch_cmds', NEW s \in ChStreams, IsFrameOf(ch_cmds'[i], s)
        PROVE  s \in Bundled /\ ch_cmds'[i].frame <= last_idx'[s]
    <3>1. CASE i \in DOMAIN ch_cmds /\ ch_cmds'[i] = ch_cmds[i]
      <4>1. s \in Bundled /\ ch_cmds[i].frame <= last_idx[s] /\ ch_cmds[i].frame \in Frames
        BY <1>4, <2>1, <3>1
      <4>2. ch_cmds[i].frame \in Int /\ last_idx[s] \in Int /\ last_idx'[s] \in Int
        BY <1>6, <1>8, <4>1
      <4>3. last_idx[s] <= last_idx'[s]  OBVIOUS
      <4> QED  BY <3>1, <4>1, <4>2, <4>3
    <3>2. CASE i = L + 1 /\ ch_cmds'[i] = c  BY <2>1, <3>2
    <3> QED  BY <1>3, <3>1, <3>2
  <2>2. ASSUME NEW i \in DOMAIN ch_cmds', NEW j \in DOMAIN ch_cmds', NEW s \in ChStreams,
               i < j, IsFrameOf(ch_cmds'[i], s), IsFrameOf(ch_cmds'[j], s)
        PROVE  ch_cmds'[i].frame < ch_cmds'[j].frame
    <3>1. i \in DOMAIN ch_cmds /\ ch_cmds'[i] = ch_cmds[i]  BY <1>2, <2>2
    <3>2. CASE j \in DOMAIN ch_cmds /\ ch_cmds'[j] = ch_cmds[j]
      BY <2>2, <3>1, <3>2 DEF SuperbufInv, CommandsInOrder
    <3>3. CASE j = L + 1 /\ ch_cmds'[j] = c
      <4>1. ch_cmds[i].frame <= last_idx[s] /\ ch_cmds[i].frame \in Int
        BY <1>4, <1>6, <2>2, <3>1
      <4>2. IsFrameOf(c, s)  BY <2>2, <3>3
      <4>3. last_idx[s] < c.frame /\ c.frame \in Int /\ last_idx[s] \in Int
        BY <1>5, <1>6, <1>8, <4>2
      <4> QED  BY <3>1, <3>3, <4>1, <4>3
    <3> QED  BY <1>3, <3>2, <3>3
  <2> QED  BY <1>7, <2>1, <2>2 DEF CommandsInOrder, IsFrameOf
<1>10. ASSUME NEW s \in ChStreams, NEW n \in Nat, Handled(s, n)  PROVE Handled(s, n)'
  <2>1. n <= last_idx[s] /\ last_idx[s] <= last_idx'[s]  BY <1>10 DEF Handled
  <2>2. last_idx[s] \in Nat /\ last_idx'[s] \in Nat  BY <1>1
  <2>3. n <= last_idx'[s]  BY <2>1, <2>2
  <2>4. ASSUME NEW i \in DOMAIN ch_cmds', IsFrameOf(ch_cmds'[i], s)
        PROVE  n < ch_cmds'[i].frame
    <3>1. CASE i \in DOMAIN ch_cmds /\ ch_cmds'[i] = ch_cmds[i]
      BY <1>10, <2>4, <3>1 DEF Handled
    <3>2. CASE i = L + 1 /\ ch_cmds'[i] = c
      <4>1. last_idx[s] < c.frame /\ c.frame \in Int  BY <1>5, <1>6, <2>4, <3>2
      <4> QED  BY <2>1, <2>2, <3>2, <4>1
    <3> QED  BY <1>3, <3>1, <3>2
  <2> QED  BY <2>3, <2>4 DEF Handled, IsFrameOf
<1>11. ASSUME NEW b
       PROVE  b \in Commanded' <=>
              b \in Commanded \/ (b \in ChStreams \X Frames /\ IsFrameOf(c, b[1])
                                  /\ c.frame = b[2])
  <2>1. b \in Commanded' <=>
        b \in ChStreams \X Frames
        /\ \E i \in DOMAIN ch_cmds' : IsFrameOf(ch_cmds'[i], b[1]) /\ ch_cmds'[i].frame = b[2]
    BY DEF Commanded, IsFrameOf
  <2>2. b \in Commanded <=>
        b \in ChStreams \X Frames
        /\ \E i \in DOMAIN ch_cmds : IsFrameOf(ch_cmds[i], b[1]) /\ ch_cmds[i].frame = b[2]
    BY DEF Commanded
  <2>3. ASSUME NEW i \in DOMAIN ch_cmds', IsFrameOf(ch_cmds'[i], b[1]),
               ch_cmds'[i].frame = b[2]
        PROVE  \/ \E j \in DOMAIN ch_cmds : IsFrameOf(ch_cmds[j], b[1])
                                            /\ ch_cmds[j].frame = b[2]
               \/ IsFrameOf(c, b[1]) /\ c.frame = b[2]
    BY <1>3, <2>3
  <2>4. ASSUME NEW i \in DOMAIN ch_cmds, IsFrameOf(ch_cmds[i], b[1]),
               ch_cmds[i].frame = b[2]
        PROVE  \E j \in DOMAIN ch_cmds' : IsFrameOf(ch_cmds'[j], b[1])
                                          /\ ch_cmds'[j].frame = b[2]
    BY <1>2, <2>4
  <2>5. ASSUME IsFrameOf(c, b[1]), c.frame = b[2]
        PROVE  \E j \in DOMAIN ch_cmds' : IsFrameOf(ch_cmds'[j], b[1])
                                          /\ ch_cmds'[j].frame = b[2]
    <3>1. L + 1 \in DOMAIN ch_cmds'  BY <1>2
    <3> QED  BY <1>2, <2>5, <3>1
  <2> QED  BY <2>1, <2>2, <2>3, <2>4, <2>5
<1> QED  BY <1>2, <1>9, <1>10, <1>11

\* The order of the frames, when what was handled still is.
LEMMA StillInOrder ==
    ASSUME SuperbufInv, ch' = ch, UNCHANGED <<superbuf_queue, delivered>>,
           \A s \in ChStreams, n \in Nat : Handled(s, n) => Handled(s, n)'
    PROVE  /\ SoundQueue(superbuf_queue)'
           /\ DeliveredInOrder'
           /\ \A b \in BufsOf(superbuf_queue) \cup superbufs : Handled(b[1], b[2])'
           /\ BufsOf(superbuf_queue)' = BufsOf(superbuf_queue)
<1>1. Bundled' = Bundled /\ \A q : SoundQueue(q) => SoundQueue(q)'  BY SameChannel
<1>2. SoundQueue(superbuf_queue)'  BY <1>1 DEF SuperbufInv, SoundQueue
<1>3. Frames \subseteq Nat  BY DEF Frames
<1>4. \A b \in BufsOf(superbuf_queue) \cup superbufs : Handled(b[1], b[2])'
  <2> TAKE b \in BufsOf(superbuf_queue) \cup superbufs
  <2>1. b \in ChStreams \X Frames  BY BufFacts DEF SuperbufInv, SuperbufTypes
  <2>2. b[1] \in ChStreams /\ b[2] \in Nat  BY <1>3, <2>1
  <2>3. Handled(b[1], b[2])  BY DEF SuperbufInv, FramesHandled
  <2> QED  BY <2>2, <2>3
<1>5. DeliveredInOrder'
  <2>1. \A k \in DOMAIN delivered, s \in Bundled : Handled(s, delivered[k])'
    <3> TAKE k \in DOMAIN delivered, s \in Bundled
    <3>1. s \in ChStreams  BY BundledFinite DEF SuperbufInv, SuperbufTypes
    <3>2. delivered[k] \in Nat
      <4>1. delivered \in Seq(Frames)  BY DEF SuperbufInv, SuperbufTypes
      <4>2. delivered[k] \in Frames  BY <4>1
      <4> QED  BY <1>3, <4>2
    <3>3. Handled(s, delivered[k])  BY DEF SuperbufInv, DeliveredInOrder
    <3> QED  BY <3>1, <3>2, <3>3
  <2>2. /\ \A k \in DOMAIN delivered, j \in DOMAIN superbuf_queue :
               superbuf_queue[j].matched => delivered[k] < superbuf_queue[j].frame_idx
        /\ \A i, j \in DOMAIN delivered : i < j => delivered[i] < delivered[j]
    BY DEF SuperbufInv, DeliveredInOrder
  <2> QED  BY <1>1, <2>1, <2>2 DEF DeliveredInOrder
<1>6. BufsOf(superbuf_queue)' = BufsOf(superbuf_queue)  BY DEF BufsOf, BufsAt
<1> QED  BY <1>2, <1>4, <1>5, <1>6

\* A step that changes nothing of the commands.
LEMMA SameCommands ==
    ASSUME SuperbufInv, UNCHANGED <<ch, ch_cmds, last_idx>>
    PROVE  /\ CommandsInOrder' /\ Commanded' = Commanded
           /\ \A s, n : Handled(s, n)' <=> Handled(s, n)
<1>1. Bundled' = Bundled  BY SameChannel
<1> QED  BY <1>1 DEF SuperbufInv, CommandsInOrder, Commanded, Handled, IsFrameOf

\* A frame arrives.
LEMMA ArriveStep ==
    ASSUME SuperbufInv, NEW s \in ChStreams, NEW f \in Frames, FrameArrives(s, f)
    PROVE  SuperbufInv'
<1> DEFINE bundled == s \in known
           skipped == s = "preview" /\ previewSkipCnt > 0
           shows == s \in ch.callbacks /\ ~skipped
           refs == (IF bundled THEN 1 ELSE 0) + (IF shows THEN 1 ELSE 0)
           c == [type |-> "DATA", stream |-> s, frame |-> f]
           b0 == <<s, f>>
<1>1. /\ f \in last_idx[s] + 1..last_idx[s] + 2
      /\ last_idx' = [last_idx EXCEPT ![s] = f]
      /\ buf_refcnt' = [buf_refcnt EXCEPT ![s][f] = refs]
      /\ ch_cmds' = IF bundled THEN Append(ch_cmds, c) ELSE ch_cmds
      /\ shown' = IF shows THEN shown \cup {b0} ELSE shown
  BY DEF FrameArrives
<1>2. UNCHANGED <<ch, active, known, superbuf_queue, match_cnt, pending_cnt, superbufs,
                  delivered, stop_pc>>
  BY DEF FrameArrives
<1>3. /\ last_idx \in [ChStreams -> Nat] /\ ch_cmds \in Seq(ChCommand)
      /\ known \subseteq Bundled
      /\ buf_refcnt \in [ChStreams -> [Frames -> Nat]] /\ active \subseteq ChStreams
  BY DEF SuperbufInv, SuperbufTypes
<1>4. f \in Nat  BY DEF Frames
<1>5. /\ last_idx' \in [ChStreams -> Nat] /\ last_idx[s] < f /\ last_idx'[s] = f
      /\ \A t \in ChStreams : last_idx[t] <= last_idx'[t]
  BY <1>1, <1>3, <1>4
<1>6. Bundled' = Bundled /\ StopDone' = StopDone /\ Exact' = Exact /\ StoppingInOrder'
  BY <1>2, SameChannel DEF SuperbufInv
<1>7. b0 \notin Held /\ b0 \notin shown
  <2>1. ASSUME b0 \in Held \cup shown  PROVE FALSE
    <3> DEFINE b == b0
    <3>1. b[1] = s /\ b[2] = f  OBVIOUS
    <3> HIDE DEF b
    <3>2. b[2] <= last_idx[b[1]]  BY <2>1, HeldArrived DEF b
    <3> QED  BY <1>3, <1>4, <1>5, <3>1, <3>2
  <2> QED  BY <2>1
<1>8. /\ ch_cmds' \in Seq(ChCommand) /\ CommandsInOrder'
      /\ \A t \in ChStreams, n \in Nat : Handled(t, n) => Handled(t, n)'
      /\ Commanded' = IF bundled THEN Commanded \cup {b0} ELSE Commanded
  <2>1. CASE bundled
    <3>1. c \in ChCommand /\ c.type = "DATA" /\ c.stream = s /\ c.frame = f
      BY DEF ChCommand
    <3>2. ch_cmds' = Append(ch_cmds, c)  BY <1>1, <2>1
    <3>3. s \in Bundled  BY <1>3, <2>1
    <3> HIDE DEF c
    <3>4. \A t \in ChStreams : IsFrameOf(c, t) =>
              t \in Bundled /\ last_idx[t] < c.frame /\ c.frame <= last_idx'[t]
      BY <1>4, <1>5, <3>1, <3>3 DEF IsFrameOf
    <3>5. /\ ch_cmds' \in Seq(ChCommand) /\ CommandsInOrder'
          /\ \A t \in ChStreams, n \in Nat : Handled(t, n) => Handled(t, n)'
          /\ \A b : b \in Commanded' <=>
                 b \in Commanded \/ (b \in ChStreams \X Frames /\ IsFrameOf(c, b[1])
                                     /\ c.frame = b[2])
      BY <1>2, <1>5, <3>1, <3>2, <3>4, CommandAdded
    <3>6. \A b : (b \in ChStreams \X Frames /\ IsFrameOf(c, b[1]) /\ c.frame = b[2])
                 <=> b = b0
      BY <3>1 DEF IsFrameOf
    <3>7. Commanded' = Commanded \cup {b0}  BY <3>5, <3>6
    <3> QED  BY <2>1, <3>5, <3>7
  <2>2. CASE ~bundled
    <3>1. ch_cmds' = ch_cmds  BY <1>1, <2>2
    <3>2. Commanded' = Commanded  BY <3>1 DEF Commanded, IsFrameOf
    <3>3. \A t \in ChStreams, n \in Nat : Handled(t, n) => Handled(t, n)'
      BY <1>3, <1>5, <3>1 DEF Handled, IsFrameOf
    <3>4. CommandsInOrder'
      <4>1. \A i \in DOMAIN ch_cmds, t \in ChStreams : IsFrameOf(ch_cmds[i], t) =>
                t \in Bundled /\ ch_cmds[i].frame <= last_idx'[t]
        <5> TAKE i \in DOMAIN ch_cmds, t \in ChStreams
        <5>1. SUFFICES ASSUME IsFrameOf(ch_cmds[i], t)
                       PROVE  t \in Bundled /\ ch_cmds[i].frame <= last_idx'[t]
          OBVIOUS
        <5>2. t \in Bundled /\ ch_cmds[i].frame <= last_idx[t]
          BY <5>1 DEF SuperbufInv, CommandsInOrder
        <5>3. ch_cmds[i] \in ChCommand  BY <1>3
        <5>4. ch_cmds[i].frame \in Int
          BY <5>1, <5>3, CommandFacts DEF IsFrameOf, Frames
        <5>5. last_idx[t] \in Int /\ last_idx'[t] \in Int /\ last_idx[t] <= last_idx'[t]
          BY <1>3, <1>5
        <5> QED  BY <5>2, <5>4, <5>5
      <4>2. \A i, j \in DOMAIN ch_cmds, t \in ChStreams :
                i < j /\ IsFrameOf(ch_cmds[i], t) /\ IsFrameOf(ch_cmds[j], t)
                => ch_cmds[i].frame < ch_cmds[j].frame
        BY DEF SuperbufInv, CommandsInOrder
      <4> QED  BY <1>6, <3>1, <4>1, <4>2 DEF CommandsInOrder, IsFrameOf
    <3> QED  BY <1>3, <2>2, <3>1, <3>2, <3>3, <3>4
  <2> QED  BY <2>1, <2>2
<1>9. /\ SoundQueue(superbuf_queue)' /\ DeliveredInOrder'
      /\ \A b \in BufsOf(superbuf_queue) \cup superbufs : Handled(b[1], b[2])'
      /\ BufsOf(superbuf_queue)' = BufsOf(superbuf_queue)
  BY <1>2, <1>8, StillInOrder
<1>10. b0 \in ChStreams \X Frames /\ b0[1] = s /\ b0[2] = f  OBVIOUS
<1>11. FramesHandled'
  <2>1. \A b \in shown' : b[2] <= last_idx'[b[1]]
    <3> TAKE b \in shown'
    <3>1. CASE b \in shown
      <4>1. b \in ChStreams \X Frames /\ b[2] <= last_idx[b[1]]
        BY <3>1, HeldArrived
      <4>2. b[1] \in ChStreams /\ b[2] \in Int  BY <4>1 DEF Frames
      <4>3. /\ last_idx[b[1]] \in Int /\ last_idx'[b[1]] \in Int
            /\ last_idx[b[1]] <= last_idx'[b[1]]
        BY <1>3, <1>5, <4>2
      <4> QED  BY <4>1, <4>2, <4>3
    <3>2. CASE b = b0  BY <1>4, <1>5, <1>10, <3>2
    <3> QED  BY <1>1, <3>1, <3>2
  <2>2. BufsOf(superbuf_queue) \cap superbufs = {}  BY DEF SuperbufInv, FramesHandled
  <2> QED  BY <1>2, <1>9, <2>1, <2>2 DEF FramesHandled
<1>12. buf_refcnt' \in [ChStreams -> [Frames -> Nat]]
       /\ \A t \in ChStreams, n \in Frames :
              buf_refcnt'[t][n] = IF t = s /\ n = f THEN refs ELSE buf_refcnt[t][n]
  <2>1. refs \in Nat  OBVIOUS
  <2> HIDE DEF refs
  <2> QED  BY <1>1, <1>3, <2>1
<1>13. Fits(buf_refcnt, Held, shown)'
  <2>1. Fits(buf_refcnt, Held, shown)  BY DEF SuperbufInv
  <2>2. Held' = IF bundled THEN Held \cup {b0} ELSE Held
    BY <1>2, <1>8, <1>9 DEF Held
  <2>3. ASSUME NEW t \in active, NEW n \in Frames
        PROVE  /\ buf_refcnt'[t][n] >= Count(<<t, n>>, Held', shown')
               /\ Exact => buf_refcnt'[t][n] = Count(<<t, n>>, Held', shown')
    <3>0. t \in ChStreams  BY <1>3
    <3>1. CASE t = s /\ n = f
      <4>1. <<t, n>> = b0  BY <3>1
      <4>2. b0 \in Held' <=> bundled  BY <1>7, <2>2
      <4>3. b0 \in shown' <=> shows  BY <1>1, <1>7
      <4>4. Count(b0, Held', shown') = refs
        <5> HIDE DEF b0, bundled, shows
        <5> QED  BY <4>2, <4>3 DEF Count
      <4>5. buf_refcnt'[t][n] = refs /\ refs \in Nat  BY <1>12, <3>0, <3>1
      <4> QED  BY <4>1, <4>4, <4>5
    <3>2. CASE ~(t = s /\ n = f)
      <4>1. <<t, n>> # b0  BY <3>2
      <4>2. (<<t, n>> \in Held' <=> <<t, n>> \in Held)
            /\ (<<t, n>> \in shown' <=> <<t, n>> \in shown)
        <5> HIDE DEF b0, bundled, shows
        <5> QED  BY <1>1, <2>2, <4>1
      <4>3. Count(<<t, n>>, Held', shown') = Count(<<t, n>>, Held, shown)
        BY <4>2 DEF Count
      <4>4. buf_refcnt'[t][n] = buf_refcnt[t][n]  BY <1>12, <3>0, <3>2
      <4> QED  BY <2>1, <4>3, <4>4 DEF Fits
    <3> QED  BY <3>1, <3>2
  <2> QED  BY <1>2, <1>6, <1>12, <2>3 DEF Fits, Count
<1>14. SuperbufTypes'
  <2>1. shown' \subseteq ChStreams \X Frames
    BY <1>1, <1>10 DEF SuperbufInv, SuperbufTypes
  <2> HIDE DEF b0, bundled, shows, refs, c
  <2> QED
    BY <1>2, <1>5, <1>6, <1>8, <1>12, <2>1 DEF SuperbufInv, SuperbufTypes
<1>15. (stop_pc # StopDone => match_cnt = CountMatched(superbuf_queue))'
  BY <1>2, <1>6 DEF SuperbufInv, CountMatched
<1> QED  BY <1>6, <1>8, <1>9, <1>11, <1>13, <1>14, <1>15 DEF SuperbufInv

\* A step of a client: it only gives back buffers.
Quiet ==
    /\ UNCHANGED <<ch, last_idx, active, known, ch_cmds, superbuf_queue, match_cnt,
                   pending_cnt, delivered, stop_pc>>
    /\ shown' \subseteq shown /\ superbufs' \subseteq superbufs
    /\ Fits(buf_refcnt', (Commanded \cup BufsOf(superbuf_queue)) \cup superbufs', shown')

\* Then the invariant stays.
LEMMA QuietStep ==
    ASSUME SuperbufInv, Quiet
    PROVE  SuperbufInv'
<1>1. /\ UNCHANGED <<ch, last_idx, active, known, ch_cmds, superbuf_queue, match_cnt,
                     pending_cnt, delivered, stop_pc>>
      /\ shown' \subseteq shown /\ superbufs' \subseteq superbufs
      /\ Fits(buf_refcnt', (Commanded \cup BufsOf(superbuf_queue)) \cup superbufs', shown')
  BY DEF Quiet
<1>2. /\ Bundled' = Bundled /\ StopDone' = StopDone /\ Exact' = Exact /\ StoppingInOrder'
  BY <1>1, SameChannel DEF SuperbufInv
<1>3. /\ CommandsInOrder' /\ Commanded' = Commanded
      /\ \A s, n : Handled(s, n)' <=> Handled(s, n)
  BY <1>1, SameCommands
<1>4. /\ SoundQueue(superbuf_queue)' /\ DeliveredInOrder'
      /\ \A b \in BufsOf(superbuf_queue) \cup superbufs : Handled(b[1], b[2])'
      /\ BufsOf(superbuf_queue)' = BufsOf(superbuf_queue)
  BY <1>1, <1>3, StillInOrder
<1>5. FramesHandled'
  <2>1. BufsOf(superbuf_queue)' \cup superbufs' \subseteq BufsOf(superbuf_queue) \cup superbufs
    BY <1>1, <1>4
  <2>2. \A b \in shown : b[2] <= last_idx[b[1]]  BY DEF SuperbufInv, FramesHandled
  <2>3. BufsOf(superbuf_queue) \cap superbufs = {}  BY DEF SuperbufInv, FramesHandled
  <2> QED  BY <1>1, <1>4, <2>1, <2>2, <2>3 DEF FramesHandled
<1>6. SuperbufTypes'
  <2>1. buf_refcnt' \in [ChStreams -> [Frames -> Nat]]  BY <1>1 DEF Fits
  <2> QED  BY <1>1, <1>2, <2>1 DEF SuperbufInv, SuperbufTypes
<1>7. (stop_pc # StopDone => match_cnt = CountMatched(superbuf_queue))'
  BY <1>1, <1>2 DEF SuperbufInv, CountMatched
<1>8. Fits(buf_refcnt, Held, shown)'
  BY <1>1, <1>2, <1>3, <1>4 DEF Held, Fits, Count
<1> QED  BY <1>2, <1>3, <1>4, <1>5, <1>6, <1>7, <1>8 DEF SuperbufInv

\* A buffer comes back from a callback.
LEMMA ShownStep ==
    ASSUME SuperbufInv, NEW s \in ChStreams, NEW f \in Frames, ReturnShown(s, f)
    PROVE  SuperbufInv'
<1> DEFINE B == {<<s, f>>}
<1>1. /\ B \subseteq shown /\ shown' = shown \ B /\ buf_refcnt' = BufDone(buf_refcnt, B)
      /\ UNCHANGED <<ch, last_idx, active, known, ch_cmds, superbuf_queue, match_cnt,
                     pending_cnt, superbufs, delivered, stop_pc>>
  BY DEF ReturnShown, streamVars, queueVars
<1> HIDE DEF B
<1>2. Fits(buf_refcnt', Held, shown')
  <2>1. active \subseteq ChStreams /\ Fits(buf_refcnt, Held, shown)
    BY DEF SuperbufInv, SuperbufTypes
  <2>2. Fits(BufDone(buf_refcnt, B), Held, shown \ B)  BY <1>1, <2>1, ShownReturned
  <2> QED  BY <1>1, <2>2
<1>3. shown' \subseteq shown  BY <1>1
<1>4. Quiet  BY <1>1, <1>2, <1>3 DEF Quiet, Held
<1> QED  BY <1>4, QuietStep

\* A superbuf's buffers come back from the client.
LEMMA SuperbufReturned ==
    ASSUME SuperbufInv, NEW f \in Frames, ReturnSuperbuf(f)
    PROVE  SuperbufInv'
<1> DEFINE B == {b \in superbufs : b[2] = f}
<1>1. /\ superbufs' = superbufs \ B /\ buf_refcnt' = BufDone(buf_refcnt, B)
      /\ UNCHANGED <<ch, last_idx, active, known, ch_cmds, superbuf_queue, match_cnt,
                     pending_cnt, shown, delivered, stop_pc>>
  BY DEF ReturnSuperbuf, streamVars, queueVars
<1>2. B \subseteq superbufs  OBVIOUS
<1> HIDE DEF B
<1>3. Fits(BufDone(buf_refcnt, B), Held \ B, shown)
  <2>1. active \subseteq ChStreams /\ Fits(buf_refcnt, Held, shown)
    BY DEF SuperbufInv, SuperbufTypes
  <2>2. B \subseteq Held  BY <1>2 DEF Held
  <2> QED  BY <2>1, <2>2, HeldReturned
<1>4. Held \ B = (Commanded \cup BufsOf(superbuf_queue)) \cup superbufs'
  <2>1. BufsOf(superbuf_queue) \cap B = {}  BY <1>2 DEF SuperbufInv, FramesHandled
  <2>2. Commanded \cap B = {}  BY <1>2, CommandedApart
  <2> QED  BY <1>1, <2>1, <2>2 DEF Held
<1>5. Fits(buf_refcnt', (Commanded \cup BufsOf(superbuf_queue)) \cup superbufs', shown')
  BY <1>1, <1>3, <1>4
<1>6. superbufs' \subseteq superbufs  BY <1>1
<1>7. Quiet  BY <1>1, <1>5, <1>6 DEF Quiet
<1> QED  BY <1>7, QuietStep

\* The client asks for something.
LEMMA ClientStep ==
    ASSUME SuperbufInv, NEW c \in Requests, ClientCommand(c)
    PROVE  SuperbufInv'
<1>1. /\ c.type # "DATA" /\ ch_cmds' = Append(ch_cmds, c)
      /\ UNCHANGED <<ch, buf_refcnt, last_idx, active, known, superbuf_queue, match_cnt,
                     pending_cnt, shown, superbufs, delivered, stop_pc>>
  BY DEF ClientCommand, streamVars, queueVars, clientVars
<1>2. c \in ChCommand  BY SuperbufInputsAssumption
<1>3. last_idx \in [ChStreams -> Nat]  BY DEF SuperbufInv, SuperbufTypes
<1>4. /\ \A s \in ChStreams : last_idx[s] <= last_idx'[s]
      /\ \A s \in ChStreams : IsFrameOf(c, s) =>
             s \in Bundled /\ last_idx[s] < c.frame /\ c.frame <= last_idx'[s]
      /\ last_idx' \in [ChStreams -> Nat]
  <2>1. \A s \in ChStreams : last_idx[s] \in Nat  BY <1>3
  <2>2. \A s : ~IsFrameOf(c, s)  BY <1>1 DEF IsFrameOf
  <2> QED  BY <1>1, <1>3, <2>1, <2>2
<1>5. /\ ch_cmds' \in Seq(ChCommand) /\ CommandsInOrder'
      /\ \A s \in ChStreams, n \in Nat : Handled(s, n) => Handled(s, n)'
      /\ \A b : b \in Commanded' <=>
             b \in Commanded \/ (b \in ChStreams \X Frames /\ IsFrameOf(c, b[1])
                                 /\ c.frame = b[2])
  BY <1>1, <1>2, <1>4, CommandAdded
<1>6. Commanded' = Commanded
  <2>1. \A s : ~IsFrameOf(c, s)  BY <1>1 DEF IsFrameOf
  <2> QED  BY <1>5, <2>1
<1>7. /\ Bundled' = Bundled /\ StopDone' = StopDone /\ Exact' = Exact /\ StoppingInOrder'
  BY <1>1, SameChannel DEF SuperbufInv
<1>8. /\ SoundQueue(superbuf_queue)' /\ DeliveredInOrder'
      /\ \A b \in BufsOf(superbuf_queue) \cup superbufs : Handled(b[1], b[2])'
      /\ BufsOf(superbuf_queue)' = BufsOf(superbuf_queue)
  BY <1>1, <1>5, StillInOrder
<1>9. FramesHandled'
  BY <1>1, <1>8 DEF SuperbufInv, FramesHandled
<1>10. SuperbufTypes'
  BY <1>1, <1>5, <1>7 DEF SuperbufInv, SuperbufTypes
<1>11. (stop_pc # StopDone => match_cnt = CountMatched(superbuf_queue))'
  BY <1>1, <1>7 DEF SuperbufInv, CountMatched
<1>12. Fits(buf_refcnt, Held, shown)'
  BY <1>1, <1>6, <1>7, <1>8 DEF SuperbufInv, Held, Fits, Count
<1> QED  BY <1>5, <1>7, <1>8, <1>9, <1>10, <1>11, <1>12 DEF SuperbufInv

\* How far stopping goes.
LEMMA StopNumbers ==
    ASSUME ch \in Setups
    PROVE  /\ Cardinality(Bundled) \in Nat
           /\ AllStopped = 2 * Cardinality(Bundled) + 1
           /\ StopDone = 2 * Cardinality(Bundled) + 2
<1>1. Cardinality(Bundled) \in Nat  BY BundledFinite
<1> QED  BY <1>1 DEF AllStopped, StopDone

\* Of a set with nothing there is one sequence.
LEMMA NothingToSeq == SetToSeq({}) = << >>
<1>1. Cardinality({}) = 0  BY FS_EmptySet
<1>2. SetToSeq({}) = CHOOSE x \in [1..Cardinality({}) -> {}] : IsInjective(x)
  BY DEF SetToSeq
<1>3. << >> \in [1..0 -> {}]  OBVIOUS
<1>4. DOMAIN << >> = {}  OBVIOUS
<1>5. IsInjective(<< >>)  BY <1>4 DEF IsInjective
<1>6. SetToSeq({}) \in [1..0 -> {}]  BY <1>1, <1>2, <1>3, <1>5
<1> DEFINE r == SetToSeq({})
<1>7. r \in [1..0 -> {}]  BY <1>6
<1> HIDE DEF r
<1>8. r \in Seq({}) /\ Len(r) = 0  BY <1>7
<1>9. r = << >>  BY <1>8
<1> QED  BY <1>9 DEF r

\* Without a borrowed stream each of the channel's is stopped.
LEMMA StopOrderFacts ==
    ASSUME ch \in Setups, ch.linked = {}, NEW s \in Bundled
    PROVE  \E k \in 1..Cardinality(Bundled) : StopOrder[k] = s
<1> DEFINE array == ch.streams \o SetToSeq(ch.linked)
           n == Len(array)
           meta == {i \in DOMAIN ch.streams : ch.streams[i] = "metadata"}
           m == IF meta = {} THEN 1 ELSE Min(meta)
<1>1. ch.streams \in Seq(ChStreams) /\ IsInjective(ch.streams)  BY MmSuperbufAssumption
<1>2. array = ch.streams
  <2>1. ch.streams \o << >> = ch.streams  BY <1>1, ConcatEmptySeq
  <2> QED  BY <2>1, NothingToSeq
<1>3. n \in Nat /\ DOMAIN ch.streams = 1..n  BY <1>1, <1>2
<1>4. Bundled = {ch.streams[i] : i \in 1..n}
  BY <1>3 DEF Bundled, ToSet
<1>5. Cardinality(Bundled) = n
  <2> DEFINE f == ch.streams
  <2>1. f \in [1..n -> Bundled]  BY <1>1, <1>3, <1>4
  <2>2. f \in Surjection(1..n, Bundled)  BY <1>4, <2>1 DEF Surjection
  <2>3. f \in Injection(1..n, Bundled)  BY <1>1, <2>1 DEF Injection
  <2>4. IsFiniteSet(1..n) /\ Cardinality(1..n) = n
    <3>1. 1 \in Nat /\ n \in Nat /\ 1 <= n + 1  BY <1>3
    <3> HIDE DEF n
    <3>2. IsFiniteSet(1..n) /\ Cardinality(1..n) = n - 1 + 1  BY <3>1, IntervalSize
    <3> QED  BY <3>1, <3>2
  <2> HIDE DEF n, f
  <2>5. Cardinality(Bundled) = Cardinality(1..n)  BY <2>2, <2>3, <2>4, FS_Surjection
  <2> QED  BY <2>4, <2>5
<1>6. PICK i \in 1..n : ch.streams[i] = s  BY <1>4
<1>7. m \in 1..n
  <2>1. CASE meta = {}  BY <1>3, <1>6, <2>1
  <2>2. CASE meta # {}
    <3>1. meta \in SUBSET Nat  BY <1>3
    <3>2. meta \subseteq 1..n  BY <1>3
    <3> HIDE DEF meta, n
    <3>3. Min(meta) \in meta  BY <2>2, <3>1, MinIsLeast
    <3> QED  BY <2>2, <3>2, <3>3
  <2> QED  BY <2>1, <2>2
<1>8. StopOrder = [j \in 1..n |-> IF j = m THEN array[n] ELSE IF j = n THEN array[m]
                                  ELSE array[j]]
  BY DEF StopOrder
<1> HIDE DEF m, n, array, meta
<1>9. n \in 1..n  BY <1>3, <1>7
<1>10. CASE i = m  BY <1>2, <1>5, <1>6, <1>7, <1>8, <1>9, <1>10
<1>11. CASE i = n  BY <1>2, <1>5, <1>6, <1>7, <1>8, <1>9, <1>11
<1>12. CASE i # m /\ i # n  BY <1>2, <1>5, <1>6, <1>8, <1>12
<1> QED  BY <1>10, <1>11, <1>12

\* A step of stopping that gives nothing back.
LEMMA StoppingStep ==
    ASSUME SuperbufInv, stop_pc' \in Nat, stop_pc # StopDone, Exact' => Exact,
           StoppingInOrder',
           UNCHANGED <<ch, buf_refcnt, last_idx, active, known, ch_cmds, superbuf_queue,
                       match_cnt, pending_cnt, shown, superbufs, delivered>>
    PROVE  SuperbufInv'
<1>1. /\ CommandsInOrder' /\ Commanded' = Commanded
      /\ \A s, n : Handled(s, n)' <=> Handled(s, n)
  BY SameCommands
<1>2. Bundled' = Bundled  BY SameChannel
<1>3. /\ SoundQueue(superbuf_queue)' /\ DeliveredInOrder'
      /\ \A b \in BufsOf(superbuf_queue) \cup superbufs : Handled(b[1], b[2])'
      /\ BufsOf(superbuf_queue)' = BufsOf(superbuf_queue)
  BY <1>1, StillInOrder
<1>4. FramesHandled'  BY <1>3 DEF SuperbufInv, FramesHandled
<1>5. SuperbufTypes'  BY <1>2 DEF SuperbufInv, SuperbufTypes
<1>6. (stop_pc # StopDone => match_cnt = CountMatched(superbuf_queue))'
  BY DEF SuperbufInv, CountMatched
<1>7. Fits(buf_refcnt, Held, shown)'
  BY <1>1, <1>3 DEF SuperbufInv, Held, Fits, Count
<1> QED  BY <1>1, <1>3, <1>4, <1>5, <1>6, <1>7 DEF SuperbufInv

\* Stopping begins.
LEMMA StopBegins ==
    ASSUME SuperbufInv, StopChannel
    PROVE  SuperbufInv'
<1>1. /\ stop_pc = 0 /\ stop_pc' = 1
      /\ UNCHANGED <<ch, buf_refcnt, last_idx, active, known, ch_cmds, superbuf_queue,
                     match_cnt, pending_cnt, shown, superbufs, delivered>>
  BY DEF StopChannel, streamVars, queueVars, clientVars
<1>2. Exact' => Exact  BY <1>1 DEF Exact
<1>3. stop_pc # StopDone
  <2>1. StopDone = 2 * Cardinality(Bundled) + 2 /\ Cardinality(Bundled) \in Nat
    BY StopNumbers DEF SuperbufInv, SuperbufTypes
  <2> QED  BY <1>1, <2>1
<1>4. StoppingInOrder'
  <2>1. Bundled' = Bundled /\ StopOrder' = StopOrder  BY <1>1 DEF Bundled, StopOrder
  <2>2. Cardinality(Bundled) \in Nat  BY StopNumbers DEF SuperbufInv, SuperbufTypes
  <2>3. \A k \in 1..Cardinality(Bundled) : 1 <= 2 * k  BY <2>2
  <2> QED  BY <1>1, <2>1, <2>3 DEF SuperbufInv, StoppingInOrder
<1>5. stop_pc' \in Nat  BY <1>1
<1> QED  BY <1>1, <1>2, <1>3, <1>4, <1>5, StoppingStep

\* The kernel stops.
LEMMA OffStep ==
    ASSUME SuperbufInv, StreamOff
    PROVE  SuperbufInv'
<1>1. /\ stop_pc \in 1..AllStopped - 1 /\ stop_pc % 2 = 1 /\ stop_pc' = stop_pc + 1
      /\ UNCHANGED <<ch, buf_refcnt, last_idx, active, known, ch_cmds, superbuf_queue,
                     match_cnt, pending_cnt, shown, superbufs, delivered>>
  BY DEF StreamOff, queueVars, clientVars
<1>2. /\ AllStopped = 2 * Cardinality(Bundled) + 1
      /\ StopDone = 2 * Cardinality(Bundled) + 2 /\ Cardinality(Bundled) \in Nat
  BY StopNumbers DEF SuperbufInv, SuperbufTypes
<1>3. stop_pc \in Nat /\ stop_pc # StopDone /\ stop_pc # 0 /\ stop_pc' \in Nat
  BY <1>1, <1>2
<1>4. Exact' => Exact
  <2>1. stop_pc' # 0  BY <1>1, <1>3
  <2> QED  BY <1>1, <2>1 DEF Exact
<1>5. StoppingInOrder'
  <2>1. Bundled' = Bundled /\ StopOrder' = StopOrder  BY <1>1 DEF Bundled, StopOrder
  <2>2. \A k \in 1..Cardinality(Bundled) : stop_pc <= 2 * k => stop_pc' <= 2 * k
    <3> TAKE k \in 1..Cardinality(Bundled)
    <3>1. k \in Nat  BY <1>2
    <3>2. (2 * k) % 2 = 0  BY <3>1
    <3> QED  BY <1>1, <1>3, <3>1, <3>2
  <2> QED  BY <1>1, <2>1, <2>2 DEF SuperbufInv, StoppingInOrder
<1> QED  BY <1>1, <1>3, <1>4, <1>5, StoppingStep

\* The stream's thread stops, and its references are reset.
LEMMA StoppedStep ==
    ASSUME SuperbufInv, StreamStopped
    PROVE  SuperbufInv'
<1> DEFINE s == StopOrder[Stopping]
<1>1. /\ stop_pc \in 1..AllStopped - 1 /\ stop_pc % 2 = 0 /\ stop_pc' = stop_pc + 1
      /\ active' = active \ {s}
      /\ buf_refcnt' = [buf_refcnt EXCEPT ![s] = [f \in Frames |-> 0]]
      /\ UNCHANGED <<ch, last_idx, known, ch_cmds, superbuf_queue, match_cnt, pending_cnt,
                     shown, superbufs, delivered>>
  BY DEF StreamStopped, queueVars, clientVars
<1>2. /\ AllStopped = 2 * Cardinality(Bundled) + 1
      /\ StopDone = 2 * Cardinality(Bundled) + 2 /\ Cardinality(Bundled) \in Nat
  BY StopNumbers DEF SuperbufInv, SuperbufTypes
<1>3. stop_pc \in Nat /\ stop_pc # StopDone /\ stop_pc # 0 /\ stop_pc' \in Nat
  BY <1>1, <1>2
<1>4. Exact' => Exact
  <2>1. stop_pc' # 0  BY <1>1, <1>3
  <2> QED  BY <1>1, <2>1 DEF Exact
<1>5. StoppingInOrder'
  <2>1. Bundled' = Bundled /\ StopOrder' = StopOrder  BY <1>1 DEF Bundled, StopOrder
  <2>2. \A k \in 1..Cardinality(Bundled) :
            stop_pc <= 2 * k => k = Stopping \/ stop_pc' <= 2 * k
    <3> TAKE k \in 1..Cardinality(Bundled)
    <3>1. k \in Nat  BY <1>2
    <3>2. CASE stop_pc = 2 * k
      <4>1. (2 * k + 1) \div 2 = k  BY <3>1
      <4> QED  BY <3>2, <4>1 DEF Stopping
    <3>3. CASE stop_pc # 2 * k  BY <1>1, <1>3, <3>1, <3>3
    <3> QED  BY <3>2, <3>3
  <2>3. \A t \in active' : t \in active /\ t # s  BY <1>1
  <2> QED  BY <1>1, <2>1, <2>2, <2>3 DEF SuperbufInv, StoppingInOrder
<1> HIDE DEF s
<1>6. /\ CommandsInOrder' /\ Commanded' = Commanded
      /\ \A t, n : Handled(t, n)' <=> Handled(t, n)
  BY <1>1, SameCommands
<1>7. Bundled' = Bundled  BY <1>1, SameChannel
<1>8. /\ SoundQueue(superbuf_queue)' /\ DeliveredInOrder'
      /\ \A b \in BufsOf(superbuf_queue) \cup superbufs : Handled(b[1], b[2])'
      /\ BufsOf(superbuf_queue)' = BufsOf(superbuf_queue)
  BY <1>1, <1>6, StillInOrder
<1>9. FramesHandled'  BY <1>1, <1>8 DEF SuperbufInv, FramesHandled
<1>10. /\ buf_refcnt' \in [ChStreams -> [Frames -> Nat]]
       /\ \A t \in ChStreams : t # s => buf_refcnt'[t] = buf_refcnt[t]
  <2>1. buf_refcnt \in [ChStreams -> [Frames -> Nat]]  BY DEF SuperbufInv, SuperbufTypes
  <2>2. [f \in Frames |-> 0] \in [Frames -> Nat]  OBVIOUS
  <2> QED  BY <1>1, <2>1, <2>2
<1>11. SuperbufTypes'
  BY <1>1, <1>3, <1>4, <1>7, <1>10 DEF SuperbufInv, SuperbufTypes
<1>12. (stop_pc # StopDone => match_cnt = CountMatched(superbuf_queue))'
  BY <1>1, <1>3 DEF SuperbufInv, CountMatched
<1>13. Fits(buf_refcnt, Held, shown)'
  <2>1. Fits(buf_refcnt, Held, shown) /\ active \subseteq ChStreams
    BY DEF SuperbufInv, SuperbufTypes
  <2>2. Held' = Held  BY <1>1, <1>6, <1>8 DEF Held
  <2>3. \A t \in active' : t \in active /\ buf_refcnt'[t] = buf_refcnt[t]
    BY <1>1, <1>10, <2>1
  <2> QED  BY <1>1, <1>4, <1>10, <2>1, <2>2, <2>3 DEF Fits, Count
<1> QED  BY <1>5, <1>6, <1>8, <1>9, <1>11, <1>12, <1>13 DEF SuperbufInv

\* The queue is freed.  No buffer is lost if the channel borrowed no stream, as none is
\* active any more.
LEMMA ChannelStoppedStep ==
    ASSUME SuperbufInv, ChannelStopped
    PROVE  SuperbufInv'
<1>1. /\ stop_pc = AllStopped /\ ch_cmds = << >> /\ superbuf_queue' = << >>
      /\ stop_pc' = StopDone
      /\ UNCHANGED <<ch, buf_refcnt, last_idx, active, known, ch_cmds, match_cnt,
                     pending_cnt, shown, superbufs, delivered>>
  BY DEF ChannelStopped, streamVars, clientVars
<1>2. /\ AllStopped = 2 * Cardinality(Bundled) + 1
      /\ StopDone = 2 * Cardinality(Bundled) + 2 /\ Cardinality(Bundled) \in Nat
  BY StopNumbers DEF SuperbufInv, SuperbufTypes
<1>3. stop_pc \in Nat /\ stop_pc # 0 /\ stop_pc' \in Nat /\ stop_pc' # 0
  BY <1>1, <1>2
<1>4. Bundled' = Bundled /\ StopDone' = StopDone /\ StopOrder' = StopOrder
  BY <1>1 DEF Bundled, StopDone, AllStopped, StopOrder
<1>5. Exact' <=> Exact  BY <1>1, <1>3 DEF Exact
<1>6. ch.linked = {} => active = {}
  <2>1. \A k \in 1..Cardinality(Bundled) : ~(stop_pc <= 2 * k)  BY <1>1, <1>2
  <2> QED  BY <2>1 DEF SuperbufInv, StoppingInOrder
<1>7. StoppingInOrder'  BY <1>1, <1>6 DEF StoppingInOrder
<1>8. /\ CommandsInOrder' /\ Commanded' = Commanded
      /\ \A t, n : Handled(t, n)' <=> Handled(t, n)
  BY <1>1, SameCommands
<1>9. superbuf_queue' \in Seq(Superbuf) /\ DOMAIN superbuf_queue' = {}  BY <1>1
<1>10. SoundQueue(superbuf_queue)'  BY <1>9 DEF SoundQueue
<1>11. BufsOf(superbuf_queue)' = {}
  <2>1. BufsOf(superbuf_queue') = {}  BY <1>9, BufFacts
  <2> QED  BY <2>1 DEF BufsOf, BufsAt
<1>12. FramesHandled'  BY <1>1, <1>8, <1>11 DEF SuperbufInv, FramesHandled
<1>13. DeliveredInOrder'
  BY <1>1, <1>4, <1>8, <1>9 DEF SuperbufInv, DeliveredInOrder
<1>14. SuperbufTypes'
  BY <1>1, <1>3, <1>4, <1>5 DEF SuperbufInv, SuperbufTypes
<1>15. (stop_pc # StopDone => match_cnt = CountMatched(superbuf_queue))'
  BY <1>1, <1>4
<1>16. Fits(buf_refcnt, Held, shown)'
  <2>1. Fits(buf_refcnt, Held, shown) /\ active \subseteq ChStreams
    BY DEF SuperbufInv, SuperbufTypes
  <2>2. Held' \subseteq Held  BY <1>1, <1>8, <1>11 DEF Held
  <2>3. CASE ch.linked = {}
    <3>1. active' = {}  BY <1>1, <1>6, <2>3
    <3> QED  BY <1>1, <2>1, <3>1 DEF Fits
  <2>4. CASE ch.linked # {}
    <3>1. ~Exact  BY <1>3, <2>4 DEF Exact
    <3> DEFINE held2 == Held'
    <3>2. held2 \subseteq Held  BY <2>2
    <3> HIDE DEF held2
    <3>3. Fits(buf_refcnt, held2, shown)  BY <2>1, <3>1, <3>2, FewerHold
    <3> QED  BY <1>1, <1>5, <3>3 DEF Fits, Count, held2
  <2> QED  BY <2>3, <2>4
<1> QED  BY <1>7, <1>8, <1>10, <1>12, <1>13, <1>14, <1>15, <1>16 DEF SuperbufInv

\* A borrowed stream is given back, and of the queue's buffers its own.
LEMMA UnlinkStep ==
    ASSUME SuperbufInv, Unlink
    PROVE  SuperbufInv'
<1> DEFINE s == StopOrder[Stopping]
           B == {b \in BufsOf(superbuf_queue) : b[1] = s}
           n == Len(superbuf_queue)
<1>1. /\ stop_pc \in 1..AllStopped - 1 /\ s \in ch.linked
      /\ Dequeue(n)
      /\ buf_refcnt' = ChannelQbuf(buf_refcnt, B)
      /\ known' = known \ {s} /\ stop_pc' = stop_pc + 2
      /\ UNCHANGED <<ch, last_idx, active, ch_cmds, pending_cnt, shown, superbufs,
                     delivered>>
  BY DEF Unlink, clientVars
<1>2. /\ AllStopped = 2 * Cardinality(Bundled) + 1
      /\ StopDone = 2 * Cardinality(Bundled) + 2 /\ Cardinality(Bundled) \in Nat
  BY StopNumbers DEF SuperbufInv, SuperbufTypes
<1>3. /\ stop_pc \in Nat /\ stop_pc # 0 /\ stop_pc # StopDone
      /\ stop_pc' \in Nat /\ stop_pc' # 0
  BY <1>1, <1>2
<1>4. ~Exact /\ ~Exact'  BY <1>1, <1>3 DEF Exact
<1>5. Bundled' = Bundled  BY <1>1, SameChannel
<1>6. StoppingInOrder'  BY <1>1 DEF StoppingInOrder
<1>7. /\ CommandsInOrder' /\ Commanded' = Commanded
      /\ \A t, k : Handled(t, k)' <=> Handled(t, k)
  BY <1>1, SameCommands
<1>8. superbuf_queue \in Seq(Superbuf)  BY DEF SuperbufInv, SoundQueue
<1>9. superbuf_queue' = << >> /\ match_cnt' = match_cnt - CountMatched(superbuf_queue)
  <2>1. SubSeq(superbuf_queue, 1, n) = superbuf_queue  BY <1>8, SubSeqFull
  <2>2. SubSeq(superbuf_queue, n + 1, n) = << >>  BY <1>8
  <2> QED  BY <1>1, <2>1, <2>2 DEF Dequeue
<1>10. CountMatched(<< >>) = 0
  <2>1. {i \in DOMAIN << >> : << >>[i].matched} = {}  OBVIOUS
  <2> QED  BY <2>1, FS_EmptySet DEF CountMatched
<1>11. match_cnt' = 0
  <2>1. match_cnt \in Int /\ match_cnt = CountMatched(superbuf_queue)
    BY <1>3 DEF SuperbufInv, SuperbufTypes
  <2> QED  BY <1>9, <2>1
<1>12. superbuf_queue' \in Seq(Superbuf) /\ DOMAIN superbuf_queue' = {}  BY <1>9
<1>13. SoundQueue(superbuf_queue)'  BY <1>12 DEF SoundQueue
<1>14. BufsOf(superbuf_queue)' = {}
  <2>1. BufsOf(superbuf_queue') = {}  BY <1>12, BufFacts
  <2> QED  BY <2>1 DEF BufsOf, BufsAt
<1>15. FramesHandled'  BY <1>1, <1>7, <1>14 DEF SuperbufInv, FramesHandled
<1>16. DeliveredInOrder'
  BY <1>1, <1>5, <1>7, <1>12 DEF SuperbufInv, DeliveredInOrder
<1>17. (stop_pc # StopDone => match_cnt = CountMatched(superbuf_queue))'
  BY <1>9, <1>10, <1>11 DEF CountMatched
<1> HIDE DEF B, s, n
<1>18. Fits(buf_refcnt, Held, shown)'
  <2>1. Fits(buf_refcnt, Held, shown) /\ active \subseteq ChStreams
    BY DEF SuperbufInv, SuperbufTypes
  <2>2. B \subseteq BufsOf(superbuf_queue)  BY DEF B
  <2>3. B \subseteq Held  BY <2>2 DEF Held
  <2>4. Fits(ChannelQbuf(buf_refcnt, B), Held \ B, shown)
    BY <1>4, <2>1, <2>3, QbufFacts
  <2> DEFINE held2 == Commanded \cup superbufs
             refcnt == ChannelQbuf(buf_refcnt, B)
  <2>5. held2 \subseteq Held \ B
    BY <2>2, CommandedApart DEF SuperbufInv, FramesHandled, Held
  <2> DEFINE held == Held \ B
  <2>6. Fits(refcnt, held, shown) /\ held2 \subseteq held  BY <2>4, <2>5
  <2>7. Held' = held2  BY <1>1, <1>7, <1>14 DEF Held
  <2>8. buf_refcnt' = refcnt  BY <1>1
  <2> HIDE DEF held2, held, refcnt
  <2>9. Fits(refcnt, held2, shown)  BY <1>4, <2>1, <2>6, FewerHold
  <2> QED  BY <1>1, <1>4, <2>7, <2>8, <2>9 DEF Fits, Count
<1>19. SuperbufTypes'
  <2>1. buf_refcnt' \in [ChStreams -> [Frames -> Nat]]  BY <1>18 DEF Fits
  <2>2. match_cnt' \in Int  BY <1>11
  <2> QED  BY <1>1, <1>3, <1>4, <1>5, <2>1, <2>2 DEF SuperbufInv, SuperbufTypes
<1> QED  BY <1>6, <1>7, <1>13, <1>15, <1>16, <1>17, <1>18, <1>19 DEF SuperbufInv

-----------------------------------------------------------------------------
(* Superbufs: the theorems.                                                *)

\* At first nothing has arrived.
LEMMA SuperbufInitInv ==
    ASSUME SuperbufInit
    PROVE  SuperbufInv
<1>1. /\ ch \in Setups /\ ch_cmds = << >> /\ superbuf_queue = << >> /\ match_cnt = 0
      /\ pending_cnt = 0 /\ shown = {} /\ superbufs = {} /\ delivered = << >> /\ stop_pc = 0
      /\ active = Bundled /\ known = Bundled
      /\ last_idx = [s \in ChStreams |-> 0]
      /\ buf_refcnt = [s \in ChStreams |-> [f \in Frames |-> 0]]
  BY DEF SuperbufInit
<1>2. Bundled \subseteq ChStreams  BY <1>1, BundledFinite
<1>3. DOMAIN ch_cmds = {} /\ DOMAIN superbuf_queue = {} /\ DOMAIN delivered = {}
  BY <1>1
<1>4. BufsOf(superbuf_queue) = {} /\ Commanded = {}
  BY <1>3, BufFacts DEF Commanded
<1>5. Held = {}  BY <1>1, <1>4 DEF Held
<1>6. SuperbufTypes
  <2>1. /\ ch_cmds \in Seq(ChCommand) /\ delivered \in Seq(Frames)
        /\ last_idx \in [ChStreams -> Nat]
        /\ buf_refcnt \in [ChStreams -> [Frames -> Nat]]
    BY <1>1
  <2> QED  BY <1>1, <1>2, <2>1 DEF SuperbufTypes
<1>7. CommandsInOrder  BY <1>3 DEF CommandsInOrder
<1>8. SoundQueue(superbuf_queue)
  <2>1. superbuf_queue \in Seq(Superbuf)  BY <1>1
  <2> QED  BY <1>3, <2>1 DEF SoundQueue
<1>9. match_cnt = CountMatched(superbuf_queue)
  <2>1. {i \in DOMAIN superbuf_queue : superbuf_queue[i].matched} = {}  BY <1>3
  <2> QED  BY <1>1, <2>1, FS_EmptySet DEF CountMatched
<1>10. FramesHandled  BY <1>1, <1>4 DEF FramesHandled
<1>11. DeliveredInOrder  BY <1>3 DEF DeliveredInOrder
<1>12. StoppingInOrder
  <2>1. SUFFICES ASSUME ch.linked = {}, NEW s \in active
                 PROVE  \E k \in 1..Cardinality(Bundled) : StopOrder[k] = s /\ stop_pc <= 2 * k
    BY DEF StoppingInOrder
  <2>2. PICK k \in 1..Cardinality(Bundled) : StopOrder[k] = s
    BY <1>1, <2>1, StopOrderFacts
  <2>3. Cardinality(Bundled) \in Nat  BY <1>1, BundledFinite
  <2> QED  BY <1>1, <2>2, <2>3
<1>13. Fits(buf_refcnt, Held, shown)
  <2>1. \A b : Count(b, Held, shown) = 0  BY <1>1, <1>5 DEF Count
  <2>2. \A s \in active, f \in Frames : buf_refcnt[s][f] = 0  BY <1>1, <1>2
  <2>3. buf_refcnt \in [ChStreams -> [Frames -> Nat]]  BY <1>6 DEF SuperbufTypes
  <2> QED  BY <2>1, <2>2, <2>3 DEF Fits
<1> QED  BY <1>6, <1>7, <1>8, <1>9, <1>10, <1>11, <1>12, <1>13 DEF SuperbufInv

\* Every step preserves the invariant.
LEMMA SuperbufInvStep ==
    ASSUME SuperbufInv, [SuperbufNext]_superbufVars
    PROVE  SuperbufInv'
<1>1. CASE \E s \in ChStreams, f \in Frames : FrameArrives(s, f)  BY <1>1, ArriveStep
<1>2. CASE \E s \in ChStreams, f \in Frames : ReturnShown(s, f)  BY <1>2, ShownStep
<1>3. CASE \E f \in Frames : ReturnSuperbuf(f)  BY <1>3, SuperbufReturned
<1>4. CASE \E c \in Requests : ClientCommand(c)  BY <1>4, ClientStep
<1>5. CASE CommandThread
  <2>1. CASE \E c \in ToSet(ch_cmds) : \E m \in MetadataOf(c.stream) : ProcessFrame(c, m)
    BY <2>1, FrameStep
  <2>2. CASE \E c \in ToSet(ch_cmds) : ProcessRequest(c)  BY <2>2, RequestStep
  <2>3. CASE \E c \in ToSet(ch_cmds) : ProcessFlush(c) \/ ProcessGeneral(c)
    BY <2>3, FlushingStep
  <2>4. CASE \E c \in ToSet(ch_cmds) : ProcessZsl(c)  BY <2>4, ZslStep
  <2>5. CASE Dispatch  BY <2>5, DispatchStep
  <2> QED  BY <1>5, <2>1, <2>2, <2>3, <2>4, <2>5 DEF CommandThread
<1>6. CASE StopChannel  BY <1>6, StopBegins
<1>7. CASE StopStep
  BY <1>7, UnlinkStep, OffStep, StoppedStep, ChannelStoppedStep DEF StopStep
<1>8. CASE UNCHANGED superbufVars
  <2>1. UNCHANGED <<ch, last_idx, active, known, ch_cmds, superbuf_queue, match_cnt,
                    pending_cnt, delivered, stop_pc, shown, superbufs, buf_refcnt>>
    BY <1>8 DEF superbufVars
  <2>2. Quiet  BY <2>1 DEF Quiet, SuperbufInv, Held
  <2> QED  BY <2>2, QuietStep
<1> QED  BY <1>1, <1>2, <1>3, <1>4, <1>5, <1>6, <1>7, <1>8 DEF SuperbufNext

\* The invariant holds.
THEOREM SuperbufInvariant == SuperbufSpec => []SuperbufInv
<1>1. SuperbufInit => SuperbufInv  BY SuperbufInitInv
<1>2. SuperbufInv /\ [SuperbufNext]_superbufVars => SuperbufInv'  BY SuperbufInvStep
<1> QED  BY <1>1, <1>2, PTL DEF SuperbufSpec

\* How many a set has of which any two are the same.
LEMMA AtMostOne ==
    ASSUME NEW T, \A x, y \in T : x = y
    PROVE  Cardinality(T) = IF T = {} THEN 0 ELSE 1
<1>1. CASE T = {}  BY <1>1, FS_EmptySet
<1>2. CASE T # {}
  <2>1. PICK x \in T : TRUE  BY <1>2
  <2>2. T = {x}  BY <2>1
  <2> QED  BY <1>2, <2>2, FS_Singleton
<1> QED  BY <1>1, <1>2

\* A frame's holders are as many as the invariant counts.
LEMMA HoldersFacts ==
    ASSUME SuperbufInv, NEW s \in ChStreams, NEW f \in Frames
    PROVE  Holders(s, f) = Count(<<s, f>>, Held, shown)
<1> DEFINE b == <<s, f>>
           inCmds == {i \in DOMAIN ch_cmds : ch_cmds[i].type = "DATA"
                                             /\ ch_cmds[i].stream = s /\ ch_cmds[i].frame = f}
           inQueue == {i \in DOMAIN superbuf_queue : superbuf_queue[i].frame_idx = f
                                                     /\ s \in superbuf_queue[i].bufs}
           inClient == {i \in 1..2 : <<s, f>> \in <<superbufs, shown>>[i]}
<1>1. Holders(s, f) = Cardinality(inCmds) + Cardinality(inQueue) + Cardinality(inClient)
  BY DEF Holders
<1>2. b \in ChStreams \X Frames /\ b[1] = s /\ b[2] = f  OBVIOUS
<1>3. Cardinality(inCmds) = IF b \in Commanded THEN 1 ELSE 0
  <2>1. ASSUME NEW i \in inCmds, NEW j \in inCmds  PROVE i = j
    <3>1. /\ i \in DOMAIN ch_cmds /\ j \in DOMAIN ch_cmds
          /\ IsFrameOf(ch_cmds[i], s) /\ IsFrameOf(ch_cmds[j], s)
          /\ ch_cmds[i].frame = f /\ ch_cmds[j].frame = f
      BY DEF IsFrameOf
    <3>2. /\ i < j => f < f
          /\ j < i => f < f
      BY <3>1 DEF SuperbufInv, CommandsInOrder
    <3>3. ~(f < f)  BY DEF Frames
    <3>4. i \in Nat /\ j \in Nat  BY <3>1 DEF SuperbufInv, SuperbufTypes
    <3> QED  BY <3>2, <3>3, <3>4
  <2>2. inCmds # {} <=> b \in Commanded
    <3>1. b \in Commanded <=>
          \E i \in DOMAIN ch_cmds : IsFrameOf(ch_cmds[i], s) /\ ch_cmds[i].frame = f
      BY CommandedFacts
    <3> QED  BY <3>1 DEF IsFrameOf
  <2> HIDE DEF inCmds, b
  <2> QED  BY <2>1, <2>2, AtMostOne
<1>4. Cardinality(inQueue) = IF b \in BufsOf(superbuf_queue) THEN 1 ELSE 0
  <2>1. SoundQueue(superbuf_queue)  BY DEF SuperbufInv
  <2>2. \A i \in DOMAIN superbuf_queue : i \in inQueue <=> HasBuf(superbuf_queue[i], b)
    BY <1>2 DEF HasBuf
  <2>3. inQueue \subseteq DOMAIN superbuf_queue  OBVIOUS
  <2> HIDE DEF inQueue, b
  <2>4. inQueue # {} <=> b \in BufsOf(superbuf_queue)  BY <1>2, <2>2, <2>3, BufFacts
  <2>5. ASSUME NEW i \in inQueue, NEW j \in inQueue  PROVE i = j
    <3>1. b \in BufsOf(superbuf_queue)  BY <2>4
    <3>2. /\ i \in DOMAIN superbuf_queue /\ HasBuf(superbuf_queue[i], b)
          /\ j \in DOMAIN superbuf_queue /\ HasBuf(superbuf_queue[j], b)
      BY <2>2, <2>3
    <3> QED  BY <2>1, <3>1, <3>2, OneSuperbufEach
  <2> QED  BY <2>4, <2>5, AtMostOne
<1>5. Cardinality(inClient) = (IF b \in superbufs THEN 1 ELSE 0)
                              + (IF b \in shown THEN 1 ELSE 0)
  <2>1. inClient = (IF b \in superbufs THEN {1} ELSE {}) \cup (IF b \in shown THEN {2} ELSE {})
    <3>1. \A i : i \in 1..2 <=> i = 1 \/ i = 2  OBVIOUS
    <3>2. <<superbufs, shown>>[1] = superbufs /\ <<superbufs, shown>>[2] = shown  OBVIOUS
    <3>3. \A i : i \in inClient <=>
              (i = 1 /\ b \in superbufs) \/ (i = 2 /\ b \in shown)
      BY <3>1, <3>2
    <3> HIDE DEF inClient, b
    <3> QED  BY <3>3
  <2>2. Cardinality({}) = 0  BY FS_EmptySet
  <2>3. Cardinality({1}) = 1 /\ Cardinality({2}) = 1 /\ IsFiniteSet({1})  BY FS_Singleton
  <2>4. Cardinality({1} \cup {2}) = 2
    <3>1. 2 \notin {1}  OBVIOUS
    <3>2. Cardinality({1} \cup {2}) = Cardinality({1}) + 1  BY <2>3, <3>1, FS_AddElement
    <3> QED  BY <2>3, <3>2
  <2> HIDE DEF inClient, b
  <2>5. CASE b \in superbufs /\ b \in shown
    <3>1. inClient = {1} \cup {2}  BY <2>1, <2>5
    <3> QED  BY <2>4, <2>5, <3>1
  <2>6. CASE b \in superbufs /\ b \notin shown
    <3>1. inClient = {1}  BY <2>1, <2>6
    <3> QED  BY <2>3, <2>6, <3>1
  <2>7. CASE b \notin superbufs /\ b \in shown
    <3>1. inClient = {2}  BY <2>1, <2>7
    <3> QED  BY <2>3, <2>7, <3>1
  <2>8. CASE b \notin superbufs /\ b \notin shown
    <3>1. inClient = {}  BY <2>1, <2>8
    <3> QED  BY <2>2, <2>8, <3>1
  <2> QED  BY <2>5, <2>6, <2>7, <2>8
<1>6. /\ Commanded \cap (BufsOf(superbuf_queue) \cup superbufs) = {}
      /\ BufsOf(superbuf_queue) \cap superbufs = {}
  BY CommandedApart DEF SuperbufInv, FramesHandled
<1> HIDE DEF b, inCmds, inQueue, inClient
<1>7. (IF b \in Held THEN 1 ELSE 0) =
      (IF b \in Commanded THEN 1 ELSE 0) + (IF b \in BufsOf(superbuf_queue) THEN 1 ELSE 0)
      + (IF b \in superbufs THEN 1 ELSE 0)
  <2>1. CASE b \in Commanded
    <3>1. b \in Held /\ b \notin BufsOf(superbuf_queue) /\ b \notin superbufs
      BY <1>6, <2>1 DEF Held
    <3> QED  BY <2>1, <3>1
  <2>2. CASE b \in BufsOf(superbuf_queue)
    <3>1. b \in Held /\ b \notin Commanded /\ b \notin superbufs
      BY <1>6, <2>2 DEF Held
    <3> QED  BY <2>2, <3>1
  <2>3. CASE b \notin Commanded /\ b \notin BufsOf(superbuf_queue)
    <3>1. b \in Held <=> b \in superbufs  BY <2>3 DEF Held
    <3> QED  BY <2>3, <3>1
  <2> QED  BY <2>1, <2>2, <2>3
<1>8. Count(b, Held, shown) = (IF b \in Held THEN 1 ELSE 0) + (IF b \in shown THEN 1 ELSE 0)
  BY DEF Count
<1>9. Holders(s, f) = Count(b, Held, shown)
  <2> DEFINE x == IF b \in Commanded THEN 1 ELSE 0
             y == IF b \in BufsOf(superbuf_queue) THEN 1 ELSE 0
             z == IF b \in superbufs THEN 1 ELSE 0
             w == IF b \in shown THEN 1 ELSE 0
             h == IF b \in Held THEN 1 ELSE 0
  <2>1. x \in Nat /\ y \in Nat /\ z \in Nat /\ w \in Nat  OBVIOUS
  <2>2. Holders(s, f) = x + y + (z + w)  BY <1>1, <1>3, <1>4, <1>5
  <2>3. h = x + y + z /\ Count(b, Held, shown) = h + w  BY <1>7, <1>8
  <2> HIDE DEF x, y, z, w, h
  <2> QED  BY <2>1, <2>2, <2>3
<1> QED  BY <1>9 DEF b

\* No buffer goes back to the kernel while somebody uses it, and none is kept from it when
\* nobody does (mm_stream_buf_done(), mm_channel_qbuf()).
THEOREM BuffersAreAccounted == SuperbufSpec => []BuffersAccounted
<1>1. SuperbufInv => BuffersAccounted
  <2> SUFFICES ASSUME SuperbufInv, NEW s \in active, NEW f \in Frames
               PROVE  IF stop_pc = 0 \/ ch.linked = {} THEN buf_refcnt[s][f] = Holders(s, f)
                      ELSE buf_refcnt[s][f] >= Holders(s, f)
    BY DEF BuffersAccounted
  <2>1. s \in ChStreams  BY DEF SuperbufInv, SuperbufTypes
  <2>2. Holders(s, f) = Count(<<s, f>>, Held, shown)  BY <2>1, HoldersFacts
  <2>3. /\ buf_refcnt[s][f] >= Count(<<s, f>>, Held, shown)
        /\ Exact => buf_refcnt[s][f] = Count(<<s, f>>, Held, shown)
    BY DEF SuperbufInv, Fits
  <2> QED  BY <2>2, <2>3 DEF Exact
<1> QED  BY <1>1, SuperbufInvariant, PTL

\* The client gets superbufs in the order of their frames, and the queue is such that the
\* loops that shorten it end (mm_channel_dispatch_super_buf(), mm_channel_superbuf_skip()).
THEOREM SuperbufsAreInOrder == SuperbufSpec => []SuperbufsInOrder
<1>1. SuperbufInv => SuperbufsInOrder
  <2> SUFFICES ASSUME SuperbufInv  PROVE SuperbufsInOrder
    OBVIOUS
  <2>1. MatchedFirst
    <3>1. stop_pc # StopDone => match_cnt = CountMatched(superbuf_queue)
      BY DEF SuperbufInv
    <3>2. \A i, j \in DOMAIN superbuf_queue : i < j =>
              /\ superbuf_queue[j].matched => superbuf_queue[i].matched
              /\ ~superbuf_queue[i].matched /\ ~superbuf_queue[j].matched =>
                     superbuf_queue[i].frame_idx < superbuf_queue[j].frame_idx
      BY DEF SuperbufInv, SoundQueue
    <3> QED  BY <3>1, <3>2 DEF MatchedFirst
  <2>2. \A i, j \in DOMAIN delivered : i < j => delivered[i] < delivered[j]
    BY DEF SuperbufInv, DeliveredInOrder
  <2> QED  BY <2>1, <2>2 DEF SuperbufsInOrder
<1> QED  BY <1>1, SuperbufInvariant, PTL

=============================================================================
