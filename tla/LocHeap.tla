------------------------------ MODULE LocHeap ------------------------------
(***************************************************************************)
(* The heap the timers are kept in: a binary tree, sorted only from parent *)
(* to child, whose nodes know the size of their subtree so that a new node *)
(* goes to the smaller side.  The tree is changed by exchanging the data   *)
(* of nodes; a tree is << >> or <<data, size, left, right>>.               *)
(***************************************************************************)
EXTENDS Integers, Sequences

CONSTANTS Items, Rank, None

ASSUME LocHeapAssumption == Rank \in [Items -> Int] /\ None \notin Items

VARIABLES mTree, heap_returned

heapVars == <<mTree, heap_returned>>

Leaf == << >>
Data(t) == t[1]
Size(t) == IF t = Leaf THEN 0 ELSE t[2]
Left(t) == t[3]
Right(t) == t[4]
Outranks(i, j) == Rank[i] > Rank[j]

\* LocHeapNode::push.
RECURSIVE PushNode(_, _)
PushNode(t, i) ==
    LET up == IF Outranks(i, Data(t)) THEN i ELSE Data(t)
        down == IF Outranks(i, Data(t)) THEN Data(t) ELSE i
        Grow(sub) == IF sub = Leaf THEN <<down, 1, Leaf, Leaf>>
                                   ELSE PushNode(sub, down)
        goesLeft == \/ Left(t) = Leaf
                    \/ Right(t) # Leaf /\ Size(Left(t)) <= Size(Right(t))
    IN IF goesLeft
       THEN <<up, Size(t) + 1, Grow(Left(t)), Right(t)>>
       ELSE <<up, Size(t) + 1, Left(t), Grow(Right(t))>>

\* LocHeapNode::pop, the tree that is left of t: the data of the higher ranking
\* child moves up, all the way to a leaf, which goes.
RECURSIVE PopNode(_)
PopNode(t) ==
    LET fromLeft == /\ Left(t) # Leaf
                    /\ \/ Right(t) = Leaf
                       \/ Outranks(Data(Left(t)), Data(Right(t)))
    IN CASE Left(t) = Leaf /\ Right(t) = Leaf -> Leaf
         [] fromLeft ->
              <<Data(Left(t)), Size(t) - 1, PopNode(Left(t)), Right(t)>>
         [] ~fromLeft /\ Right(t) # Leaf ->
              <<Data(Right(t)), Size(t) - 1, Left(t), PopNode(Right(t))>>

RECURSIVE RemoveNode(_, _)

\* Mutant: whatever has the rank of i is taken for it.
RemoveByRank(t, i) ==
    CASE t = Leaf -> Leaf
      [] t # Leaf /\ Rank[Data(t)] = Rank[i] -> PopNode(t)
      [] t # Leaf /\ Rank[Data(t)] # Rank[i] /\ Outranks(i, Data(t)) -> t
      [] OTHER ->
           LET l == RemoveNode(Left(t), i) IN
           IF l # Left(t) THEN <<Data(t), Size(t) - 1, l, Right(t)>>
           ELSE <<Data(t), Size(t) - 1, Left(t), RemoveNode(Right(t), i)>>

\* LocHeapNode::remove, the tree that is left of t; t itself if i is not found.
\* Below data that i outranks it is not looked for.
RemoveNode(t, i) ==
    CASE t = Leaf -> Leaf
      [] t # Leaf /\ Data(t) = i -> PopNode(t)
      [] t # Leaf /\ Data(t) # i /\ Outranks(i, Data(t)) -> t
      [] OTHER ->
           LET l == RemoveNode(Left(t), i)  r == RemoveNode(Right(t), i) IN
           CASE l # Left(t) -> <<Data(t), Size(t) - 1, l, Right(t)>>
             [] l = Left(t) /\ r # Right(t) ->
                  <<Data(t), Size(t) - 1, Left(t), r>>
             [] OTHER -> t

RECURSIVE ItemsOf(_)
ItemsOf(t) == IF t = Leaf THEN {}
              ELSE {Data(t)} \cup ItemsOf(Left(t)) \cup ItemsOf(Right(t))

-----------------------------------------------------------------------------

HeapInit == mTree = Leaf /\ heap_returned = None

\* An object is in the heap once; its owner sees to that.
HeapPush(i) ==
    /\ i \notin ItemsOf(mTree)
    /\ mTree' = IF mTree = Leaf THEN <<i, 1, Leaf, Leaf>> ELSE PushNode(mTree, i)
    /\ heap_returned' = None

HeapPop ==
    IF mTree = Leaf THEN heap_returned' = None /\ UNCHANGED mTree
    ELSE heap_returned' = Data(mTree) /\ mTree' = PopNode(mTree)

HeapRemove(i) ==
    /\ mTree' = RemoveNode(mTree, i)
    /\ heap_returned' = IF mTree' # mTree THEN i ELSE None

HeapNext == HeapPop \/ \E i \in Items : HeapPush(i) \/ HeapRemove(i)

HeapSpec == HeapInit /\ [][HeapNext]_heapVars

-----------------------------------------------------------------------------

\* The heap is a ranked set: removing a node somewhere in the middle loses no
\* other and does not make a lower one the next to be popped.
Promise == INSTANCE RankedSet WITH members <- ItemsOf(mTree),
                                   returned <- heap_returned
ImplementsRankedSet == Promise!RankedSpec
=============================================================================
