----------------------------- MODULE RankedSet -----------------------------
(* What a heap of ranked objects promises: it holds what was put in and not *)
(* yet taken out, and gives up first what nothing it holds outranks.        *)
EXTENDS Integers

CONSTANTS Items, Rank, None

VARIABLES
    members,        \* what it holds
    returned        \* what the last operation returned

OutRanks(i, j) == Rank[i] > Rank[j]

RankedInit == members = {} /\ returned = None

RankedPush(i) ==
    /\ i \notin members
    /\ members' = members \cup {i}
    /\ returned' = None

RankedPop ==
    \/ members = {} /\ returned' = None /\ UNCHANGED members
    \/ \E i \in members :
          /\ \A j \in members : ~OutRanks(j, i)
          /\ members' = members \ {i}
          /\ returned' = i

RankedRemove(i) ==
    /\ members' = members \ {i}
    /\ returned' = IF i \in members THEN i ELSE None

RankedNext == RankedPop \/ \E i \in Items : RankedPush(i) \/ RankedRemove(i)

RankedSpec == RankedInit /\ [][RankedNext]_<<members, returned>>
=============================================================================
