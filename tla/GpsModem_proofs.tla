------------------------- MODULE GpsModem_proofs -------------------------
(***************************************************************************)
(* The safety of what the GPS modem client does: synchronous requests, for *)
(* any number of slots, callers, kinds and calls; and the session they are *)
(* made for, for any number of starts, events and messages.                *)
(***************************************************************************)
EXTENDS LocSyncReq, LocEngSession, SequenceTheorems, TLAPS

\* Where a caller's slot names its indication and its buffer.
Selected == Holding \ {"allocated"}

\* A caller inside has a slot, and its request is one the modem knows.
HolderHasSlot ==
    \A c \in Callers :
        /\ pc[c] \in Holding => select_id[c] \in Slots /\ slot_in_use[select_id[c]]
        /\ pc[c] # "idle" => kind[c] \in Kinds /\ made[c] \in 1..MaxCalls

\* A slot that names an indication belongs to the caller whose buffer it has,
\* and the other way round.
SlotOfItsCaller ==
    /\ \A c \in Callers : pc[c] \in Selected =>
          slots[select_id[c]].buffer = c /\ slots[select_id[c]].kind \in Kinds
    /\ \A i \in Slots : slots[i].kind # Nothing =>
          /\ slots[i].buffer \in Callers
          /\ pc[slots[i].buffer] \in Selected
          /\ select_id[slots[i].buffer] = i

\* What the loop over the slots has seen so far.
SeenSoFar ==
    ind # NoInd /\ ~ind.seen => \A i \in Slots : i < ind.at => ~slot_in_use[i]

\* Until its wait a caller's slot remembers an indication its buffer holds; a
\* waiting caller has none, and one that was woken has one or woke for nothing.
AnswerKnownOf(c) ==
    /\ pc[c] \in {"called", "allocated", "waiting"} => ~payload[c]
    /\ pc[c] \in {"selected", "sent"} =>
         payload[c] = slots[select_id[c]].arrived /\ ~slots[select_id[c]].waiting
    /\ pc[c] = "waiting" => slots[select_id[c]].waiting
    /\ pc[c] = "woken" => payload[c] \/ excused[c]
    /\ pc[c] \in {"leaving", "idle"} /\ status[c] = "success"
         => payload[c] \/ excused[c]
    /\ pc[c] \in Places \ {"idle", "leaving"} => status[c] # "success"

AnswerKnown == \A c \in Callers : AnswerKnownOf(c)

IInv ==
    /\ TypeOK
    /\ HolderHasSlot
    /\ OneCallerPerSlot
    /\ SlotOfItsCaller
    /\ InUseWhileUsed
    /\ SeenSoFar
    /\ AnswerKnown

-----------------------------------------------------------------------------
\* The invariant holds before any call.
LEMMA InitInv == loc_sync_req_init => IInv
<1> SUFFICES ASSUME loc_sync_req_init PROVE IInv
  OBVIOUS
<1> USE LocSyncReqAssumption DEF loc_sync_req_init, Slots, Holding, Places
<1>1. TypeOK
  <2>1. slots \in [Slots -> Slot]
    BY DEF Slot, FreeSlot
  <2>2. select_id \in [Callers -> Slots \cup {-1}] /\ made \in [Callers -> 0..MaxCalls]
    OBVIOUS
  <2>3. /\ slot_in_use \in [Slots -> BOOLEAN] /\ in_use \in BOOLEAN
        /\ payload \in [Callers -> BOOLEAN] /\ excused \in [Callers -> BOOLEAN]
    BY Zenon
  <2> QED
    BY <2>1, <2>2, <2>3 DEF TypeOK
<1>2. HolderHasSlot /\ OneCallerPerSlot
  BY DEF HolderHasSlot, OneCallerPerSlot
<1>3. SlotOfItsCaller
  BY DEF SlotOfItsCaller, Selected, FreeSlot
<1>4. InUseWhileUsed /\ SeenSoFar
  BY DEF InUseWhileUsed, SeenSoFar
<1>5. AnswerKnown
  BY DEF AnswerKnown, AnswerKnownOf
<1> QED
  BY <1>1, <1>2, <1>3, <1>4, <1>5 DEF IInv

\* Two callers inside have different slots.
LEMMA OwnSlots ==
  ASSUME HolderHasSlot, OneCallerPerSlot,
         NEW c \in Callers, NEW d \in Callers, c # d,
         pc[c] \in Holding, pc[d] \in Holding
  PROVE  /\ select_id[c] \in Slots /\ select_id[d] \in Slots
         /\ select_id[c] # select_id[d]
  BY DEF HolderHasSlot, OneCallerPerSlot

\* What is known of a caller stays known when neither it nor its slot changes.
LEMMA SyncUnmoved ==
  ASSUME NEW d \in Callers, AnswerKnownOf(d),
         pc'[d] = pc[d], payload'[d] = payload[d], excused'[d] = excused[d],
         status'[d] = status[d],
         pc[d] \in Holding => /\ select_id'[d] = select_id[d]
                              /\ slots'[select_id[d]] = slots[select_id[d]]
  PROVE  AnswerKnownOf(d)'
  BY DEF AnswerKnownOf, Holding, Places

\* What setting a flag of a slot leaves.
LEMMA WithWaiting ==
  ASSUME NEW s \in Slot, NEW b \in BOOLEAN
  PROVE  LET r == [s EXCEPT !.waiting = b] IN
         /\ r \in Slot /\ r.kind = s.kind /\ r.buffer = s.buffer
         /\ r.arrived = s.arrived /\ r.waiting = b
  BY DEF Slot

\* Remembering that an indication has arrived changes nothing else of a slot.
LEMMA WithArrived ==
  ASSUME NEW s \in Slot, NEW b \in BOOLEAN
  PROVE  LET r == [s EXCEPT !.arrived = b] IN
         /\ r \in Slot /\ r.kind = s.kind /\ r.buffer = s.buffer
         /\ r.arrived = b /\ r.waiting = s.waiting
  BY DEF Slot

\* A caller makes a request.
LEMMA loc_sync_send_req_Inv ==
  ASSUME IInv, NEW c \in Callers, loc_sync_send_req(c)
  PROVE  IInv'
<1> USE LocSyncReqAssumption DEF IInv, Goto, Return, Excuse, Slots, Holding,
           Places, slotVars, callVars
<1>a. PICK k \in Kinds : kind' = [kind EXCEPT ![c] = k]
  BY DEF loc_sync_send_req
<1>b. /\ pc[c] = "idle" /\ made[c] \in 0..MaxCalls /\ made[c] < MaxCalls
      /\ pc' = [pc EXCEPT ![c] = "called"]
      /\ made' = [made EXCEPT ![c] = @ + 1]
      /\ payload' = [payload EXCEPT ![c] = FALSE]
      /\ status' = [status EXCEPT ![c] = "none"]
      /\ excused' = [excused EXCEPT ![c] = FALSE]
      /\ UNCHANGED <<slot_in_use, slots, in_use, select_id, modem, ind>>
  BY DEF loc_sync_send_req, TypeOK
<1>1. TypeOK'
  BY <1>a, <1>b DEF TypeOK, Slot, FreeSlot, Ind, NoInd, HolderHasSlot
<1>2. HolderHasSlot'
  BY <1>a, <1>b DEF TypeOK, HolderHasSlot, OneCallerPerSlot
<1>3. OneCallerPerSlot'
  BY <1>a, <1>b DEF TypeOK, HolderHasSlot, OneCallerPerSlot
<1>4. SlotOfItsCaller'
  BY <1>a, <1>b DEF TypeOK, Slot, FreeSlot, HolderHasSlot, OneCallerPerSlot,
     SlotOfItsCaller, Selected
<1>5. InUseWhileUsed'
  BY <1>a, <1>b DEF TypeOK, HolderHasSlot, InUseWhileUsed
<1>6. SeenSoFar'
  BY <1>a, <1>b DEF TypeOK, SeenSoFar, Ind, NoInd
<1>7. AnswerKnown'
  BY <1>a, <1>b DEF TypeOK, Slot, FreeSlot, HolderHasSlot, OneCallerPerSlot,
     AnswerKnown, AnswerKnownOf
<1> QED
  BY <1>1, <1>2, <1>3, <1>4, <1>5, <1>6, <1>7 DEF IInv

\* It takes a slot.
LEMMA loc_alloc_slot_Inv ==
  ASSUME IInv, NEW c \in Callers, loc_alloc_slot(c)
  PROVE  IInv'
<1> USE LocSyncReqAssumption DEF IInv, Goto, Return, Excuse, Slots, Holding,
           Places, slotVars, callVars
<1>1. TypeOK'
  BY DEF loc_alloc_slot, TypeOK, Slot, FreeSlot, Ind, NoInd, HolderHasSlot
<1>2. HolderHasSlot'
  BY DEF loc_alloc_slot, TypeOK, HolderHasSlot, OneCallerPerSlot
<1>3. OneCallerPerSlot'
  BY DEF loc_alloc_slot, TypeOK, HolderHasSlot, OneCallerPerSlot
<1>4. SlotOfItsCaller'
  BY DEF loc_alloc_slot, TypeOK, Slot, FreeSlot, HolderHasSlot,
     OneCallerPerSlot, SlotOfItsCaller, Selected
<1>5. InUseWhileUsed'
  BY DEF loc_alloc_slot, TypeOK, HolderHasSlot, InUseWhileUsed
<1>6. SeenSoFar'
  BY DEF loc_alloc_slot, TypeOK, SeenSoFar, Ind, NoInd
<1>7. AnswerKnown'
  BY DEF loc_alloc_slot, TypeOK, Slot, FreeSlot, HolderHasSlot,
     OneCallerPerSlot, AnswerKnown, AnswerKnownOf
<1> QED
  BY <1>1, <1>2, <1>3, <1>4, <1>5, <1>6, <1>7 DEF IInv

\* There is no slot for it.
LEMMA bufferFull_Inv ==
  ASSUME IInv, NEW c \in Callers, bufferFull(c)
  PROVE  IInv'
<1> USE LocSyncReqAssumption DEF IInv, Goto, Return, Excuse, Slots, Holding,
           Places, slotVars, callVars
<1>1. TypeOK'
  BY DEF bufferFull, TypeOK, Slot, FreeSlot, Ind, NoInd, HolderHasSlot
<1>2. HolderHasSlot'
  BY DEF bufferFull, TypeOK, HolderHasSlot, OneCallerPerSlot
<1>3. OneCallerPerSlot'
  BY DEF bufferFull, TypeOK, HolderHasSlot, OneCallerPerSlot
<1>4. SlotOfItsCaller'
  BY DEF bufferFull, TypeOK, Slot, FreeSlot, HolderHasSlot, OneCallerPerSlot,
     SlotOfItsCaller, Selected
<1>5. InUseWhileUsed'
  BY DEF bufferFull, TypeOK, HolderHasSlot, InUseWhileUsed
<1>6. SeenSoFar'
  BY DEF bufferFull, TypeOK, SeenSoFar, Ind, NoInd
<1>7. AnswerKnown'
  BY DEF bufferFull, TypeOK, Slot, FreeSlot, HolderHasSlot, OneCallerPerSlot,
     AnswerKnown, AnswerKnownOf
<1> QED
  BY <1>1, <1>2, <1>3, <1>4, <1>5, <1>6, <1>7 DEF IInv

\* Its slot names the indication.
LEMMA loc_sync_select_ind_Inv ==
  ASSUME IInv, NEW c \in Callers, loc_sync_select_ind(c)
  PROVE  IInv'
<1> USE LocSyncReqAssumption DEF IInv, Goto, Return, Excuse, Slots, Holding,
           Places, slotVars, callVars
<1>a. /\ pc[c] = "allocated" /\ select_id[c] \in Slots
      /\ slots' = [slots EXCEPT ![select_id[c]] =
                     [kind |-> kind[c], buffer |-> c,
                      waiting |-> FALSE, arrived |-> FALSE]]
      /\ pc' = [pc EXCEPT ![c] = "selected"]
      /\ UNCHANGED <<slot_in_use, in_use, select_id, kind, made, payload,
                     status, excused, modem, ind>>
  BY DEF loc_sync_select_ind, HolderHasSlot
<1>f. /\ slots' \in [Slots -> Slot]
      /\ \A j \in Slots \ {select_id[c]} : slots'[j] = slots[j]
      /\ slots'[select_id[c]].arrived = FALSE /\ slots'[select_id[c]].waiting = FALSE
      /\ slots'[select_id[c]].kind = kind[c] /\ slots'[select_id[c]].buffer = c
  BY <1>a DEF TypeOK, Slot, HolderHasSlot
<1>1. TypeOK'
  BY <1>a, <1>f DEF TypeOK, Slot, FreeSlot, Ind, NoInd, HolderHasSlot
<1>2. HolderHasSlot'
  BY <1>a, <1>f DEF TypeOK, HolderHasSlot, OneCallerPerSlot
<1>3. OneCallerPerSlot'
  BY <1>a, <1>f DEF TypeOK, HolderHasSlot, OneCallerPerSlot
<1>4. SlotOfItsCaller'
  BY <1>a, <1>f DEF TypeOK, Slot, FreeSlot, HolderHasSlot, OneCallerPerSlot,
     SlotOfItsCaller, Selected
<1>5. InUseWhileUsed'
  BY <1>a, <1>f DEF TypeOK, HolderHasSlot, InUseWhileUsed
<1>6. SeenSoFar'
  BY <1>a, <1>f DEF TypeOK, SeenSoFar, Ind, NoInd
<1>7. AnswerKnown'
  <2>1. ASSUME NEW d \in Callers \ {c}
        PROVE  AnswerKnownOf(d)'
    <3>1. pc[d] \in Holding => slots'[select_id[d]] = slots[select_id[d]]
      BY <1>a, <1>f, OwnSlots
    <3>2. /\ pc'[d] = pc[d] /\ payload'[d] = payload[d]
          /\ excused'[d] = excused[d] /\ status'[d] = status[d]
          /\ select_id'[d] = select_id[d]
      BY <1>a, <1>f DEF TypeOK
    <3> QED
      BY <3>1, <3>2, SyncUnmoved DEF AnswerKnown
  <2>2. AnswerKnownOf(c)'
    BY ZenonT(40), <1>a, <1>f DEF TypeOK, AnswerKnown, AnswerKnownOf
  <2> QED
    BY <2>1, <2>2 DEF AnswerKnown
<1> QED
  BY <1>1, <1>2, <1>3, <1>4, <1>5, <1>6, <1>7 DEF IInv

\* The modem is asked, or refuses.
LEMMA locClientSendReq_Inv ==
  ASSUME IInv, NEW c \in Callers, locClientSendReq(c)
  PROVE  IInv'
<1> USE LocSyncReqAssumption DEF IInv, Goto, Return, Excuse, Slots, Holding,
           Places, slotVars, callVars
<1>a. PICK to \in {"sent", "failed"} : pc' = [pc EXCEPT ![c] = to]
  BY DEF locClientSendReq
<1>b. modem' \in {modem, modem \cup {<<c, made[c], kind[c]>>}}
  BY DEF locClientSendReq
<1>c. /\ pc[c] = "selected"
      /\ UNCHANGED <<slot_in_use, slots, in_use, select_id, kind, made, payload,
                     status, excused, ind>>
  BY DEF locClientSendReq
<1>1. TypeOK'
  BY <1>a, <1>b, <1>c DEF TypeOK, Slot, FreeSlot, Ind, NoInd, HolderHasSlot
<1>2. HolderHasSlot'
  BY <1>a, <1>b, <1>c DEF TypeOK, HolderHasSlot, OneCallerPerSlot
<1>3. OneCallerPerSlot'
  BY <1>a, <1>b, <1>c DEF TypeOK, HolderHasSlot, OneCallerPerSlot
<1>4. SlotOfItsCaller'
  BY <1>a, <1>b, <1>c DEF TypeOK, Slot, FreeSlot, HolderHasSlot,
     OneCallerPerSlot, SlotOfItsCaller, Selected
<1>5. InUseWhileUsed'
  BY <1>a, <1>b, <1>c DEF TypeOK, HolderHasSlot, InUseWhileUsed
<1>6. SeenSoFar'
  BY <1>a, <1>b, <1>c DEF TypeOK, SeenSoFar, Ind, NoInd
<1>7. AnswerKnown'
  BY <1>a, <1>b, <1>c DEF TypeOK, Slot, FreeSlot, HolderHasSlot,
     OneCallerPerSlot, AnswerKnown, AnswerKnownOf
<1> QED
  BY <1>1, <1>2, <1>3, <1>4, <1>5, <1>6, <1>7 DEF IInv

\* The caller waits, unless the indication has come.
LEMMA loc_sync_wait_for_ind_Inv ==
  ASSUME IInv, NEW c \in Callers, loc_sync_wait_for_ind(c)
  PROVE  IInv'
<1> USE LocSyncReqAssumption DEF IInv, Goto, Return, Excuse, Slots, Holding,
           Places, slotVars, callVars
<1>a. /\ pc[c] = "sent" /\ select_id[c] \in Slots
      /\ UNCHANGED <<slot_in_use, in_use, select_id, kind, made, payload,
                     excused, modem, ind>>
  BY DEF loc_sync_wait_for_ind, HolderHasSlot
<1>b. PICK to \in {"leaving", "waiting"} : pc' = [pc EXCEPT ![c] = to]
  BY DEF loc_sync_wait_for_ind
<1>c. status' \in {status, [status EXCEPT ![c] = "success"]}
  BY DEF loc_sync_wait_for_ind
<1>d. /\ slots' \in [Slots -> Slot] /\ select_id[c] \in Slots
      /\ \A j \in Slots \ {select_id[c]} : slots'[j] = slots[j]
      /\ slots'[select_id[c]].kind = slots[select_id[c]].kind
      /\ slots'[select_id[c]].buffer = slots[select_id[c]].buffer
      /\ slots'[select_id[c]].arrived = slots[select_id[c]].arrived
      /\ slots[select_id[c]].arrived =>
           /\ slots' = slots /\ to = "leaving"
           /\ status' = [status EXCEPT ![c] = "success"]
      /\ ~slots[select_id[c]].arrived =>
           /\ slots'[select_id[c]].waiting = TRUE /\ to = "waiting"
           /\ UNCHANGED status
  <2>1. slots \in [Slots -> Slot] /\ pc'[c] = to
    BY <1>b DEF TypeOK
  <2>2. CASE slots[select_id[c]].arrived
    BY <1>a, <1>b, <2>1, <2>2 DEF loc_sync_wait_for_ind, TypeOK
  <2>3. CASE ~slots[select_id[c]].arrived
    <3> DEFINE r == [slots[select_id[c]] EXCEPT !.waiting = TRUE]
    <3>1. /\ slots' = [slots EXCEPT ![select_id[c]] = r]
          /\ to = "waiting" /\ UNCHANGED status
      BY <1>a, <1>b, <2>1, <2>3 DEF loc_sync_wait_for_ind, TypeOK
    <3>2. slots[select_id[c]] \in Slot
      BY <1>a, <2>1
    <3>3. /\ r \in Slot /\ r.kind = slots[select_id[c]].kind
          /\ r.buffer = slots[select_id[c]].buffer
          /\ r.arrived = slots[select_id[c]].arrived /\ r.waiting = TRUE
      BY <3>2, WithWaiting
    <3> HIDE DEF r
    <3> QED
      BY <1>a, <2>1, <2>3, <3>1, <3>3
  <2> QED
    BY <2>2, <2>3
<1>1. TypeOK'
  BY <1>a, <1>b, <1>c, <1>d DEF TypeOK, Slot, FreeSlot, Ind, NoInd,
     HolderHasSlot
<1>2. HolderHasSlot'
  BY <1>a, <1>b, <1>c, <1>d DEF TypeOK, HolderHasSlot, OneCallerPerSlot
<1>3. OneCallerPerSlot'
  BY <1>a, <1>b, <1>c, <1>d DEF TypeOK, HolderHasSlot, OneCallerPerSlot
<1>4. SlotOfItsCaller'
  BY SMTT(30), <1>a, <1>b, <1>c, <1>d DEF TypeOK, Slot, FreeSlot, HolderHasSlot,
     OneCallerPerSlot, SlotOfItsCaller, Selected
<1>5. InUseWhileUsed'
  BY <1>a, <1>b, <1>c, <1>d DEF TypeOK, HolderHasSlot, InUseWhileUsed
<1>6. SeenSoFar'
  BY <1>a, <1>b, <1>c, <1>d DEF TypeOK, SeenSoFar, Ind, NoInd
<1>7. AnswerKnown'
  <2>1. ASSUME NEW d \in Callers \ {c}
        PROVE  AnswerKnownOf(d)'
    <3>1. pc[d] \in Holding => slots'[select_id[d]] = slots[select_id[d]]
      BY <1>a, <1>b, <1>c, <1>d, OwnSlots
    <3>2. /\ pc'[d] = pc[d] /\ payload'[d] = payload[d]
          /\ excused'[d] = excused[d] /\ status'[d] = status[d]
          /\ select_id'[d] = select_id[d]
      BY <1>a, <1>b, <1>c, <1>d DEF TypeOK
    <3> QED
      BY <3>1, <3>2, SyncUnmoved DEF AnswerKnown
  <2>2. AnswerKnownOf(c)'
    BY <1>a, <1>b, <1>c, <1>d DEF TypeOK, AnswerKnown, AnswerKnownOf
  <2> QED
    BY <2>1, <2>2 DEF AnswerKnown
<1> QED
  BY <1>1, <1>2, <1>3, <1>4, <1>5, <1>6, <1>7 DEF IInv

\* It has waited long enough.
LEMMA timeout_Inv ==
  ASSUME IInv, NEW c \in Callers, timeout(c)
  PROVE  IInv'
<1> USE LocSyncReqAssumption DEF IInv, Goto, Return, Excuse, Slots, Holding,
           Places, slotVars, callVars
<1>1. TypeOK'
  BY DEF timeout, TypeOK, Slot, FreeSlot, Ind, NoInd, HolderHasSlot
<1>2. HolderHasSlot'
  BY DEF timeout, TypeOK, HolderHasSlot, OneCallerPerSlot
<1>3. OneCallerPerSlot'
  BY DEF timeout, TypeOK, HolderHasSlot, OneCallerPerSlot
<1>4. SlotOfItsCaller'
  BY DEF timeout, TypeOK, Slot, FreeSlot, HolderHasSlot, OneCallerPerSlot,
     SlotOfItsCaller, Selected
<1>5. InUseWhileUsed'
  BY DEF timeout, TypeOK, HolderHasSlot, InUseWhileUsed
<1>6. SeenSoFar'
  BY DEF timeout, TypeOK, SeenSoFar, Ind, NoInd
<1>7. AnswerKnown'
  BY DEF timeout, TypeOK, Slot, FreeSlot, HolderHasSlot, OneCallerPerSlot,
     AnswerKnown, AnswerKnownOf
<1> QED
  BY <1>1, <1>2, <1>3, <1>4, <1>5, <1>6, <1>7 DEF IInv

\* It wakes for nothing.
LEMMA spuriousWakeup_Inv ==
  ASSUME IInv, NEW c \in Callers, spuriousWakeup(c)
  PROVE  IInv'
<1> USE LocSyncReqAssumption DEF IInv, Goto, Return, Excuse, Slots, Holding,
           Places, slotVars, callVars
<1>1. TypeOK'
  BY DEF spuriousWakeup, TypeOK, Slot, FreeSlot, Ind, NoInd, HolderHasSlot
<1>2. HolderHasSlot'
  BY DEF spuriousWakeup, TypeOK, HolderHasSlot, OneCallerPerSlot
<1>3. OneCallerPerSlot'
  BY DEF spuriousWakeup, TypeOK, HolderHasSlot, OneCallerPerSlot
<1>4. SlotOfItsCaller'
  BY DEF spuriousWakeup, TypeOK, Slot, FreeSlot, HolderHasSlot,
     OneCallerPerSlot, SlotOfItsCaller, Selected
<1>5. InUseWhileUsed'
  BY DEF spuriousWakeup, TypeOK, HolderHasSlot, InUseWhileUsed
<1>6. SeenSoFar'
  BY DEF spuriousWakeup, TypeOK, SeenSoFar, Ind, NoInd
<1>7. AnswerKnown'
  BY DEF spuriousWakeup, TypeOK, Slot, FreeSlot, HolderHasSlot,
     OneCallerPerSlot, AnswerKnown, AnswerKnownOf
<1> QED
  BY <1>1, <1>2, <1>3, <1>4, <1>5, <1>6, <1>7 DEF IInv

\* It was woken.
LEMMA wakeUp_Inv ==
  ASSUME IInv, NEW c \in Callers, wakeUp(c)
  PROVE  IInv'
<1> USE LocSyncReqAssumption DEF IInv, Goto, Return, Excuse, Slots, Holding,
           Places, slotVars, callVars
<1>a. PICK s \in {"timeout", "success"} : status' = [status EXCEPT ![c] = s]
  BY DEF wakeUp
<1>b. /\ pc[c] \in {"woken", "expired"} /\ (pc[c] = "expired" => s = "timeout")
      /\ pc' = [pc EXCEPT ![c] = "leaving"] /\ select_id[c] \in Slots
      /\ UNCHANGED <<slot_in_use, in_use, select_id, kind, made, payload,
                     excused, modem, ind>>
  BY SMTT(30), <1>a DEF wakeUp, HolderHasSlot, TypeOK
<1>c. /\ slots' \in [Slots -> Slot] /\ select_id[c] \in Slots
      /\ \A j \in Slots \ {select_id[c]} : slots'[j] = slots[j]
      /\ slots'[select_id[c]].kind = slots[select_id[c]].kind
      /\ slots'[select_id[c]].buffer = slots[select_id[c]].buffer
      /\ slots'[select_id[c]].arrived = slots[select_id[c]].arrived
      /\ slots'[select_id[c]].waiting = FALSE
  <2>1. slots \in [Slots -> Slot]
    BY DEF TypeOK
  <2> DEFINE r == [slots[select_id[c]] EXCEPT !.waiting = FALSE]
  <2>2. slots' = [slots EXCEPT ![select_id[c]] = r]
    BY DEF wakeUp
  <2>3. slots[select_id[c]] \in Slot
    BY <1>b, <2>1
  <2>4. /\ r \in Slot /\ r.kind = slots[select_id[c]].kind
        /\ r.buffer = slots[select_id[c]].buffer
        /\ r.arrived = slots[select_id[c]].arrived /\ r.waiting = FALSE
    BY <2>3, WithWaiting
  <2> HIDE DEF r
  <2> QED
    BY <1>b, <2>1, <2>2, <2>4
<1>1. TypeOK'
  BY <1>a, <1>b, <1>c DEF TypeOK, Slot, FreeSlot, Ind, NoInd, HolderHasSlot
<1>2. HolderHasSlot'
  BY <1>a, <1>b, <1>c DEF TypeOK, HolderHasSlot, OneCallerPerSlot
<1>3. OneCallerPerSlot'
  BY <1>a, <1>b, <1>c DEF TypeOK, HolderHasSlot, OneCallerPerSlot
<1>4. SlotOfItsCaller'
  <2>1. \A j \in Slots : slots'[j].kind = slots[j].kind /\ slots'[j].buffer = slots[j].buffer
    BY <1>c
  <2>2. \A d \in Callers : pc'[d] \in Selected <=> pc[d] \in Selected
    BY <1>b DEF TypeOK, Selected
  <2>3. \A d \in Callers : pc[d] \in Selected => select_id[d] \in Slots
    BY DEF HolderHasSlot, Selected
  <2> HIDE DEF Slots, Holding, Places
  <2> QED
    BY <1>b, <2>1, <2>2, <2>3 DEF SlotOfItsCaller
<1>5. InUseWhileUsed'
  BY <1>a, <1>b, <1>c DEF TypeOK, HolderHasSlot, InUseWhileUsed
<1>6. SeenSoFar'
  BY <1>a, <1>b, <1>c DEF TypeOK, SeenSoFar, Ind, NoInd
<1>7. AnswerKnown'
  <2>1. ASSUME NEW d \in Callers \ {c}
        PROVE  AnswerKnownOf(d)'
    <3>1. pc[d] \in Holding => slots'[select_id[d]] = slots[select_id[d]]
      BY <1>a, <1>b, <1>c, OwnSlots
    <3>2. /\ pc'[d] = pc[d] /\ payload'[d] = payload[d]
          /\ excused'[d] = excused[d] /\ status'[d] = status[d]
          /\ select_id'[d] = select_id[d]
      BY <1>a, <1>b, <1>c DEF TypeOK
    <3> QED
      BY <3>1, <3>2, SyncUnmoved DEF AnswerKnown
  <2>2. AnswerKnownOf(c)'
    BY <1>a, <1>b, <1>c DEF TypeOK, AnswerKnown, AnswerKnownOf
  <2> QED
    BY <2>1, <2>2 DEF AnswerKnown
<1> QED
  BY <1>1, <1>2, <1>3, <1>4, <1>5, <1>6, <1>7 DEF IInv

\* It gives its slot back.
LEMMA loc_free_slot_Inv ==
  ASSUME IInv, NEW c \in Callers, loc_free_slot(c)
  PROVE  IInv'
<1> USE LocSyncReqAssumption DEF IInv, Goto, Return, Excuse, Slots, Holding,
           Places, slotVars, callVars
<1>a. /\ pc[c] \in {"failed", "leaving"} /\ ind = NoInd
      /\ select_id[c] \in Slots /\ slot_in_use[select_id[c]]
  BY DEF loc_free_slot, HolderHasSlot
<1>b. /\ slot_in_use' = [slot_in_use EXCEPT ![select_id[c]] = FALSE]
      /\ slots' = [slots EXCEPT ![select_id[c]] = FreeSlot]
      /\ in_use' = (in_use /\ \E i \in Slots : slot_in_use'[i])
  BY DEF loc_free_slot
<1>c. /\ pc' = [pc EXCEPT ![c] = "idle"]
      /\ select_id' = [select_id EXCEPT ![c] = -1]
      /\ UNCHANGED <<kind, made, payload, excused, modem, ind>>
  BY DEF loc_free_slot
<1>d. PICK s \in {"failed", status[c]} :
         /\ status' = [status EXCEPT ![c] = s]
         /\ pc[c] = "failed" => s = "failed"
  BY DEF loc_free_slot
<1>e. \A d \in Callers \ {c} : pc[d] \in Holding =>
         /\ select_id[d] \in Slots /\ select_id[d] # select_id[c]
         /\ slot_in_use'[select_id[d]] = slot_in_use[select_id[d]]
         /\ slots'[select_id[d]] = slots[select_id[d]]
  BY ZenonT(40), <1>a, <1>b, OwnSlots DEF TypeOK
<1>f. /\ slots' \in [Slots -> Slot]
      /\ slots'[select_id[c]] = FreeSlot
      /\ \A i \in Slots \ {select_id[c]} : slots'[i] = slots[i]
  BY <1>a, <1>b DEF TypeOK, FreeSlot, Slot
<1>g. ASSUME NEW d \in Callers, pc'[d] \in Holding
      PROVE  d # c /\ pc[d] \in Holding /\ select_id'[d] = select_id[d]
  <2>1. d # c
    BY <1>c, <1>g DEF TypeOK
  <2> QED
    BY <1>c, <1>g, <2>1 DEF TypeOK
<1>1. TypeOK'
  BY <1>a, <1>b, <1>c, <1>d, <1>e, <1>f, <1>g DEF TypeOK, Slot, FreeSlot, Ind,
     NoInd, HolderHasSlot
<1>2. HolderHasSlot'
  <2>1. \A d \in Callers : pc'[d] \in Holding =>
           select_id'[d] \in Slots /\ slot_in_use'[select_id'[d]]
    BY <1>e, <1>g DEF HolderHasSlot
  <2>2. \A d \in Callers : pc'[d] # "idle" => kind'[d] \in Kinds /\ made'[d] \in 1..MaxCalls
    BY <1>c DEF TypeOK, HolderHasSlot
  <2> QED
    BY <2>1, <2>2 DEF HolderHasSlot
<1>3. OneCallerPerSlot'
  <2> SUFFICES ASSUME NEW i \in Slots
               PROVE  /\ slot_in_use'[i] => \E d \in Callers : pc'[d] \in Holding /\ select_id'[d] = i
                      /\ \A d, d2 \in Callers :
                           /\ {pc'[d], pc'[d2]} \subseteq Holding
                           /\ select_id'[d] = i /\ select_id'[d2] = i
                           => d = d2 /\ slot_in_use'[i]
    BY DEF OneCallerPerSlot
  <2>1. ASSUME slot_in_use'[i]
        PROVE  \E d \in Callers : pc'[d] \in Holding /\ select_id'[d] = i
    <3>1. slot_in_use[i] /\ i # select_id[c]
      BY <1>a, <1>b, <2>1 DEF TypeOK
    <3>2. PICK d \in Callers : pc[d] \in Holding /\ select_id[d] = i
      BY <3>1 DEF OneCallerPerSlot
    <3>3. pc'[d] = pc[d] /\ select_id'[d] = select_id[d]
      BY <1>c, <3>1, <3>2 DEF TypeOK
    <3> QED
      BY <3>2, <3>3
  <2>2. ASSUME NEW d \in Callers, NEW d2 \in Callers, pc'[d] \in Holding,
               pc'[d2] \in Holding, select_id'[d] = i, select_id'[d2] = i
        PROVE  d = d2 /\ slot_in_use'[i]
    BY <1>e, <1>g, <2>2, OwnSlots DEF HolderHasSlot
  <2> QED
    BY <2>1, <2>2
<1>4. SlotOfItsCaller'
  <2>1. ASSUME NEW d \in Callers, pc'[d] \in Selected
        PROVE  slots'[select_id'[d]].buffer = d /\ slots'[select_id'[d]].kind \in Kinds
    <3>1. d # c /\ pc'[d] = pc[d] /\ select_id'[d] = select_id[d]
      BY <1>c, <2>1 DEF TypeOK, Selected
    <3> QED
      BY <1>e, <2>1, <3>1 DEF SlotOfItsCaller, Selected
  <2>2. ASSUME NEW i \in Slots, slots'[i].kind # Nothing
        PROVE  /\ slots'[i].buffer \in Callers
               /\ pc'[slots'[i].buffer] \in Selected
               /\ select_id'[slots'[i].buffer] = i
    <3>1. i # select_id[c] /\ slots'[i] = slots[i]
      BY <1>f, <2>2 DEF FreeSlot
    <3>2. /\ slots[i].buffer \in Callers /\ slots[i].buffer # c
          /\ pc[slots[i].buffer] \in Selected /\ select_id[slots[i].buffer] = i
      BY <2>2, <3>1 DEF SlotOfItsCaller
    <3> QED
      BY <1>c, <3>1, <3>2 DEF TypeOK
  <2> QED
    BY <2>1, <2>2 DEF SlotOfItsCaller
<1>5. InUseWhileUsed'
  BY <1>a, <1>b, <1>c, <1>d, <1>e, <1>f, <1>g DEF TypeOK, HolderHasSlot,
     InUseWhileUsed
<1>6. SeenSoFar'
  BY <1>a, <1>b, <1>c, <1>d, <1>e, <1>f, <1>g DEF TypeOK, SeenSoFar, Ind, NoInd
<1>7. AnswerKnown'
  <2>1. ASSUME NEW d \in Callers \ {c}
        PROVE  AnswerKnownOf(d)'
    <3>1. /\ pc'[d] = pc[d] /\ payload'[d] = payload[d]
          /\ excused'[d] = excused[d] /\ status'[d] = status[d]
          /\ select_id'[d] = select_id[d]
      BY <1>c, <1>d DEF TypeOK
    <3> QED
      BY <1>e, <3>1, SyncUnmoved DEF AnswerKnown
  <2>2. AnswerKnownOf(c)'
    <3>1. pc'[c] = "idle" /\ payload'[c] = payload[c] /\ excused'[c] = excused[c]
      BY <1>c DEF TypeOK
    <3>2. status'[c] = s
      BY <1>d DEF TypeOK
    <3>3. s = "success" => payload[c] \/ excused[c]
      BY <1>a, <1>d DEF AnswerKnown, AnswerKnownOf
    <3> QED
      BY <3>1, <3>2, <3>3 DEF AnswerKnownOf
  <2> QED
    BY <2>1, <2>2 DEF AnswerKnown
<1> QED
  BY <1>1, <1>2, <1>3, <1>4, <1>5, <1>6, <1>7 DEF IInv

\* An indication comes.
LEMMA loc_sync_process_ind_Inv ==
  ASSUME IInv, loc_sync_process_ind
  PROVE  IInv'
<1> USE LocSyncReqAssumption DEF IInv, Goto, Return, Excuse, Slots, Holding,
           Places, slotVars, callVars
<1>1. TypeOK'
  BY DEF loc_sync_process_ind, TypeOK, Slot, FreeSlot, Ind, NoInd, HolderHasSlot
<1>2. HolderHasSlot'
  BY DEF loc_sync_process_ind, TypeOK, HolderHasSlot, OneCallerPerSlot
<1>3. OneCallerPerSlot'
  BY DEF loc_sync_process_ind, TypeOK, HolderHasSlot, OneCallerPerSlot
<1>4. SlotOfItsCaller'
  BY DEF loc_sync_process_ind, TypeOK, Slot, FreeSlot, HolderHasSlot,
     OneCallerPerSlot, SlotOfItsCaller, Selected
<1>5. InUseWhileUsed'
  BY DEF loc_sync_process_ind, TypeOK, HolderHasSlot, InUseWhileUsed
<1>6. SeenSoFar'
  BY DEF loc_sync_process_ind, TypeOK, SeenSoFar, Ind, NoInd
<1>7. AnswerKnown'
  BY DEF loc_sync_process_ind, TypeOK, Slot, FreeSlot, HolderHasSlot,
     OneCallerPerSlot, AnswerKnown, AnswerKnownOf
<1> QED
  BY <1>1, <1>2, <1>3, <1>4, <1>5, <1>6, <1>7 DEF IInv

\* A turn of the loop keeps what the flag in_use says.
LEMMA goOn_Flags ==
  ASSUME IInv, NEW consumed \in BOOLEAN, ind # NoInd, goOn(consumed),
         consumed => slot_in_use[ind.at], UNCHANGED slot_in_use
  PROVE  /\ ind' \in Ind \cup {NoInd} /\ in_use' \in BOOLEAN
         /\ InUseWhileUsed' /\ SeenSoFar'
<1> USE LocSyncReqAssumption
<1> DEFINE seen == ind.seen \/ slot_in_use[ind.at]
<1>1. ind \in Ind /\ ind.at \in Slots /\ seen \in BOOLEAN
  BY DEF IInv, TypeOK, Ind
<1>2. CASE consumed \/ ind.at = LOC_SYNC_REQ_BUFFER_SIZE - 1
  <2>1. ind' = NoInd /\ in_use' = (in_use /\ seen)
    BY <1>2 DEF goOn
  <2>2. ASSUME NEW i \in Slots, slot_in_use[i], ~seen
        PROVE  FALSE
    <3>1. ~consumed /\ ind.at = LOC_SYNC_REQ_BUFFER_SIZE - 1 /\ i # ind.at
      BY <1>2, <2>2
    <3>2. i < ind.at
      BY <3>1 DEF Slots
    <3> QED
      BY <2>2, <3>2 DEF IInv, SeenSoFar
  <2> QED
    BY <1>1, <2>1, <2>2 DEF IInv, TypeOK, InUseWhileUsed, SeenSoFar
<1>3. CASE ~(consumed \/ ind.at = LOC_SYNC_REQ_BUFFER_SIZE - 1)
  <2>1. ind' = [ind EXCEPT !.at = @ + 1, !.seen = seen] /\ UNCHANGED in_use
    BY <1>3 DEF goOn
  <2>2. ind.at + 1 \in Slots
    BY <1>1, <1>3 DEF Slots
  <2>3. ind' \in Ind /\ ind'.at = ind.at + 1 /\ ind'.seen = seen
    BY <1>1, <2>1, <2>2 DEF Ind
  <2>4. ASSUME ~seen, NEW i \in Slots, i < ind.at + 1
        PROVE  ~slot_in_use[i]
    <3>1. i < ind.at \/ i = ind.at
      BY <1>1, <2>4 DEF Slots
    <3> QED
      BY <2>4, <3>1 DEF IInv, SeenSoFar
  <2>5. SeenSoFar'
    BY <2>3, <2>4 DEF SeenSoFar
  <2> QED
    BY <2>1, <2>3, <2>5 DEF IInv, TypeOK, InUseWhileUsed
<1> QED
  BY <1>2, <1>3

\* The slot that matches belongs to a caller, whose buffer takes the
\* indication.
LEMMA take_Inv ==
  ASSUME IInv, ind # NoInd, Matches(ind.at), take(ind.at),
         UNCHANGED <<slot_in_use, select_id, kind, made, status, excused>>
  PROVE  /\ payload' \in [Callers -> BOOLEAN] /\ pc' \in [Callers -> Places]
         /\ slots' \in [Slots -> Slot]
         /\ HolderHasSlot' /\ OneCallerPerSlot' /\ SlotOfItsCaller' /\ AnswerKnown'
<1> USE LocSyncReqAssumption DEF IInv
<1> DEFINE i == ind.at
<1>1. i \in Slots /\ slots[i].kind \in Kinds /\ ~slots[i].arrived
  BY DEF TypeOK, Ind, Matches
<1>2. PICK c \in Callers :
        slots[i].buffer = c /\ pc[c] \in Selected /\ select_id[c] = i
  BY <1>1 DEF SlotOfItsCaller
<1>3. /\ payload' = [payload EXCEPT ![c] = TRUE]
      /\ pc' = [pc EXCEPT ![c] = IF @ = "waiting" THEN "woken" ELSE @]
      /\ slots' = [slots EXCEPT ![i].arrived = @ \/ ~slots[i].waiting]
  BY <1>2 DEF take
<1>4. slots[i].waiting \in BOOLEAN
  BY <1>1 DEF TypeOK, Slot
<1>5. /\ slots' \in [Slots -> Slot]
      /\ \A j \in Slots \ {i} : slots'[j] = slots[j]
      /\ slots'[i].kind = slots[i].kind /\ slots'[i].buffer = slots[i].buffer
      /\ slots'[i].arrived = (slots[i].arrived \/ ~slots[i].waiting)
      /\ slots'[i].waiting = slots[i].waiting
  <2> DEFINE r == [slots[i] EXCEPT !.arrived = slots[i].arrived \/ ~slots[i].waiting]
  <2>1. slots \in [Slots -> Slot] /\ slots[i] \in Slot
    BY <1>1 DEF TypeOK
  <2>2. (slots[i].arrived \/ ~slots[i].waiting) \in BOOLEAN
    OBVIOUS
  <2>3. /\ r \in Slot /\ r.kind = slots[i].kind /\ r.buffer = slots[i].buffer
        /\ r.arrived = (slots[i].arrived \/ ~slots[i].waiting)
        /\ r.waiting = slots[i].waiting
    BY ZenonT(40), <2>1, <2>2, WithArrived
  <2>4. slots' = [slots EXCEPT ![i] = r]
    BY <1>3
  <2> HIDE DEF r, i
  <2> QED
    BY <1>1, <2>1, <2>3, <2>4 DEF i
<1>6. /\ pc' \in [Callers -> Places]
      /\ \A d \in Callers \ {c} : pc'[d] = pc[d]
      /\ pc'[c] = IF pc[c] = "waiting" THEN "woken" ELSE pc[c]
  BY <1>2, <1>3 DEF TypeOK, Places
<1>7. /\ payload' \in [Callers -> BOOLEAN] /\ payload'[c] = TRUE
      /\ \A d \in Callers \ {c} : payload'[d] = payload[d]
  BY <1>2, <1>3 DEF TypeOK
<1>8. \A d \in Callers : /\ pc'[d] \in Holding <=> pc[d] \in Holding
                         /\ pc'[d] \in Selected <=> pc[d] \in Selected
                         /\ pc'[d] # "idle" <=> pc[d] # "idle"
  BY <1>2, <1>6 DEF Holding, Selected, Places
<1>9. HolderHasSlot' /\ OneCallerPerSlot'
  BY <1>8 DEF HolderHasSlot, OneCallerPerSlot
<1>10. SlotOfItsCaller'
  <2>1. \A j \in Slots : slots'[j].kind = slots[j].kind /\ slots'[j].buffer = slots[j].buffer
    BY <1>5
  <2>2. \A d \in Callers : pc[d] \in Selected => select_id[d] \in Slots
    BY DEF HolderHasSlot, Selected
  <2> QED
    BY <1>8, <2>1, <2>2 DEF SlotOfItsCaller
<1>11. AnswerKnown'
  <2>1. ASSUME NEW d \in Callers \ {c}
        PROVE  AnswerKnownOf(d)'
    <3>1. pc[d] \in Holding => slots'[select_id[d]] = slots[select_id[d]]
      BY <1>2, <1>5, OwnSlots DEF Selected
    <3> QED
      BY <1>6, <1>7, <3>1, SyncUnmoved DEF AnswerKnown
  <2>2. AnswerKnownOf(c)'
    <3>1. AnswerKnownOf(c)
      BY <1>2 DEF AnswerKnown
    <3> QED
      BY <1>1, <1>2, <1>4, <1>5, <1>6, <1>7, <3>1 DEF AnswerKnownOf, Selected,
         Holding, Places
  <2> QED
    BY <2>1, <2>2 DEF AnswerKnown
<1> QED
  BY <1>5, <1>6, <1>7, <1>9, <1>10, <1>11

\* The next slot is looked at.
LEMMA lookAtSlot_Inv ==
  ASSUME IInv, lookAtSlot
  PROVE  IInv'
<1>1. /\ ind # NoInd /\ goOn(Matches(ind.at))
      /\ UNCHANGED <<slot_in_use, select_id, kind, made, status, excused, modem>>
  BY DEF lookAtSlot
<1>2. /\ ind' \in Ind \cup {NoInd} /\ in_use' \in BOOLEAN
      /\ InUseWhileUsed' /\ SeenSoFar'
  <2>1. Matches(ind.at) \in BOOLEAN /\ (Matches(ind.at) => slot_in_use[ind.at])
    BY DEF Matches
  <2> QED
    BY <1>1, <2>1, goOn_Flags
<1>3. /\ payload' \in [Callers -> BOOLEAN] /\ pc' \in [Callers -> Places]
      /\ slots' \in [Slots -> Slot]
      /\ HolderHasSlot' /\ OneCallerPerSlot' /\ SlotOfItsCaller' /\ AnswerKnown'
  <2>1. CASE Matches(ind.at)
    BY <1>1, <2>1, take_Inv DEF lookAtSlot
  <2>2. CASE ~Matches(ind.at)
    <3>1. UNCHANGED <<payload, pc, slots>>
      BY <2>2 DEF lookAtSlot
    <3> QED
      BY <1>1, <3>1 DEF IInv, TypeOK, HolderHasSlot, OneCallerPerSlot,
         SlotOfItsCaller, AnswerKnown, AnswerKnownOf
  <2> QED
    BY <2>1, <2>2
<1>4. TypeOK'
  BY <1>1, <1>2, <1>3 DEF IInv, TypeOK
<1> QED
  BY <1>2, <1>3, <1>4 DEF IInv


\* Every step of a caller or of the QMI client's thread keeps the invariant.
LEMMA StepInv == IInv /\ [Next]_vars => IInv'
<1> SUFFICES ASSUME IInv, [Next]_vars PROVE IInv'
  OBVIOUS
<1>1. ASSUME NEW c \in Callers, loc_sync_send_req(c) PROVE IInv'
  BY <1>1, loc_sync_send_req_Inv
<1>2. ASSUME NEW c \in Callers, loc_alloc_slot(c) PROVE IInv'
  BY <1>2, loc_alloc_slot_Inv
<1>3. ASSUME NEW c \in Callers, bufferFull(c) PROVE IInv'
  BY <1>3, bufferFull_Inv
<1>4. ASSUME NEW c \in Callers, loc_sync_select_ind(c) PROVE IInv'
  BY <1>4, loc_sync_select_ind_Inv
<1>5. ASSUME NEW c \in Callers, locClientSendReq(c) PROVE IInv'
  BY <1>5, locClientSendReq_Inv
<1>6. ASSUME NEW c \in Callers, loc_sync_wait_for_ind(c) PROVE IInv'
  BY <1>6, loc_sync_wait_for_ind_Inv
<1>7. ASSUME NEW c \in Callers, timeout(c) PROVE IInv'
  BY <1>7, timeout_Inv
<1>8. ASSUME NEW c \in Callers, wakeUp(c) PROVE IInv'
  BY <1>8, wakeUp_Inv
<1>9. ASSUME NEW c \in Callers, loc_free_slot(c) PROVE IInv'
  BY <1>9, loc_free_slot_Inv
<1>10. ASSUME NEW c \in Callers, spuriousWakeup(c) PROVE IInv'
  BY <1>10, spuriousWakeup_Inv
<1>11. CASE loc_sync_process_ind
  BY <1>11, loc_sync_process_ind_Inv
<1>12. CASE lookAtSlot
  BY <1>12, lookAtSlot_Inv
<1>13. CASE UNCHANGED vars
  BY <1>13 DEF vars, slotVars, callVars, IInv, TypeOK, HolderHasSlot,
     OneCallerPerSlot, SlotOfItsCaller, InUseWhileUsed, SeenSoFar, AnswerKnown,
     AnswerKnownOf
<1> QED
  BY <1>1, <1>2, <1>3, <1>4, <1>5, <1>6, <1>7, <1>8, <1>9, <1>10, <1>11, <1>12,
     <1>13 DEF Next, proceed

\* The inductive invariant: which caller has which slot, what the slot knows of
\* the indication, and what the loop over the slots has seen.
THEOREM Invariant == Spec => []IInv
  BY InitInv, StepInv, PTL DEF Spec

\* The types of the slots, the callers and the indication, for any number of
\* them.
THEOREM TypeCorrect == Spec => []TypeOK
  BY Invariant, PTL DEF IInv

\* No call leaks its slot or shares it: loc_alloc_slot and loc_free_slot pair up
\* on every path, timeouts and failed sends included.
THEOREM SlotsCorrect == Spec => []OneCallerPerSlot
  BY Invariant, PTL DEF IInv

\* loc_sync_process_ind never drops an indication while a slot is in use.
THEOREM InUseCorrect == Spec => []InUseWhileUsed
  BY Invariant, PTL DEF IInv

\* No caller of loc_sync_send_req sleeps on an indication it already has.
THEOREM NoSleepCorrect == Spec => []NoSleepOnAnswer
<1>1. IInv => NoSleepOnAnswer
  BY DEF IInv, AnswerKnown, AnswerKnownOf, NoSleepOnAnswer
<1> QED
  BY <1>1, Invariant, PTL

\* loc_sync_send_req reports success with an answer in the buffer, except for a
\* full buffer and a spurious wakeup.
THEOREM SuccessCorrect == Spec => []SuccessHasAnswer
<1>1. IInv => SuccessHasAnswer
  BY DEF IInv, AnswerKnown, AnswerKnownOf, SuccessHasAnswer
<1> QED
  BY <1>1, Invariant, PTL

\* What a step of each kind writes to the buffers: only a slot that takes an
\* indication fills one, and it is the buffer of a caller inside.
LEMMA StepWrites ==
  ASSUME IInv, [Next]_vars, NEW c \in Callers, pc[c] = "idle", pc'[c] = "idle"
  PROVE  payload'[c] = payload[c]
<1> USE DEF IInv, slotVars, callVars, Goto
<1>1. ASSUME NEW d \in Callers, loc_sync_send_req(d) PROVE payload'[c] = payload[c]
  BY <1>1 DEF loc_sync_send_req, TypeOK
<1>2. ASSUME NEW d \in Callers, proceed(d) \/ spuriousWakeup(d)
      PROVE  payload'[c] = payload[c]
  BY <1>2 DEF proceed, spuriousWakeup, loc_alloc_slot, bufferFull,
     loc_sync_select_ind, locClientSendReq, loc_sync_wait_for_ind, timeout, wakeUp,
     loc_free_slot
<1>3. CASE loc_sync_process_ind
  BY <1>3 DEF loc_sync_process_ind
<1>4. CASE lookAtSlot
  <2>1. CASE Matches(ind.at)
    <3>1. ind.at \in Slots /\ slots[ind.at].kind \in Kinds
      BY <1>4, <2>1 DEF lookAtSlot, Matches, TypeOK, Ind
    <3>2. /\ slots[ind.at].buffer \in Callers
          /\ pc[slots[ind.at].buffer] \in Selected
      BY <3>1, LocSyncReqAssumption DEF SlotOfItsCaller
    <3>3. slots[ind.at].buffer # c
      BY <3>2 DEF Selected, Holding
    <3> QED
      BY <1>4, <2>1, <3>2, <3>3 DEF lookAtSlot, take, TypeOK
  <2> QED
    BY <1>4, <2>1 DEF lookAtSlot
<1>5. CASE UNCHANGED vars
  BY <1>5 DEF vars
<1> QED
  BY <1>1, <1>2, <1>3, <1>4, <1>5 DEF Next

\* However late an indication comes, loc_sync_process_ind writes to no buffer
\* whose call has returned.
THEOREM WritesCorrect == Spec => WritesOnlyDuringCall
<1>1. IInv /\ [Next]_vars =>
        [\A c \in Callers : pc[c] = "idle" /\ pc'[c] = "idle"
                               => payload'[c] = payload[c]]_vars
  BY StepWrites
<1> QED
  BY <1>1, Invariant, PTL DEF Spec, WritesOnlyDuringCall

-----------------------------------------------------------------------------
(* The inductive invariant of sessions *)

\* Messages, with the number of a start not bounded.
SessionMessages ==
    [type: {"StartFix", "StopFix", "LocEngDown", "LocSsr", "LocEngUp", "RequestNi"}]
    \cup [type: {"PositionMode"}, recurrence: Recurrences]
    \cup [type: {"DelAidData"}, data: AidingData]
    \cup [type: {"UpdateEngineState"}, on: BOOLEAN]
    \cup [type: {"ReportStatus"},
          status: {"ENGINE_ON", "ENGINE_OFF", "SESSION_BEGIN", "SESSION_END"}]
    \cup [type: {"ReportPosition"}, final: BOOLEAN, start: Nat]

\* What a message is about.
Kind(m) ==
    CASE m.type = "ReportStatus" -> m.status
      [] m.type = "UpdateEngineState" -> IF m.on THEN "turned on" ELSE "turned off"
      [] OTHER -> m.type

Has(q, what) == \E i \in DOMAIN q : Kind(q[i]) = what

HeadIs(q, what) == q # << >> /\ Kind(q[1]) = what

\* A message of the one what waits, and none of the other behind it.
LastOf(q, what, other) ==
    \E i \in DOMAIN q : /\ Kind(q[i]) = what
                        /\ \A j \in DOMAIN q : j > i => Kind(q[j]) # other

\* The last mode that waits has recurrence r.
LastMode(q, r) ==
    \E i \in DOMAIN q : /\ Kind(q[i]) = "PositionMode" /\ q[i].recurrence = r
                        /\ \A j \in DOMAIN q : j > i => Kind(q[j]) # "PositionMode"

\* The positions reported.
Reports(q) == {q[i] : i \in {j \in DOMAIN q : Kind(q[j]) = "ReportPosition"}}

\* A request to delete d waits.
DelWaits(q, d) == \E i \in DOMAIN q : Kind(q[i]) = "DelAidData" /\ q[i].data = d

\* Right before each message of the one what is one of the other.
Follows(q, what, other) ==
    \A i \in DOMAIN q : i > 1 /\ Kind(q[i]) = what => Kind(q[i - 1]) = other

Once(q, what) ==
    \A i, j \in DOMAIN q : Kind(q[i]) = what /\ Kind(q[j]) = what => i = j

SessionTypes ==
    /\ session_queue \in Seq(SessionMessages)
    /\ session_task \in {"next", "start", "restart", "stop"}
    /\ mFixCriteria \in Criteria
    /\ mNavigating \in BOOLEAN /\ mInSession \in BOOLEAN /\ mEngineOn \in BOOLEAN
    /\ engine_status \in {"NONE", "ENGINE_ON", "ENGINE_OFF"}
    /\ mute_session_state \in {"NONE", "WAIT", "IN_SESSION"}
    /\ qmi \in [up: BOOLEAN, registered: BOOLEAN, engine: BOOLEAN, network: BOOLEAN,
                session: Criteria \cup {NoSession}]
    /\ client \in [on: BOOLEAN, recurrence: Recurrences]
    /\ starts \in Nat
    /\ happened \in [Events \cup {"start"} -> Nat]

\* Nothing that EngineFollowsClient excuses has happened to requests of the client.
Trusting == happened["refusal"] = 0 /\ "stale" \notin excuses

\* mNavigating once the task has done with its message.
WillNavigate ==
    session_task = "start" \/ (session_task \in {"next", "restart"} /\ mNavigating)

\* The session the client wants is the one there will be.
WantedComes ==
    Trusting =>
        /\ client.on =>
              \/ LastOf(session_queue, "StartFix", "StopFix")
              \/ WillNavigate /\ ~Has(session_queue, "StopFix")
        /\ ~client.on =>
              \/ "revived" \in excuses
              \/ LastOf(session_queue, "StopFix", "StartFix")
              \/ ~WillNavigate /\ ~Has(session_queue, "StartFix")

\* So is the recurrence.
ModeComes ==
    client.on =>
        \/ LastMode(session_queue, client.recurrence)
        \/ /\ ~Has(session_queue, "PositionMode")
           /\ mFixCriteria.recurrence = client.recurrence

\* Unless the modem crashed, a mode is set before a session starts.
ModeFirst ==
    happened["crash"] = 0 =>
        /\ mNavigating \/ session_task = "start" => mFixCriteria.mode = "ms_based"
        /\ Follows(session_queue, "StartFix", "PositionMode")
        /\ HeadIs(session_queue, "StartFix") =>
              mFixCriteria.mode = "ms_based" /\ session_task \in {"next", "restart"}

\* A modem that is down is opened anew once, and right after that is said to be up; no
\* session begins in between.
Recovers ==
    /\ happened["crash"] = 0 =>
          /\ qmi.up /\ ~Has(session_queue, "LocEngUp") /\ ~Has(session_queue, "LocEngDown")
    /\ qmi.up <=> ~Has(session_queue, "LocSsr")
    /\ ~qmi.up => /\ qmi.session = NoSession /\ ~qmi.registered /\ ~qmi.engine
                  /\ LastOf(session_queue, "LocEngUp", "LocSsr")
    /\ Once(session_queue, "LocSsr")
    /\ Follows(session_queue, "LocEngUp", "LocSsr")
    /\ HeadIs(session_queue, "LocEngUp") => session_task = "next" /\ qmi.session = NoSession

\* The modem's session is the adapter's.
SessionFits ==
    /\ session_task = "start" => ~mNavigating
    /\ session_task = "restart" => mNavigating
    /\ Trusting =>
        /\ session_task = "stop" => qmi.session = NoSession
        /\ session_task = "next" =>
              /\ ~mNavigating => qmi.session = NoSession
              /\ mNavigating => qmi.session \in {NoSession, mFixCriteria}
              /\ mNavigating /\ mFixCriteria.recurrence = "periodic" =>
                    qmi.session = mFixCriteria \/ Has(session_queue, "LocEngUp")

\* A report of its last position ends the modem's session.
LastEnds ==
    \A m \in Reports(session_queue) :
        /\ m.start <= starts
        /\ /\ Trusting /\ m.final /\ m.start = starts
           /\ session_task = "next" /\ mNavigating /\ mFixCriteria.recurrence = "single"
           => qmi.session = NoSession

OffWaits == \/ Has(session_queue, "turned off")
            \/ Has(session_queue, "ENGINE_OFF")
            \/ Has(session_queue, "LocEngDown")

\* The engine is not thought to be on for ever.
OffComes ==
    /\ "late" \notin excuses /\ engine_status = "ENGINE_ON" =>
          OffWaits \/ (qmi.engine /\ qmi.registered /\ mEngineOn)
    /\ \/ mEngineOn
       \/ ~Has(session_queue, "ENGINE_ON")
       \/ LastOf(session_queue, "ENGINE_OFF", "ENGINE_ON")

\* A session is muted no longer than the engine is thought to be on.
MutedWhileOn ==
    /\ mute_session_state = "IN_SESSION" => engine_status = "ENGINE_ON"
    /\ Follows(session_queue, "SESSION_BEGIN", "ENGINE_ON")
    /\ HeadIs(session_queue, "SESSION_BEGIN") => engine_status = "ENGINE_ON"

\* Data to delete are on their way until they are deleted.
DataSeenTo ==
    happened["crash"] = 0 =>
        /\ aiding_data_for_deletion # {} => engine_status = "ENGINE_ON"
        /\ "overwritten" \notin excuses =>
              \A d \in asked :
                  d \in deleted \cup aiding_data_for_deletion \/ DelWaits(session_queue, d)

SessionInv ==
    /\ SessionTypes
    /\ WantedComes
    /\ ModeComes
    /\ ModeFirst
    /\ Recovers
    /\ SessionFits
    /\ LastEnds
    /\ OffComes
    /\ MutedWhileOn
    /\ DataSeenTo

-----------------------------------------------------------------------------
(* Lemmas about queues.                                                    *)

\* What is left of a queue when its first message is taken.
LEMMA TailOfQueue ==
    ASSUME NEW S, NEW q \in Seq(S), q # << >>
    PROVE  /\ Tail(q) \in Seq(S) /\ Len(Tail(q)) = Len(q) - 1 /\ Len(q) \in Nat /\ Len(q) > 0
           /\ DOMAIN q = 1..Len(q) /\ DOMAIN Tail(q) = 1..Len(q) - 1
           /\ Head(q) = q[1] /\ 1 \in DOMAIN q /\ q[1] \in S
           /\ \A i \in DOMAIN Tail(q) : i + 1 \in DOMAIN q /\ Tail(q)[i] = q[i + 1]
           /\ \A i \in DOMAIN q : i # 1 => i - 1 \in DOMAIN Tail(q) /\ Tail(q)[i - 1] = q[i]
OBVIOUS

\* What waits in it, and last of all.
LEMMA TailHas ==
    ASSUME NEW S, NEW q \in Seq(S), q # << >>
    PROVE  /\ \A t : Has(q, t) <=> Kind(q[1]) = t \/ Has(Tail(q), t)
           /\ \A t, o : LastOf(q, t, o) =>
                  \/ LastOf(Tail(q), t, o)
                  \/ Kind(q[1]) = t /\ ~Has(Tail(q), o)
           /\ \A r : LastMode(q, r) =>
                  \/ LastMode(Tail(q), r)
                  \/ /\ Kind(q[1]) = "PositionMode" /\ q[1].recurrence = r
                     /\ ~Has(Tail(q), "PositionMode")
           /\ \A t, o : Follows(q, t, o) =>
                  /\ Follows(Tail(q), t, o)
                  /\ HeadIs(Tail(q), t) => Kind(q[1]) = o
           /\ \A t : Once(q, t) =>
                  /\ Once(Tail(q), t)
                  /\ Kind(q[1]) = t => ~Has(Tail(q), t)
<1> DEFINE p == Tail(q)
<1>1. /\ DOMAIN q = 1..Len(q) /\ DOMAIN p = 1..Len(q) - 1 /\ 1 \in DOMAIN q /\ Len(q) \in Nat
      /\ \A i \in DOMAIN p : i + 1 \in DOMAIN q /\ p[i] = q[i + 1]
      /\ \A i \in DOMAIN q : i # 1 => i - 1 \in DOMAIN p /\ p[i - 1] = q[i]
  BY TailOfQueue
<1> HIDE DEF p
<1>2. \A t : Has(q, t) <=> Kind(q[1]) = t \/ Has(p, t)
  <2> TAKE t
  <2>1. Has(q, t) => Kind(q[1]) = t \/ Has(p, t)  BY <1>1 DEF Has
  <2>2. Has(p, t) => Has(q, t)  BY <1>1 DEF Has
  <2>3. Kind(q[1]) = t => Has(q, t)  BY <1>1 DEF Has
  <2> QED  BY <2>1, <2>2, <2>3
<1>3. ASSUME NEW t, NEW o, LastOf(q, t, o)
      PROVE  LastOf(p, t, o) \/ (Kind(q[1]) = t /\ ~Has(p, o))
  <2>1. PICK i \in DOMAIN q : /\ Kind(q[i]) = t
                              /\ \A j \in DOMAIN q : j > i => Kind(q[j]) # o
    BY <1>3 DEF LastOf
  <2>2. CASE i = 1
    <3>1. \A j \in DOMAIN p : Kind(p[j]) # o
      <4> TAKE j \in DOMAIN p
      <4>1. j + 1 \in DOMAIN q /\ p[j] = q[j + 1] /\ j + 1 > i  BY <1>1, <2>2
      <4> QED  BY <4>1, <2>1
    <3> QED  BY <2>1, <2>2, <3>1 DEF Has
  <2>3. CASE i # 1
    <3>1. i - 1 \in DOMAIN p /\ Kind(p[i - 1]) = t  BY <1>1, <2>1, <2>3
    <3>2. \A j \in DOMAIN p : j > i - 1 => Kind(p[j]) # o
      <4> SUFFICES ASSUME NEW j \in DOMAIN p, j > i - 1 PROVE Kind(p[j]) # o
        OBVIOUS
      <4>1. j + 1 \in DOMAIN q /\ p[j] = q[j + 1] /\ j + 1 > i  BY <1>1
      <4> QED  BY <4>1, <2>1
    <3> QED  BY <3>1, <3>2 DEF LastOf
  <2> QED  BY <2>2, <2>3
<1>4. ASSUME NEW r, LastMode(q, r)
      PROVE  LastMode(p, r) \/ /\ Kind(q[1]) = "PositionMode" /\ q[1].recurrence = r
                               /\ ~Has(p, "PositionMode")
  <2>1. PICK i \in DOMAIN q : /\ Kind(q[i]) = "PositionMode" /\ q[i].recurrence = r
                              /\ \A j \in DOMAIN q : j > i => Kind(q[j]) # "PositionMode"
    BY <1>4 DEF LastMode
  <2>2. CASE i = 1
    <3>1. \A j \in DOMAIN p : Kind(p[j]) # "PositionMode"
      <4> TAKE j \in DOMAIN p
      <4>1. j + 1 \in DOMAIN q /\ p[j] = q[j + 1] /\ j + 1 > i  BY <1>1, <2>2
      <4> QED  BY <4>1, <2>1
    <3> QED  BY <2>1, <2>2, <3>1 DEF Has
  <2>3. CASE i # 1
    <3>1. i - 1 \in DOMAIN p /\ p[i - 1] = q[i]  BY <1>1, <2>1, <2>3
    <3>2. \A j \in DOMAIN p : j > i - 1 => Kind(p[j]) # "PositionMode"
      <4> SUFFICES ASSUME NEW j \in DOMAIN p, j > i - 1 PROVE Kind(p[j]) # "PositionMode"
        OBVIOUS
      <4>1. j + 1 \in DOMAIN q /\ p[j] = q[j + 1] /\ j + 1 > i  BY <1>1
      <4> QED  BY <4>1, <2>1
    <3> QED  BY <2>1, <3>1, <3>2 DEF LastMode
  <2> QED  BY <2>2, <2>3
<1>5. ASSUME NEW t, NEW o, Follows(q, t, o)
      PROVE  Follows(p, t, o) /\ (HeadIs(p, t) => Kind(q[1]) = o)
  <2>1. ASSUME NEW i \in DOMAIN p, i > 1, Kind(p[i]) = t PROVE Kind(p[i - 1]) = o
    <3>1. i + 1 \in DOMAIN q /\ p[i] = q[i + 1] /\ i \in DOMAIN q /\ i # 1 /\ i + 1 > 1
      BY <1>1, <2>1
    <3>2. i - 1 \in DOMAIN p /\ p[i - 1] = q[i] /\ (i + 1) - 1 = i  BY <1>1, <3>1
    <3> QED  BY <1>5, <2>1, <3>1, <3>2 DEF Follows
  <2>2. ASSUME HeadIs(p, t) PROVE Kind(q[1]) = o
    <3>1. 1 \in DOMAIN p  BY <1>1, <2>2, TailOfQueue DEF HeadIs, p
    <3>2. 1 + 1 \in DOMAIN q /\ p[1] = q[1 + 1] /\ 1 + 1 > 1 /\ (1 + 1) - 1 = 1  BY <1>1, <3>1
    <3> QED  BY <1>5, <2>2, <3>2 DEF Follows, HeadIs
  <2> QED  BY <2>1, <2>2 DEF Follows
<1>6. ASSUME NEW t, Once(q, t) PROVE Once(p, t) /\ (Kind(q[1]) = t => ~Has(p, t))
  <2>1. ASSUME NEW i \in DOMAIN p, NEW j \in DOMAIN p, Kind(p[i]) = t, Kind(p[j]) = t
        PROVE  i = j
    <3>1. /\ i + 1 \in DOMAIN q /\ p[i] = q[i + 1]
          /\ j + 1 \in DOMAIN q /\ p[j] = q[j + 1]  BY <1>1
    <3>2. i + 1 = j + 1  BY <1>6, <2>1, <3>1 DEF Once
    <3> QED  BY <1>1, <3>2
  <2>2. ASSUME Kind(q[1]) = t, NEW i \in DOMAIN p PROVE Kind(p[i]) # t
    <3>1. i + 1 \in DOMAIN q /\ p[i] = q[i + 1] /\ i + 1 # 1  BY <1>1
    <3> QED  BY <1>1, <1>6, <2>2, <3>1 DEF Once
  <2> QED  BY <2>1, <2>2 DEF Once, Has
<1> QED  BY <1>2, <1>3, <1>4, <1>5, <1>6 DEF p

\* A queue to which messages are posted.
LEMMA PostOfQueue ==
    ASSUME NEW S, NEW q \in Seq(S), NEW ms \in Seq(S)
    PROVE  /\ q \o ms \in Seq(S) /\ Len(q) \in Nat /\ Len(ms) \in Nat
           /\ DOMAIN q = 1..Len(q) /\ DOMAIN ms = 1..Len(ms)
           /\ DOMAIN (q \o ms) = 1..Len(q) + Len(ms)
           /\ \A i \in DOMAIN q : i \in DOMAIN (q \o ms) /\ (q \o ms)[i] = q[i]
           /\ \A i \in DOMAIN ms : /\ Len(q) + i \in DOMAIN (q \o ms)
                                   /\ (q \o ms)[Len(q) + i] = ms[i]
           /\ \A i \in DOMAIN (q \o ms) : i \notin DOMAIN q =>
                  i - Len(q) \in DOMAIN ms /\ (q \o ms)[i] = ms[i - Len(q)]
<1>1. /\ q \o ms \in Seq(S) /\ Len(q \o ms) = Len(q) + Len(ms)
      /\ \A i \in 1 .. Len(q) + Len(ms) : (q \o ms)[i] =
                     IF i <= Len(q) THEN q[i] ELSE ms[i - Len(q)]
  BY ConcatProperties
<1>2. /\ Len(q) \in Nat /\ Len(ms) \in Nat /\ DOMAIN q = 1..Len(q) /\ DOMAIN ms = 1..Len(ms)
      /\ DOMAIN (q \o ms) = 1..Len(q \o ms)
  BY <1>1
<1> DEFINE p == q \o ms
<1> HIDE DEF p
<1> QED  BY <1>1, <1>2 DEF p

\* What waits in it.
LEMMA PostHas ==
    ASSUME NEW S, NEW q \in Seq(S), NEW ms \in Seq(S)
    PROVE  /\ \A t : Has(q \o ms, t) <=> Has(q, t) \/ Has(ms, t)
           /\ \A t, o : LastOf(q, t, o) /\ ~Has(ms, o) => LastOf(q \o ms, t, o)
           /\ \A t, o : LastOf(ms, t, o) => LastOf(q \o ms, t, o)
           /\ \A r : LastMode(q, r) /\ ~Has(ms, "PositionMode") => LastMode(q \o ms, r)
           /\ \A r : LastMode(ms, r) => LastMode(q \o ms, r)
           /\ \A t, o : Follows(q, t, o) /\ Follows(ms, t, o) /\ ~HeadIs(ms, t) =>
                  /\ Follows(q \o ms, t, o)
                  /\ HeadIs(q \o ms, t) => HeadIs(q, t)
           /\ \A t : Once(q, t) /\ ~Has(ms, t) => Once(q \o ms, t)
           /\ \A t : Once(ms, t) /\ ~Has(q, t) => Once(q \o ms, t)
<1> DEFINE p == q \o ms
           n == Len(q)
<1>1. /\ n \in Nat /\ DOMAIN q = 1..n /\ DOMAIN ms = 1..Len(ms) /\ Len(ms) \in Nat
      /\ \A i \in DOMAIN q : i \in DOMAIN p /\ p[i] = q[i]
      /\ \A i \in DOMAIN ms : n + i \in DOMAIN p /\ p[n + i] = ms[i]
      /\ \A i \in DOMAIN p : i \notin DOMAIN q => i - n \in DOMAIN ms /\ p[i] = ms[i - n]
      /\ DOMAIN p = 1..n + Len(ms)
  BY PostOfQueue
<1> HIDE DEF p, n
<1>2. \A t : Has(p, t) <=> Has(q, t) \/ Has(ms, t)
  BY <1>1 DEF Has
<1>3. ASSUME NEW t, NEW o, LastOf(q, t, o), ~Has(ms, o) PROVE LastOf(p, t, o)
  BY <1>1, <1>3 DEF LastOf, Has
<1>4. ASSUME NEW t, NEW o, LastOf(ms, t, o) PROVE LastOf(p, t, o)
  <2>1. PICK i \in DOMAIN ms : /\ Kind(ms[i]) = t
                               /\ \A j \in DOMAIN ms : j > i => Kind(ms[j]) # o
    BY <1>4 DEF LastOf
  <2>2. n + i \in DOMAIN p /\ Kind(p[n + i]) = t  BY <1>1, <2>1
  <2>3. ASSUME NEW j \in DOMAIN p, j > n + i PROVE Kind(p[j]) # o
    <3>1. j \notin DOMAIN q  BY <1>1, <2>1, <2>3
    <3>2. j - n \in DOMAIN ms /\ p[j] = ms[j - n] /\ j - n > i  BY <1>1, <2>1, <2>3, <3>1
    <3> QED  BY <2>1, <3>2
  <2> QED  BY <2>2, <2>3 DEF LastOf
<1>5. ASSUME NEW r, LastMode(q, r), ~Has(ms, "PositionMode") PROVE LastMode(p, r)
  BY <1>1, <1>5 DEF LastMode, Has
<1>6. ASSUME NEW r, LastMode(ms, r) PROVE LastMode(p, r)
  <2>1. PICK i \in DOMAIN ms : /\ Kind(ms[i]) = "PositionMode" /\ ms[i].recurrence = r
                               /\ \A j \in DOMAIN ms : j > i => Kind(ms[j]) # "PositionMode"
    BY <1>6 DEF LastMode
  <2>2. n + i \in DOMAIN p /\ p[n + i] = ms[i]  BY <1>1, <2>1
  <2>3. ASSUME NEW j \in DOMAIN p, j > n + i PROVE Kind(p[j]) # "PositionMode"
    <3>1. j \notin DOMAIN q  BY <1>1, <2>1, <2>3
    <3>2. j - n \in DOMAIN ms /\ p[j] = ms[j - n] /\ j - n > i  BY <1>1, <2>1, <2>3, <3>1
    <3> QED  BY <2>1, <3>2
  <2> QED  BY <2>1, <2>2, <2>3 DEF LastMode
<1>7. ASSUME NEW t, NEW o, Follows(q, t, o), Follows(ms, t, o), ~HeadIs(ms, t)
      PROVE  Follows(p, t, o) /\ (HeadIs(p, t) => HeadIs(q, t))
  <2>1. 1 \in DOMAIN ms => Kind(ms[1]) # t  BY <1>1, <1>7 DEF HeadIs
  <2>2. ASSUME NEW i \in DOMAIN p, i > 1, Kind(p[i]) = t PROVE Kind(p[i - 1]) = o
    <3>1. CASE i \in DOMAIN q
      <4>1. i - 1 \in DOMAIN q /\ p[i] = q[i] /\ p[i - 1] = q[i - 1]  BY <1>1, <2>2, <3>1
      <4> QED  BY <1>7, <2>2, <3>1, <4>1 DEF Follows
    <3>2. CASE i \notin DOMAIN q
      <4>1. i - n \in DOMAIN ms /\ p[i] = ms[i - n]  BY <1>1, <3>2
      <4>2. i - n > 1  BY <1>1, <2>1, <2>2, <4>1
      <4>3. (i - n) - 1 \in DOMAIN ms /\ n + ((i - n) - 1) = i - 1  BY <1>1, <4>1, <4>2
      <4>4. p[i - 1] = ms[(i - n) - 1]  BY <1>1, <4>3
      <4> QED  BY <1>7, <2>2, <4>1, <4>2, <4>4 DEF Follows
    <3> QED  BY <3>1, <3>2
  <2>3. ASSUME HeadIs(p, t) PROVE HeadIs(q, t)
    <3>1. 1 \in DOMAIN p  BY <2>3, PostOfQueue DEF HeadIs, p
    <3>2. CASE 1 \in DOMAIN q  BY <1>1, <2>3, <3>2 DEF HeadIs
    <3>3. CASE 1 \notin DOMAIN q
      <4>1. n = 0 /\ 1 - n \in DOMAIN ms /\ p[1] = ms[1 - n]  BY <1>1, <3>1, <3>3
      <4>2. 1 - n = 1  BY <4>1
      <4> QED  BY <2>1, <2>3, <4>1, <4>2 DEF HeadIs
    <3> QED  BY <3>2, <3>3
  <2> QED  BY <2>2, <2>3 DEF Follows
<1>8. ASSUME NEW t, Once(q, t), ~Has(ms, t) PROVE Once(p, t)
  BY <1>1, <1>8 DEF Once, Has
<1>9. ASSUME NEW t, Once(ms, t), ~Has(q, t) PROVE Once(p, t)
  <2> SUFFICES ASSUME NEW i \in DOMAIN p, NEW j \in DOMAIN p, Kind(p[i]) = t, Kind(p[j]) = t
               PROVE  i = j
    BY DEF Once
  <2>1. i \notin DOMAIN q /\ j \notin DOMAIN q  BY <1>1, <1>9 DEF Has
  <2>2. /\ i - n \in DOMAIN ms /\ p[i] = ms[i - n]
        /\ j - n \in DOMAIN ms /\ p[j] = ms[j - n]  BY <1>1, <2>1
  <2>3. i - n = j - n  BY <1>9, <2>2 DEF Once
  <2> QED  BY <1>1, <2>3
<1> QED  BY <1>2, <1>3, <1>4, <1>5, <1>6, <1>7, <1>8, <1>9 DEF p

\* What is known of the queue when its first message has been taken.
LEMMA Taken ==
    ASSUME SessionTypes, session_queue # << >>, session_queue' = Tail(session_queue)
    PROVE  /\ session_queue' \in Seq(SessionMessages) /\ session_queue[1] \in SessionMessages
           /\ Head(session_queue) = session_queue[1]
           /\ \A t : Has(session_queue, t) <=> Kind(session_queue[1]) = t \/ Has(session_queue', t)
           /\ \A t, o : LastOf(session_queue, t, o) =>
                  \/ LastOf(session_queue', t, o)
                  \/ Kind(session_queue[1]) = t /\ ~Has(session_queue', o)
           /\ \A r : LastMode(session_queue, r) =>
                  \/ LastMode(session_queue', r)
                  \/ /\ Kind(session_queue[1]) = "PositionMode"
                     /\ session_queue[1].recurrence = r
                     /\ ~Has(session_queue', "PositionMode")
           /\ \A t, o : Follows(session_queue, t, o) =>
                  /\ Follows(session_queue', t, o)
                  /\ HeadIs(session_queue', t) => Kind(session_queue[1]) = o
           /\ \A t : Once(session_queue, t) =>
                  /\ Once(session_queue', t)
                  /\ Kind(session_queue[1]) = t => ~Has(session_queue', t)
           /\ Reports(session_queue') \subseteq Reports(session_queue)
           /\ \A d : DelWaits(session_queue, d) =>
                  \/ DelWaits(session_queue', d)
                  \/ Kind(session_queue[1]) = "DelAidData" /\ session_queue[1].data = d
<1>1. session_queue \in Seq(SessionMessages)  BY DEF SessionTypes
<1>2. \A i \in DOMAIN session_queue' : i + 1 \in DOMAIN session_queue
                                       /\ session_queue'[i] = session_queue[i + 1]
  BY <1>1, TailOfQueue
<1>3. \A i \in DOMAIN session_queue : i # 1 => i - 1 \in DOMAIN session_queue'
                                               /\ session_queue'[i - 1] = session_queue[i]
  BY <1>1, TailOfQueue
<1>4. /\ session_queue' \in Seq(SessionMessages) /\ session_queue[1] \in SessionMessages
      /\ Head(session_queue) = session_queue[1]
  BY <1>1, TailOfQueue
<1>5. ASSUME NEW d, DelWaits(session_queue, d)
      PROVE  \/ DelWaits(session_queue', d)
             \/ Kind(session_queue[1]) = "DelAidData" /\ session_queue[1].data = d
  BY <1>3, <1>5 DEF DelWaits
<1>6. Reports(session_queue') \subseteq Reports(session_queue)
  <2> SUFFICES ASSUME NEW i \in DOMAIN session_queue',
                      Kind(session_queue'[i]) = "ReportPosition"
               PROVE  session_queue'[i] \in Reports(session_queue)
    BY DEF Reports
  <2> QED  BY <1>2 DEF Reports
<1> QED  BY <1>1, <1>4, <1>5, <1>6, TailHas

\* ... and when messages have been posted.
LEMMA Posted ==
    ASSUME NEW q \in Seq(SessionMessages), NEW ms \in Seq(SessionMessages),
           session_queue' = q \o ms
    PROVE  /\ session_queue' \in Seq(SessionMessages)
           /\ \A t : Has(session_queue', t) <=> Has(q, t) \/ Has(ms, t)
           /\ \A t, o : LastOf(q, t, o) /\ ~Has(ms, o) => LastOf(session_queue', t, o)
           /\ \A t, o : LastOf(ms, t, o) => LastOf(session_queue', t, o)
           /\ \A r : LastMode(q, r) /\ ~Has(ms, "PositionMode") => LastMode(session_queue', r)
           /\ \A r : LastMode(ms, r) => LastMode(session_queue', r)
           /\ \A t, o : Follows(q, t, o) /\ Follows(ms, t, o) /\ ~HeadIs(ms, t) =>
                  /\ Follows(session_queue', t, o)
                  /\ HeadIs(session_queue', t) => HeadIs(q, t)
           /\ \A t : Once(q, t) /\ ~Has(ms, t) => Once(session_queue', t)
           /\ \A t : Once(ms, t) /\ ~Has(q, t) => Once(session_queue', t)
           /\ Reports(session_queue') \subseteq Reports(q) \cup Reports(ms)
           /\ \A d : DelWaits(q, d) \/ DelWaits(ms, d) => DelWaits(session_queue', d)
<1>1. /\ session_queue' \in Seq(SessionMessages)
      /\ \A i \in DOMAIN q : i \in DOMAIN session_queue' /\ session_queue'[i] = q[i]
      /\ \A i \in DOMAIN ms : /\ Len(q) + i \in DOMAIN session_queue'
                              /\ session_queue'[Len(q) + i] = ms[i]
      /\ \A i \in DOMAIN session_queue' : i \notin DOMAIN q =>
             i - Len(q) \in DOMAIN ms /\ session_queue'[i] = ms[i - Len(q)]
  BY PostOfQueue
<1>2. /\ \A i \in DOMAIN session_queue' :
             \/ \E j \in DOMAIN q : session_queue'[i] = q[j]
             \/ \E j \in DOMAIN ms : session_queue'[i] = ms[j]
      /\ \A i \in DOMAIN q : \E j \in DOMAIN session_queue' : session_queue'[j] = q[i]
      /\ \A i \in DOMAIN ms : \E j \in DOMAIN session_queue' : session_queue'[j] = ms[i]
  BY <1>1
<1>3. ASSUME NEW d, DelWaits(q, d) \/ DelWaits(ms, d) PROVE DelWaits(session_queue', d)
  <2>1. CASE DelWaits(q, d)  BY <1>2, <2>1 DEF DelWaits
  <2>2. CASE DelWaits(ms, d)  BY <1>2, <2>2 DEF DelWaits
  <2> QED  BY <1>3, <2>1, <2>2
<1>4. Reports(session_queue') \subseteq Reports(q) \cup Reports(ms)
  <2> SUFFICES ASSUME NEW i \in DOMAIN session_queue',
                      Kind(session_queue'[i]) = "ReportPosition"
               PROVE  session_queue'[i] \in Reports(q) \cup Reports(ms)
    BY DEF Reports
  <2> QED  BY <1>2 DEF Reports
<1> QED  BY <1>1, <1>3, <1>4, PostHas

-----------------------------------------------------------------------------
(* What the modem is asked.                                                *)

QmiStates == [up: BOOLEAN, registered: BOOLEAN, engine: BOOLEAN, network: BOOLEAN,
              session: Criteria \cup {NoSession}]

\* Registering for events changes nothing else.
LEMMA RegisteredQmi ==
    ASSUME SessionTypes, NEW inSession \in BOOLEAN
    PROVE  /\ Registered(inSession) \in QmiStates
           /\ Registered(inSession).up = qmi.up /\ Registered(inSession).engine = qmi.engine
           /\ Registered(inSession).network = qmi.network
           /\ Registered(inSession).session = qmi.session
           /\ Registered(inSession).registered <=> inSession /\ qmi.up
<1>1. qmi \in QmiStates  BY DEF SessionTypes, QmiStates
<1>2. (inSession /\ qmi.up) \in BOOLEAN  BY <1>1 DEF QmiStates
<1> DEFINE r == inSession /\ qmi.up
<1>3. Registered(inSession) = [qmi EXCEPT !.registered = r]  BY DEF Registered
<1> HIDE DEF r
<1>4. r \in BOOLEAN  BY <1>2 DEF r
<1>5. /\ Registered(inSession) \in QmiStates
      /\ Registered(inSession).up = qmi.up /\ Registered(inSession).engine = qmi.engine
      /\ Registered(inSession).network = qmi.network
      /\ Registered(inSession).session = qmi.session
      /\ Registered(inSession).registered = r
  BY <1>1, <1>3, <1>4 DEF QmiStates
<1> QED  BY <1>5 DEF r

\* What is counted.
LEMMA Counts ==
    ASSUME SessionTypes, NEW e \in Events \cup {"start"}, Count(e)
    PROVE  /\ happened' \in [Events \cup {"start"} -> Nat]
           /\ happened'[e] = happened[e] + 1 /\ happened[e] \in Nat /\ happened'[e] # 0
           /\ \A k \in Events \cup {"start"} : k # e => happened'[k] = happened[k]
BY DEF SessionTypes, Count

\* A stop leaves no session in the modem, unless it is refused.
LEMMA StopFixes ==
    ASSUME SessionTypes, Recovers, StopFix
    PROVE  /\ mInSession' = FALSE /\ session_task' = "stop"
           /\ starts' = starts /\ mEngineOn' = mEngineOn
           /\ qmi' \in QmiStates /\ qmi'.up = qmi.up /\ qmi'.registered = qmi.registered
           /\ qmi'.engine = qmi.engine /\ qmi'.network = qmi.network
           /\ qmi'.session \in {qmi.session, NoSession}
           /\ \/ qmi'.session = NoSession /\ happened' = happened
              \/ happened'["refusal"] # 0
           /\ happened' \in [Events \cup {"start"} -> Nat]
           /\ happened'["crash"] = happened["crash"]
<1>1. /\ mInSession' = FALSE /\ session_task' = "stop"
      /\ starts' = starts /\ mEngineOn' = mEngineOn
  BY DEF StopFix
<1>2. /\ "refusal" \in Events \cup {"start"} /\ "crash" \in Events \cup {"start"}
      /\ "crash" # "refusal"
  BY DEF Events
<1>3. qmi \in QmiStates /\ happened \in [Events \cup {"start"} -> Nat]
  BY DEF SessionTypes, QmiStates
<1>4. CASE qmi.up /\ qmi' = [qmi EXCEPT !.session = NoSession] /\ UNCHANGED happened
  <2>1. /\ qmi' \in QmiStates /\ qmi'.up = qmi.up /\ qmi'.registered = qmi.registered
        /\ qmi'.engine = qmi.engine /\ qmi'.network = qmi.network /\ qmi'.session = NoSession
    BY <1>3, <1>4 DEF QmiStates
  <2> QED  BY <1>1, <1>3, <1>4, <2>1
<1>5. CASE ~qmi.up /\ UNCHANGED <<qmi, happened>>
  BY <1>1, <1>3, <1>5 DEF Recovers
<1>6. CASE qmi.up /\ Count("refusal") /\ UNCHANGED qmi
  BY <1>1, <1>2, <1>3, <1>6, Counts
<1> QED  BY <1>4, <1>5, <1>6 DEF StopFix

\* What is known of the queue when its first message has been answered with others.
LEMMA Answered ==
    ASSUME SessionTypes, session_queue # << >>, NEW ms \in Seq(SessionMessages),
           session_queue' = Tail(session_queue) \o ms
    PROVE  /\ session_queue' \in Seq(SessionMessages) /\ session_queue[1] \in SessionMessages
           /\ Head(session_queue) = session_queue[1]
           /\ \A t : Has(session_queue', t) => Has(session_queue, t) \/ Has(ms, t)
           /\ \A t : Has(ms, t) => Has(session_queue', t)
           /\ \A t : Has(session_queue, t) /\ Kind(session_queue[1]) # t => Has(session_queue', t)
           /\ \A t, o : LastOf(session_queue, t, o) /\ Kind(session_queue[1]) # t /\ ~Has(ms, o)
                  => LastOf(session_queue', t, o)
           /\ \A t, o : LastOf(ms, t, o) => LastOf(session_queue', t, o)
           /\ \A r : /\ LastMode(session_queue, r) /\ ~Has(ms, "PositionMode")
                     /\ Kind(session_queue[1]) # "PositionMode"
                  => LastMode(session_queue', r)
           /\ \A t, o : Follows(session_queue, t, o) /\ Follows(ms, t, o) /\ ~HeadIs(ms, t) =>
                  /\ Follows(session_queue', t, o)
                  /\ HeadIs(session_queue', t) => Kind(session_queue[1]) = o
           /\ \A t : Once(session_queue, t) /\ ~Has(ms, t) => Once(session_queue', t)
           /\ Reports(session_queue') \subseteq Reports(session_queue) \cup Reports(ms)
           /\ \A d : DelWaits(session_queue, d) /\ Kind(session_queue[1]) # "DelAidData"
                  => DelWaits(session_queue', d)
<1> DEFINE p == Tail(session_queue)
<1>1. session_queue \in Seq(SessionMessages)  BY DEF SessionTypes
<1>2. /\ p \in Seq(SessionMessages) /\ session_queue[1] \in SessionMessages
      /\ Head(session_queue) = session_queue[1]
      /\ \A i \in DOMAIN p : i + 1 \in DOMAIN session_queue /\ p[i] = session_queue[i + 1]
      /\ \A i \in DOMAIN session_queue : i # 1 => i - 1 \in DOMAIN p
                                                  /\ p[i - 1] = session_queue[i]
  BY <1>1, TailOfQueue
<1>3. /\ \A t : Has(session_queue, t) <=> Kind(session_queue[1]) = t \/ Has(p, t)
      /\ \A t, o : LastOf(session_queue, t, o) =>
             \/ LastOf(p, t, o)
             \/ Kind(session_queue[1]) = t /\ ~Has(p, o)
      /\ \A r : LastMode(session_queue, r) =>
             \/ LastMode(p, r)
             \/ /\ Kind(session_queue[1]) = "PositionMode" /\ session_queue[1].recurrence = r
                /\ ~Has(p, "PositionMode")
      /\ \A t, o : Follows(session_queue, t, o) =>
             /\ Follows(p, t, o)
             /\ HeadIs(p, t) => Kind(session_queue[1]) = o
      /\ \A t : Once(session_queue, t) =>
             /\ Once(p, t)
             /\ Kind(session_queue[1]) = t => ~Has(p, t)
  BY <1>1, TailHas
<1>4. Reports(p) \subseteq Reports(session_queue)
  <2> HIDE DEF p
  <2> SUFFICES ASSUME NEW i \in DOMAIN p, Kind(p[i]) = "ReportPosition"
               PROVE  p[i] \in Reports(session_queue)
    BY DEF Reports
  <2> QED  BY <1>2 DEF Reports
<1>5. ASSUME NEW d, DelWaits(session_queue, d), Kind(session_queue[1]) # "DelAidData"
      PROVE  DelWaits(p, d)
  <2> HIDE DEF p
  <2> QED  BY <1>2, <1>5 DEF DelWaits
<1>6. session_queue' = p \o ms  OBVIOUS
<1> HIDE DEF p
<1>7. /\ session_queue' \in Seq(SessionMessages)
      /\ \A t : Has(session_queue', t) <=> Has(p, t) \/ Has(ms, t)
      /\ \A t, o : LastOf(p, t, o) /\ ~Has(ms, o) => LastOf(session_queue', t, o)
      /\ \A t, o : LastOf(ms, t, o) => LastOf(session_queue', t, o)
      /\ \A r : LastMode(p, r) /\ ~Has(ms, "PositionMode") => LastMode(session_queue', r)
      /\ \A t, o : Follows(p, t, o) /\ Follows(ms, t, o) /\ ~HeadIs(ms, t) =>
             /\ Follows(session_queue', t, o)
             /\ HeadIs(session_queue', t) => HeadIs(p, t)
      /\ \A t : Once(p, t) /\ ~Has(ms, t) => Once(session_queue', t)
      /\ Reports(session_queue') \subseteq Reports(p) \cup Reports(ms)
      /\ \A d : DelWaits(p, d) \/ DelWaits(ms, d) => DelWaits(session_queue', d)
  BY <1>2, <1>6, Posted
<1> QED  BY <1>2, <1>3, <1>4, <1>5, <1>7

\* One message.
LEMMA OneMessage ==
    ASSUME NEW a
    PROVE  /\ \A t : Has(<<a>>, t) <=> Kind(a) = t
           /\ \A t : HeadIs(<<a>>, t) <=> Kind(a) = t
           /\ \A t, o : LastOf(<<a>>, t, o) <=> Kind(a) = t
           /\ \A r : LastMode(<<a>>, r) <=> Kind(a) = "PositionMode" /\ a.recurrence = r
           /\ \A t, o : Follows(<<a>>, t, o)
           /\ Reports(<<a>>) = IF Kind(a) = "ReportPosition" THEN {a} ELSE {}
           /\ \A d : DelWaits(<<a>>, d) <=> Kind(a) = "DelAidData" /\ a.data = d
<1>1. DOMAIN <<a>> = {1} /\ <<a>>[1] = a  OBVIOUS
<1> QED  BY <1>1 DEF Has, HeadIs, LastOf, LastMode, Follows, Reports, DelWaits

\* Two messages.
LEMMA TwoMessages ==
    ASSUME NEW a, NEW b
    PROVE  /\ \A t : Has(<<a, b>>, t) <=> Kind(a) = t \/ Kind(b) = t
           /\ \A t : HeadIs(<<a, b>>, t) <=> Kind(a) = t
           /\ \A t, o : LastOf(<<a, b>>, t, o) <=>
                  Kind(b) = t \/ (Kind(a) = t /\ Kind(b) # o)
           /\ \A t, o : Follows(<<a, b>>, t, o) <=> (Kind(b) = t => Kind(a) = o)
           /\ \A r : Kind(a) = "PositionMode" /\ a.recurrence = r /\ Kind(b) # "PositionMode"
                  => LastMode(<<a, b>>, r)
           /\ Kind(a) # "ReportPosition" /\ Kind(b) # "ReportPosition" => Reports(<<a, b>>) = {}
<1>1. DOMAIN <<a, b>> = {1, 2} /\ <<a, b>>[1] = a /\ <<a, b>>[2] = b  OBVIOUS
<1> DEFINE q == <<a, b>>
<1> HIDE DEF q
<1>2. DOMAIN q = {1, 2} /\ q[1] = a /\ q[2] = b /\ q # << >>  BY <1>1 DEF q
<1>3. \A t : Has(q, t) <=> Kind(a) = t \/ Kind(b) = t  BY <1>2 DEF Has
<1>4. \A t : HeadIs(q, t) <=> Kind(a) = t  BY <1>2 DEF HeadIs
<1>5. \A t, o : LastOf(q, t, o) <=> Kind(b) = t \/ (Kind(a) = t /\ Kind(b) # o)
  BY <1>2 DEF LastOf
<1>6. \A t, o : Follows(q, t, o) <=> (Kind(b) = t => Kind(a) = o)  BY <1>2 DEF Follows
<1>7. ASSUME NEW r, Kind(a) = "PositionMode", a.recurrence = r, Kind(b) # "PositionMode"
      PROVE  LastMode(q, r)
  BY <1>2, <1>7 DEF LastMode
<1>8. Kind(a) # "ReportPosition" /\ Kind(b) # "ReportPosition" => Reports(q) = {}
  BY <1>2 DEF Reports
<1> QED  BY <1>3, <1>4, <1>5, <1>6, <1>7, <1>8 DEF q

\* Three messages.
LEMMA ThreeMessages ==
    ASSUME NEW a, NEW b, NEW c
    PROVE  /\ \A t : Has(<<a, b, c>>, t) <=> Kind(a) = t \/ Kind(b) = t \/ Kind(c) = t
           /\ \A t : HeadIs(<<a, b, c>>, t) <=> Kind(a) = t
           /\ \A t, o : Kind(c) = t => LastOf(<<a, b, c>>, t, o)
           /\ \A t, o : (Kind(b) = t => Kind(a) = o) /\ (Kind(c) = t => Kind(b) = o) =>
                  Follows(<<a, b, c>>, t, o)
           /\ \A t : Kind(a) # t /\ Kind(c) # t => Once(<<a, b, c>>, t)
           /\ (\A m \in {a, b, c} : Kind(m) # "ReportPosition") => Reports(<<a, b, c>>) = {}
<1>1. DOMAIN <<a, b, c>> = {1, 2, 3} /\ <<a, b, c>>[1] = a /\ <<a, b, c>>[2] = b
      /\ <<a, b, c>>[3] = c
  OBVIOUS
<1> DEFINE q == <<a, b, c>>
<1> HIDE DEF q
<1>2. DOMAIN q = {1, 2, 3} /\ q[1] = a /\ q[2] = b /\ q[3] = c /\ q # << >>  BY <1>1 DEF q
<1>3. \A t : Has(q, t) <=> Kind(a) = t \/ Kind(b) = t \/ Kind(c) = t  BY <1>2 DEF Has
<1>4. \A t : HeadIs(q, t) <=> Kind(a) = t  BY <1>2 DEF HeadIs
<1>5. \A t, o : Kind(c) = t => LastOf(q, t, o)  BY <1>2 DEF LastOf
<1>6. \A t, o : (Kind(b) = t => Kind(a) = o) /\ (Kind(c) = t => Kind(b) = o) =>
          Follows(q, t, o)
  BY <1>2 DEF Follows
<1>7. \A t : Kind(a) # t /\ Kind(c) # t => Once(q, t)  BY <1>2 DEF Once
<1>8. (\A m \in {a, b, c} : Kind(m) # "ReportPosition") => Reports(q) = {}
  BY <1>2 DEF Reports
<1> QED  BY <1>3, <1>4, <1>5, <1>6, <1>7, <1>8 DEF q

-----------------------------------------------------------------------------
(* Each step keeps the invariant.                                          *)

\* A start, or none in a session.
LEMMA StartKeeps ==
    ASSUME SessionInv, loc_eng_start_handler
    PROVE  SessionInv'
<1>1. /\ session_task = "next" /\ session_queue # << >>
      /\ session_queue' = Tail(session_queue) /\ Head(session_queue).type = "StartFix"
  BY DEF loc_eng_start_handler, Take, IsNext
<1>2. SessionTypes  BY DEF SessionInv
<1>3. Kind(session_queue[1]) = "StartFix" /\ HeadIs(session_queue, "StartFix")
  BY <1>1, <1>2, Taken DEF Kind, HeadIs
<1>4. TRUE \in BOOLEAN  OBVIOUS
<1>5. SessionTypes'
  BY <1>1, <1>2, <1>3, Taken, <1>4, RegisteredQmi
  DEF SessionInv, SessionTypes, QmiStates, loc_eng_start_handler, StartFix, NoRequest,
      engineVars, clientVars, ghostVars, adapterVars
<1>6. WantedComes'
  BY <1>1, <1>2, <1>3, Taken, <1>4, RegisteredQmi
  DEF SessionInv, WantedComes, WillNavigate, Trusting, loc_eng_start_handler, StartFix,
      NoRequest, engineVars, clientVars, ghostVars, adapterVars
<1>7. ModeComes'
  BY <1>1, <1>2, <1>3, Taken, <1>4, RegisteredQmi
  DEF SessionInv, ModeComes, loc_eng_start_handler, StartFix, NoRequest, engineVars,
      clientVars, ghostVars, adapterVars
<1>8. ModeFirst'
  <2> SUFFICES ASSUME happened["crash"] = 0
               PROVE  /\ mNavigating' \/ session_task' = "start" => mFixCriteria'.mode = "ms_based"
                      /\ Follows(session_queue', "StartFix", "PositionMode")
                      /\ ~HeadIs(session_queue', "StartFix")
    BY <1>1 DEF ModeFirst, loc_eng_start_handler, ghostVars
  <2>1. /\ mNavigating \/ session_task = "start" => mFixCriteria.mode = "ms_based"
        /\ Follows(session_queue, "StartFix", "PositionMode")
        /\ HeadIs(session_queue, "StartFix") => mFixCriteria.mode = "ms_based"
    BY DEF SessionInv, ModeFirst
  <2>2. /\ Follows(session_queue', "StartFix", "PositionMode")
        /\ ~HeadIs(session_queue', "StartFix")
    BY <1>1, <1>2, <1>3, <2>1, Taken
  <2>3. mFixCriteria' = mFixCriteria /\ (mNavigating' => mNavigating)
    BY DEF loc_eng_start_handler, NoRequest
  <2>4. HeadIs(session_queue, "StartFix")  BY <1>3
  <2> QED  BY <2>1, <2>2, <2>3, <2>4
<1>9. Recovers'
  BY <1>1, <1>2, <1>3, Taken, <1>4, RegisteredQmi
  DEF SessionInv, Recovers, SessionTypes, loc_eng_start_handler, StartFix, NoRequest,
      engineVars, clientVars, ghostVars, adapterVars
<1>10. SessionFits'
  BY <1>1, <1>2, <1>3, Taken, <1>4, RegisteredQmi
  DEF SessionInv, SessionFits, Recovers, SessionTypes, Trusting, loc_eng_start_handler,
      StartFix, NoRequest, engineVars, clientVars, ghostVars, adapterVars
<1>11. LastEnds'
  <2>1. Reports(session_queue') \subseteq Reports(session_queue)  BY <1>1, <1>2, Taken
  <2>2. LastEnds  BY DEF SessionInv
  <2>3. CASE mNavigating
    <3>1. UNCHANGED <<session_task, mNavigating, mFixCriteria, qmi, starts, happened, excuses>>
      BY <2>3 DEF loc_eng_start_handler, NoRequest, ghostVars
    <3> QED  BY <2>1, <2>2, <3>1 DEF LastEnds, Trusting
  <2>4. CASE ~mNavigating
    <3>1. session_task' # "next" /\ starts' = starts
      BY <2>4 DEF loc_eng_start_handler, StartFix
    <3> QED  BY <2>1, <2>2, <3>1 DEF LastEnds
  <2> QED  BY <2>3, <2>4
<1>12. OffComes'
  BY <1>1, <1>2, <1>3, Taken, <1>4, RegisteredQmi
  DEF SessionInv, OffComes, OffWaits, Recovers, SessionTypes, loc_eng_start_handler,
      StartFix, NoRequest, engineVars, clientVars, ghostVars, adapterVars
<1>13. MutedWhileOn'
  BY <1>1, <1>2, <1>3, Taken, <1>4, RegisteredQmi
  DEF SessionInv, MutedWhileOn, SessionTypes, loc_eng_start_handler, StartFix,
      NoRequest, engineVars, clientVars, ghostVars, adapterVars
<1>14. DataSeenTo'
  BY <1>1, <1>2, <1>3, Taken, <1>4, RegisteredQmi
  DEF SessionInv, DataSeenTo, Recovers, loc_eng_start_handler, StartFix, NoRequest,
      engineVars, clientVars, ghostVars, adapterVars
<1> QED
  BY <1>5, <1>6, <1>7, <1>8, <1>9, <1>10, <1>11, <1>12, <1>13, <1>14 DEF SessionInv

\* A stop, or none without a session.
LEMMA StopKeeps ==
    ASSUME SessionInv, loc_eng_stop_handler
    PROVE  SessionInv'
<1>1. /\ session_task = "next" /\ session_queue # << >>
      /\ session_queue' = Tail(session_queue) /\ Head(session_queue).type = "StopFix"
  BY DEF loc_eng_stop_handler, Take, IsNext
<1>2. SessionTypes  BY DEF SessionInv
<1>3. Kind(session_queue[1]) = "StopFix" /\ HeadIs(session_queue, "StopFix")
  BY <1>1, <1>2, Taken DEF Kind, HeadIs
<1>4. Recovers /\ "crash" \in Events \cup {"start"}
  BY DEF SessionInv, Events
<1>5. SessionTypes'
  BY <1>1, <1>2, <1>3, Taken, <1>4, StopFixes
  DEF SessionInv, SessionTypes, QmiStates, loc_eng_stop_handler, NoRequest, engineVars,
      clientVars, ghostVars, adapterVars
<1>6. WantedComes'
  BY <1>1, <1>2, <1>3, Taken, <1>4, StopFixes
  DEF SessionInv, WantedComes, WillNavigate, Trusting, loc_eng_stop_handler, NoRequest,
      engineVars, clientVars, ghostVars, adapterVars
<1>7. ModeComes'
  BY <1>1, <1>2, <1>3, Taken, <1>4, StopFixes
  DEF SessionInv, ModeComes, loc_eng_stop_handler, NoRequest, engineVars, clientVars,
      ghostVars, adapterVars
<1>8. ModeFirst'
  <2> SUFFICES ASSUME happened["crash"] = 0
               PROVE  /\ mNavigating' \/ session_task' = "start" => mFixCriteria'.mode = "ms_based"
                      /\ Follows(session_queue', "StartFix", "PositionMode")
                      /\ ~HeadIs(session_queue', "StartFix")
    BY <1>1, <1>2, <1>4, StopFixes DEF ModeFirst, loc_eng_stop_handler
  <2>1. /\ mNavigating \/ session_task = "start" => mFixCriteria.mode = "ms_based"
        /\ Follows(session_queue, "StartFix", "PositionMode")
        /\ HeadIs(session_queue, "StartFix") => mFixCriteria.mode = "ms_based"
    BY DEF SessionInv, ModeFirst
  <2>2. /\ Follows(session_queue', "StartFix", "PositionMode")
        /\ ~HeadIs(session_queue', "StartFix")
    BY <1>1, <1>2, <1>3, <2>1, Taken
  <2>3. mFixCriteria' = mFixCriteria /\ (mNavigating' => mNavigating)
    BY DEF loc_eng_stop_handler, NoRequest
  <2>4. session_task' # "start"  BY <1>1, <1>2, <1>4, StopFixes DEF loc_eng_stop_handler, NoRequest
  <2> QED  BY <2>1, <2>2, <2>3, <2>4
<1>9. Recovers'
  BY <1>1, <1>2, <1>3, Taken, <1>4, StopFixes
  DEF SessionInv, Recovers, SessionTypes, loc_eng_stop_handler, NoRequest, engineVars,
      clientVars, ghostVars, adapterVars
<1>10. SessionFits'
  BY <1>1, <1>2, <1>3, Taken, <1>4, StopFixes
  DEF SessionInv, SessionFits, Recovers, SessionTypes, Trusting, loc_eng_stop_handler,
      NoRequest, engineVars, clientVars, ghostVars, adapterVars
<1>11. LastEnds'
  BY <1>1, <1>2, <1>3, Taken, <1>4, StopFixes
  DEF SessionInv, LastEnds, SessionTypes, Trusting, loc_eng_stop_handler, NoRequest,
      engineVars, clientVars, ghostVars, adapterVars
<1>12. OffComes'
  BY <1>1, <1>2, <1>3, Taken, <1>4, StopFixes
  DEF SessionInv, OffComes, OffWaits, Recovers, SessionTypes, loc_eng_stop_handler,
      NoRequest, engineVars, clientVars, ghostVars, adapterVars
<1>13. MutedWhileOn'
  BY <1>1, <1>2, <1>3, Taken, <1>4, StopFixes
  DEF SessionInv, MutedWhileOn, SessionTypes, loc_eng_stop_handler, NoRequest,
      engineVars, clientVars, ghostVars, adapterVars
<1>14. DataSeenTo'
  BY <1>1, <1>2, <1>3, Taken, <1>4, StopFixes
  DEF SessionInv, DataSeenTo, Recovers, loc_eng_stop_handler, NoRequest, engineVars,
      clientVars, ghostVars, adapterVars
<1> QED
  BY <1>5, <1>6, <1>7, <1>8, <1>9, <1>10, <1>11, <1>12, <1>13, <1>14 DEF SessionInv

\* A mode, with a restart in a session.
LEMMA ModeKeeps ==
    ASSUME SessionInv, setPositionMode
    PROVE  SessionInv'
<1>1. /\ session_task = "next" /\ session_queue # << >>
      /\ session_queue' = Tail(session_queue) /\ Head(session_queue).type = "PositionMode"
  BY DEF setPositionMode, Take, IsNext
<1>2. SessionTypes  BY DEF SessionInv
<1>3. Kind(session_queue[1]) = "PositionMode" /\ HeadIs(session_queue, "PositionMode")
  BY <1>1, <1>2, Taken DEF Kind, HeadIs
<1>4. session_queue[1].recurrence \in Recurrences /\ TRUE \in BOOLEAN
  BY <1>1, <1>2, Taken DEF SessionMessages
<1>5. mFixCriteria' \in Criteria
  BY <1>1, <1>2, <1>4, Taken DEF setPositionMode, Criteria
<1>6. SessionTypes'
  BY <1>1, <1>2, <1>3, Taken, <1>4, <1>5, RegisteredQmi
  DEF SessionInv, SessionTypes, QmiStates, setPositionMode, StartFix, NoRequest,
      engineVars, clientVars, ghostVars, adapterVars
<1>7. WantedComes'
  BY <1>1, <1>2, <1>3, Taken, <1>4, <1>5, RegisteredQmi
  DEF SessionInv, WantedComes, WillNavigate, Trusting, setPositionMode, StartFix,
      NoRequest, engineVars, clientVars, ghostVars, adapterVars
<1>8. ModeComes'
  BY <1>1, <1>2, <1>3, Taken, <1>4, <1>5, RegisteredQmi
  DEF SessionInv, ModeComes, setPositionMode, StartFix, NoRequest, engineVars,
      clientVars, ghostVars, adapterVars
<1>9. ModeFirst'
  BY <1>1, <1>2, <1>3, Taken, <1>4, <1>5, RegisteredQmi
  DEF SessionInv, ModeFirst, setPositionMode, StartFix, NoRequest, engineVars,
      clientVars, ghostVars, adapterVars
<1>10. Recovers'
  BY <1>1, <1>2, <1>3, Taken, <1>4, <1>5, RegisteredQmi
  DEF SessionInv, Recovers, SessionTypes, setPositionMode, StartFix, NoRequest,
      engineVars, clientVars, ghostVars, adapterVars
<1>11. SessionFits'
  BY <1>1, <1>2, <1>3, Taken, <1>4, <1>5, RegisteredQmi
  DEF SessionInv, SessionFits, Recovers, SessionTypes, Trusting, setPositionMode,
      StartFix, NoRequest, engineVars, clientVars, ghostVars, adapterVars
<1>12. LastEnds'
  <2>1. Reports(session_queue') \subseteq Reports(session_queue)  BY <1>1, <1>2, Taken
  <2>2. LastEnds  BY DEF SessionInv
  <2>3. CASE ~mNavigating
    <3>1. UNCHANGED <<session_task, mNavigating, qmi, starts, happened, excuses>>
      BY <2>3 DEF setPositionMode, NoRequest, ghostVars
    <3> QED  BY <2>1, <2>2, <2>3, <3>1 DEF LastEnds, Trusting
  <2>4. CASE mNavigating
    <3>1. session_task' # "next" /\ starts' = starts
      BY <2>4 DEF setPositionMode, StartFix
    <3> QED  BY <2>1, <2>2, <3>1 DEF LastEnds
  <2> QED  BY <2>3, <2>4
<1>13. OffComes'
  BY <1>1, <1>2, <1>3, Taken, <1>4, <1>5, RegisteredQmi
  DEF SessionInv, OffComes, OffWaits, Recovers, SessionTypes, setPositionMode, StartFix,
      NoRequest, engineVars, clientVars, ghostVars, adapterVars
<1>14. MutedWhileOn'
  BY <1>1, <1>2, <1>3, Taken, <1>4, <1>5, RegisteredQmi
  DEF SessionInv, MutedWhileOn, SessionTypes, setPositionMode, StartFix, NoRequest,
      engineVars, clientVars, ghostVars, adapterVars
<1>15. DataSeenTo'
  BY <1>1, <1>2, <1>3, Taken, <1>4, <1>5, RegisteredQmi
  DEF SessionInv, DataSeenTo, Recovers, setPositionMode, StartFix, NoRequest,
      engineVars, clientVars, ghostVars, adapterVars
<1> QED
  BY <1>6, <1>7, <1>8, <1>9, <1>10, <1>11, <1>12, <1>13, <1>14, <1>15 DEF SessionInv

\* A request to delete data.
LEMMA DeleteKeeps ==
    ASSUME SessionInv, LocEngDelAidData
    PROVE  SessionInv'
<1>1. /\ session_task = "next" /\ session_queue # << >>
      /\ session_queue' = Tail(session_queue) /\ Head(session_queue).type = "DelAidData"
  BY DEF LocEngDelAidData, Take, IsNext
<1>2. SessionTypes  BY DEF SessionInv
<1>3. Kind(session_queue[1]) = "DelAidData" /\ HeadIs(session_queue, "DelAidData")
  BY <1>1, <1>2, Taken DEF Kind, HeadIs
<1>4. SessionTypes'
  BY <1>1, <1>2, <1>3, Taken
  DEF SessionInv, SessionTypes, QmiStates, LocEngDelAidData, UpdateAidingData,
      NoRequest, ExcuseIf, engineVars, clientVars, ghostVars, adapterVars
<1>5. WantedComes'
  BY <1>1, <1>2, <1>3, Taken
  DEF SessionInv, WantedComes, WillNavigate, Trusting, LocEngDelAidData,
      UpdateAidingData, NoRequest, ExcuseIf, engineVars, clientVars, ghostVars,
      adapterVars
<1>6. ModeComes'
  BY <1>1, <1>2, <1>3, Taken
  DEF SessionInv, ModeComes, LocEngDelAidData, UpdateAidingData, NoRequest, ExcuseIf,
      engineVars, clientVars, ghostVars, adapterVars
<1>7. ModeFirst'
  BY <1>1, <1>2, <1>3, Taken
  DEF SessionInv, ModeFirst, LocEngDelAidData, UpdateAidingData, NoRequest, ExcuseIf,
      engineVars, clientVars, ghostVars, adapterVars
<1>8. Recovers'
  BY <1>1, <1>2, <1>3, Taken
  DEF SessionInv, Recovers, SessionTypes, LocEngDelAidData, UpdateAidingData, NoRequest,
      ExcuseIf, engineVars, clientVars, ghostVars, adapterVars
<1>9. SessionFits'
  BY <1>1, <1>2, <1>3, Taken
  DEF SessionInv, SessionFits, Recovers, SessionTypes, Trusting, LocEngDelAidData,
      UpdateAidingData, NoRequest, ExcuseIf, engineVars, clientVars, ghostVars,
      adapterVars
<1>10. LastEnds'
  BY <1>1, <1>2, <1>3, Taken
  DEF SessionInv, LastEnds, SessionTypes, Trusting, LocEngDelAidData, UpdateAidingData,
      NoRequest, ExcuseIf, engineVars, clientVars, ghostVars, adapterVars
<1>11. OffComes'
  BY <1>1, <1>2, <1>3, Taken
  DEF SessionInv, OffComes, OffWaits, Recovers, SessionTypes, LocEngDelAidData,
      UpdateAidingData, NoRequest, ExcuseIf, engineVars, clientVars, ghostVars,
      adapterVars
<1>12. MutedWhileOn'
  BY <1>1, <1>2, <1>3, Taken
  DEF SessionInv, MutedWhileOn, SessionTypes, LocEngDelAidData, UpdateAidingData,
      NoRequest, ExcuseIf, engineVars, clientVars, ghostVars, adapterVars
<1>13. DataSeenTo'
  BY <1>1, <1>2, <1>3, Taken
  DEF SessionInv, DataSeenTo, Recovers, LocEngDelAidData, UpdateAidingData, NoRequest,
      ExcuseIf, engineVars, clientVars, ghostVars, adapterVars
<1> QED
  BY <1>4, <1>5, <1>6, <1>7, <1>8, <1>9, <1>10, <1>11, <1>12, <1>13 DEF SessionInv

\* A request of the network.
LEMMA MuteKeeps ==
    ASSUME SessionInv, loc_eng_mute_one_session
    PROVE  SessionInv'
<1>1. /\ session_task = "next" /\ session_queue # << >>
      /\ session_queue' = Tail(session_queue) /\ Head(session_queue).type = "RequestNi"
  BY DEF loc_eng_mute_one_session, Take, IsNext
<1>2. SessionTypes  BY DEF SessionInv
<1>3. Kind(session_queue[1]) = "RequestNi" /\ HeadIs(session_queue, "RequestNi")
  BY <1>1, <1>2, Taken DEF Kind, HeadIs
<1>4. SessionTypes'
  BY <1>1, <1>2, <1>3, Taken
  DEF SessionInv, SessionTypes, QmiStates, loc_eng_mute_one_session, NoRequest,
      engineVars, clientVars, ghostVars, adapterVars
<1>5. WantedComes'
  BY <1>1, <1>2, <1>3, Taken
  DEF SessionInv, WantedComes, WillNavigate, Trusting, loc_eng_mute_one_session,
      NoRequest, engineVars, clientVars, ghostVars, adapterVars
<1>6. ModeComes'
  BY <1>1, <1>2, <1>3, Taken
  DEF SessionInv, ModeComes, loc_eng_mute_one_session, NoRequest, engineVars,
      clientVars, ghostVars, adapterVars
<1>7. ModeFirst'
  BY <1>1, <1>2, <1>3, Taken
  DEF SessionInv, ModeFirst, loc_eng_mute_one_session, NoRequest, engineVars,
      clientVars, ghostVars, adapterVars
<1>8. Recovers'
  BY <1>1, <1>2, <1>3, Taken
  DEF SessionInv, Recovers, SessionTypes, loc_eng_mute_one_session, NoRequest,
      engineVars, clientVars, ghostVars, adapterVars
<1>9. SessionFits'
  BY <1>1, <1>2, <1>3, Taken
  DEF SessionInv, SessionFits, Recovers, SessionTypes, Trusting,
      loc_eng_mute_one_session, NoRequest, engineVars, clientVars, ghostVars,
      adapterVars
<1>10. LastEnds'
  BY <1>1, <1>2, <1>3, Taken
  DEF SessionInv, LastEnds, SessionTypes, Trusting, loc_eng_mute_one_session, NoRequest,
      engineVars, clientVars, ghostVars, adapterVars
<1>11. OffComes'
  BY <1>1, <1>2, <1>3, Taken
  DEF SessionInv, OffComes, OffWaits, Recovers, SessionTypes, loc_eng_mute_one_session,
      NoRequest, engineVars, clientVars, ghostVars, adapterVars
<1>12. MutedWhileOn'
  BY <1>1, <1>2, <1>3, Taken
  DEF SessionInv, MutedWhileOn, SessionTypes, loc_eng_mute_one_session, NoRequest,
      engineVars, clientVars, ghostVars, adapterVars
<1>13. DataSeenTo'
  BY <1>1, <1>2, <1>3, Taken
  DEF SessionInv, DataSeenTo, Recovers, loc_eng_mute_one_session, NoRequest, engineVars,
      clientVars, ghostVars, adapterVars
<1> QED
  BY <1>4, <1>5, <1>6, <1>7, <1>8, <1>9, <1>10, <1>11, <1>12, <1>13 DEF SessionInv

\* The modem is down.
LEMMA DownKeeps ==
    ASSUME SessionInv, loc_eng_handle_engine_down
    PROVE  SessionInv'
<1>1. /\ session_task = "next" /\ session_queue # << >>
      /\ session_queue' = Tail(session_queue) /\ Head(session_queue).type = "LocEngDown"
  BY DEF loc_eng_handle_engine_down, Take, IsNext
<1>2. SessionTypes  BY DEF SessionInv
<1>3. Kind(session_queue[1]) = "LocEngDown" /\ HeadIs(session_queue, "LocEngDown")
  BY <1>1, <1>2, Taken DEF Kind, HeadIs
<1>4. SessionTypes'
  BY <1>1, <1>2, <1>3, Taken
  DEF SessionInv, SessionTypes, QmiStates, loc_eng_handle_engine_down, ReportStatus,
      NoRequest, engineVars, clientVars, ghostVars, adapterVars
<1>5. WantedComes'
  BY <1>1, <1>2, <1>3, Taken
  DEF SessionInv, WantedComes, WillNavigate, Trusting, loc_eng_handle_engine_down,
      ReportStatus, NoRequest, engineVars, clientVars, ghostVars, adapterVars
<1>6. ModeComes'
  BY <1>1, <1>2, <1>3, Taken
  DEF SessionInv, ModeComes, loc_eng_handle_engine_down, ReportStatus, NoRequest,
      engineVars, clientVars, ghostVars, adapterVars
<1>7. ModeFirst'
  BY <1>1, <1>2, <1>3, Taken
  DEF SessionInv, ModeFirst, loc_eng_handle_engine_down, ReportStatus, NoRequest,
      engineVars, clientVars, ghostVars, adapterVars
<1>8. Recovers'
  BY <1>1, <1>2, <1>3, Taken
  DEF SessionInv, Recovers, SessionTypes, loc_eng_handle_engine_down, ReportStatus,
      NoRequest, engineVars, clientVars, ghostVars, adapterVars
<1>9. SessionFits'
  BY <1>1, <1>2, <1>3, Taken
  DEF SessionInv, SessionFits, Recovers, SessionTypes, Trusting,
      loc_eng_handle_engine_down, ReportStatus, NoRequest, engineVars, clientVars,
      ghostVars, adapterVars
<1>10. LastEnds'
  BY <1>1, <1>2, <1>3, Taken
  DEF SessionInv, LastEnds, SessionTypes, Trusting, loc_eng_handle_engine_down,
      ReportStatus, NoRequest, engineVars, clientVars, ghostVars, adapterVars
<1>11. OffComes'
  BY <1>1, <1>2, <1>3, Taken
  DEF SessionInv, OffComes, OffWaits, Recovers, SessionTypes,
      loc_eng_handle_engine_down, ReportStatus, NoRequest, engineVars, clientVars,
      ghostVars, adapterVars
<1>12. MutedWhileOn'
  BY <1>1, <1>2, <1>3, Taken
  DEF SessionInv, MutedWhileOn, SessionTypes, loc_eng_handle_engine_down, ReportStatus,
      NoRequest, engineVars, clientVars, ghostVars, adapterVars
<1>13. DataSeenTo'
  BY <1>1, <1>2, <1>3, Taken
  DEF SessionInv, DataSeenTo, Recovers, loc_eng_handle_engine_down, ReportStatus,
      NoRequest, engineVars, clientVars, ghostVars, adapterVars
<1> QED
  BY <1>4, <1>5, <1>6, <1>7, <1>8, <1>9, <1>10, <1>11, <1>12, <1>13 DEF SessionInv

\* The connection to the modem is opened anew.
LEMMA SsrKeeps ==
    ASSUME SessionInv, LocSsrMsg
    PROVE  SessionInv'
<1>1. /\ session_task = "next" /\ session_queue # << >>
      /\ session_queue' = Tail(session_queue) /\ Head(session_queue).type = "LocSsr"
  BY DEF LocSsrMsg, Take, IsNext
<1>2. SessionTypes  BY DEF SessionInv
<1>3. Kind(session_queue[1]) = "LocSsr" /\ HeadIs(session_queue, "LocSsr")
  BY <1>1, <1>2, Taken DEF Kind, HeadIs
<1>4. SessionTypes'
  BY <1>1, <1>2, <1>3, Taken
  DEF SessionInv, SessionTypes, QmiStates, LocSsrMsg, engineVars, clientVars, ghostVars,
      adapterVars
<1>5. WantedComes'
  BY <1>1, <1>2, <1>3, Taken
  DEF SessionInv, WantedComes, WillNavigate, Trusting, LocSsrMsg, engineVars,
      clientVars, ghostVars, adapterVars
<1>6. ModeComes'
  BY <1>1, <1>2, <1>3, Taken
  DEF SessionInv, ModeComes, LocSsrMsg, engineVars, clientVars, ghostVars, adapterVars
<1>7. ModeFirst'
  BY <1>1, <1>2, <1>3, Taken
  DEF SessionInv, ModeFirst, LocSsrMsg, engineVars, clientVars, ghostVars, adapterVars
<1>8. Recovers'
  BY <1>1, <1>2, <1>3, Taken
  DEF SessionInv, Recovers, SessionTypes, LocSsrMsg, engineVars, clientVars, ghostVars,
      adapterVars
<1>9. SessionFits'
  BY <1>1, <1>2, <1>3, Taken
  DEF SessionInv, SessionFits, Recovers, SessionTypes, Trusting, LocSsrMsg, engineVars,
      clientVars, ghostVars, adapterVars
<1>10. LastEnds'
  BY <1>1, <1>2, <1>3, Taken
  DEF SessionInv, LastEnds, SessionTypes, Trusting, LocSsrMsg, engineVars, clientVars,
      ghostVars, adapterVars
<1>11. OffComes'
  BY <1>1, <1>2, <1>3, Taken
  DEF SessionInv, OffComes, OffWaits, Recovers, SessionTypes, LocSsrMsg, engineVars,
      clientVars, ghostVars, adapterVars
<1>12. MutedWhileOn'
  BY <1>1, <1>2, <1>3, Taken
  DEF SessionInv, MutedWhileOn, SessionTypes, LocSsrMsg, engineVars, clientVars,
      ghostVars, adapterVars
<1>13. DataSeenTo'
  BY <1>1, <1>2, <1>3, Taken
  DEF SessionInv, DataSeenTo, Recovers, LocSsrMsg, engineVars, clientVars, ghostVars,
      adapterVars
<1> QED
  BY <1>4, <1>5, <1>6, <1>7, <1>8, <1>9, <1>10, <1>11, <1>12, <1>13 DEF SessionInv

\* While the client's messages do not wait none of them does.
LEMMA NoneWaits ==
    ASSUME SessionTypes, ~Waiting(FromClient)
    PROVE  /\ ~Has(session_queue, "StartFix") /\ ~Has(session_queue, "StopFix")
           /\ ~Has(session_queue, "PositionMode")
<1>1. \A i \in DOMAIN session_queue : session_queue[i].type \notin FromClient
  BY DEF Waiting, Queued
<1>2. \A i \in DOMAIN session_queue : session_queue[i] \in SessionMessages
  BY DEF SessionTypes
<1>3. \A i \in DOMAIN session_queue :
          Kind(session_queue[i]) \notin {"StartFix", "StopFix", "PositionMode"}
  BY <1>1, <1>2 DEF Kind, FromClient, SessionMessages
<1> QED  BY <1>3 DEF Has

\* The client has been told a last position.
Told ==
    /\ mFixCriteria.recurrence = "single"
    /\ client' = [client EXCEPT !.on = @ /\ client.recurrence # "single"]
    /\ ExcuseIf("stale", Head(session_queue).start # starts \/ Waiting(FromClient))
    /\ UNCHANGED <<engineVars, asked>>

\* What it knows then, and the excuse if the position came late.
LEMMA ToldFacts ==
    ASSUME SessionTypes, Told
    PROVE  /\ mFixCriteria.recurrence = "single"
           /\ client' \in [on: BOOLEAN, recurrence: Recurrences]
           /\ client'.on <=> client.on /\ client.recurrence # "single"
           /\ client'.recurrence = client.recurrence
           /\ excuses \subseteq excuses'
           /\ \A e : e # "stale" /\ e \in excuses' => e \in excuses
           /\ "stale" \notin excuses' =>
                 /\ "stale" \notin excuses /\ Head(session_queue).start = starts
                 /\ ~Has(session_queue, "StartFix") /\ ~Has(session_queue, "StopFix")
                 /\ ~Has(session_queue, "PositionMode")
           /\ UNCHANGED <<engineVars, asked>>
<1>1. client \in [on: BOOLEAN, recurrence: Recurrences]  BY DEF SessionTypes
<1> DEFINE b == client.on /\ client.recurrence # "single"
<1>2. client' = [client EXCEPT !.on = b]  BY DEF Told
<1>3. b \in BOOLEAN  BY <1>1
<1> HIDE DEF b
<1>4. /\ client' \in [on: BOOLEAN, recurrence: Recurrences] /\ client'.on = b
      /\ client'.recurrence = client.recurrence
  BY <1>1, <1>2, <1>3
<1>5. client'.on <=> client.on /\ client.recurrence # "single"  BY <1>4 DEF b
<1>6. /\ excuses \subseteq excuses'
      /\ \A e : e # "stale" /\ e \in excuses' => e \in excuses
      /\ "stale" \notin excuses' =>
            /\ "stale" \notin excuses /\ Head(session_queue).start = starts
            /\ ~Waiting(FromClient)
  BY DEF Told, ExcuseIf
<1> QED  BY <1>4, <1>5, <1>6, NoneWaits DEF Told

\* A position that is not told, or not the last.
LEMMA PositionIgnored ==
    ASSUME SessionInv, Take("ReportPosition"), NoRequest,
           UNCHANGED <<client, ghostVars, engineVars, asked>>
    PROVE  SessionInv'
<1>1. /\ session_task = "next" /\ session_queue # << >>
      /\ session_queue' = Tail(session_queue) /\ Head(session_queue).type = "ReportPosition"
  BY DEF Take, IsNext
<1>2. SessionTypes  BY DEF SessionInv
<1>3. Kind(session_queue[1]) = "ReportPosition" /\ HeadIs(session_queue, "ReportPosition")
  BY <1>1, <1>2, Taken DEF Kind, HeadIs
<1>4. SessionTypes'
  BY <1>1, <1>2, <1>3, Taken
  DEF SessionInv, SessionTypes, QmiStates, NoRequest, engineVars, clientVars, ghostVars,
      adapterVars
<1>5. WantedComes'
  BY <1>1, <1>2, <1>3, Taken
  DEF SessionInv, WantedComes, WillNavigate, Trusting, NoRequest, engineVars,
      clientVars, ghostVars, adapterVars
<1>6. ModeComes'
  BY <1>1, <1>2, <1>3, Taken
  DEF SessionInv, ModeComes, NoRequest, engineVars, clientVars, ghostVars, adapterVars
<1>7. ModeFirst'
  BY <1>1, <1>2, <1>3, Taken
  DEF SessionInv, ModeFirst, NoRequest, engineVars, clientVars, ghostVars, adapterVars
<1>8. Recovers'
  BY <1>1, <1>2, <1>3, Taken
  DEF SessionInv, Recovers, SessionTypes, NoRequest, engineVars, clientVars, ghostVars,
      adapterVars
<1>9. SessionFits'
  BY <1>1, <1>2, <1>3, Taken
  DEF SessionInv, SessionFits, Recovers, SessionTypes, Trusting, NoRequest, engineVars,
      clientVars, ghostVars, adapterVars
<1>10. LastEnds'
  BY <1>1, <1>2, <1>3, Taken
  DEF SessionInv, LastEnds, SessionTypes, Trusting, NoRequest, engineVars, clientVars,
      ghostVars, adapterVars
<1>11. OffComes'
  BY <1>1, <1>2, <1>3, Taken
  DEF SessionInv, OffComes, OffWaits, Recovers, SessionTypes, NoRequest, engineVars,
      clientVars, ghostVars, adapterVars
<1>12. MutedWhileOn'
  BY <1>1, <1>2, <1>3, Taken
  DEF SessionInv, MutedWhileOn, SessionTypes, NoRequest, engineVars, clientVars,
      ghostVars, adapterVars
<1>13. DataSeenTo'
  BY <1>1, <1>2, <1>3, Taken
  DEF SessionInv, DataSeenTo, Recovers, NoRequest, engineVars, clientVars, ghostVars,
      adapterVars
<1> QED
  BY <1>4, <1>5, <1>6, <1>7, <1>8, <1>9, <1>10, <1>11, <1>12, <1>13 DEF SessionInv

\* The last position, of which the modem has ended its session.
LEMMA PositionEnds ==
    ASSUME SessionInv, Take("ReportPosition"), Told, Head(session_queue).final,
           SetInSession(FALSE), UNCHANGED <<session_task, adapterVars, qmi, starts, happened>>
    PROVE  SessionInv'
<1>1. /\ session_task = "next" /\ session_queue # << >>
      /\ session_queue' = Tail(session_queue) /\ Head(session_queue).type = "ReportPosition"
  BY DEF Take, IsNext
<1>2. SessionTypes  BY DEF SessionInv
<1>3. Kind(session_queue[1]) = "ReportPosition" /\ HeadIs(session_queue, "ReportPosition")
  BY <1>1, <1>2, Taken DEF Kind, HeadIs
<1>4. /\ mNavigating' = FALSE /\ mFixCriteria' = [mFixCriteria EXCEPT !.mode = "invalid"]
      /\ UNCHANGED <<session_task, mInSession, mEngineOn, qmi, starts, happened>>
  BY DEF SetInSession, adapterVars
<1>5. /\ mFixCriteria' \in Criteria /\ mFixCriteria'.recurrence = mFixCriteria.recurrence
  BY <1>2, <1>4 DEF SessionTypes, Criteria
<1>6. UNCHANGED engineVars /\ UNCHANGED asked  BY DEF Told
<1>7. SessionTypes'
  BY <1>1, <1>2, <1>3, Taken, <1>4, <1>5, <1>6, ToldFacts
  DEF SessionInv, SessionTypes, QmiStates, engineVars, clientVars, ghostVars,
      adapterVars
<1>8. WantedComes'
  <2>1. CASE "stale" \in excuses'  BY <2>1 DEF WantedComes, Trusting
  <2>2. CASE "stale" \notin excuses'
    <3>1. /\ ~Has(session_queue, "StartFix") /\ ~Has(session_queue, "PositionMode")
          /\ mFixCriteria.recurrence = "single"
      BY <1>2, <2>2, ToldFacts
    <3>2. client.on => client.recurrence = "single"
      <4>1. ~LastMode(session_queue, client.recurrence)  BY <3>1 DEF LastMode, Has
      <4> QED  BY <3>1, <4>1 DEF SessionInv, ModeComes
    <3>3. ~client'.on  BY <1>2, <3>2, ToldFacts
    <3>4. ~Has(session_queue', "StartFix")  BY <1>1, <1>2, <3>1, Taken
    <3>5. ~WillNavigate'  BY <1>1, <1>4 DEF WillNavigate
    <3> QED  BY <3>3, <3>4, <3>5 DEF WantedComes
  <2> QED  BY <2>1, <2>2
<1>9. ModeComes'
  BY <1>1, <1>2, <1>3, Taken, <1>4, <1>5, <1>6, ToldFacts
  DEF SessionInv, ModeComes, engineVars, clientVars, ghostVars, adapterVars
<1>10. ModeFirst'
  BY <1>1, <1>2, <1>3, Taken, <1>4, <1>5, <1>6, ToldFacts
  DEF SessionInv, ModeFirst, engineVars, clientVars, ghostVars, adapterVars
<1>11. Recovers'
  BY <1>1, <1>2, <1>3, Taken, <1>4, <1>5, <1>6, ToldFacts
  DEF SessionInv, Recovers, SessionTypes, engineVars, clientVars, ghostVars, adapterVars
<1>12. SessionFits'
  <2>1. /\ session_task' = "next" /\ ~mNavigating'  BY <1>1, <1>4
  <2>2. ASSUME Trusting' PROVE qmi.session = NoSession
    <3>1. "stale" \notin excuses' /\ happened["refusal"] = 0  BY <1>4, <2>2 DEF Trusting
    <3>2. Trusting /\ session_queue[1].start = starts
      BY <1>1, <1>2, <3>1, Taken, ToldFacts DEF Trusting
    <3>3. CASE ~mNavigating  BY <1>1, <3>2, <3>3 DEF SessionInv, SessionFits
    <3>4. CASE mNavigating
      <4>1. 1 \in DOMAIN session_queue  BY <1>1, <1>2, TailOfQueue DEF SessionTypes
      <4>2. session_queue[1] \in Reports(session_queue)  BY <1>3, <4>1 DEF Reports
      <4>3. session_queue[1].final  BY <1>1, <1>2, Taken
      <4> QED  BY <1>1, <1>2, <3>2, <3>4, <4>2, <4>3, ToldFacts DEF SessionInv, LastEnds
    <3> QED  BY <3>3, <3>4
  <2> QED  BY <1>4, <2>1, <2>2 DEF SessionFits
<1>13. LastEnds'
  BY <1>1, <1>2, <1>3, Taken, <1>4, <1>5, <1>6, ToldFacts
  DEF SessionInv, LastEnds, SessionTypes, Trusting, engineVars, clientVars, ghostVars,
      adapterVars
<1>14. OffComes'
  <2>1. /\ "late" \notin excuses' => "late" \notin excuses
        /\ engine_status' = engine_status
    BY <1>2, <1>6, ToldFacts DEF engineVars
  <2> QED
    BY <1>1, <1>2, <1>3, <1>4, <2>1, Taken DEF SessionInv, OffComes, OffWaits
<1>15. MutedWhileOn'
  BY <1>1, <1>2, <1>3, Taken, <1>4, <1>5, <1>6, ToldFacts
  DEF SessionInv, MutedWhileOn, SessionTypes, engineVars, clientVars, ghostVars,
      adapterVars
<1>16. DataSeenTo'
  BY <1>1, <1>2, <1>3, Taken, <1>4, <1>5, <1>6, ToldFacts
  DEF SessionInv, DataSeenTo, Recovers, engineVars, clientVars, ghostVars, adapterVars
<1> QED
  BY <1>7, <1>8, <1>9, <1>10, <1>11, <1>12, <1>13, <1>14, <1>15, <1>16 DEF SessionInv

\* A position in a session that is stopped for it.
LEMMA PositionStops ==
    ASSUME SessionInv, Take("ReportPosition"), Told, StopFix,
           UNCHANGED <<mNavigating, mFixCriteria>>
    PROVE  SessionInv'
<1>1. /\ session_task = "next" /\ session_queue # << >>
      /\ session_queue' = Tail(session_queue) /\ Head(session_queue).type = "ReportPosition"
  BY DEF Take, IsNext
<1>2. SessionTypes  BY DEF SessionInv
<1>3. Kind(session_queue[1]) = "ReportPosition" /\ HeadIs(session_queue, "ReportPosition")
  BY <1>1, <1>2, Taken DEF Kind, HeadIs
<1>4. Recovers  BY DEF SessionInv
<1>5. UNCHANGED <<engineVars, asked, mNavigating, mFixCriteria>>  BY DEF Told
<1>6. SessionTypes'
  BY <1>1, <1>2, <1>3, Taken, <1>4, <1>5, StopFixes, ToldFacts
  DEF SessionInv, SessionTypes, QmiStates, engineVars, clientVars, ghostVars,
      adapterVars
<1>7. WantedComes'
  <2>1. CASE "stale" \in excuses'  BY <2>1 DEF WantedComes, Trusting
  <2>2. CASE "stale" \notin excuses'
    <3>1. /\ ~Has(session_queue, "StartFix") /\ ~Has(session_queue, "PositionMode")
          /\ mFixCriteria.recurrence = "single"
      BY <1>2, <2>2, ToldFacts
    <3>2. client.on => client.recurrence = "single"
      <4>1. ~LastMode(session_queue, client.recurrence)  BY <3>1 DEF LastMode, Has
      <4> QED  BY <3>1, <4>1 DEF SessionInv, ModeComes
    <3>3. ~client'.on  BY <1>2, <3>2, ToldFacts
    <3>4. ~Has(session_queue', "StartFix")  BY <1>1, <1>2, <3>1, Taken
    <3>5. ~WillNavigate'  BY <1>2, <1>4, StopFixes DEF WillNavigate
    <3> QED  BY <3>3, <3>4, <3>5 DEF WantedComes
  <2> QED  BY <2>1, <2>2
<1>8. ModeComes'
  BY <1>1, <1>2, <1>3, Taken, <1>4, <1>5, StopFixes, ToldFacts
  DEF SessionInv, ModeComes, engineVars, clientVars, ghostVars, adapterVars
<1>9. ModeFirst'
  BY <1>1, <1>2, <1>3, Taken, <1>4, <1>5, StopFixes, ToldFacts
  DEF SessionInv, ModeFirst, engineVars, clientVars, ghostVars, adapterVars
<1>10. Recovers'
  BY <1>1, <1>2, <1>3, Taken, <1>4, <1>5, StopFixes, ToldFacts
  DEF SessionInv, Recovers, SessionTypes, engineVars, clientVars, ghostVars, adapterVars
<1>11. SessionFits'
  BY <1>1, <1>2, <1>3, Taken, <1>4, <1>5, StopFixes, ToldFacts
  DEF SessionInv, SessionFits, Recovers, SessionTypes, Trusting, engineVars, clientVars,
      ghostVars, adapterVars
<1>12. LastEnds'
  <2>1. Reports(session_queue') \subseteq Reports(session_queue)  BY <1>1, <1>2, Taken
  <2>2. session_task' = "stop" /\ starts' = starts  BY <1>2, <1>4, StopFixes
  <2> QED  BY <2>1, <2>2 DEF SessionInv, LastEnds
<1>13. OffComes'
  BY <1>1, <1>2, <1>3, Taken, <1>4, <1>5, StopFixes, ToldFacts
  DEF SessionInv, OffComes, OffWaits, Recovers, SessionTypes, engineVars, clientVars,
      ghostVars, adapterVars
<1>14. MutedWhileOn'
  BY <1>1, <1>2, <1>3, Taken, <1>4, <1>5, StopFixes, ToldFacts
  DEF SessionInv, MutedWhileOn, SessionTypes, engineVars, clientVars, ghostVars,
      adapterVars
<1>15. DataSeenTo'
  BY <1>1, <1>2, <1>3, Taken, <1>4, <1>5, StopFixes, ToldFacts
  DEF SessionInv, DataSeenTo, Recovers, engineVars, clientVars, ghostVars, adapterVars
<1> QED
  BY <1>6, <1>7, <1>8, <1>9, <1>10, <1>11, <1>12, <1>13, <1>14, <1>15 DEF SessionInv

\* A position, whatever becomes of it.
LEMMA PositionKeeps ==
    ASSUME SessionInv, LocEngReportPosition
    PROVE  SessionInv'
<1>1. CASE NoRequest /\ UNCHANGED <<client, ghostVars>>
  BY <1>1, PositionIgnored DEF LocEngReportPosition, engineVars
<1>2. CASE ~(NoRequest /\ UNCHANGED <<client, ghostVars>>)
  <2>1. Take("ReportPosition") /\ Told  BY <1>2 DEF LocEngReportPosition, Told
  <2>2. CASE Head(session_queue).final
    <3>1. SetInSession(FALSE) /\ UNCHANGED <<session_task, adapterVars, qmi, starts, happened>>
      BY <1>2, <2>2 DEF LocEngReportPosition
    <3> QED  BY <2>1, <2>2, <3>1, PositionEnds
  <2>3. CASE ~Head(session_queue).final
    <3>1. StopFix /\ UNCHANGED <<mNavigating, mFixCriteria>>
      BY <1>2, <2>3 DEF LocEngReportPosition
    <3> QED  BY <2>1, <3>1, PositionStops
  <2> QED  BY <2>2, <2>3
<1> QED  BY <1>1, <1>2

\* What says that the engine goes off.
LEMMA SayOff ==
    ASSUME SessionTypes
    PROVE  Queued(SaysOff) <=> OffWaits
<1>1. \A i \in DOMAIN session_queue : session_queue[i] \in SessionMessages
  BY DEF SessionTypes
<1>2. \A m \in SessionMessages :
          SaysOff(m) <=> Kind(m) \in {"turned off", "ENGINE_OFF", "LocEngDown"}
  BY DEF SessionMessages, SaysOff, Kind
<1>3. OffWaits <=> \E i \in DOMAIN session_queue :
                       Kind(session_queue[i]) \in {"turned off", "ENGINE_OFF", "LocEngDown"}
  BY DEF OffWaits, Has
<1> QED  BY <1>1, <1>2, <1>3 DEF Queued

\* The engine is on or off, or a session begins or ends.
LEMMA StatusKeeps ==
    ASSUME SessionInv, LocEngReportStatus
    PROVE  SessionInv'
<1>1. /\ session_task = "next" /\ session_queue # << >>
      /\ session_queue' = Tail(session_queue) /\ Head(session_queue).type = "ReportStatus"
  BY DEF LocEngReportStatus, Take, IsNext
<1>2. SessionTypes  BY DEF SessionInv
<1> DEFINE said == session_queue[1].status
<1>3. /\ Kind(session_queue[1]) = said /\ HeadIs(session_queue, said)
      /\ said \in {"ENGINE_ON", "ENGINE_OFF", "SESSION_BEGIN", "SESSION_END"}
  BY <1>1, <1>2, Taken DEF Kind, HeadIs, SessionMessages
<1>4. ReportStatus(said)  BY <1>1, <1>2, Taken DEF LocEngReportStatus
<1> HIDE DEF said
<1>5. SessionTypes'
  BY <1>1, <1>2, <1>3, <1>4, Taken
  DEF SessionInv, SessionTypes, QmiStates, LocEngReportStatus, ReportStatus,
      UpdateAidingData, NoRequest, ExcuseIf, clientVars, adapterVars
<1>6. WantedComes'
  BY <1>1, <1>2, <1>3, <1>4, Taken
  DEF SessionInv, WantedComes, WillNavigate, Trusting, LocEngReportStatus, ReportStatus,
      UpdateAidingData, NoRequest, ExcuseIf, clientVars, adapterVars
<1>7. ModeComes'
  BY <1>1, <1>2, <1>3, <1>4, Taken
  DEF SessionInv, ModeComes, LocEngReportStatus, ReportStatus, UpdateAidingData,
      NoRequest, ExcuseIf, clientVars, adapterVars
<1>8. ModeFirst'
  BY <1>1, <1>2, <1>3, <1>4, Taken
  DEF SessionInv, ModeFirst, LocEngReportStatus, ReportStatus, UpdateAidingData,
      NoRequest, ExcuseIf, clientVars, adapterVars
<1>9. Recovers'
  BY <1>1, <1>2, <1>3, <1>4, Taken
  DEF SessionInv, Recovers, SessionTypes, LocEngReportStatus, ReportStatus,
      UpdateAidingData, NoRequest, ExcuseIf, clientVars, adapterVars
<1>10. SessionFits'
  BY <1>1, <1>2, <1>3, <1>4, Taken
  DEF SessionInv, SessionFits, Recovers, SessionTypes, Trusting, LocEngReportStatus,
      ReportStatus, UpdateAidingData, NoRequest, ExcuseIf, clientVars, adapterVars
<1>11. LastEnds'
  BY <1>1, <1>2, <1>3, <1>4, Taken
  DEF SessionInv, LastEnds, SessionTypes, Trusting, LocEngReportStatus, ReportStatus,
      UpdateAidingData, NoRequest, ExcuseIf, clientVars, adapterVars
<1>12. OffComes'
  <2> DEFINE on == qmi.engine /\ qmi.registered /\ mEngineOn
  <2>1. /\ engine_status' \in {"ENGINE_ON", "ENGINE_OFF", engine_status}
        /\ said = "ENGINE_ON" => engine_status' = "ENGINE_ON"
        /\ said = "ENGINE_OFF" => engine_status' = "ENGINE_OFF"
        /\ said \notin {"ENGINE_ON", "ENGINE_OFF"} => engine_status' = engine_status
        /\ UNCHANGED <<qmi, mEngineOn>>
        /\ "late" \notin excuses' => "late" \notin excuses
    BY <1>3, <1>4 DEF ReportStatus, LocEngReportStatus, NoRequest, adapterVars, ExcuseIf
  <2>2. /\ \A t : Has(session_queue, t) <=> said = t \/ Has(session_queue', t)
        /\ mEngineOn \/ ~Has(session_queue', "ENGINE_ON")
           \/ LastOf(session_queue', "ENGINE_OFF", "ENGINE_ON")
    BY <1>1, <1>2, <1>3, Taken DEF SessionInv, OffComes
  <2>3. OffWaits <=> said = "ENGINE_OFF" \/ OffWaits'  BY <1>3, <2>2 DEF OffWaits
  <2>4. ASSUME "late" \notin excuses', engine_status' = "ENGINE_ON" PROVE OffWaits' \/ on
    <3>1. said # "ENGINE_OFF"  BY <2>1, <2>4
    <3>2. CASE said = "ENGINE_ON"
      <4>1. OffWaits \/ (qmi.engine /\ qmi.registered)
        BY <1>2, <2>4, SayOff DEF LocEngReportStatus, ExcuseIf
      <4>2. mEngineOn \/ ~Has(session_queue, "ENGINE_ON")
            \/ LastOf(session_queue, "ENGINE_OFF", "ENGINE_ON")
        BY DEF SessionInv, OffComes
      <4>3. Has(session_queue, "ENGINE_ON")  BY <2>2, <3>2
      <4>4. LastOf(session_queue, "ENGINE_OFF", "ENGINE_ON") => Has(session_queue, "ENGINE_OFF")
        BY DEF LastOf, Has
      <4>5. Has(session_queue, "ENGINE_OFF") => OffWaits'
        <5>1. Has(session_queue, "ENGINE_OFF") => Has(session_queue', "ENGINE_OFF")
          BY <2>2, <3>1
        <5> QED  BY <5>1 DEF OffWaits
      <4> QED  BY <2>3, <3>1, <4>1, <4>2, <4>3, <4>4, <4>5
    <3>3. CASE said # "ENGINE_ON"
      <4>1. engine_status = "ENGINE_ON" /\ "late" \notin excuses
        BY <2>1, <2>4, <3>1, <3>3
      <4> QED  BY <2>3, <3>1, <4>1 DEF SessionInv, OffComes
    <3> QED  BY <3>2, <3>3
  <2> QED  BY <2>1, <2>2, <2>4 DEF OffComes
<1>13. MutedWhileOn'
  <2>1. /\ engine_status' \in {"ENGINE_ON", "ENGINE_OFF", engine_status}
        /\ said = "ENGINE_ON" => engine_status' = "ENGINE_ON"
        /\ said = "ENGINE_OFF" => engine_status' = "ENGINE_OFF"
        /\ said \notin {"ENGINE_ON", "ENGINE_OFF"} => engine_status' = engine_status
    BY <1>3, <1>4 DEF ReportStatus
  <2>2. /\ mute_session_state = "IN_SESSION" => engine_status = "ENGINE_ON"
        /\ HeadIs(session_queue, "SESSION_BEGIN") => engine_status = "ENGINE_ON"
        /\ Follows(session_queue, "SESSION_BEGIN", "ENGINE_ON")
    BY DEF SessionInv, MutedWhileOn
  <2>3. Follows(session_queue', "SESSION_BEGIN", "ENGINE_ON")  BY <1>1, <1>2, <2>2, Taken
  <2>4. HeadIs(session_queue', "SESSION_BEGIN") => said = "ENGINE_ON"
    BY <1>1, <1>2, <1>3, <2>2, Taken
  <2>5. mute_session_state' = "IN_SESSION" =>
           /\ said # "ENGINE_OFF"
           /\ said \in {"SESSION_BEGIN", "ENGINE_ON"} \/ mute_session_state = "IN_SESSION"
    BY <1>3, <1>4 DEF ReportStatus
  <2>6. said = "SESSION_BEGIN" => engine_status = "ENGINE_ON"  BY <1>3, <2>2
  <2>7. mute_session_state' = "IN_SESSION" => engine_status' = "ENGINE_ON"
    BY <2>1, <2>2, <2>5, <2>6
  <2> QED  BY <2>1, <2>3, <2>4, <2>7 DEF MutedWhileOn
<1>14. DataSeenTo'
  BY <1>1, <1>2, <1>3, <1>4, Taken
  DEF SessionInv, DataSeenTo, Recovers, LocEngReportStatus, ReportStatus,
      UpdateAidingData, NoRequest, ExcuseIf, clientVars, adapterVars
<1> QED
  BY <1>5, <1>6, <1>7, <1>8, <1>9, <1>10, <1>11, <1>12, <1>13, <1>14 DEF SessionInv

\* The engine is on in a session, which is reported.
LEMMA EngineOnKeeps ==
    ASSUME SessionInv, UpdateEngineState, Head(session_queue).on, mInSession
    PROVE  SessionInv'
<1> DEFINE ms == <<[type |-> "ReportStatus", status |-> "ENGINE_ON"],
                 [type |-> "ReportStatus", status |-> "SESSION_BEGIN"]>>
<1>1. /\ session_task = "next" /\ session_queue # << >>
      /\ session_queue' = Tail(session_queue) \o ms
      /\ Head(session_queue).type = "UpdateEngineState"
  BY DEF UpdateEngineState, IsNext, ms
<1>2. SessionTypes  BY DEF SessionInv
<1>3. Kind(session_queue[1]) = "turned on" /\ HeadIs(session_queue, "turned on")
  <2>1. Head(session_queue) = session_queue[1]  BY <1>1, <1>2, TailOfQueue DEF SessionTypes
  <2>2. Kind(session_queue[1]) = "turned on"  BY <1>1, <2>1 DEF Kind
  <2> QED  BY <1>1, <2>2 DEF HeadIs
<1>4. ms \in Seq(SessionMessages)  BY DEF SessionMessages
<1>5. /\ \A t : Has(ms, t) <=> t = "ENGINE_ON" \/ t = "SESSION_BEGIN"
      /\ \A t : HeadIs(ms, t) <=> t = "ENGINE_ON"
      /\ \A t, o : LastOf(ms, t, o) <=> t = "SESSION_BEGIN" \/ (t = "ENGINE_ON" /\ o # "SESSION_BEGIN")
      /\ \A t, o : Follows(ms, t, o) <=> (t = "SESSION_BEGIN" => o = "ENGINE_ON")
      /\ Reports(ms) = {}
  <2> DEFINE a == [type |-> "ReportStatus", status |-> "ENGINE_ON"]
             b == [type |-> "ReportStatus", status |-> "SESSION_BEGIN"]
  <2>1. Kind(a) = "ENGINE_ON" /\ Kind(b) = "SESSION_BEGIN"  BY DEF Kind
  <2> HIDE DEF a, b
  <2>2. ms = <<a, b>>  BY DEF a, b
  <2> HIDE DEF ms
  <2> QED  BY <2>1, <2>2, TwoMessages
<1> HIDE DEF ms
<1>6. /\ mEngineOn' = TRUE /\ qmi' = qmi
      /\ UNCHANGED <<session_task, mNavigating, mFixCriteria, mInSession, engineVars,
                     clientVars, starts, ghostVars>>
  BY DEF UpdateEngineState
<1>7. SessionTypes'
  BY <1>1, <1>2, <1>3, <1>4, <1>5, <1>6, Answered
  DEF SessionInv, SessionTypes, QmiStates, clientVars, ghostVars, engineVars
<1>8. WantedComes'
  BY <1>1, <1>2, <1>3, <1>4, <1>5, <1>6, Answered
  DEF SessionInv, WantedComes, WillNavigate, Trusting, clientVars, ghostVars, engineVars
<1>9. ModeComes'
  BY <1>1, <1>2, <1>3, <1>4, <1>5, <1>6, Answered
  DEF SessionInv, ModeComes, clientVars, ghostVars, engineVars
<1>10. ModeFirst'
  BY <1>1, <1>2, <1>3, <1>4, <1>5, <1>6, Answered
  DEF SessionInv, ModeFirst, clientVars, ghostVars, engineVars
<1>11. Recovers'
  <2>1. /\ Has(session_queue', "LocEngUp") <=> Has(session_queue, "LocEngUp")
        /\ Has(session_queue', "LocEngDown") <=> Has(session_queue, "LocEngDown")
        /\ Has(session_queue', "LocSsr") <=> Has(session_queue, "LocSsr")
    BY <1>1, <1>2, <1>3, <1>4, <1>5, Answered
  <2>2. LastOf(session_queue, "LocEngUp", "LocSsr") => LastOf(session_queue', "LocEngUp", "LocSsr")
    BY <1>1, <1>2, <1>3, <1>4, <1>5, Answered
  <2>3. Once(session_queue', "LocSsr")
    BY <1>1, <1>2, <1>4, <1>5, Answered DEF SessionInv, Recovers
  <2>4. Follows(session_queue', "LocEngUp", "LocSsr") /\ ~HeadIs(session_queue', "LocEngUp")
    BY <1>1, <1>2, <1>3, <1>4, <1>5, Answered DEF SessionInv, Recovers
  <2> QED
    BY <1>6, <2>1, <2>2, <2>3, <2>4 DEF SessionInv, Recovers, ghostVars
<1>12. SessionFits'
  BY <1>1, <1>2, <1>3, <1>4, <1>5, <1>6, Answered
  DEF SessionInv, SessionFits, Recovers, SessionTypes, Trusting, clientVars, ghostVars,
      engineVars
<1>13. LastEnds'
  BY <1>1, <1>2, <1>3, <1>4, <1>5, <1>6, Answered
  DEF SessionInv, LastEnds, SessionTypes, Trusting, clientVars, ghostVars, engineVars
<1>14. OffComes'
  BY <1>1, <1>2, <1>3, <1>4, <1>5, <1>6, Answered
  DEF SessionInv, OffComes, OffWaits, Recovers, SessionTypes, clientVars, ghostVars,
      engineVars
<1>15. MutedWhileOn'
  BY <1>1, <1>2, <1>3, <1>4, <1>5, <1>6, Answered
  DEF SessionInv, MutedWhileOn, SessionTypes, clientVars, ghostVars, engineVars
<1>16. DataSeenTo'
  BY <1>1, <1>2, <1>3, <1>4, <1>5, <1>6, Answered
  DEF SessionInv, DataSeenTo, Recovers, clientVars, ghostVars, engineVars
<1> QED
  BY <1>7, <1>8, <1>9, <1>10, <1>11, <1>12, <1>13, <1>14, <1>15, <1>16 DEF SessionInv

\* The engine is off, which is reported.
LEMMA EngineOffKeeps ==
    ASSUME SessionInv, UpdateEngineState, ~Head(session_queue).on
    PROVE  SessionInv'
<1> DEFINE ms == <<[type |-> "ReportStatus", status |-> "SESSION_END"],
                 [type |-> "ReportStatus", status |-> "ENGINE_OFF"]>>
<1>1. /\ session_task = "next" /\ session_queue # << >>
      /\ session_queue' = Tail(session_queue) \o ms
      /\ Head(session_queue).type = "UpdateEngineState"
  BY DEF UpdateEngineState, IsNext, ms
<1>2. SessionTypes  BY DEF SessionInv
<1>3. Kind(session_queue[1]) = "turned off" /\ HeadIs(session_queue, "turned off")
  <2>1. Head(session_queue) = session_queue[1]  BY <1>1, <1>2, TailOfQueue DEF SessionTypes
  <2>2. Kind(session_queue[1]) = "turned off"  BY <1>1, <2>1 DEF Kind
  <2> QED  BY <1>1, <2>2 DEF HeadIs
<1>4. ms \in Seq(SessionMessages)  BY DEF SessionMessages
<1>5. /\ \A t : Has(ms, t) <=> t = "SESSION_END" \/ t = "ENGINE_OFF"
      /\ \A t : HeadIs(ms, t) <=> t = "SESSION_END"
      /\ \A t, o : LastOf(ms, t, o) <=> t = "ENGINE_OFF" \/ (t = "SESSION_END" /\ o # "ENGINE_OFF")
      /\ \A t, o : Follows(ms, t, o) <=> (t = "ENGINE_OFF" => o = "SESSION_END")
      /\ Reports(ms) = {}
  <2> DEFINE a == [type |-> "ReportStatus", status |-> "SESSION_END"]
             b == [type |-> "ReportStatus", status |-> "ENGINE_OFF"]
  <2>1. Kind(a) = "SESSION_END" /\ Kind(b) = "ENGINE_OFF"  BY DEF Kind
  <2> HIDE DEF a, b
  <2>2. ms = <<a, b>>  BY DEF a, b
  <2> HIDE DEF ms
  <2> QED  BY <2>1, <2>2, TwoMessages
<1> HIDE DEF ms
<1>6. /\ mEngineOn' = FALSE
      /\ qmi' \in QmiStates /\ qmi'.up = qmi.up /\ qmi'.session = qmi.session
      /\ qmi'.engine = qmi.engine /\ (~qmi.registered => ~qmi'.registered)
      /\ UNCHANGED <<session_task, mNavigating, mFixCriteria, mInSession, engineVars,
                     clientVars, starts, ghostVars>>
  <2>1. /\ mEngineOn' = Head(session_queue).on
        /\ qmi' \in {qmi, Registered(FALSE)}
        /\ UNCHANGED <<session_task, mNavigating, mFixCriteria, mInSession, engineVars,
                       clientVars, starts, ghostVars>>
    BY DEF UpdateEngineState
  <2>2. mEngineOn' = FALSE
    BY <1>1, <1>2, <2>1, TailOfQueue DEF SessionTypes, SessionMessages
  <2>3. FALSE \in BOOLEAN /\ qmi \in QmiStates  BY <1>2 DEF SessionTypes, QmiStates
  <2> QED  BY <1>2, <2>1, <2>2, <2>3, RegisteredQmi
<1>7. SessionTypes'
  BY <1>1, <1>2, <1>3, <1>4, <1>5, <1>6, Answered
  DEF SessionInv, SessionTypes, QmiStates, clientVars, ghostVars, engineVars
<1>8. WantedComes'
  BY <1>1, <1>2, <1>3, <1>4, <1>5, <1>6, Answered
  DEF SessionInv, WantedComes, WillNavigate, Trusting, clientVars, ghostVars, engineVars
<1>9. ModeComes'
  BY <1>1, <1>2, <1>3, <1>4, <1>5, <1>6, Answered
  DEF SessionInv, ModeComes, clientVars, ghostVars, engineVars
<1>10. ModeFirst'
  <2>1. UNCHANGED <<mNavigating, session_task, mFixCriteria, happened>>
    BY <1>1, <1>6 DEF ghostVars
  <2>2. CASE happened["crash"] # 0  BY <2>1, <2>2 DEF ModeFirst
  <2>3. CASE happened["crash"] = 0
    <3>1. /\ mNavigating \/ session_task = "start" => mFixCriteria.mode = "ms_based"
          /\ Follows(session_queue, "StartFix", "PositionMode")
      BY <2>3 DEF SessionInv, ModeFirst
    <3>2. Follows(session_queue', "StartFix", "PositionMode")
      BY <1>1, <1>2, <1>3, <1>4, <1>5, Answered, <3>1
    <3>3. ~HeadIs(session_queue', "StartFix")
      BY <1>1, <1>2, <1>3, <1>4, <1>5, Answered, <3>1
    <3> QED  BY <2>1, <3>1, <3>2, <3>3 DEF ModeFirst
  <2> QED  BY <2>2, <2>3
<1>11. Recovers'
  <2>1. Recovers  BY DEF SessionInv
  <2>2. /\ ~Has(ms, "LocEngUp") /\ ~Has(ms, "LocEngDown") /\ ~Has(ms, "LocSsr")
        /\ Follows(ms, "LocEngUp", "LocSsr") /\ ~HeadIs(ms, "LocEngUp")
    BY <1>5
  <2>3. /\ Has(session_queue', "LocSsr") <=> Has(session_queue, "LocSsr")
        /\ Has(session_queue', "LocEngUp") => Has(session_queue, "LocEngUp")
        /\ Has(session_queue', "LocEngDown") => Has(session_queue, "LocEngDown")
    BY <1>1, <1>2, <1>3, <1>4, <2>2, Answered
  <2>4. /\ LastOf(session_queue, "LocEngUp", "LocSsr") => LastOf(session_queue', "LocEngUp", "LocSsr")
        /\ Once(session_queue', "LocSsr")
    BY <1>1, <1>2, <1>3, <1>4, <2>1, <2>2, Answered DEF Recovers
  <2>5. /\ Follows(session_queue', "LocEngUp", "LocSsr")
        /\ ~HeadIs(session_queue', "LocEngUp")
    BY <1>1, <1>2, <1>3, <1>4, <2>1, <2>2, Answered DEF Recovers
  <2>6. happened' = happened  BY <1>6 DEF ghostVars
  <2> QED  BY <1>6, <2>1, <2>3, <2>4, <2>5, <2>6 DEF Recovers, QmiStates
<1>12. SessionFits'
  BY <1>1, <1>2, <1>3, <1>4, <1>5, <1>6, Answered
  DEF SessionInv, SessionFits, Recovers, SessionTypes, Trusting, clientVars, ghostVars,
      engineVars
<1>13. LastEnds'
  BY <1>1, <1>2, <1>3, <1>4, <1>5, <1>6, Answered
  DEF SessionInv, LastEnds, SessionTypes, Trusting, clientVars, ghostVars, engineVars
<1>14. OffComes'
  BY <1>1, <1>2, <1>3, <1>4, <1>5, <1>6, Answered
  DEF SessionInv, OffComes, OffWaits, Recovers, SessionTypes, clientVars, ghostVars,
      engineVars
<1>15. MutedWhileOn'
  <2>1. mute_session_state' = mute_session_state /\ engine_status' = engine_status
    BY <1>6 DEF engineVars
  <2>2. Follows(session_queue, "SESSION_BEGIN", "ENGINE_ON")  BY DEF SessionInv, MutedWhileOn
  <2>3. Follows(ms, "SESSION_BEGIN", "ENGINE_ON") /\ ~HeadIs(ms, "SESSION_BEGIN")  BY <1>5
  <2>4. Follows(session_queue', "SESSION_BEGIN", "ENGINE_ON")
    BY <1>1, <1>2, <1>4, <2>2, <2>3, Answered
  <2>5. ~HeadIs(session_queue', "SESSION_BEGIN")
    <3>1. HeadIs(session_queue', "SESSION_BEGIN") => Kind(session_queue[1]) = "ENGINE_ON"
      BY <1>1, <1>2, <1>4, <2>2, <2>3, Answered
    <3> QED  BY <1>3, <3>1
  <2> QED  BY <2>1, <2>4, <2>5 DEF SessionInv, MutedWhileOn
<1>16. DataSeenTo'
  BY <1>1, <1>2, <1>3, <1>4, <1>5, <1>6, Answered
  DEF SessionInv, DataSeenTo, Recovers, clientVars, ghostVars, engineVars
<1> QED
  BY <1>7, <1>8, <1>9, <1>10, <1>11, <1>12, <1>13, <1>14, <1>15, <1>16 DEF SessionInv

\* The engine is on between sessions, which is not reported.
LEMMA EngineOnBetweenKeeps ==
    ASSUME SessionInv, UpdateEngineState, Head(session_queue).on, ~mInSession
    PROVE  SessionInv'
<1>1. /\ session_task = "next" /\ session_queue # << >>
      /\ session_queue' = Tail(session_queue) /\ Head(session_queue).type = "UpdateEngineState"
  <2>1. /\ session_queue \in Seq(SessionMessages) /\ session_queue # << >>
        /\ session_queue' = Tail(session_queue) \o << >>
    BY DEF UpdateEngineState, IsNext, SessionInv, SessionTypes
  <2>2. session_queue' = Tail(session_queue)  BY <2>1, TailOfQueue, ConcatEmptySeq
  <2> QED  BY <2>1, <2>2 DEF UpdateEngineState, IsNext
<1>2. SessionTypes  BY DEF SessionInv
<1>3. Kind(session_queue[1]) = "turned on" /\ HeadIs(session_queue, "turned on")
  <2>1. Head(session_queue) = session_queue[1]  BY <1>1, <1>2, Taken
  <2>2. Kind(session_queue[1]) = "turned on"  BY <1>1, <2>1 DEF Kind
  <2> QED  BY <1>1, <2>2 DEF HeadIs
<1>4. /\ mEngineOn' = TRUE /\ qmi' = qmi
      /\ UNCHANGED <<session_task, mNavigating, mFixCriteria, mInSession, engineVars,
                     clientVars, starts, ghostVars>>
  <2>1. mEngineOn' = Head(session_queue).on /\ Head(session_queue).on \in BOOLEAN
    BY <1>1, <1>2, Taken DEF UpdateEngineState, SessionMessages
  <2> QED  BY <2>1 DEF UpdateEngineState
<1>5. SessionTypes'
  BY <1>1, <1>2, <1>3, <1>4, Taken
  DEF SessionInv, SessionTypes, QmiStates, clientVars, ghostVars, engineVars
<1>6. WantedComes'
  BY <1>1, <1>2, <1>3, <1>4, Taken
  DEF SessionInv, WantedComes, WillNavigate, Trusting, clientVars, ghostVars, engineVars
<1>7. ModeComes'
  BY <1>1, <1>2, <1>3, <1>4, Taken
  DEF SessionInv, ModeComes, clientVars, ghostVars, engineVars
<1>8. ModeFirst'
  <2>1. UNCHANGED <<mNavigating, session_task, mFixCriteria, happened>>
    BY <1>1, <1>4 DEF ghostVars
  <2>2. CASE happened["crash"] # 0  BY <2>1, <2>2 DEF ModeFirst
  <2>3. CASE happened["crash"] = 0
    <3>1. /\ mNavigating \/ session_task = "start" => mFixCriteria.mode = "ms_based"
          /\ Follows(session_queue, "StartFix", "PositionMode")
      BY <2>3 DEF SessionInv, ModeFirst
    <3>2. Follows(session_queue', "StartFix", "PositionMode")
      BY <1>1, <1>2, <1>3, <1>4, Taken, <3>1
    <3>3. ~HeadIs(session_queue', "StartFix")
      BY <1>1, <1>2, <1>3, <1>4, Taken, <3>1
    <3> QED  BY <2>1, <3>1, <3>2, <3>3 DEF ModeFirst
  <2> QED  BY <2>2, <2>3
<1>9. Recovers'
  BY <1>1, <1>2, <1>3, <1>4, Taken
  DEF SessionInv, Recovers, SessionTypes, clientVars, ghostVars, engineVars
<1>10. SessionFits'
  BY <1>1, <1>2, <1>3, <1>4, Taken
  DEF SessionInv, SessionFits, Recovers, SessionTypes, Trusting, clientVars, ghostVars,
      engineVars
<1>11. LastEnds'
  BY <1>1, <1>2, <1>3, <1>4, Taken
  DEF SessionInv, LastEnds, SessionTypes, Trusting, clientVars, ghostVars, engineVars
<1>12. OffComes'
  BY <1>1, <1>2, <1>3, <1>4, Taken
  DEF SessionInv, OffComes, OffWaits, Recovers, SessionTypes, clientVars, ghostVars,
      engineVars
<1>13. MutedWhileOn'
  <2>1. mute_session_state' = mute_session_state /\ engine_status' = engine_status
    BY <1>4 DEF engineVars
  <2>2. Follows(session_queue, "SESSION_BEGIN", "ENGINE_ON")  BY DEF SessionInv, MutedWhileOn
  <2>3. /\ Follows(session_queue', "SESSION_BEGIN", "ENGINE_ON")
        /\ HeadIs(session_queue', "SESSION_BEGIN") => Kind(session_queue[1]) = "ENGINE_ON"
    BY <1>1, <1>2, <2>2, Taken
  <2>4. ~HeadIs(session_queue', "SESSION_BEGIN")  BY <1>3, <2>3
  <2> QED  BY <2>1, <2>3, <2>4 DEF SessionInv, MutedWhileOn
<1>14. DataSeenTo'
  BY <1>1, <1>2, <1>3, <1>4, Taken
  DEF SessionInv, DataSeenTo, Recovers, clientVars, ghostVars, engineVars
<1> QED
  BY <1>5, <1>6, <1>7, <1>8, <1>9, <1>10, <1>11, <1>12, <1>13, <1>14 DEF SessionInv

\* The engine turns on or off.
LEMMA EngineKeeps ==
    ASSUME SessionInv, UpdateEngineState
    PROVE  SessionInv'
<1>1. CASE ~Head(session_queue).on  BY <1>1, EngineOffKeeps
<1>2. CASE Head(session_queue).on /\ mInSession  BY <1>2, EngineOnKeeps
<1>3. CASE Head(session_queue).on /\ ~mInSession  BY <1>3, EngineOnBetweenKeeps
<1> QED  BY <1>1, <1>2, <1>3

\* The modem is up again in a session, which is begun anew.
LEMMA UpAgainKeeps ==
    ASSUME SessionInv, loc_eng_handle_engine_up, mNavigating
    PROVE  SessionInv'
<1> DEFINE ms == <<[type |-> "StartFix"]>>
<1>1. /\ session_task = "next" /\ session_queue # << >>
      /\ session_queue' = Append(Tail(session_queue), [type |-> "StartFix"])
      /\ Head(session_queue).type = "LocEngUp"
  BY DEF loc_eng_handle_engine_up, IsNext
<1>2. SessionTypes  BY DEF SessionInv
<1>3. Kind(session_queue[1]) = "LocEngUp" /\ HeadIs(session_queue, "LocEngUp")
  <2>1. Head(session_queue) = session_queue[1]  BY <1>1, <1>2, TailOfQueue DEF SessionTypes
  <2>2. Kind(session_queue[1]) = "LocEngUp"  BY <1>1, <2>1 DEF Kind
  <2> QED  BY <1>1, <2>2 DEF HeadIs
<1>4. ms \in Seq(SessionMessages) /\ session_queue' = Tail(session_queue) \o ms
  <2>1. [type |-> "StartFix"] \in SessionMessages  BY DEF SessionMessages
  <2>2. Tail(session_queue) \in Seq(SessionMessages)
    BY <1>1, <1>2, TailOfQueue DEF SessionTypes
  <2>3. session_queue' = Tail(session_queue) \o ms  BY <1>1, <2>1, <2>2, AppendIsConcat
  <2>4. ms \in Seq(SessionMessages)  BY <2>1
  <2> QED  BY <2>3, <2>4
<1>5. /\ \A t : Has(ms, t) <=> t = "StartFix"
      /\ \A t : HeadIs(ms, t) <=> t = "StartFix"
      /\ \A t, o : LastOf(ms, t, o) <=> t = "StartFix"
      /\ \A t, o : Follows(ms, t, o)
      /\ Reports(ms) = {}
  <2> DEFINE a == [type |-> "StartFix"]
  <2>1. Kind(a) = "StartFix"  BY DEF Kind
  <2> HIDE DEF a
  <2>2. ms = <<a>>  BY DEF a
  <2> HIDE DEF ms
  <2> QED  BY <2>1, <2>2, OneMessage
<1> HIDE DEF ms
<1>6. /\ mNavigating' = FALSE /\ mFixCriteria' = [mFixCriteria EXCEPT !.mode = "invalid"]
      /\ mFixCriteria' \in Criteria /\ mFixCriteria'.recurrence = mFixCriteria.recurrence
      /\ excuses \subseteq excuses'
      /\ \A e : e # "revived" /\ e \in excuses' => e \in excuses
      /\ UNCHANGED <<session_task, mInSession, mEngineOn, qmi, starts, engineVars, clientVars,
                     happened>>
  BY <1>2 DEF loc_eng_handle_engine_up, SetInSession, SessionTypes, Criteria, ExcuseIf, adapterVars
<1>7. happened["crash"] # 0 /\ qmi.session = NoSession
  <2>1. Has(session_queue, "LocEngUp")  BY <1>1, <1>2, <1>3, TailHas DEF SessionTypes
  <2> QED  BY <1>3, <2>1 DEF SessionInv, Recovers
<1>8. SessionTypes'
  BY <1>1, <1>2, <1>3, <1>4, <1>5, <1>6, <1>7, Answered
  DEF SessionInv, SessionTypes, QmiStates, engineVars, clientVars
<1>9. WantedComes'
  <2> SUFFICES ASSUME Trusting', ~client.on, "revived" \notin excuses'
               PROVE  FALSE
    BY <1>1, <1>2, <1>4, <1>5, <1>6, Answered DEF WantedComes, clientVars
  <2>1. ~Has(session_queue, "StopFix")
    <3>1. ~Waiting({"StopFix"})  BY DEF loc_eng_handle_engine_up, ExcuseIf
    <3>2. \A i \in DOMAIN session_queue : /\ session_queue[i].type # "StopFix"
                                          /\ session_queue[i] \in SessionMessages
      BY <1>2, <3>1 DEF Waiting, Queued, SessionTypes
    <3> QED  BY <3>2 DEF Has, Kind, SessionMessages
  <2>2. ~LastOf(session_queue, "StopFix", "StartFix")  BY <2>1 DEF LastOf, Has
  <2>3. Trusting /\ "revived" \notin excuses  BY <1>6 DEF Trusting
  <2>4. ~WillNavigate  BY <2>2, <2>3 DEF SessionInv, WantedComes
  <2> QED  BY <1>1, <2>4 DEF WillNavigate
<1>10. ModeComes'
  BY <1>1, <1>2, <1>3, <1>4, <1>5, <1>6, <1>7, Answered
  DEF SessionInv, ModeComes, engineVars, clientVars
<1>11. ModeFirst'
  BY <1>1, <1>2, <1>3, <1>4, <1>5, <1>6, <1>7, Answered
  DEF SessionInv, ModeFirst, engineVars, clientVars
<1>12. Recovers'
  <2>1. ~HeadIs(session_queue', "LocEngUp") \/ Kind(session_queue[1]) = "LocSsr"
    <3>1. Follows(session_queue, "LocEngUp", "LocSsr") /\ Follows(ms, "LocEngUp", "LocSsr")
          /\ ~HeadIs(ms, "LocEngUp")
      BY <1>5 DEF SessionInv, Recovers
    <3> QED  BY <1>1, <1>2, <1>4, <3>1, Answered
  <2>2. ~HeadIs(session_queue', "LocEngUp")  BY <1>3, <2>1
  <2>3. Has(session_queue', "LocSsr") <=> Has(session_queue, "LocSsr")
    BY <1>1, <1>2, <1>3, <1>4, <1>5, Answered
  <2>4. Once(session_queue', "LocSsr")
    BY <1>1, <1>2, <1>4, <1>5, Answered DEF SessionInv, Recovers
  <2>5. Follows(session_queue', "LocEngUp", "LocSsr")
    BY <1>1, <1>2, <1>4, <1>5, Answered DEF SessionInv, Recovers
  <2>6. ASSUME ~qmi.up PROVE LastOf(session_queue', "LocEngUp", "LocSsr")
    <3> DEFINE p == Tail(session_queue)
    <3>1. session_queue \in Seq(SessionMessages)  BY <1>2 DEF SessionTypes
    <3>2. p \in Seq(SessionMessages)  BY <1>1, <3>1, TailOfQueue
    <3>3. Has(session_queue, "LocSsr") /\ LastOf(session_queue, "LocEngUp", "LocSsr")
      BY <2>6 DEF SessionInv, Recovers
    <3>4. Has(session_queue, "LocSsr") <=> Kind(session_queue[1]) = "LocSsr" \/ Has(p, "LocSsr")
      BY <1>1, <3>1, TailHas
    <3>5. \/ LastOf(p, "LocEngUp", "LocSsr")
          \/ Kind(session_queue[1]) = "LocEngUp" /\ ~Has(p, "LocSsr")
      BY <1>1, <3>1, <3>3, TailHas
    <3>6. LastOf(p, "LocEngUp", "LocSsr")  BY <1>3, <3>3, <3>4, <3>5
    <3>7. session_queue' = p \o ms  BY <1>4
    <3> HIDE DEF p
    <3>8. ~Has(ms, "LocSsr")  BY <1>5
    <3> QED  BY <1>4, <3>2, <3>6, <3>7, <3>8, Posted
  <2> QED  BY <1>6, <1>7, <2>2, <2>3, <2>4, <2>5, <2>6 DEF SessionInv, Recovers
<1>13. SessionFits'
  BY <1>1, <1>2, <1>3, <1>4, <1>5, <1>6, <1>7, Answered
  DEF SessionInv, SessionFits, Recovers, SessionTypes, Trusting, engineVars, clientVars
<1>14. LastEnds'
  BY <1>1, <1>2, <1>3, <1>4, <1>5, <1>6, <1>7, Answered
  DEF SessionInv, LastEnds, SessionTypes, Trusting, engineVars, clientVars
<1>15. OffComes'
  BY <1>1, <1>2, <1>3, <1>4, <1>5, <1>6, <1>7, Answered
  DEF SessionInv, OffComes, OffWaits, Recovers, SessionTypes, engineVars, clientVars
<1>16. MutedWhileOn'
  <2>1. ~HeadIs(session_queue', "SESSION_BEGIN") \/ Kind(session_queue[1]) = "ENGINE_ON"
    BY <1>1, <1>2, <1>4, <1>5, Answered DEF SessionInv, MutedWhileOn
  <2>2. ~HeadIs(session_queue', "SESSION_BEGIN")  BY <1>3, <2>1
  <2>3. Follows(session_queue', "SESSION_BEGIN", "ENGINE_ON")
    BY <1>1, <1>2, <1>4, <1>5, Answered DEF SessionInv, MutedWhileOn
  <2> QED  BY <1>6, <2>2, <2>3 DEF SessionInv, MutedWhileOn, engineVars
<1>17. DataSeenTo'
  BY <1>1, <1>2, <1>3, <1>4, <1>5, <1>6, <1>7, Answered
  DEF SessionInv, DataSeenTo, Recovers, engineVars, clientVars
<1> QED
  BY <1>8, <1>9, <1>10, <1>11, <1>12, <1>13, <1>14, <1>15, <1>16, <1>17 DEF SessionInv

\* The modem is up again between sessions.
LEMMA UpKeeps ==
    ASSUME SessionInv, loc_eng_handle_engine_up, ~mNavigating
    PROVE  SessionInv'
<1>1. /\ session_task = "next" /\ session_queue # << >>
      /\ session_queue' = Tail(session_queue) /\ Head(session_queue).type = "LocEngUp"
  BY DEF loc_eng_handle_engine_up, IsNext
<1>2. SessionTypes  BY DEF SessionInv
<1>3. Kind(session_queue[1]) = "LocEngUp" /\ HeadIs(session_queue, "LocEngUp")
  BY <1>1, <1>2, Taken DEF Kind, HeadIs
<1>4. UNCHANGED <<session_task, mNavigating, mFixCriteria, mInSession, mEngineOn, qmi, starts,
                  engineVars, clientVars, happened, excuses>>
  BY DEF loc_eng_handle_engine_up, ExcuseIf, adapterVars
<1>5. SessionTypes'
  BY <1>1, <1>2, <1>3, <1>4, Taken
  DEF SessionInv, SessionTypes, QmiStates, engineVars, clientVars
<1>6. WantedComes'
  BY <1>1, <1>2, <1>3, <1>4, Taken
  DEF SessionInv, WantedComes, WillNavigate, Trusting, engineVars, clientVars
<1>7. ModeComes'
  BY <1>1, <1>2, <1>3, <1>4, Taken
  DEF SessionInv, ModeComes, engineVars, clientVars
<1>8. ModeFirst'
  BY <1>1, <1>2, <1>3, <1>4, Taken
  DEF SessionInv, ModeFirst, engineVars, clientVars
<1>9. Recovers'
  BY <1>1, <1>2, <1>3, <1>4, Taken
  DEF SessionInv, Recovers, SessionTypes, engineVars, clientVars
<1>10. SessionFits'
  BY <1>1, <1>2, <1>3, <1>4, Taken
  DEF SessionInv, SessionFits, Recovers, SessionTypes, Trusting, engineVars, clientVars
<1>11. LastEnds'
  BY <1>1, <1>2, <1>3, <1>4, Taken
  DEF SessionInv, LastEnds, SessionTypes, Trusting, engineVars, clientVars
<1>12. OffComes'
  BY <1>1, <1>2, <1>3, <1>4, Taken
  DEF SessionInv, OffComes, OffWaits, Recovers, SessionTypes, engineVars, clientVars
<1>13. MutedWhileOn'
  BY <1>1, <1>2, <1>3, <1>4, Taken
  DEF SessionInv, MutedWhileOn, SessionTypes, engineVars, clientVars
<1>14. DataSeenTo'
  BY <1>1, <1>2, <1>3, <1>4, Taken
  DEF SessionInv, DataSeenTo, Recovers, engineVars, clientVars
<1> QED
  BY <1>5, <1>6, <1>7, <1>8, <1>9, <1>10, <1>11, <1>12, <1>13, <1>14 DEF SessionInv

\* The modem is asked for a session.
LEMMA SendKeeps ==
    ASSUME SessionInv, SendStart
    PROVE  SessionInv'
<1>1. /\ session_queue' = session_queue /\ session_task' = "next"
      /\ session_task \in {"start", "restart"} /\ starts' = starts + 1
      /\ UNCHANGED <<mInSession, mEngineOn, engineVars, clientVars, excuses>>
  BY DEF SendStart, adapterVars
<1>2. SessionTypes /\ Recovers  BY DEF SessionInv
<1>3. /\ qmi' \in QmiStates /\ qmi'.up = qmi.up /\ qmi'.registered = qmi.registered
      /\ qmi'.engine = qmi.engine /\ qmi'.network = qmi.network
      /\ ~qmi.up => qmi' = qmi
  <2>1. qmi' \in {qmi, [qmi EXCEPT !.session = mFixCriteria]} /\ (~qmi.up => qmi' = qmi)
    BY DEF SendStart
  <2>2. qmi \in QmiStates /\ mFixCriteria \in Criteria  BY <1>2 DEF SessionTypes, QmiStates
  <2> QED  BY <2>1, <2>2 DEF QmiStates
<1>4. /\ mNavigating' \in BOOLEAN /\ mFixCriteria' = mFixCriteria
      /\ mNavigating' \in {TRUE, mNavigating}
  BY <1>2 DEF SendStart, SetInSession, SessionTypes
<1>5. /\ happened' \in [Events \cup {"start"} -> Nat] /\ happened'["crash"] = happened["crash"]
      /\ \/ /\ happened' = happened /\ mNavigating'
            /\ qmi.up => qmi'.session = mFixCriteria
         \/ happened'["refusal"] # 0
  <2>1. /\ "refusal" \in Events \cup {"start"} /\ "crash" \in Events \cup {"start"}
        /\ "crash" # "refusal"
    BY DEF Events
  <2>2. qmi \in QmiStates  BY <1>2 DEF SessionTypes, QmiStates
  <2>3. session_task = "restart" => mNavigating  BY DEF SessionInv, SessionFits
  <2>4. CASE qmi.up /\ Count("refusal")  BY <1>2, <2>1, <2>4, Counts
  <2>5. CASE ~(qmi.up /\ Count("refusal"))
    <3>1. happened' = happened  BY <2>5 DEF SendStart
    <3>2. mNavigating'
      <4>1. CASE session_task = "start"  BY <2>5, <4>1 DEF SendStart, SetInSession
      <4>2. CASE session_task = "restart"  BY <2>3, <2>5, <4>2 DEF SendStart
      <4> QED  BY <1>1, <4>1, <4>2
    <3>3. qmi.up => qmi' = [qmi EXCEPT !.session = mFixCriteria]  BY <2>5 DEF SendStart
    <3> QED  BY <1>2, <2>2, <3>1, <3>2, <3>3 DEF QmiStates, SessionTypes
  <2> QED  BY <2>4, <2>5
<1>6. SessionTypes'
  BY <1>1, <1>2, <1>3, <1>4, <1>5
  DEF SessionInv, SessionTypes, QmiStates, engineVars, clientVars
<1>7. WantedComes'
  <2>1. WillNavigate
    BY <1>1, <1>2 DEF WillNavigate, SessionInv, SessionFits
  <2>2. Trusting' => Trusting /\ mNavigating'  BY <1>1, <1>5 DEF Trusting
  <2>3. Trusting' => WillNavigate'  BY <1>1, <2>2 DEF WillNavigate
  <2> QED  BY <1>1, <2>1, <2>2, <2>3 DEF SessionInv, WantedComes, clientVars
<1>8. ModeComes'
  BY <1>1, <1>2, <1>3, <1>4, <1>5
  DEF SessionInv, ModeComes, engineVars, clientVars
<1>9. ModeFirst'
  <2>1. mNavigating \/ session_task = "start"  BY <1>1 DEF SessionInv, SessionFits
  <2>2. happened["crash"] = 0 => mFixCriteria.mode = "ms_based"
    BY <2>1 DEF SessionInv, ModeFirst
  <2> QED  BY <1>1, <1>4, <1>5, <2>2 DEF SessionInv, ModeFirst
<1>10. Recovers'
  <2>1. ~HeadIs(session_queue, "LocEngUp")  BY <1>1, <1>2 DEF Recovers
  <2>2. Recovers  BY <1>2
  <2> QED  BY <1>1, <1>3, <1>5, <2>1, <2>2 DEF Recovers
<1>11. SessionFits'
  <2> SUFFICES ASSUME Trusting'
               PROVE  /\ mNavigating'
                      /\ qmi'.session \in {NoSession, mFixCriteria}
                      /\ qmi'.session = mFixCriteria \/ Has(session_queue, "LocEngUp")
    BY <1>1, <1>4 DEF SessionFits
  <2>1. mNavigating' /\ (qmi.up => qmi'.session = mFixCriteria)  BY <1>5 DEF Trusting
  <2>2. CASE qmi.up  BY <2>1, <2>2
  <2>3. CASE ~qmi.up
    <3>1. qmi'.session = NoSession /\ LastOf(session_queue, "LocEngUp", "LocSsr")
      BY <1>2, <1>3, <2>3 DEF Recovers
    <3> QED  BY <2>1, <3>1 DEF LastOf, Has
  <2> QED  BY <2>2, <2>3
<1>12. LastEnds'
  <2> SUFFICES ASSUME NEW m \in Reports(session_queue)
               PROVE  m.start <= starts + 1 /\ m.start # starts + 1
    BY <1>1 DEF LastEnds
  <2>1. m.start <= starts /\ starts \in Nat  BY <1>2 DEF SessionInv, LastEnds, SessionTypes
  <2>2. m.start \in Nat
    <3>1. PICK i \in DOMAIN session_queue : m = session_queue[i] /\ Kind(m) = "ReportPosition"
      BY DEF Reports
    <3>2. m \in SessionMessages  BY <1>2, <3>1 DEF SessionTypes
    <3> QED  BY <3>1, <3>2 DEF SessionMessages, Kind
  <2> QED  BY <2>1, <2>2
<1>13. OffComes'
  BY <1>1, <1>2, <1>3, <1>4, <1>5
  DEF SessionInv, OffComes, OffWaits, Recovers, SessionTypes, engineVars, clientVars
<1>14. MutedWhileOn'
  BY <1>1, <1>2, <1>3, <1>4, <1>5
  DEF SessionInv, MutedWhileOn, SessionTypes, engineVars, clientVars
<1>15. DataSeenTo'
  BY <1>1, <1>2, <1>3, <1>4, <1>5
  DEF SessionInv, DataSeenTo, Recovers, engineVars, clientVars
<1> QED
  BY <1>6, <1>7, <1>8, <1>9, <1>10, <1>11, <1>12, <1>13, <1>14, <1>15 DEF SessionInv

\* A stop is over.
LEMMA FinishKeeps ==
    ASSUME SessionInv, FinishStop
    PROVE  SessionInv'
<1>1. /\ session_task = "stop" /\ session_task' = "next" /\ session_queue' = session_queue
      /\ mNavigating' = FALSE /\ mFixCriteria' = [mFixCriteria EXCEPT !.mode = "invalid"]
      /\ UNCHANGED <<mInSession, mEngineOn, engineVars, clientVars, starts, happened, excuses>>
  BY DEF FinishStop, SetInSession, adapterVars, ghostVars
<1>2. SessionTypes  BY DEF SessionInv
<1>3. mFixCriteria' \in Criteria /\ mFixCriteria'.recurrence = mFixCriteria.recurrence
  BY <1>1, <1>2 DEF SessionTypes, Criteria
<1>4. /\ qmi' \in QmiStates /\ qmi'.up = qmi.up /\ qmi'.session = qmi.session
      /\ qmi'.engine = qmi.engine /\ qmi'.network = qmi.network
      /\ qmi'.registered => qmi.registered
      /\ mEngineOn => qmi' = qmi
  <2>1. qmi' \in {qmi, Registered(FALSE)} /\ (mEngineOn => qmi' = qmi)  BY DEF FinishStop
  <2>2. FALSE \in BOOLEAN /\ qmi \in QmiStates  BY <1>2 DEF SessionTypes, QmiStates
  <2> QED  BY <1>2, <2>1, <2>2, RegisteredQmi
<1>5. SessionTypes'
  BY <1>1, <1>2, <1>3, <1>4
  DEF SessionInv, SessionTypes, QmiStates, engineVars, clientVars
<1>6. WantedComes'
  BY <1>1, <1>2, <1>3, <1>4
  DEF SessionInv, WantedComes, WillNavigate, Trusting, engineVars, clientVars
<1>7. ModeComes'
  BY <1>1, <1>2, <1>3, <1>4
  DEF SessionInv, ModeComes, engineVars, clientVars
<1>8. ModeFirst'
  BY <1>1, <1>2, <1>3, <1>4
  DEF SessionInv, ModeFirst, engineVars, clientVars
<1>9. Recovers'
  BY <1>1, <1>2, <1>3, <1>4
  DEF SessionInv, Recovers, SessionTypes, engineVars, clientVars
<1>10. SessionFits'
  BY <1>1, <1>2, <1>3, <1>4
  DEF SessionInv, SessionFits, Recovers, SessionTypes, Trusting, engineVars, clientVars
<1>11. LastEnds'
  BY <1>1, <1>2, <1>3, <1>4
  DEF SessionInv, LastEnds, SessionTypes, Trusting, engineVars, clientVars
<1>12. OffComes'
  BY <1>1, <1>2, <1>3, <1>4
  DEF SessionInv, OffComes, OffWaits, Recovers, SessionTypes, engineVars, clientVars
<1>13. MutedWhileOn'
  BY <1>1, <1>2, <1>3, <1>4
  DEF SessionInv, MutedWhileOn, SessionTypes, engineVars, clientVars
<1>14. DataSeenTo'
  BY <1>1, <1>2, <1>3, <1>4
  DEF SessionInv, DataSeenTo, Recovers, engineVars, clientVars
<1> QED
  BY <1>5, <1>6, <1>7, <1>8, <1>9, <1>10, <1>11, <1>12, <1>13, <1>14 DEF SessionInv

\* The client starts a session.
LEMMA StartsKeeps ==
    ASSUME SessionInv, NEW r \in Recurrences, ClientStarts(r)
    PROVE  SessionInv'
<1> DEFINE a == Mode(r)
           b == [type |-> "StartFix"]
           ms == <<a, b>>
<1>1. /\ session_queue' = session_queue \o ms /\ Count("start")
      /\ UNCHANGED <<session_task, mNavigating, mFixCriteria, mInSession, mEngineOn, engineVars,
                     starts, excuses, qmi, asked>>
      /\ client' = [on |-> TRUE, recurrence |-> r]
  BY DEF ClientStarts, Post, Unmoved, adapterVars
<1>2. SessionTypes /\ session_queue \in Seq(SessionMessages)  BY DEF SessionInv, SessionTypes
<1>3. /\ ms \in Seq(SessionMessages) /\ Kind(a) = "PositionMode" /\ a.recurrence = r
      /\ Kind(b) = "StartFix"
  <2>1. a \in SessionMessages /\ b \in SessionMessages  BY DEF SessionMessages, Mode
  <2>2. Kind(a) = "PositionMode" /\ a.recurrence = r /\ Kind(b) = "StartFix"  BY DEF Kind, Mode
  <2> HIDE DEF a, b
  <2> QED  BY <2>1, <2>2
<1> HIDE DEF a, b
<1>4. /\ \A t : Has(ms, t) <=> t \in {"PositionMode", "StartFix"}
      /\ \A t : HeadIs(ms, t) <=> t = "PositionMode"
      /\ \A t, o : t = "StartFix" => LastOf(ms, t, o)
      /\ \A t, o : t # "StartFix" \/ o = "PositionMode" => Follows(ms, t, o)
      /\ Reports(ms) = {} /\ LastMode(ms, r)
  BY <1>3, TwoMessages
<1> HIDE DEF ms
<1>5. /\ happened' \in [Events \cup {"start"} -> Nat]
      /\ happened'["crash"] = happened["crash"] /\ happened'["refusal"] = happened["refusal"]
  <2>1. /\ "start" \in Events \cup {"start"} /\ "crash" \in Events \cup {"start"}
        /\ "refusal" \in Events \cup {"start"}
    BY DEF Events
  <2> QED  BY <1>1, <1>2, <2>1, Counts
<1>6. SessionTypes'
  BY <1>1, <1>2, <1>3, <1>4, <1>5, Posted
  DEF SessionInv, SessionTypes, QmiStates, engineVars, clientVars
<1>7. WantedComes'
  BY <1>1, <1>2, <1>3, <1>4, <1>5, Posted
  DEF SessionInv, WantedComes, WillNavigate, Trusting, engineVars, clientVars
<1>8. ModeComes'
  BY <1>1, <1>2, <1>3, <1>4, <1>5, Posted
  DEF SessionInv, ModeComes, engineVars, clientVars
<1>9. ModeFirst'
  BY <1>1, <1>2, <1>3, <1>4, <1>5, Posted
  DEF SessionInv, ModeFirst, engineVars, clientVars
<1>10. Recovers'
  BY <1>1, <1>2, <1>3, <1>4, <1>5, Posted
  DEF SessionInv, Recovers, SessionTypes, engineVars, clientVars
<1>11. SessionFits'
  BY <1>1, <1>2, <1>3, <1>4, <1>5, Posted
  DEF SessionInv, SessionFits, Recovers, SessionTypes, Trusting, engineVars, clientVars
<1>12. LastEnds'
  BY <1>1, <1>2, <1>3, <1>4, <1>5, Posted
  DEF SessionInv, LastEnds, SessionTypes, Trusting, engineVars, clientVars
<1>13. OffComes'
  BY <1>1, <1>2, <1>3, <1>4, <1>5, Posted
  DEF SessionInv, OffComes, OffWaits, Recovers, SessionTypes, engineVars, clientVars
<1>14. MutedWhileOn'
  BY <1>1, <1>2, <1>3, <1>4, <1>5, Posted
  DEF SessionInv, MutedWhileOn, SessionTypes, engineVars, clientVars
<1>15. DataSeenTo'
  BY <1>1, <1>2, <1>3, <1>4, <1>5, Posted
  DEF SessionInv, DataSeenTo, Recovers, engineVars, clientVars
<1> QED
  BY <1>6, <1>7, <1>8, <1>9, <1>10, <1>11, <1>12, <1>13, <1>14, <1>15 DEF SessionInv

\* The client sets a mode.
LEMMA SetsModeKeeps ==
    ASSUME SessionInv, NEW r \in Recurrences, ClientSetsMode(r)
    PROVE  SessionInv'
<1> DEFINE a == Mode(r)
           ms == <<a>>
<1>1. /\ session_queue' = session_queue \o ms
      /\ UNCHANGED <<session_task, mNavigating, mFixCriteria, mInSession, mEngineOn, engineVars,
                     starts, excuses, qmi, asked>>
      /\ Count("mode") /\ client.on /\ client' = [client EXCEPT !.recurrence = r]
  BY DEF ClientSetsMode, Post, Unmoved, adapterVars, clientVars
<1>2. SessionTypes /\ session_queue \in Seq(SessionMessages)  BY DEF SessionInv, SessionTypes
<1>3. ms \in Seq(SessionMessages) /\ Kind(a) = "PositionMode" /\ a.recurrence = r
  <2>1. a \in SessionMessages  BY DEF SessionMessages, Mode
  <2>2. Kind(a) = "PositionMode" /\ a.recurrence = r  BY DEF Kind, Mode
  <2> HIDE DEF a
  <2> QED  BY <2>1, <2>2
<1> HIDE DEF a
<1>4. /\ \A t : Has(ms, t) <=> t = "PositionMode"
      /\ \A t : HeadIs(ms, t) <=> t = "PositionMode"
      /\ \A t, o : LastOf(ms, t, o) <=> t = "PositionMode"
      /\ \A t, o : Follows(ms, t, o)
      /\ Reports(ms) = {}
      /\ LastMode(ms, r)
  BY <1>3, OneMessage
<1> HIDE DEF ms
<1>5. /\ happened' \in [Events \cup {"start"} -> Nat]
      /\ happened'["crash"] = happened["crash"] /\ happened'["refusal"] = happened["refusal"]
  <2>1. /\ "mode" \in Events \cup {"start"} /\ "crash" \in Events \cup {"start"}
        /\ "refusal" \in Events \cup {"start"}
    BY DEF Events
  <2> QED  BY <1>1, <1>2, <2>1, Counts
<1>6. client' \in [on: BOOLEAN, recurrence: Recurrences] /\ client'.on /\ client'.recurrence = r
  BY <1>1, <1>2 DEF SessionTypes
<1>7. SessionTypes'
  BY <1>1, <1>2, <1>3, <1>4, <1>5, Posted, <1>6
  DEF SessionInv, SessionTypes, QmiStates, engineVars, clientVars
<1>8. WantedComes'
  BY <1>1, <1>2, <1>3, <1>4, <1>5, Posted, <1>6
  DEF SessionInv, WantedComes, WillNavigate, Trusting, engineVars, clientVars
<1>9. ModeComes'
  BY <1>1, <1>2, <1>3, <1>4, <1>5, Posted, <1>6
  DEF SessionInv, ModeComes, engineVars, clientVars
<1>10. ModeFirst'
  BY <1>1, <1>2, <1>3, <1>4, <1>5, Posted, <1>6
  DEF SessionInv, ModeFirst, engineVars, clientVars
<1>11. Recovers'
  BY <1>1, <1>2, <1>3, <1>4, <1>5, Posted, <1>6
  DEF SessionInv, Recovers, SessionTypes, engineVars, clientVars
<1>12. SessionFits'
  BY <1>1, <1>2, <1>3, <1>4, <1>5, Posted, <1>6
  DEF SessionInv, SessionFits, Recovers, SessionTypes, Trusting, engineVars, clientVars
<1>13. LastEnds'
  BY <1>1, <1>2, <1>3, <1>4, <1>5, Posted, <1>6
  DEF SessionInv, LastEnds, SessionTypes, Trusting, engineVars, clientVars
<1>14. OffComes'
  BY <1>1, <1>2, <1>3, <1>4, <1>5, Posted, <1>6
  DEF SessionInv, OffComes, OffWaits, Recovers, SessionTypes, engineVars, clientVars
<1>15. MutedWhileOn'
  BY <1>1, <1>2, <1>3, <1>4, <1>5, Posted, <1>6
  DEF SessionInv, MutedWhileOn, SessionTypes, engineVars, clientVars
<1>16. DataSeenTo'
  BY <1>1, <1>2, <1>3, <1>4, <1>5, Posted, <1>6
  DEF SessionInv, DataSeenTo, Recovers, engineVars, clientVars
<1> QED
  BY <1>7, <1>8, <1>9, <1>10, <1>11, <1>12, <1>13, <1>14, <1>15, <1>16 DEF SessionInv

\* The client stops the session.
LEMMA StopsKeeps ==
    ASSUME SessionInv, ClientStops
    PROVE  SessionInv'
<1> DEFINE a == [type |-> "StopFix"]
           ms == <<a>>
<1>1. /\ session_queue' = session_queue \o ms
      /\ UNCHANGED <<session_task, mNavigating, mFixCriteria, mInSession, mEngineOn, engineVars,
                     starts, excuses, qmi, asked, happened>>
      /\ client' = [client EXCEPT !.on = FALSE]
  BY DEF ClientStops, Post, Unmoved, adapterVars, clientVars
<1>2. SessionTypes /\ session_queue \in Seq(SessionMessages)  BY DEF SessionInv, SessionTypes
<1>3. ms \in Seq(SessionMessages) /\ Kind(a) = "StopFix"
  <2>1. a \in SessionMessages  BY DEF SessionMessages
  <2>2. Kind(a) = "StopFix"  BY DEF Kind
  <2> HIDE DEF a
  <2> QED  BY <2>1, <2>2
<1> HIDE DEF a
<1>4. /\ \A t : Has(ms, t) <=> t = "StopFix"
      /\ \A t : HeadIs(ms, t) <=> t = "StopFix"
      /\ \A t, o : LastOf(ms, t, o) <=> t = "StopFix"
      /\ \A t, o : Follows(ms, t, o)
      /\ Reports(ms) = {}
  BY <1>3, OneMessage
<1> HIDE DEF ms
<1>5. client' \in [on: BOOLEAN, recurrence: Recurrences] /\ client'.on = FALSE
  BY <1>1, <1>2 DEF SessionTypes
<1>6. SessionTypes'
  BY <1>1, <1>2, <1>3, <1>4, <1>5, Posted
  DEF SessionInv, SessionTypes, QmiStates, engineVars, clientVars
<1>7. WantedComes'
  BY <1>1, <1>2, <1>3, <1>4, <1>5, Posted
  DEF SessionInv, WantedComes, WillNavigate, Trusting, engineVars, clientVars
<1>8. ModeComes'
  BY <1>1, <1>2, <1>3, <1>4, <1>5, Posted
  DEF SessionInv, ModeComes, engineVars, clientVars
<1>9. ModeFirst'
  BY <1>1, <1>2, <1>3, <1>4, <1>5, Posted
  DEF SessionInv, ModeFirst, engineVars, clientVars
<1>10. Recovers'
  BY <1>1, <1>2, <1>3, <1>4, <1>5, Posted
  DEF SessionInv, Recovers, SessionTypes, engineVars, clientVars
<1>11. SessionFits'
  BY <1>1, <1>2, <1>3, <1>4, <1>5, Posted
  DEF SessionInv, SessionFits, Recovers, SessionTypes, Trusting, engineVars, clientVars
<1>12. LastEnds'
  BY <1>1, <1>2, <1>3, <1>4, <1>5, Posted
  DEF SessionInv, LastEnds, SessionTypes, Trusting, engineVars, clientVars
<1>13. OffComes'
  BY <1>1, <1>2, <1>3, <1>4, <1>5, Posted
  DEF SessionInv, OffComes, OffWaits, Recovers, SessionTypes, engineVars, clientVars
<1>14. MutedWhileOn'
  BY <1>1, <1>2, <1>3, <1>4, <1>5, Posted
  DEF SessionInv, MutedWhileOn, SessionTypes, engineVars, clientVars
<1>15. DataSeenTo'
  BY <1>1, <1>2, <1>3, <1>4, <1>5, Posted
  DEF SessionInv, DataSeenTo, Recovers, engineVars, clientVars
<1> QED
  BY <1>6, <1>7, <1>8, <1>9, <1>10, <1>11, <1>12, <1>13, <1>14, <1>15 DEF SessionInv

\* The client has data deleted.
LEMMA DeletesKeeps ==
    ASSUME SessionInv, NEW d \in AidingData, ClientDeletes(d)
    PROVE  SessionInv'
<1> DEFINE a == [type |-> "DelAidData", data |-> d]
           ms == <<a>>
<1>1. /\ session_queue' = session_queue \o ms
      /\ UNCHANGED <<session_task, mNavigating, mFixCriteria, mInSession, mEngineOn, engineVars,
                     starts, excuses, qmi, client>>
      /\ Count("delete") /\ asked' = asked \cup {d}
  BY DEF ClientDeletes, Post, Unmoved, adapterVars, clientVars
<1>2. SessionTypes /\ session_queue \in Seq(SessionMessages)  BY DEF SessionInv, SessionTypes
<1>3. ms \in Seq(SessionMessages) /\ Kind(a) = "DelAidData" /\ a.data = d
  <2>1. a \in SessionMessages  BY DEF SessionMessages
  <2>2. Kind(a) = "DelAidData" /\ a.data = d  BY DEF Kind
  <2> HIDE DEF a
  <2> QED  BY <2>1, <2>2
<1> HIDE DEF a
<1>4. /\ \A t : Has(ms, t) <=> t = "DelAidData"
      /\ \A t : HeadIs(ms, t) <=> t = "DelAidData"
      /\ \A t, o : LastOf(ms, t, o) <=> t = "DelAidData"
      /\ \A t, o : Follows(ms, t, o)
      /\ Reports(ms) = {}
      /\ DelWaits(ms, d)
  BY <1>3, OneMessage
<1> HIDE DEF ms
<1>5. /\ happened' \in [Events \cup {"start"} -> Nat]
      /\ happened'["crash"] = happened["crash"] /\ happened'["refusal"] = happened["refusal"]
  <2>1. /\ "delete" \in Events \cup {"start"} /\ "crash" \in Events \cup {"start"}
        /\ "refusal" \in Events \cup {"start"}
    BY DEF Events
  <2> QED  BY <1>1, <1>2, <2>1, Counts
<1>6. SessionTypes'
  BY <1>1, <1>2, <1>3, <1>4, <1>5, Posted
  DEF SessionInv, SessionTypes, QmiStates, engineVars, clientVars
<1>7. WantedComes'
  BY <1>1, <1>2, <1>3, <1>4, <1>5, Posted
  DEF SessionInv, WantedComes, WillNavigate, Trusting, engineVars, clientVars
<1>8. ModeComes'
  BY <1>1, <1>2, <1>3, <1>4, <1>5, Posted
  DEF SessionInv, ModeComes, engineVars, clientVars
<1>9. ModeFirst'
  BY <1>1, <1>2, <1>3, <1>4, <1>5, Posted
  DEF SessionInv, ModeFirst, engineVars, clientVars
<1>10. Recovers'
  BY <1>1, <1>2, <1>3, <1>4, <1>5, Posted
  DEF SessionInv, Recovers, SessionTypes, engineVars, clientVars
<1>11. SessionFits'
  BY <1>1, <1>2, <1>3, <1>4, <1>5, Posted
  DEF SessionInv, SessionFits, Recovers, SessionTypes, Trusting, engineVars, clientVars
<1>12. LastEnds'
  BY <1>1, <1>2, <1>3, <1>4, <1>5, Posted
  DEF SessionInv, LastEnds, SessionTypes, Trusting, engineVars, clientVars
<1>13. OffComes'
  BY <1>1, <1>2, <1>3, <1>4, <1>5, Posted
  DEF SessionInv, OffComes, OffWaits, Recovers, SessionTypes, engineVars, clientVars
<1>14. MutedWhileOn'
  BY <1>1, <1>2, <1>3, <1>4, <1>5, Posted
  DEF SessionInv, MutedWhileOn, SessionTypes, engineVars, clientVars
<1>15. DataSeenTo'
  <2>1. /\ aiding_data_for_deletion' = aiding_data_for_deletion /\ deleted' = deleted
        /\ engine_status' = engine_status /\ asked' = asked \cup {d} /\ excuses' = excuses
    BY <1>1 DEF engineVars
  <2>2. /\ \A e : DelWaits(session_queue, e) => DelWaits(session_queue', e)
        /\ DelWaits(session_queue', d)
    BY <1>1, <1>2, <1>3, <1>4, Posted
  <2> QED  BY <1>5, <2>1, <2>2 DEF SessionInv, DataSeenTo
<1> QED
  BY <1>6, <1>7, <1>8, <1>9, <1>10, <1>11, <1>12, <1>13, <1>14, <1>15 DEF SessionInv

\* The network begins a session.
LEMMA NetworkBeginsKeeps ==
    ASSUME SessionInv, NetworkBegins
    PROVE  SessionInv'
<1> DEFINE a == [type |-> "RequestNi"]
           ms == <<a>>
<1>1. /\ session_queue' = session_queue \o ms
      /\ UNCHANGED <<session_task, mNavigating, mFixCriteria, mInSession, mEngineOn, engineVars,
                     starts, excuses, clientVars>>
      /\ Count("network") /\ qmi.up /\ qmi' = [qmi EXCEPT !.network = TRUE]
  BY DEF NetworkBegins, Post, Unmoved, adapterVars, clientVars
<1>2. SessionTypes /\ session_queue \in Seq(SessionMessages)  BY DEF SessionInv, SessionTypes
<1>3. ms \in Seq(SessionMessages) /\ Kind(a) = "RequestNi"
  <2>1. a \in SessionMessages  BY DEF SessionMessages
  <2>2. Kind(a) = "RequestNi"  BY DEF Kind
  <2> HIDE DEF a
  <2> QED  BY <2>1, <2>2
<1> HIDE DEF a
<1>4. /\ \A t : Has(ms, t) <=> t = "RequestNi"
      /\ \A t : HeadIs(ms, t) <=> t = "RequestNi"
      /\ \A t, o : LastOf(ms, t, o) <=> t = "RequestNi"
      /\ \A t, o : Follows(ms, t, o)
      /\ Reports(ms) = {}
  BY <1>3, OneMessage
<1> HIDE DEF ms
<1>5. /\ happened' \in [Events \cup {"start"} -> Nat]
      /\ happened'["crash"] = happened["crash"] /\ happened'["refusal"] = happened["refusal"]
  <2>1. /\ "network" \in Events \cup {"start"} /\ "crash" \in Events \cup {"start"}
        /\ "refusal" \in Events \cup {"start"}
    BY DEF Events
  <2> QED  BY <1>1, <1>2, <2>1, Counts
<1>6. /\ qmi' \in QmiStates /\ qmi'.up = qmi.up /\ qmi'.session = qmi.session
      /\ qmi'.engine = qmi.engine /\ qmi'.registered = qmi.registered
  BY <1>1, <1>2 DEF SessionTypes, QmiStates
<1>7. SessionTypes'
  BY <1>1, <1>2, <1>3, <1>4, <1>5, Posted, <1>6
  DEF SessionInv, SessionTypes, QmiStates, engineVars, clientVars
<1>8. WantedComes'
  BY <1>1, <1>2, <1>3, <1>4, <1>5, Posted, <1>6
  DEF SessionInv, WantedComes, WillNavigate, Trusting, engineVars, clientVars
<1>9. ModeComes'
  BY <1>1, <1>2, <1>3, <1>4, <1>5, Posted, <1>6
  DEF SessionInv, ModeComes, engineVars, clientVars
<1>10. ModeFirst'
  BY <1>1, <1>2, <1>3, <1>4, <1>5, Posted, <1>6
  DEF SessionInv, ModeFirst, engineVars, clientVars
<1>11. Recovers'
  BY <1>1, <1>2, <1>3, <1>4, <1>5, Posted, <1>6
  DEF SessionInv, Recovers, SessionTypes, engineVars, clientVars
<1>12. SessionFits'
  BY <1>1, <1>2, <1>3, <1>4, <1>5, Posted, <1>6
  DEF SessionInv, SessionFits, Recovers, SessionTypes, Trusting, engineVars, clientVars
<1>13. LastEnds'
  BY <1>1, <1>2, <1>3, <1>4, <1>5, Posted, <1>6
  DEF SessionInv, LastEnds, SessionTypes, Trusting, engineVars, clientVars
<1>14. OffComes'
  BY <1>1, <1>2, <1>3, <1>4, <1>5, Posted, <1>6
  DEF SessionInv, OffComes, OffWaits, Recovers, SessionTypes, engineVars, clientVars
<1>15. MutedWhileOn'
  BY <1>1, <1>2, <1>3, <1>4, <1>5, Posted, <1>6
  DEF SessionInv, MutedWhileOn, SessionTypes, engineVars, clientVars
<1>16. DataSeenTo'
  BY <1>1, <1>2, <1>3, <1>4, <1>5, Posted, <1>6
  DEF SessionInv, DataSeenTo, Recovers, engineVars, clientVars
<1> QED
  BY <1>7, <1>8, <1>9, <1>10, <1>11, <1>12, <1>13, <1>14, <1>15, <1>16 DEF SessionInv

\* The network ends it.
LEMMA NetworkEndsKeeps ==
    ASSUME SessionInv, NetworkEnds
    PROVE  SessionInv'
<1>1. /\ session_queue' = session_queue /\ qmi.network /\ qmi' = [qmi EXCEPT !.network = FALSE]
      /\ UNCHANGED <<session_task, mNavigating, mFixCriteria, mInSession, mEngineOn, engineVars,
                     starts, excuses, clientVars, happened>>
  BY DEF NetworkEnds, Unmoved, adapterVars
<1>2. SessionTypes  BY DEF SessionInv
<1>3. /\ qmi' \in QmiStates /\ qmi'.up = qmi.up /\ qmi'.session = qmi.session
      /\ qmi'.engine = qmi.engine /\ qmi'.registered = qmi.registered
  BY <1>1, <1>2 DEF SessionTypes, QmiStates
<1>4. SessionTypes'
  BY <1>1, <1>2, <1>3
  DEF SessionInv, SessionTypes, QmiStates, engineVars, clientVars
<1>5. WantedComes'
  BY <1>1, <1>2, <1>3
  DEF SessionInv, WantedComes, WillNavigate, Trusting, engineVars, clientVars
<1>6. ModeComes'
  BY <1>1, <1>2, <1>3
  DEF SessionInv, ModeComes, engineVars, clientVars
<1>7. ModeFirst'
  BY <1>1, <1>2, <1>3
  DEF SessionInv, ModeFirst, engineVars, clientVars
<1>8. Recovers'
  BY <1>1, <1>2, <1>3
  DEF SessionInv, Recovers, SessionTypes, engineVars, clientVars
<1>9. SessionFits'
  BY <1>1, <1>2, <1>3
  DEF SessionInv, SessionFits, Recovers, SessionTypes, Trusting, engineVars, clientVars
<1>10. LastEnds'
  BY <1>1, <1>2, <1>3
  DEF SessionInv, LastEnds, SessionTypes, Trusting, engineVars, clientVars
<1>11. OffComes'
  BY <1>1, <1>2, <1>3
  DEF SessionInv, OffComes, OffWaits, Recovers, SessionTypes, engineVars, clientVars
<1>12. MutedWhileOn'
  BY <1>1, <1>2, <1>3
  DEF SessionInv, MutedWhileOn, SessionTypes, engineVars, clientVars
<1>13. DataSeenTo'
  BY <1>1, <1>2, <1>3
  DEF SessionInv, DataSeenTo, Recovers, engineVars, clientVars
<1> QED
  BY <1>4, <1>5, <1>6, <1>7, <1>8, <1>9, <1>10, <1>11, <1>12, <1>13 DEF SessionInv

\* The modem crashes.
LEMMA CrashKeeps ==
    ASSUME SessionInv, ModemCrashes
    PROVE  SessionInv'
<1> DEFINE a == [type |-> "LocEngDown"]
           b == [type |-> "LocSsr"]
           c == [type |-> "LocEngUp"]
           ms == <<a, b, c>>
<1>1. /\ session_queue' = session_queue \o ms /\ Count("crash") /\ qmi.up
      /\ UNCHANGED <<session_task, mNavigating, mFixCriteria, mInSession, mEngineOn, engineVars,
                     starts, excuses, clientVars>>
      /\ qmi' = [up |-> FALSE, registered |-> FALSE, engine |-> FALSE, network |-> FALSE,
                 session |-> NoSession]
  BY DEF ModemCrashes, Post, Unmoved, adapterVars
<1>2. SessionTypes /\ session_queue \in Seq(SessionMessages)  BY DEF SessionInv, SessionTypes
<1>3. /\ ms \in Seq(SessionMessages)
      /\ Kind(a) = "LocEngDown" /\ Kind(b) = "LocSsr" /\ Kind(c) = "LocEngUp"
  <2>1. a \in SessionMessages /\ b \in SessionMessages /\ c \in SessionMessages
    BY DEF SessionMessages
  <2>2. Kind(a) = "LocEngDown" /\ Kind(b) = "LocSsr" /\ Kind(c) = "LocEngUp"  BY DEF Kind
  <2> HIDE DEF a, b, c
  <2> QED  BY <2>1, <2>2
<1> HIDE DEF a, b, c
<1>4. /\ \A t : Has(ms, t) <=> t \in {"LocEngDown", "LocSsr", "LocEngUp"}
      /\ \A t : HeadIs(ms, t) <=> t = "LocEngDown"
      /\ LastOf(ms, "LocEngUp", "LocSsr") /\ Once(ms, "LocSsr") /\ Reports(ms) = {}
      /\ Follows(ms, "LocEngUp", "LocSsr") /\ Follows(ms, "StartFix", "PositionMode")
      /\ Follows(ms, "SESSION_BEGIN", "ENGINE_ON")
  BY <1>3, ThreeMessages
<1> HIDE DEF ms
<1>5. /\ happened' \in [Events \cup {"start"} -> Nat]
      /\ happened'["crash"] # 0 /\ happened'["refusal"] = happened["refusal"]
  <2>1. /\ "refusal" \in Events \cup {"start"} /\ "crash" \in Events \cup {"start"}
        /\ "refusal" # "crash"
    BY DEF Events
  <2> QED  BY <1>1, <1>2, <2>1, Counts
<1>6. /\ qmi' \in QmiStates /\ ~qmi'.up /\ qmi'.session = NoSession
      /\ ~qmi'.engine /\ ~qmi'.registered
  BY <1>1 DEF QmiStates
<1>7. SessionTypes'
  BY <1>1, <1>2, <1>3, <1>4, <1>5, Posted, <1>6
  DEF SessionInv, SessionTypes, QmiStates, engineVars, clientVars
<1>8. WantedComes'
  BY <1>1, <1>2, <1>3, <1>4, <1>5, Posted, <1>6
  DEF SessionInv, WantedComes, WillNavigate, Trusting, engineVars, clientVars
<1>9. ModeComes'
  <2>1. client' = client /\ mFixCriteria' = mFixCriteria  BY <1>1 DEF clientVars
  <2>2. ~Has(ms, "PositionMode")  BY <1>3, <1>4
  <2>3. \A r : LastMode(session_queue, r) => LastMode(session_queue', r)
    BY <1>1, <1>2, <1>3, <2>2, Posted
  <2>4. Has(session_queue', "PositionMode") <=> Has(session_queue, "PositionMode")
    BY <1>1, <1>2, <1>3, <2>2, Posted
  <2> QED  BY <2>1, <2>3, <2>4 DEF SessionInv, ModeComes
<1>10. ModeFirst'
  BY <1>1, <1>2, <1>3, <1>4, <1>5, Posted, <1>6
  DEF SessionInv, ModeFirst, engineVars, clientVars
<1>11. Recovers'
  BY <1>1, <1>2, <1>3, <1>4, <1>5, Posted, <1>6
  DEF SessionInv, Recovers, SessionTypes, engineVars, clientVars
<1>12. SessionFits'
  BY <1>1, <1>2, <1>3, <1>4, <1>5, Posted, <1>6
  DEF SessionInv, SessionFits, Recovers, SessionTypes, Trusting, engineVars, clientVars
<1>13. LastEnds'
  BY <1>1, <1>2, <1>3, <1>4, <1>5, Posted, <1>6
  DEF SessionInv, LastEnds, SessionTypes, Trusting, engineVars, clientVars
<1>14. OffComes'
  BY <1>1, <1>2, <1>3, <1>4, <1>5, Posted, <1>6
  DEF SessionInv, OffComes, OffWaits, Recovers, SessionTypes, engineVars, clientVars
<1>15. MutedWhileOn'
  BY <1>1, <1>2, <1>3, <1>4, <1>5, Posted, <1>6
  DEF SessionInv, MutedWhileOn, SessionTypes, engineVars, clientVars
<1>16. DataSeenTo'
  BY <1>1, <1>2, <1>3, <1>4, <1>5, Posted, <1>6
  DEF SessionInv, DataSeenTo, Recovers, engineVars, clientVars
<1> QED
  BY <1>7, <1>8, <1>9, <1>10, <1>11, <1>12, <1>13, <1>14, <1>15, <1>16 DEF SessionInv

\* The engine turns on or off.
LEMMA EngineTurnsKeeps ==
    ASSUME SessionInv, NEW on \in BOOLEAN, EngineTurns(on)
    PROVE  SessionInv'
<1> DEFINE a == [type |-> "UpdateEngineState", on |-> on]
           ms == IF qmi.registered THEN <<a>> ELSE << >>
<1>1. /\ session_queue' = session_queue \o ms
      /\ UNCHANGED <<session_task, mNavigating, mFixCriteria, mInSession, mEngineOn, engineVars,
                     starts, excuses, clientVars, happened>>
      /\ qmi.up /\ qmi' = [qmi EXCEPT !.engine = on]
  BY DEF EngineTurns, Event, Post, Unmoved, adapterVars
<1>2. SessionTypes /\ session_queue \in Seq(SessionMessages)  BY DEF SessionInv, SessionTypes
<1>3. a \in SessionMessages /\ Kind(a) = IF on THEN "turned on" ELSE "turned off"
  BY <1>2 DEF SessionMessages, Kind, SessionTypes
<1> HIDE DEF a
<1>4. /\ ms \in Seq(SessionMessages)
      /\ \A t : Has(ms, t) <=> t = Kind(a) /\ qmi.registered
      /\ \A t : HeadIs(ms, t) => t = Kind(a)
      /\ \A t, o : Follows(ms, t, o)
      /\ Reports(ms) = {}
  <2>1. CASE qmi.registered
    <3>1. ms = <<a>>  BY <2>1
    <3>2. a \in SessionMessages  BY <1>3
    <3>3. <<a>> \in Seq(SessionMessages)  BY <3>2
    <3> HIDE DEF ms
    <3> QED  BY <1>3, <2>1, <3>1, <3>3, OneMessage
  <2>2. CASE ~qmi.registered
    <3>1. ms = << >> /\ << >> \in Seq(SessionMessages)  BY <2>2
    <3> HIDE DEF ms
    <3> QED  BY <2>2, <3>1 DEF Has, HeadIs, Follows, Reports
  <2> QED  BY <2>1, <2>2
<1> HIDE DEF ms
<1>5. /\ qmi' \in QmiStates /\ qmi'.up = qmi.up /\ qmi'.session = qmi.session
      /\ qmi'.engine = on /\ qmi'.registered = qmi.registered
  BY <1>1, <1>2 DEF SessionTypes, QmiStates
<1>6. SessionTypes'
  BY <1>1, <1>2, <1>3, <1>4, <1>5, Posted
  DEF SessionInv, SessionTypes, QmiStates, engineVars, clientVars
<1>7. WantedComes'
  <2>1. /\ client' = client /\ mNavigating' = mNavigating /\ session_task' = session_task
        /\ excuses' = excuses /\ happened' = happened
    BY <1>1 DEF clientVars
  <2>2. Kind(a) # "StartFix" /\ Kind(a) # "StopFix"  BY <1>3
  <2>3. /\ Has(ms, "StartFix") => Kind(a) = "StartFix"
        /\ Has(ms, "StopFix") => Kind(a) = "StopFix"
    BY <1>4
  <2>4. ~Has(ms, "StartFix") /\ ~Has(ms, "StopFix")  BY <2>2, <2>3
  <2>5. /\ Has(session_queue', "StartFix") <=> Has(session_queue, "StartFix")
        /\ Has(session_queue', "StopFix") <=> Has(session_queue, "StopFix")
    BY <1>1, <1>2, <1>4, <2>4, Posted
  <2>6. /\ LastOf(session_queue, "StartFix", "StopFix")
           => LastOf(session_queue', "StartFix", "StopFix")
        /\ LastOf(session_queue, "StopFix", "StartFix")
           => LastOf(session_queue', "StopFix", "StartFix")
    BY <1>1, <1>2, <1>4, <2>4, Posted
  <2> QED  BY <2>1, <2>5, <2>6 DEF SessionInv, WantedComes, WillNavigate, Trusting
<1>8. ModeComes'
  <2>1. client' = client /\ mFixCriteria' = mFixCriteria  BY <1>1 DEF clientVars
  <2>2. Kind(a) # "PositionMode"  BY <1>3
  <2>3. Has(ms, "PositionMode") => Kind(a) = "PositionMode"
    BY <1>4
  <2>4. ~Has(ms, "PositionMode")  BY <2>2, <2>3
  <2>5. \A r : LastMode(session_queue, r) => LastMode(session_queue', r)
    BY <1>1, <1>2, <1>4, <2>4, Posted
  <2>6. Has(session_queue', "PositionMode") <=> Has(session_queue, "PositionMode")
    BY <1>1, <1>2, <1>4, <2>4, Posted
  <2> QED  BY <2>1, <2>5, <2>6 DEF SessionInv, ModeComes
<1>9. ModeFirst'
  BY <1>1, <1>2, <1>3, <1>4, <1>5, Posted
  DEF SessionInv, ModeFirst, engineVars, clientVars
<1>10. Recovers'
  BY <1>1, <1>2, <1>3, <1>4, <1>5, Posted
  DEF SessionInv, Recovers, SessionTypes, engineVars, clientVars
<1>11. SessionFits'
  BY <1>1, <1>2, <1>3, <1>4, <1>5, Posted
  DEF SessionInv, SessionFits, Recovers, SessionTypes, Trusting, engineVars, clientVars
<1>12. LastEnds'
  BY <1>1, <1>2, <1>3, <1>4, <1>5, Posted
  DEF SessionInv, LastEnds, SessionTypes, Trusting, engineVars, clientVars
<1>13. OffComes'
  BY <1>1, <1>2, <1>3, <1>4, <1>5, Posted
  DEF SessionInv, OffComes, OffWaits, Recovers, SessionTypes, engineVars, clientVars
<1>14. MutedWhileOn'
  BY <1>1, <1>2, <1>3, <1>4, <1>5, Posted
  DEF SessionInv, MutedWhileOn, SessionTypes, engineVars, clientVars
<1>15. DataSeenTo'
  BY <1>1, <1>2, <1>3, <1>4, <1>5, Posted
  DEF SessionInv, DataSeenTo, Recovers, engineVars, clientVars
<1> QED
  BY <1>6, <1>7, <1>8, <1>9, <1>10, <1>11, <1>12, <1>13, <1>14, <1>15 DEF SessionInv

\* The modem finds a position.
LEMMA FindsKeeps ==
    ASSUME SessionInv, NEW final \in BOOLEAN, ModemFindsPosition(final)
    PROVE  SessionInv'
<1> DEFINE a == [type |-> "ReportPosition", final |-> final, start |-> starts]
           ms == IF qmi.registered THEN <<a>> ELSE << >>
<1>1. /\ session_queue' = session_queue \o ms
      /\ UNCHANGED <<session_task, mNavigating, mFixCriteria, mInSession, mEngineOn, engineVars,
                     starts, excuses, clientVars, happened>>
      /\ qmi.engine /\ qmi.session # NoSession
      /\ qmi' = IF final /\ qmi.session.recurrence = "single"
                THEN [qmi EXCEPT !.session = NoSession] ELSE qmi
  BY DEF ModemFindsPosition, Event, Post, Unmoved, adapterVars
<1>2. SessionTypes /\ session_queue \in Seq(SessionMessages)  BY DEF SessionInv, SessionTypes
<1>3. a \in SessionMessages /\ Kind(a) = "ReportPosition" /\ a.final = final /\ a.start = starts
  BY <1>2 DEF SessionMessages, Kind, SessionTypes
<1> HIDE DEF a
<1>4. /\ ms \in Seq(SessionMessages)
      /\ \A t : Has(ms, t) => t = "ReportPosition"
      /\ \A t : HeadIs(ms, t) => t = "ReportPosition"
      /\ \A t, o : Follows(ms, t, o)
      /\ Reports(ms) \subseteq {a}
  <2>1. CASE qmi.registered
    <3>1. ms = <<a>>  BY <2>1
    <3>2. a \in SessionMessages  BY <1>3
    <3>3. <<a>> \in Seq(SessionMessages)  BY <3>2
    <3> HIDE DEF ms
    <3> QED  BY <1>3, <2>1, <3>1, <3>3, OneMessage
  <2>2. CASE ~qmi.registered
    <3>1. ms = << >> /\ << >> \in Seq(SessionMessages)  BY <2>2
    <3> HIDE DEF ms
    <3> QED  BY <2>2, <3>1 DEF Has, HeadIs, Follows, Reports
  <2> QED  BY <2>1, <2>2
<1> HIDE DEF ms
<1>5. /\ qmi' \in QmiStates /\ qmi'.up = qmi.up /\ qmi'.session \in {qmi.session, NoSession}
      /\ qmi'.engine = qmi.engine /\ qmi'.registered = qmi.registered
      /\ final /\ qmi.session.recurrence = "single" => qmi'.session = NoSession
      /\ qmi.session.recurrence # "single" => qmi'.session = qmi.session
  BY <1>1, <1>2 DEF SessionTypes, QmiStates
<1>6. SessionTypes'
  BY <1>1, <1>2, <1>3, <1>4, <1>5, Posted
  DEF SessionInv, SessionTypes, QmiStates, engineVars, clientVars
<1>7. WantedComes'
  BY <1>1, <1>2, <1>3, <1>4, <1>5, Posted
  DEF SessionInv, WantedComes, WillNavigate, Trusting, engineVars, clientVars
<1>8. ModeComes'
  BY <1>1, <1>2, <1>3, <1>4, <1>5, Posted
  DEF SessionInv, ModeComes, engineVars, clientVars
<1>9. ModeFirst'
  BY <1>1, <1>2, <1>3, <1>4, <1>5, Posted
  DEF SessionInv, ModeFirst, engineVars, clientVars
<1>10. Recovers'
  BY <1>1, <1>2, <1>3, <1>4, <1>5, Posted
  DEF SessionInv, Recovers, SessionTypes, engineVars, clientVars
<1>11. SessionFits'
  BY <1>1, <1>2, <1>3, <1>4, <1>5, Posted
  DEF SessionInv, SessionFits, Recovers, SessionTypes, Trusting, engineVars, clientVars
<1>12. LastEnds'
  <2> SUFFICES ASSUME NEW m \in Reports(session_queue) \cup {a}
               PROVE  /\ m.start <= starts
                      /\ /\ Trusting /\ m.final /\ m.start = starts
                         /\ session_task = "next" /\ mNavigating
                         /\ mFixCriteria.recurrence = "single"
                         => qmi'.session = NoSession
    <3>1. Reports(session_queue') \subseteq Reports(session_queue) \cup {a}
      BY <1>1, <1>2, <1>4, Posted
    <3> QED  BY <1>1, <3>1 DEF LastEnds, Trusting
  <2>1. CASE m \in Reports(session_queue)
    <3>1. /\ m.start <= starts
          /\ /\ Trusting /\ m.final /\ m.start = starts
             /\ session_task = "next" /\ mNavigating /\ mFixCriteria.recurrence = "single"
             => qmi.session = NoSession
      BY <2>1 DEF SessionInv, LastEnds
    <3> QED  BY <1>5, <3>1
  <2>2. CASE m = a
    <3>1. a.start = starts /\ starts \in Nat  BY <1>2, <1>3 DEF SessionTypes
    <3>2. m.start <= starts  BY <2>2, <3>1
    <3>3. /\ Trusting /\ session_task = "next" /\ mNavigating
          => qmi.session \in {NoSession, mFixCriteria}
      BY DEF SessionInv, SessionFits
    <3>4. a.final => final  BY <1>3
    <3> QED  BY <1>1, <1>5, <2>2, <3>2, <3>3, <3>4
  <2> QED  BY <2>1, <2>2
<1>13. OffComes'
  BY <1>1, <1>2, <1>3, <1>4, <1>5, Posted
  DEF SessionInv, OffComes, OffWaits, Recovers, SessionTypes, engineVars, clientVars
<1>14. MutedWhileOn'
  BY <1>1, <1>2, <1>3, <1>4, <1>5, Posted
  DEF SessionInv, MutedWhileOn, SessionTypes, engineVars, clientVars
<1>15. DataSeenTo'
  BY <1>1, <1>2, <1>3, <1>4, <1>5, Posted
  DEF SessionInv, DataSeenTo, Recovers, engineVars, clientVars
<1> QED
  BY <1>6, <1>7, <1>8, <1>9, <1>10, <1>11, <1>12, <1>13, <1>14, <1>15 DEF SessionInv

-----------------------------------------------------------------------------
(* The invariant, and what a session promises.                             *)

\* Nothing waits at the start, and there is no session.
LEMMA SessionStarts ==
    SessionInit => SessionInv
<1> SUFFICES ASSUME SessionInit PROVE SessionInv
  OBVIOUS
<1>1. session_queue = << >> /\ session_queue \in Seq(SessionMessages)  BY DEF SessionInit
<1>2. DOMAIN session_queue = {}  BY <1>1
<1>3. /\ \A t : ~Has(session_queue, t) /\ ~HeadIs(session_queue, t) /\ Once(session_queue, t)
      /\ \A t, o : Follows(session_queue, t, o)
      /\ Reports(session_queue) = {}
  BY <1>1, <1>2 DEF Has, HeadIs, Once, Follows, Reports
<1>4. \A k \in Events \cup {"start"} : happened[k] = 0  BY DEF SessionInit
<1>5. SessionTypes  BY <1>1, <1>4 DEF SessionInit, SessionTypes, Criteria, Recurrences
<1>6. WantedComes  BY <1>3 DEF SessionInit, WantedComes, WillNavigate
<1>7. ModeComes  BY DEF SessionInit, ModeComes
<1>8. ModeFirst  BY <1>3 DEF SessionInit, ModeFirst
<1>9. Recovers  BY <1>3 DEF SessionInit, Recovers
<1>10. SessionFits  BY DEF SessionInit, SessionFits
<1>11. LastEnds  BY <1>3 DEF LastEnds
<1>12. OffComes  BY <1>3 DEF SessionInit, OffComes
<1>13. MutedWhileOn  BY <1>3 DEF SessionInit, MutedWhileOn
<1>14. DataSeenTo  BY DEF SessionInit, DataSeenTo
<1> QED
  BY <1>5, <1>6, <1>7, <1>8, <1>9, <1>10, <1>11, <1>12, <1>13, <1>14 DEF SessionInv

\* The task keeps the invariant.
LEMMA TaskKeeps ==
    ASSUME SessionInv, SessionTask
    PROVE  SessionInv'
<1>1. CASE loc_eng_start_handler  BY <1>1, StartKeeps
<1>2. CASE loc_eng_stop_handler  BY <1>2, StopKeeps
<1>3. CASE setPositionMode  BY <1>3, ModeKeeps
<1>4. CASE SendStart  BY <1>4, SendKeeps
<1>5. CASE FinishStop  BY <1>5, FinishKeeps
<1>6. CASE LocEngDelAidData  BY <1>6, DeleteKeeps
<1>7. CASE UpdateEngineState  BY <1>7, EngineKeeps
<1>8. CASE LocEngReportStatus  BY <1>8, StatusKeeps
<1>9. CASE LocEngReportPosition  BY <1>9, PositionKeeps
<1>10. CASE loc_eng_mute_one_session  BY <1>10, MuteKeeps
<1>11. CASE loc_eng_handle_engine_down  BY <1>11, DownKeeps
<1>12. CASE LocSsrMsg  BY <1>12, SsrKeeps
<1>13. CASE loc_eng_handle_engine_up
  <2>1. CASE mNavigating  BY <1>13, <2>1, UpAgainKeeps
  <2>2. CASE ~mNavigating  BY <1>13, <2>2, UpKeeps
  <2> QED  BY <2>1, <2>2
<1> QED
  BY <1>1, <1>2, <1>3, <1>4, <1>5, <1>6, <1>7, <1>8, <1>9, <1>10, <1>11, <1>12, <1>13
  DEF SessionTask

\* So does everybody.
LEMMA SessionKeeps ==
    SessionInv /\ [SessionNext]_sessionVars => SessionInv'
<1> SUFFICES ASSUME SessionInv, [SessionNext]_sessionVars PROVE SessionInv'
  OBVIOUS
<1>1. CASE SessionTask  BY <1>1, TaskKeeps
<1>2. ASSUME NEW r \in Recurrences, ClientStarts(r) PROVE SessionInv'
  BY <1>2, StartsKeeps
<1>3. ASSUME NEW r \in Recurrences, ClientSetsMode(r) PROVE SessionInv'
  BY <1>3, SetsModeKeeps
<1>4. CASE ClientStops  BY <1>4, StopsKeeps
<1>5. ASSUME NEW d \in AidingData, ClientDeletes(d) PROVE SessionInv'
  BY <1>5, DeletesKeeps
<1>6. ASSUME NEW on \in BOOLEAN, EngineTurns(on) PROVE SessionInv'
  BY <1>6, EngineTurnsKeeps
<1>7. ASSUME NEW final \in BOOLEAN, ModemFindsPosition(final) PROVE SessionInv'
  BY <1>7, FindsKeeps
<1>8. CASE NetworkBegins  BY <1>8, NetworkBeginsKeeps
<1>9. CASE NetworkEnds  BY <1>9, NetworkEndsKeeps
<1>10. CASE ModemCrashes  BY <1>10, CrashKeeps
<1>11. CASE UNCHANGED sessionVars
  <2>1. /\ UNCHANGED <<session_queue, session_task, mNavigating, mFixCriteria, mInSession,
                       mEngineOn, engine_status, aiding_data_for_deletion,
                       mute_session_state, deleted>>
        /\ UNCHANGED <<qmi, client, asked, starts, happened, excuses>>
    BY <1>11 DEF sessionVars, adapterVars, engineVars, clientVars, ghostVars
  <2>2. UNCHANGED <<SessionTypes, WantedComes, ModeComes, ModeFirst, Recovers, SessionFits,
                    LastEnds, OffComes, MutedWhileOn, DataSeenTo>>
    BY <2>1 DEF SessionTypes, WantedComes, WillNavigate, Trusting, ModeComes, ModeFirst,
                Recovers, SessionFits, LastEnds, OffComes, OffWaits, MutedWhileOn, DataSeenTo
  <2> QED  BY <2>2 DEF SessionInv
<1>12. CASE SessionNext
  BY <1>1, <1>2, <1>3, <1>4, <1>5, <1>6, <1>7, <1>8, <1>9, <1>10, <1>12 DEF SessionNext
<1> QED  BY <1>11, <1>12

\* What waits in the queue, the task, the adapter's records and the modem's session agree
\* at every moment with what the client wants.
THEOREM SessionInvariant == SessionSpec => []SessionInv
BY SessionStarts, SessionKeeps, PTL DEF SessionSpec

\* When every message has been handled the modem does what the client asked for last, but
\* for what EngineFollowsClient excuses: loc_eng_start_handler(), loc_eng_stop_handler(),
\* setPositionMode() and the restart after a crash lose no request between them.
THEOREM ClientFollowed == SessionSpec => []EngineFollowsClient
<1>1. SessionInv => EngineFollowsClient
  <2> SUFFICES ASSUME SessionInv, Rest, Trusting PROVE EngineFollowsClient
    BY DEF EngineFollowsClient, Trusting
  <2>1. session_queue = << >> /\ session_task = "next" /\ qmi.up  BY DEF Rest
  <2>2. DOMAIN session_queue = {}  BY <2>1
  <2>3. /\ \A t : ~Has(session_queue, t)
        /\ \A t, o : ~LastOf(session_queue, t, o)
        /\ \A r : ~LastMode(session_queue, r)
    BY <2>2 DEF Has, LastOf, LastMode
  <2>4. /\ client.on => mNavigating
        /\ ~client.on => ~mNavigating \/ "revived" \in excuses
    BY <2>1, <2>3 DEF SessionInv, WantedComes, WillNavigate
  <2>5. client.on => mFixCriteria.recurrence = client.recurrence
    BY <2>3 DEF SessionInv, ModeComes
  <2>6. /\ ~mNavigating => qmi.session = NoSession
        /\ mNavigating /\ mFixCriteria.recurrence = "periodic" => qmi.session = mFixCriteria
    BY <2>1, <2>3 DEF SessionInv, SessionFits
  <2>7. happened["crash"] = 0 /\ mNavigating => mFixCriteria.mode = "ms_based"
    BY DEF SessionInv, ModeFirst
  <2>8. happened["crash"] \in Nat /\ mFixCriteria \in Criteria
    BY DEF SessionInv, SessionTypes, Events
  <2>9. ~client.on => qmi.session = NoSession \/ "revived" \in excuses  BY <2>4, <2>6
  <2>10. ASSUME client.on, client.recurrence = "periodic"
         PROVE  /\ qmi.session # NoSession /\ qmi.session.recurrence = "periodic"
                /\ qmi.session.mode = "ms_based" \/ happened["crash"] > 0
    <3>1. qmi.session = mFixCriteria /\ mFixCriteria.recurrence = "periodic"
      BY <2>4, <2>5, <2>6, <2>10
    <3>2. mFixCriteria # NoSession  BY <2>8 DEF Criteria, NoSession
    <3>3. mFixCriteria.mode = "ms_based" \/ happened["crash"] > 0  BY <2>4, <2>7, <2>8, <2>10
    <3> QED  BY <3>1, <3>2, <3>3
  <2> QED  BY <2>9, <2>10 DEF EngineFollowsClient
<1> QED  BY <1>1, SessionInvariant, PTL

\* When the engine is off and every message has been handled, aiding data have been deleted
\* and no session is muted, but for what NothingWaitsForEngineOff excuses: the adapter stays
\* registered until MsgUpdateEngineState says that the engine is off.
THEOREM EngineOffCorrect == SessionSpec => []NothingWaitsForEngineOff
<1>1. SessionInv => NothingWaitsForEngineOff
  <2> SUFFICES ASSUME SessionInv, Rest, ~qmi.engine, "late" \notin excuses
               PROVE  /\ engine_status # "ENGINE_ON" /\ mute_session_state # "IN_SESSION"
                      /\ \/ asked \subseteq deleted
                         \/ "overwritten" \in excuses
                         \/ happened["crash"] > 0
    BY DEF NothingWaitsForEngineOff
  <2>1. session_queue = << >>  BY DEF Rest
  <2>2. DOMAIN session_queue = {}  BY <2>1
  <2>3. (\A t : ~Has(session_queue, t)) /\ (\A d : ~DelWaits(session_queue, d))
    BY <2>2 DEF Has, DelWaits
  <2>4. engine_status # "ENGINE_ON"  BY <2>3 DEF SessionInv, OffComes, OffWaits
  <2>5. mute_session_state # "IN_SESSION"  BY <2>4 DEF SessionInv, MutedWhileOn
  <2>6. happened["crash"] \in Nat  BY DEF SessionInv, SessionTypes, Events
  <2>7. happened["crash"] = 0 /\ "overwritten" \notin excuses => asked \subseteq deleted
    BY <2>3, <2>4 DEF SessionInv, DataSeenTo
  <2> QED  BY <2>4, <2>5, <2>6, <2>7
<1> QED  BY <1>1, SessionInvariant, PTL

=============================================================================
