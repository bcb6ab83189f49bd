----------------------------- MODULE LocSyncReq -----------------------------
(***************************************************************************)
(* Synchronous requests to the modem.  A caller takes a slot, names the    *)
(* indication it waits for, sends its request and waits with a timeout;    *)
(* the thread of the QMI client passes every response indication to the    *)
(* slots.                                                                  *)
(*                                                                         *)
(* loc_sync_call_mutex is held by an indication as long as it looks        *)
(* through the slots, so allocating and freeing a slot wait for that; each *)
(* look at one slot is a critical section of its sync_req_lock, and so is  *)
(* everything a caller does with its slot in between.                      *)
(***************************************************************************)
EXTENDS Integers

CONSTANTS
    LOC_SYNC_REQ_BUFFER_SIZE,
    Callers,    \* the threads that make requests
    Kinds,      \* the requests: each has an indication of its own
    Requests,   \* the requests each caller makes
    MaxCalls,   \* bound on the calls of one caller
    Nothing

ASSUME LocSyncReqAssumption ==
    /\ LOC_SYNC_REQ_BUFFER_SIZE \in Nat \ {0}
    /\ Requests \in [Callers -> SUBSET Kinds]
    /\ MaxCalls \in Nat
    /\ Nothing \notin Callers \cup Kinds

VARIABLES
    slot_in_use,
    slots,      \* each slot
    in_use,     \* loc_sync_array.in_use: at least one slot is in use
    pc,         \* where each caller is in loc_sync_send_req
    select_id,  \* its slot
    kind,       \* what it requests
    made,       \* its calls so far
    payload,    \* whether its buffer holds an indication
    status,     \* what its last call returned
    modem,      \* requests the modem has not answered
    ind,        \* the indication being processed, if any
    excused     \* not in the code: the caller found no slot, or its thread
                \* woke for nothing

slotVars == <<slot_in_use, slots, in_use>>
callVars == <<pc, select_id, kind, made, payload, status, excused>>
vars == <<slotVars, callVars, modem, ind>>

Slots == 0..(LOC_SYNC_REQ_BUFFER_SIZE - 1)

\* A slot: the indication it waits for, whose buffer takes it, and the flags
\* ind_is_waiting and ind_has_arrived.
Slot == [kind: Kinds \cup {Nothing}, buffer: Callers \cup {Nothing},
         waiting: BOOLEAN, arrived: BOOLEAN]

FreeSlot == [kind |-> Nothing, buffer |-> Nothing, waiting |-> FALSE,
             arrived |-> FALSE]

\* The next slot to look at, and whether one seen before is in use.
Ind == [kind: Kinds, at: Slots, seen: BOOLEAN]
NoInd == [kind |-> Nothing, at |-> 0, seen |-> FALSE]

loc_sync_req_init ==
    /\ slot_in_use = [i \in Slots |-> FALSE]
    /\ slots = [i \in Slots |-> FreeSlot]
    /\ in_use = FALSE
    /\ pc = [c \in Callers |-> "idle"]
    /\ select_id = [c \in Callers |-> -1]
    /\ kind = [c \in Callers |-> Nothing]
    /\ made = [c \in Callers |-> 0]
    /\ payload = [c \in Callers |-> FALSE]
    /\ status = [c \in Callers |-> "none"]
    /\ excused = [c \in Callers |-> FALSE]
    /\ modem = {}
    /\ ind = NoInd

Goto(c, there) == pc' = [pc EXCEPT ![c] = there]
Return(c, s) == status' = [status EXCEPT ![c] = s]
Excuse(c) == excused' = [excused EXCEPT ![c] = TRUE]

-----------------------------------------------------------------------------
(* A caller *)

\* A new call.  The caller's buffer holds nothing yet.
loc_sync_send_req(c) ==
    /\ pc[c] = "idle" /\ made[c] < MaxCalls
    /\ Goto(c, "called")
    /\ \E k \in Requests[c] : kind' = [kind EXCEPT ![c] = k]
    /\ made' = [made EXCEPT ![c] = @ + 1]
    /\ payload' = [payload EXCEPT ![c] = FALSE]
    /\ status' = [status EXCEPT ![c] = "none"]
    /\ excused' = [excused EXCEPT ![c] = FALSE]
    /\ UNCHANGED <<slotVars, select_id, modem, ind>>

\* Mutant: the slot is not marked.
allocUnmarked(c) ==
    /\ pc[c] = "called" /\ ind = NoInd
    /\ \E i \in Slots :
         /\ ~slot_in_use[i] /\ \A j \in Slots : j < i => slot_in_use[j]
         /\ select_id' = [select_id EXCEPT ![c] = i]
    /\ in_use' = TRUE
    /\ Goto(c, "allocated")
    /\ UNCHANGED <<slot_in_use, slots, kind, made, payload, status, excused,
                   modem, ind>>

loc_alloc_slot(c) ==
    /\ pc[c] = "called" /\ ind = NoInd
    /\ \E i \in Slots :
         /\ ~slot_in_use[i] /\ \A j \in Slots : j < i => slot_in_use[j]
         /\ slot_in_use' = [slot_in_use EXCEPT ![i] = TRUE]
         /\ select_id' = [select_id EXCEPT ![c] = i]
    /\ in_use' = TRUE
    /\ Goto(c, "allocated")
    /\ UNCHANGED <<slots, kind, made, payload, status, excused, modem, ind>>

\* Every slot is in use: the call ends there, with the status it began with.
bufferFull(c) ==
    /\ pc[c] = "called" /\ ind = NoInd
    /\ \A i \in Slots : slot_in_use[i]
    /\ Goto(c, "idle") /\ Return(c, "success") /\ Excuse(c)
    /\ UNCHANGED <<slotVars, select_id, kind, made, payload, modem, ind>>

loc_sync_select_ind(c) ==
    /\ pc[c] = "allocated"
    /\ slots' = [slots EXCEPT ![select_id[c]] =
                   [kind |-> kind[c], buffer |-> c,
                    waiting |-> FALSE, arrived |-> FALSE]]
    /\ Goto(c, "selected")
    /\ UNCHANGED <<slot_in_use, in_use, select_id, kind, made, payload, status,
                   excused, modem, ind>>

\* A request that fails may have reached the modem all the same.
locClientSendReq(c) ==
    /\ pc[c] = "selected"
    /\ \/ Goto(c, "sent") /\ modem' = modem \cup {<<c, made[c], kind[c]>>}
       \/ /\ Goto(c, "failed")
          /\ modem' \in {modem, modem \cup {<<c, made[c], kind[c]>>}}
    /\ UNCHANGED <<slotVars, select_id, kind, made, payload, status, excused,
                   ind>>

\* loc_sync_wait_for_ind up to the wait.
loc_sync_wait_for_ind(c) ==
    /\ pc[c] = "sent"
    /\ IF slots[select_id[c]].arrived
         THEN /\ Goto(c, "leaving") /\ Return(c, "success")
              /\ UNCHANGED slots
         ELSE /\ Goto(c, "waiting")
              /\ slots' = [slots EXCEPT ![select_id[c]].waiting = TRUE]
              /\ UNCHANGED status
    /\ UNCHANGED <<slot_in_use, in_use, select_id, kind, made, payload, excused,
                   modem, ind>>

\* Mutant: the wait has no timeout.
timeoutNever(c) ==
    /\ pc[c] = "waiting" /\ payload[c]
    /\ Goto(c, "expired")
    /\ UNCHANGED <<slotVars, select_id, kind, made, payload, status, excused,
                   modem, ind>>

\* The timeout expires; the caller has yet to get the lock back.
timeout(c) ==
    /\ pc[c] = "waiting"
    /\ Goto(c, "expired")
    /\ UNCHANGED <<slotVars, select_id, kind, made, payload, status, excused,
                   modem, ind>>

spuriousWakeup(c) ==
    /\ pc[c] = "waiting"
    /\ Goto(c, "woken") /\ Excuse(c)
    /\ UNCHANGED <<slotVars, select_id, kind, made, payload, status, modem, ind>>

\* Mutant: a timeout is logged only.
wakeUpHappily(c) ==
    /\ pc[c] \in {"woken", "expired"}
    /\ slots' = [slots EXCEPT ![select_id[c]].waiting = FALSE]
    /\ Goto(c, "leaving") /\ Return(c, "success")
    /\ UNCHANGED <<slot_in_use, in_use, select_id, kind, made, payload, excused,
                   modem, ind>>

\* The rest of loc_sync_wait_for_ind.  Nothing is looked at again.
wakeUp(c) ==
    /\ pc[c] \in {"woken", "expired"}
    /\ slots' = [slots EXCEPT ![select_id[c]].waiting = FALSE]
    /\ Goto(c, "leaving")
    /\ Return(c, IF pc[c] = "expired" THEN "timeout" ELSE "success")
    /\ UNCHANGED <<slot_in_use, in_use, select_id, kind, made, payload, excused,
                   modem, ind>>

\* Mutant: after a timeout the slot is not freed.
freeUnlessTimeout(c) ==
    /\ pc[c] \in {"failed", "leaving"} /\ ind = NoInd
    /\ IF status[c] = "timeout"
         THEN UNCHANGED slotVars
         ELSE LET used == [slot_in_use EXCEPT ![select_id[c]] = FALSE] IN
              /\ slot_in_use' = used
              /\ slots' = [slots EXCEPT ![select_id[c]] = FreeSlot]
              /\ in_use' = (in_use /\ \E i \in Slots : used[i])
    /\ Goto(c, "idle")
    /\ status' = [status EXCEPT ![c] = IF pc[c] = "failed" THEN "failed" ELSE @]
    /\ select_id' = [select_id EXCEPT ![c] = -1]
    /\ UNCHANGED <<kind, made, payload, excused, modem, ind>>

loc_free_slot(c) ==
    /\ pc[c] \in {"failed", "leaving"} /\ ind = NoInd
    /\ LET used == [slot_in_use EXCEPT ![select_id[c]] = FALSE] IN
       /\ slot_in_use' = used
       /\ slots' = [slots EXCEPT ![select_id[c]] = FreeSlot]
       /\ in_use' = (in_use /\ \E i \in Slots : used[i])
    /\ Goto(c, "idle")
    /\ status' = [status EXCEPT ![c] = IF pc[c] = "failed" THEN "failed" ELSE @]
    /\ select_id' = [select_id EXCEPT ![c] = -1]
    /\ UNCHANGED <<kind, made, payload, excused, modem, ind>>

-----------------------------------------------------------------------------
(* The QMI client's thread *)

\* The modem answers a request, whether its caller still waits or not.
\* Without a slot in use the answer goes nowhere.
loc_sync_process_ind ==
    /\ ind = NoInd
    /\ \E r \in modem :
         /\ modem' = modem \ {r}
         /\ ind' = IF in_use THEN [kind |-> r[3], at |-> 0, seen |-> FALSE]
                             ELSE NoInd
    /\ UNCHANGED <<slotVars, callVars>>

Matches(i) == slot_in_use[i] /\ slots[i].kind = ind.kind /\ ~slots[i].arrived

\* What is left after a look at the slot: the loop ends with the first slot
\* that takes the indication, and then no slot may have been in use.
goOn(consumed) ==
    LET seen == ind.seen \/ slot_in_use[ind.at] IN
    IF consumed \/ ind.at = LOC_SYNC_REQ_BUFFER_SIZE - 1
      THEN /\ ind' = NoInd
           /\ in_use' = (in_use /\ seen)
      ELSE /\ ind' = [ind EXCEPT !.at = @ + 1, !.seen = seen]
           /\ UNCHANGED in_use

\* Mutant: an indication that comes before the wait is not remembered.
takeForgetful(i) ==
    LET c == slots[i].buffer IN
    /\ payload' = [payload EXCEPT ![c] = TRUE]
    /\ pc' = [pc EXCEPT ![c] = IF @ = "waiting" THEN "woken" ELSE @]
    /\ UNCHANGED slots

\* The slot takes the indication: it is copied to the buffer (every caller
\* passes one), and the caller is woken or finds it when it gets there.
take(i) ==
    LET c == slots[i].buffer IN
    /\ payload' = [payload EXCEPT ![c] = TRUE]
    /\ pc' = [pc EXCEPT ![c] = IF @ = "waiting" THEN "woken" ELSE @]
    /\ slots' = [slots EXCEPT ![i].arrived = @ \/ ~slots[i].waiting]

\* One turn of the loop over the slots.
lookAtSlot ==
    /\ ind # NoInd
    /\ IF Matches(ind.at)
         THEN take(ind.at)
         ELSE UNCHANGED <<payload, pc, slots>>
    /\ goOn(Matches(ind.at))
    /\ UNCHANGED <<slot_in_use, select_id, kind, made, status, excused, modem>>

-----------------------------------------------------------------------------
\* What a caller does once it has called.
proceed(c) ==
    \/ loc_alloc_slot(c) \/ bufferFull(c) \/ loc_sync_select_ind(c)
    \/ locClientSendReq(c) \/ loc_sync_wait_for_ind(c) \/ timeout(c)
    \/ wakeUp(c) \/ loc_free_slot(c)

Next ==
    \/ \E c \in Callers : loc_sync_send_req(c) \/ proceed(c) \/ spuriousWakeup(c)
    \/ loc_sync_process_ind \/ lookAtSlot

\* Callers run and their timeouts expire, and an indication in hand is worked
\* off.  The modem need not answer.
Spec ==
    /\ loc_sync_req_init /\ [][Next]_vars
    /\ \A c \in Callers : WF_vars(proceed(c))
    /\ WF_vars(lookAtSlot)

-----------------------------------------------------------------------------
Places == {"idle", "called", "allocated", "selected", "sent", "failed",
           "waiting", "woken", "expired", "leaving"}

Holding == Places \ {"idle", "called"}

TypeOK ==
    /\ slot_in_use \in [Slots -> BOOLEAN]
    /\ slots \in [Slots -> Slot]
    /\ in_use \in BOOLEAN
    /\ pc \in [Callers -> Places]
    /\ select_id \in [Callers -> Slots \cup {-1}]
    /\ kind \in [Callers -> Kinds \cup {Nothing}]
    /\ made \in [Callers -> 0..MaxCalls]
    /\ payload \in [Callers -> BOOLEAN]
    /\ excused \in [Callers -> BOOLEAN]
    /\ status \in [Callers -> {"none", "success", "timeout", "failed"}]
    /\ modem \subseteq Callers \X (1..MaxCalls) \X Kinds
    /\ ind \in Ind \cup {NoInd}

\* Every slot in use has one caller that will free it, and every caller inside
\* has a slot of its own: no timeout or failed send leaks one.
OneCallerPerSlot ==
    \A i \in Slots :
        /\ slot_in_use[i] => \E c \in Callers : pc[c] \in Holding /\ select_id[c] = i
        /\ \A c, d \in Callers :
              /\ {pc[c], pc[d]} \subseteq Holding
              /\ select_id[c] = i /\ select_id[d] = i
              => c = d /\ slot_in_use[i]

\* An indication is not dropped while a slot is in use: the flag that says so
\* is never taken back too early.
InUseWhileUsed == (\E i \in Slots : slot_in_use[i]) => in_use

\* No caller sleeps until its timeout when its indication has been copied to
\* its buffer, whether it came before the wait, during it or just at its end.
NoSleepOnAnswer == \A c \in Callers : pc[c] = "waiting" => ~payload[c]

\* The buffer is a local variable of the caller's: it is written only while
\* the call lasts, however late the indication comes.
WritesOnlyDuringCall ==
    [][\A c \in Callers : pc[c] = "idle" /\ pc'[c] = "idle"
                              => payload'[c] = payload[c]]_vars

\* A call that reports success has its answer, unless it found no slot or its
\* thread woke for nothing: the code takes both for an answer.
SuccessHasAnswer ==
    \A c \in Callers : pc[c] = "idle" /\ status[c] = "success"
                           => payload[c] \/ excused[c]

\* Every call returns, whether the modem answers or not.
CallReturns == \A c \in Callers : pc[c] # "idle" ~> pc[c] = "idle"
=============================================================================
