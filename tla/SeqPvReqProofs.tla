--------------------------- MODULE SeqPvReqProofs ---------------------------
(***************************************************************************)
(* For every pool of requests and any number of disconnects and calls of   *)
(* pvAssign: a request is given back once, and none is allocated while one *)
(* is pending in its slot.                                                 *)
(*                                                                         *)
(* What makes both inductive is small: only the state set's thread fills   *)
(* slots, it holds a request of its own from freeListMalloc to the call,   *)
(* and a request leaves the set of calls in the step that frees it. A late *)
(* answer breaks neither, although it may end the wrong request.           *)
(***************************************************************************)
EXTENDS SeqPvReq, TLAPS

\* The shape of what the proof looks at.
PoolTyped ==
    /\ kind \in Kinds
    /\ rq \in Addresses \cup {NoReq}
    /\ req \in [Kinds -> Addresses \cup {NoReq}]
    /\ free \subseteq Addresses
    /\ calls \subseteq Answers

PoolInv ==
    /\ PoolTyped
    /\ rq # NoReq => pc = "call"
    /\ pc = "call" => rq # NoReq
    /\ PoolSound
    /\ SlotFree

----------------------------------------------------------------------------
LEMMA InitPool == Init => PoolInv
  BY PvReqAssumption DEF Init, PoolInv, PoolTyped, PoolSound, SlotFree, Kinds, Answers

----------------------------------------------------------------------------
\* Giving up the requests of some slots: TimesOut, Cancel, Disconnected.
LEMMA GiveUpKeeps ==
    ASSUME PoolInv, NEW kinds \in SUBSET Kinds, GiveUp(kinds),
           UNCHANGED <<free, rq, kind, calls>>,
           pc' = pc \/ (pc' = "idle" /\ rq = NoReq)
    PROVE  PoolInv'
  <1>1. PoolTyped'
    BY DEF GiveUp, PoolInv, PoolTyped
  <1>2. PoolSound'
    BY DEF PoolInv, PoolSound
  <1>3. SlotFree'
    <2>1. \A k \in Kinds : req'[k] \in {req[k], NoReq}
      BY DEF GiveUp
    <2> QED BY <2>1 DEF PoolInv, PoolTyped, SlotFree
  <1> QED BY <1>1, <1>2, <1>3 DEF PoolInv

LEMMA StepPool == PoolInv /\ [Next]_vars => PoolInv'
  <1> SUFFICES ASSUME PoolInv, [Next]_vars PROVE PoolInv'
    OBVIOUS
  <1> USE PvReqAssumption
  <1>1. ASSUME NEW k \in Kinds, NEW s \in BOOLEAN, Begin(k, s) PROVE PoolInv'
    BY <1>1 DEF Begin, PoolInv, PoolTyped, PoolSound, SlotFree
  <1>2. CASE CheckPending
    BY <1>2 DEF CheckPending, PoolInv, PoolTyped, PoolSound, SlotFree, call
  <1>3. CASE WaitPending \/ PendingTimesOut \/ Wait \/ Wakes
    BY <1>3 DEF WaitPending, PendingTimesOut, Wait, Wakes, PoolInv, PoolTyped, PoolSound, SlotFree, call
  <1>4. CASE Alloc
    <2>1. rq' \in free /\ rq' \in Addresses /\ rq' # NoReq
      BY <1>4 DEF Alloc, PoolInv, PoolTyped
    <2>2. PoolTyped' /\ pc' = "call"
      BY <1>4, <2>1 DEF Alloc, PoolInv, PoolTyped
    <2>3. PoolSound'
      BY <1>4, <2>1 DEF Alloc, PoolInv, PoolTyped, PoolSound
    <2> QED BY <2>1, <2>2, <2>3 DEF PoolInv, SlotFree
  <1>5. CASE Call
    <2> DEFINE c0 == [kind |-> kind, rq |-> rq]
    <2>1. c0 \in Answers /\ c0.rq = rq /\ rq \in Addresses
      BY <1>5 DEF Call, PoolInv, PoolTyped, Answers
    <2>2. calls' = calls \cup {c0} /\ rq' = NoReq /\ free' = free /\ kind' = kind /\ req' = req
          /\ pc' \in {"wait", "idle"}
      BY <1>5 DEF Call
    <2> HIDE DEF c0
    <2>3. PoolTyped'
      BY <2>1, <2>2 DEF PoolInv, PoolTyped
    <2>4. PoolSound'
      BY <2>1, <2>2 DEF PoolInv, PoolTyped, PoolSound, Answers
    <2> QED BY <2>2, <2>3, <2>4 DEF PoolInv, SlotFree
  <1>6. CASE CallFails
    <2>1. rq \in Addresses /\ rq' = NoReq /\ calls' = calls /\ free' = free \cup {rq} /\ pc' = "idle"
      BY <1>6 DEF CallFails, PoolInv, PoolTyped
    <2>2. PoolTyped'
      BY <1>6, <2>1 DEF CallFails, PoolInv, PoolTyped
    <2>3. PoolSound'
      BY <2>1 DEF PoolInv, PoolTyped, PoolSound, Answers
    <2> QED BY <2>1, <2>2, <2>3 DEF PoolInv, SlotFree
  <1>7. CASE TimesOut
    BY <1>7, GiveUpKeeps DEF TimesOut, PoolInv, PoolTyped, call
  <1>8. ASSUME NEW k \in Kinds, Cancel(k) PROVE PoolInv'
    BY <1>8, GiveUpKeeps DEF Cancel, call
  <1>9. CASE Assign
    BY <1>9 DEF Assign, PoolInv, PoolTyped, PoolSound, SlotFree, call
  <1>10. CASE AssignDone
    BY <1>10 DEF AssignDone, PoolInv, PoolTyped, PoolSound, SlotFree, call
  <1>11. ASSUME NEW c \in calls, HandlerFrees(c) PROVE PoolInv'
    <2>1. c.rq \in Addresses /\ calls' = calls \ {c} /\ free' = free \cup {c.rq}
          /\ UNCHANGED <<pc, kind, rq, req>>
      BY <1>11 DEF HandlerFrees, PoolInv, PoolTyped, Answers, call
    <2>2. PoolTyped' /\ SlotFree'
      BY <2>1 DEF PoolInv, PoolTyped, SlotFree
    <2>3. PoolSound'
      BY <2>1 DEF PoolInv, PoolSound
    <2> QED BY <2>1, <2>2, <2>3 DEF PoolInv
  <1>12. CASE HandlerCompletes
    <2>1. \A k \in Kinds : req'[k] \in {req[k], NoReq}
      BY <1>12 DEF HandlerCompletes
    <2>2. PoolTyped'
      BY <1>12 DEF HandlerCompletes, PoolInv, PoolTyped, call
    <2>3. SlotFree'
      BY <1>12, <2>1 DEF HandlerCompletes, PoolInv, PoolTyped, SlotFree, call
    <2> QED BY <1>12, <2>2, <2>3 DEF HandlerCompletes, PoolInv, PoolSound, call
  <1>13. CASE HandlerCompares \/ HandlerSignals \/ Connected \/ LinkChanges
    BY <1>13 DEF HandlerCompares, HandlerSignals, Connected, LinkChanges,
                 PoolInv, PoolTyped, PoolSound, SlotFree, call
  <1>14. CASE Disconnected
    BY <1>14, GiveUpKeeps DEF Disconnected, call
  <1>15. CASE UNCHANGED vars
    BY <1>15 DEF vars, PoolInv, PoolTyped, PoolSound, SlotFree
  <1> QED
    BY <1>1, <1>2, <1>3, <1>4, <1>5, <1>6, <1>7, <1>8, <1>9, <1>10, <1>11, <1>12, <1>13, <1>14, <1>15
    DEF Next, StateSet, Handler

----------------------------------------------------------------------------
\* freeListFree is called once for each request that freeListMalloc returns,
\* whatever times out, is cancelled, fails or disconnects.
THEOREM RequestsFreedOnce == Spec => []PoolSound
  <1>1. Spec => []PoolInv
    BY InitPool, StepPool, PTL DEF Spec
  <1>2. PoolInv => PoolSound
    BY DEF PoolInv
  <1> QED BY <1>1, <1>2, PTL

\* The assertions of pvGet and pvPut hold.
THEOREM AllocatesIntoFreeSlot == Spec => []SlotFree
  <1>1. Spec => []PoolInv
    BY InitPool, StepPool, PTL DEF Spec
  <1>2. PoolInv => SlotFree
    BY DEF PoolInv
  <1> QED BY <1>1, <1>2, PTL
============================================================================
