------------------------------ MODULE SeqPvReq ------------------------------
(***************************************************************************)
(* pvGet and pvPut with completion: seq_if.c (the state set's thread) and  *)
(* seq_ca.c (the callbacks, which channel access runs one at a time).      *)
(*                                                                         *)
(* A state set has one channel here, with a slot for the pending get and   *)
(* one for the pending put (ss->getReq, ss->putReq); both wake it with the *)
(* same semaphore. A request is an element of a free list; its address is  *)
(* what a callback gets back. The state set gives a request up when it     *)
(* times out or is cancelled, but channel access still answers it.         *)
(***************************************************************************)
EXTENDS Naturals, Sequences, FiniteSets

CONSTANTS
    Addresses,   \* elements of pvReqPool
    MaxLinks,    \* bound: changes of the connection of the channel
    MaxAssigns,  \* bound: calls of pvAssign
    NoReq        \* NULL

ASSUME PvReqAssumption ==
    /\ IsFiniteSet(Addresses) /\ Cardinality(Addresses) >= 2
    /\ NoReq \notin Addresses
    /\ MaxLinks \in Nat /\ MaxAssigns \in Nat

Kinds == {"get", "put"}

VARIABLES
    pc,         \* where the state set is in pvGet, pvPut or pvAssign
    kind,       \* what it gets or puts
    sync,       \* the call is SYNC
    rq,         \* the request it has allocated
    req,        \* the slots ss->getReq and ss->putReq
    syncSem,    \* ss->syncSem
    free,       \* pvReqPool
    calls,      \* the requests channel access is to answer
    handler,    \* the callback thread, and the answer it handles
    assigned,   \* ch->dbch is not NULL
    connected,  \* dbch->connected
    link,       \* the channel is connected, as channel access knows
    orphan,     \* history: nobody will answer the request in the slot
    counts      \* bounded counters

vars == <<pc, kind, sync, rq, req, syncSem, free, calls, handler, assigned,
          connected, link, orphan, counts>>
call    == <<kind, sync, rq>>
channel == <<assigned, connected, link, counts>>

\* A request that channel access will answer.
Answers == [kind : Kinds, rq : Addresses]

\* The requests of some slots are given up: they are answered all the same.
GiveUp(kinds) == req' = [k \in Kinds |-> IF k \in kinds THEN NoReq ELSE req[k]]

Init ==
    /\ pc = "idle" /\ kind = "get" /\ sync = FALSE /\ rq = NoReq
    /\ req = [k \in Kinds |-> NoReq]
    /\ syncSem = FALSE
    /\ free = Addresses /\ calls = {}
    /\ handler = [at |-> "idle", answers |-> {}]
    /\ assigned = TRUE /\ connected = TRUE /\ link = TRUE
    /\ orphan = [k \in Kinds |-> FALSE]
    /\ counts = [links |-> 0, assigns |-> 0]

----------------------------------------------------------------------------
(* The state set                                                           *)

\* pvGet or pvPut; pvPut returns at once when the channel is not connected.
Begin(k, s) ==
    /\ pc = "idle"
    /\ k = "put" => connected
    /\ kind' = k /\ sync' = s
    /\ pc' = "checkPending"
    /\ UNCHANGED <<rq, req, syncSem, free, calls, handler, channel, orphan>>

\* check_pending: an asynchronous call fails while a request is pending, a
\* synchronous one waits for it.
CheckPending ==
    /\ pc = "checkPending"
    /\ pc' = IF req[kind] = NoReq THEN "alloc" ELSE IF sync THEN "waitPending" ELSE "idle"
    /\ UNCHANGED <<call, req, syncSem, free, calls, handler, channel, orphan>>

\* A bug: the slot is not looked at again after the wait.
WaitPendingOnce ==
    /\ pc = "waitPending" /\ syncSem
    /\ syncSem' = FALSE
    /\ pc' = IF connected THEN "alloc" ELSE "idle"
    /\ UNCHANGED <<call, req, free, calls, handler, channel, orphan>>

\* The semaphore may have been signalled for the other slot, or long ago.
WaitPending ==
    /\ pc = "waitPending" /\ syncSem
    /\ syncSem' = FALSE
    /\ pc' = IF connected THEN "checkPending" ELSE "idle"
    /\ UNCHANGED <<call, req, free, calls, handler, channel, orphan>>

PendingTimesOut ==
    /\ pc = "waitPending"
    /\ pc' = "idle"
    /\ UNCHANGED <<call, req, syncSem, free, calls, handler, channel, orphan>>

\* A request is taken from the pool and put into the slot.
Alloc ==
    /\ pc = "alloc"
    /\ rq' \in free
    /\ free' = free \ {rq'}
    /\ req' = [req EXCEPT ![kind] = rq']
    /\ orphan' = [orphan EXCEPT ![kind] = FALSE]
    /\ pc' = "call"
    /\ UNCHANGED <<kind, sync, syncSem, calls, handler, channel>>

\* pvVarGetCallback or pvVarPutCallback. A disconnect may have emptied the
\* slot meanwhile.
Call ==
    /\ pc = "call" /\ link
    /\ calls' = calls \cup {[kind |-> kind, rq |-> rq]}
    /\ rq' = NoReq
    /\ pc' = IF sync THEN "wait" ELSE "idle"
    /\ UNCHANGED <<kind, sync, req, syncSem, free, handler, channel, orphan>>

\* The call fails: the request is cancelled, and given back.
CallFails ==
    /\ pc = "call" /\ ~link
    /\ req' = [req EXCEPT ![kind] = NoReq]
    /\ free' = free \cup {rq}
    /\ rq' = NoReq
    /\ pc' = "idle"
    /\ UNCHANGED <<kind, sync, syncSem, calls, handler, channel, orphan>>

\* wait_complete looks at the slot.
Wait ==
    /\ pc = "wait"
    /\ pc' = IF req[kind] = NoReq THEN "idle" ELSE "blocked"
    /\ UNCHANGED <<call, req, syncSem, free, calls, handler, channel, orphan>>

Wakes ==
    /\ pc = "blocked" /\ syncSem
    /\ syncSem' = FALSE
    /\ pc' = "wait"
    /\ UNCHANGED <<call, req, free, calls, handler, channel, orphan>>

\* A bug: the request is given back when it times out.
TimesOutFrees ==
    /\ pc = "blocked"
    /\ free' = free \cup ({req[kind]} \ {NoReq})
    /\ GiveUp({kind})
    /\ pc' = "idle"
    /\ UNCHANGED <<call, syncSem, calls, handler, channel, orphan>>

\* The wait times out: the request is cancelled.
TimesOut ==
    /\ pc = "blocked"
    /\ GiveUp({kind})
    /\ pc' = "idle"
    /\ UNCHANGED <<call, syncSem, free, calls, handler, channel, orphan>>

\* pvGetCancel, pvPutCancel.
Cancel(k) ==
    /\ pc = "idle" /\ req[k] # NoReq
    /\ GiveUp({k})
    /\ UNCHANGED <<pc, call, syncSem, free, calls, handler, channel, orphan>>

\* pvAssign, when no callback holds the lock: the channel is taken away.
Assign ==
    /\ pc = "idle" /\ handler.at # "signal" /\ counts.assigns < MaxAssigns
    /\ pc' = "destroy"
    /\ assigned' = FALSE
    /\ counts' = [counts EXCEPT !.assigns = @ + 1]
    /\ UNCHANGED <<call, req, syncSem, free, calls, handler, connected, link, orphan>>

\* pvVarDestroy waits for the callback that runs; the others never come. Then
\* there is a new channel, not connected yet. What is in the slots stays
\* there. The lost requests are not given back: new elements of the pool, which
\* grows, have their names.
AssignDone ==
    /\ pc = "destroy" /\ handler.at = "idle"
    /\ pc' = "idle"
    /\ calls' = {}
    /\ assigned' = TRUE /\ connected' = FALSE /\ link' = FALSE
    /\ orphan' = [k \in Kinds |-> req[k] # NoReq]
    /\ free' = Addresses
    /\ UNCHANGED <<call, req, syncSem, handler, counts>>

----------------------------------------------------------------------------
(* The callbacks                                                           *)

\* seq_get_handler or seq_put_handler gives the request back...
HandlerFrees(c) ==
    /\ handler.at = "idle" /\ assigned
    /\ handler' = [at |-> "compare", answers |-> {c}]
    /\ calls' = calls \ {c}
    /\ free' = free \cup {c.rq}
    /\ UNCHANGED <<pc, call, req, syncSem, channel, orphan>>

\* ... and then compares its address with that in the slot.
HandlerCompares ==
    /\ handler.at = "compare"
    /\ handler' = IF \E c \in handler.answers : req[c.kind] = c.rq
                    THEN [handler EXCEPT !.at = "complete"]
                    ELSE [at |-> "idle", answers |-> {}]
    /\ UNCHANGED <<pc, call, req, syncSem, free, calls, channel, orphan>>

\* A bug: the state set is not woken.
HandlerCompletesSilently ==
    /\ handler.at = "complete"
    /\ handler' = [at |-> "idle", answers |-> {}]
    /\ req' = [k \in Kinds |-> IF assigned /\ \E c \in handler.answers : c.kind = k
                                  THEN NoReq ELSE req[k]]
    /\ UNCHANGED <<pc, call, syncSem, free, calls, channel, orphan>>

\* A bug: an answer on a channel that is not connected is dropped.
HandlerCompletesConnected ==
    /\ handler.at = "complete"
    /\ handler' = [at |-> IF connected THEN "signal" ELSE "idle", answers |-> {}]
    /\ req' = [k \in Kinds |-> IF connected /\ \E c \in handler.answers : c.kind = k
                                  THEN NoReq ELSE req[k]]
    /\ UNCHANGED <<pc, call, syncSem, free, calls, channel, orphan>>

\* proc_db_events takes the lock and empties the slot, unless the channel has
\* been taken away.
HandlerCompletes ==
    /\ handler.at = "complete"
    /\ handler' = [at |-> IF assigned THEN "signal" ELSE "idle", answers |-> {}]
    /\ req' = [k \in Kinds |-> IF assigned /\ \E c \in handler.answers : c.kind = k
                                  THEN NoReq ELSE req[k]]
    /\ UNCHANGED <<pc, call, syncSem, free, calls, channel, orphan>>

HandlerSignals ==
    /\ handler.at = "signal"
    /\ handler' = [handler EXCEPT !.at = "idle"]
    /\ syncSem' = TRUE
    /\ UNCHANGED <<pc, call, req, free, calls, channel, orphan>>

\* The channel connects or disconnects; the state set may call before
\* seq_conn_handler has told it.
LinkChanges ==
    /\ assigned /\ connected = link /\ counts.links < MaxLinks
    /\ link' = ~link
    /\ counts' = [counts EXCEPT !.links = @ + 1]
    /\ UNCHANGED <<pc, call, req, syncSem, free, calls, handler, assigned, connected, orphan>>

Connected ==
    /\ handler.at = "idle" /\ assigned /\ link /\ ~connected
    /\ connected' = TRUE
    /\ UNCHANGED <<pc, call, req, syncSem, free, calls, handler, assigned, link, counts, orphan>>

\* A disconnect ends the pending requests; they are answered all the same.
Disconnected ==
    /\ handler.at = "idle" /\ assigned /\ ~link /\ connected
    /\ connected' = FALSE
    /\ GiveUp(Kinds)
    /\ handler' = [handler EXCEPT !.at = "signal"]
    /\ UNCHANGED <<pc, call, syncSem, free, calls, assigned, link, counts, orphan>>

----------------------------------------------------------------------------
StateSet == \/ CheckPending \/ WaitPending \/ Alloc \/ Call \/ CallFails \/ Wait \/ Wakes
            \/ AssignDone

Handler == \/ HandlerCompares \/ HandlerCompletes \/ HandlerSignals
           \/ Connected \/ Disconnected

Next == \/ StateSet \/ Handler
        \/ \E k \in Kinds, s \in BOOLEAN : Begin(k, s)
        \/ PendingTimesOut \/ TimesOut
        \/ \E k \in Kinds : Cancel(k)
        \/ Assign \/ LinkChanges
        \/ \E c \in calls : HandlerFrees(c)

Spec == Init /\ [][Next]_vars

\* The threads run, and channel access answers every request of a channel
\* that exists. No wait need time out, and no link change.
Fairness ==
    /\ WF_vars(StateSet) /\ WF_vars(Handler)
    /\ \A a \in Addresses : SF_vars(\E c \in calls : c.rq = a /\ HandlerFrees(c))

FairSpec == Spec /\ Fairness

----------------------------------------------------------------------------
TypeOK ==
    /\ pc \in {"idle", "checkPending", "waitPending", "alloc", "call", "wait", "blocked", "destroy"}
    /\ kind \in Kinds /\ sync \in BOOLEAN
    /\ rq \in Addresses \cup {NoReq}
    /\ req \in [Kinds -> Addresses \cup {NoReq}]
    /\ syncSem \in BOOLEAN
    /\ free \subseteq Addresses /\ calls \subseteq Answers
    /\ handler \in [at : {"idle", "compare", "complete", "signal"}, answers : SUBSET Answers]
    /\ {assigned, connected, link} \subseteq BOOLEAN
    /\ orphan \in [Kinds -> BOOLEAN]
    /\ counts \in [links : 0 .. MaxLinks, assigns : 0 .. MaxAssigns]

\* A request is given back once: while the state set is about to use it, or
\* channel access may still pass it to a callback, it is not in the pool, and
\* no two calls have the same, also when it has timed out, been cancelled or
\* been ended by a disconnect.
PoolSound ==
    /\ rq \notin free
    /\ \A c \in calls : c.rq \notin free /\ c.rq # rq
    /\ \A c, d \in calls : c.rq = d.rq => c = d

\* "assert(ss->getReq[chId] == NULL)" (seq_if.c:226, 511): a request is only
\* allocated when none is pending, though the semaphore check_pending waits
\* for is signalled for both slots and keeps old signals.
SlotFree == pc = "alloc" => req[kind] = NoReq

\* A synchronous call is woken without a timeout: when its request is
\* answered, or when the channel disconnects.
SyncReturns == pc \in {"wait", "blocked"} ~> pc = "idle"

\* A pending request ends by itself, unless pvAssign has taken away the
\* channel that would have answered it: then it stays in the slot, and every
\* later pvGet(ASYNC) of the variable fails.
RequestEnds ==
    \A k \in Kinds : (req[k] # NoReq /\ ~orphan[k]) ~> (req[k] = NoReq \/ orphan[k])

============================================================================
