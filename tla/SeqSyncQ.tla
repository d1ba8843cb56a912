------------------------------ MODULE SeqSyncQ ------------------------------
(***************************************************************************)
(* A variable with syncq and sync: its queue (SeqQueue), the event flag    *)
(* that tells of elements in it, and the locks under which the sequencer   *)
(* uses the queue. A monitor event puts under the lock of the program, a   *)
(* pvPut to an anonymous channel under the lock of that channel, pvGetQ    *)
(* and pvFlushQ without a lock. The channels of an array share one queue   *)
(* (seq_main.c, init_chan).                                                *)
(***************************************************************************)
EXTENDS SeqQueue

CONSTANTS Named,    \* writers that are monitor callbacks of named PVs;
                    \* the others are state sets that put to anonymous ones
          Channels, \* anonymous channels that share the queue
          chan      \* the channel of each state set that puts

ASSUME NamedAssumption == Named \subseteq Writers
ASSUME ChanAssumption  == chan \in [Writers \ Named -> Channels]

VARIABLES progLock,  \* thread that holds sp->lock, or Nothing
          varLock,   \* per channel: thread that holds ch->varLock, or Nothing
          evFlag,    \* the event flag
          caller     \* per thread: where in the calling function it is

syncVars == <<progLock, varLock, evFlag, caller>>

SyncInit == /\ Init
            /\ progLock = Nothing
            /\ varLock = [c \in Channels |-> Nothing]
            /\ evFlag = FALSE
            /\ caller = [t \in Threads |-> "idle"]

At(t, from, to) == caller[t] = from /\ caller' = [caller EXCEPT ![t] = to]

\* Inside the queue function that the caller has called.
InPut(w) == /\ caller[w] = "putting" /\ pc[w] # "idle"
            /\ Put(w)
            /\ UNCHANGED syncVars

InGetOrFlush(t) == /\ caller[t] \in {"getting", "flushing"} /\ pc[t] # "idle"
                   /\ Get(t) \/ Flush(t)
                   /\ UNCHANGED syncVars

-----------------------------------------------------------------------------
(* proc_db_events: the put and seq_efSet under one hold of sp->lock *)

MonitorEvent(w) == /\ w \in Named
                   /\ At(w, "idle", "putting")
                   /\ progLock = Nothing
                   /\ progLock' = w
                   /\ PutCall(w)
                   /\ UNCHANGED <<varLock, evFlag>>

MonitorEfSet(w) == /\ w \in Named
                   /\ pc[w] = "idle"
                   /\ At(w, "putting", "idle")
                   /\ evFlag' = TRUE
                   /\ progLock' = Nothing
                   /\ UNCHANGED <<vars, varLock>>

-----------------------------------------------------------------------------
(* anonymous_put *)

AnonymousPut(w) == /\ w \notin Named
                   /\ At(w, "idle", "putting")
                   /\ varLock[chan[w]] = Nothing
                   /\ varLock' = [varLock EXCEPT ![chan[w]] = w]
                   /\ PutCall(w)
                   /\ UNCHANGED <<progLock, evFlag>>

AnonymousUnlock(w) == /\ w \notin Named
                      /\ pc[w] = "idle"
                      /\ At(w, "putting", "efSet")
                      /\ varLock' = [varLock EXCEPT ![chan[w]] = Nothing]
                      /\ UNCHANGED <<vars, progLock, evFlag>>

AnonymousEfSet(w) == /\ At(w, "efSet", "idle")
                     /\ progLock = Nothing
                     /\ evFlag' = TRUE
                     /\ UNCHANGED <<vars, progLock, varLock>>

-----------------------------------------------------------------------------
(* seq_pvGetQ: get, then, under sp->lock, clear the flag if now empty *)

GetQ(t) == /\ At(t, "idle", "getting")
           /\ GetCall(t)
           /\ UNCHANGED <<progLock, varLock, evFlag>>

GetQLock(t) == /\ pc[t] = "idle"
               /\ At(t, "getting", "isEmpty")
               /\ progLock = Nothing
               /\ progLock' = t
               /\ UNCHANGED <<vars, varLock, evFlag>>

\* seqQueueIsEmpty reads wr and rd, then overflow.
GetQTestEmpty(t) == /\ At(t, "isEmpty", IF wr = rd THEN "isEmptyOverflow" ELSE "unlock")
                    /\ UNCHANGED <<vars, progLock, varLock, evFlag>>

\* the overflow flag is not looked at
GetQNoTestOverflow(t) == /\ At(t, "isEmptyOverflow", "clear")
                         /\ UNCHANGED <<vars, progLock, varLock, evFlag>>

GetQTestOverflow(t) == /\ At(t, "isEmptyOverflow", IF overflow THEN "unlock" ELSE "clear")
                       /\ UNCHANGED <<vars, progLock, varLock, evFlag>>

GetQClear(t) == /\ At(t, "clear", "unlock")
                /\ evFlag' = FALSE
                /\ UNCHANGED <<vars, progLock, varLock>>

GetQUnlock(t) == /\ At(t, "unlock", "idle")
                 /\ progLock' = Nothing
                 /\ UNCHANGED <<vars, varLock, evFlag>>

(* seq_pvFlushQ: flush, then clear the flag *)

FlushQ(t) == /\ At(t, "idle", "flushing")
             /\ FlushCall(t)
             /\ UNCHANGED <<progLock, varLock, evFlag>>

FlushQClear(t) == /\ pc[t] = "idle"
                  /\ At(t, "flushing", "idle")
                  /\ progLock = Nothing
                  /\ evFlag' = FALSE
                  /\ UNCHANGED <<vars, progLock, varLock>>

-----------------------------------------------------------------------------
SyncNext == \/ \E w \in Writers : \/ MonitorEvent(w) \/ MonitorEfSet(w)
                                  \/ AnonymousPut(w) \/ AnonymousUnlock(w) \/ AnonymousEfSet(w)
                                  \/ InPut(w)
            \/ \E t \in Readers : \/ GetQ(t) \/ GetQLock(t) \/ GetQTestEmpty(t) \/ GetQTestOverflow(t)
                                  \/ GetQClear(t) \/ GetQUnlock(t)
                                  \/ FlushQ(t) \/ FlushQClear(t) \/ InGetOrFlush(t)

SyncSpec == SyncInit /\ [][SyncNext]_<<vars, syncVars>>

-----------------------------------------------------------------------------
(* Properties *)

\* The flag of a queue that is not empty is clear only if a flush has cleared it, some
\* time after it has emptied the queue, or if a writer is about to set it: no get and no
\* put loses the flag, and a state set that waits for it before it calls pvGetQ does not
\* wait while there is something to get.
FlagLostByFlushOnly ==
  [][Contents # << >> /\ evFlag /\ ~evFlag' => \E t \in Readers : FlushQClear(t) \/ \E w \in Writers : caller[w] # "idle"]_<<vars, syncVars>>

=============================================================================
