------------------------------ MODULE SeqQueue ------------------------------
(***************************************************************************)
(* The queues of the sequencer (seq_queue.c): a ring of numElems slots,    *)
(* where the overflow flag makes the slot at wr hold one more element, so  *)
(* that numElems elements fit. Monitor callbacks and pvPut put, state sets *)
(* get and flush.                                                          *)
(*                                                                         *)
(* Every step is one read or write of wr, rd, overflow or of a slot that   *)
(* another thread can see; the mutex is only taken by the paths that take  *)
(* it in the code. The test wr = rd of a get is one step, since rd is      *)
(* written by the reader alone when there is one reader; with several      *)
(* readers the model has fewer interleavings than the code. Stores are     *)
(* seen in program order, which the C code does not ask for.               *)
(***************************************************************************)
EXTENDS Naturals, Sequences, FiniteSets

CONSTANTS numElems,       \* slots of the ring
          Readers,        \* threads that get and flush
          Writers,        \* threads that put
          Nothing,        \* no thread, no element
          MaxPuts,        \* bound: elements put in a behaviour
          MaxFlushes      \* bound: flushes in a behaviour

ASSUME NumElemsAssumption == numElems \in Nat \ {0}
ASSUME ThreadsAssumption == /\ Readers \cap Writers = {}
                            /\ Nothing \notin Readers \cup Writers
ASSUME BoundsAssumption == MaxPuts \in Nat /\ MaxFlushes \in Nat

VARIABLES wr, rd, overflow,  \* struct seqQueue
          mutex,             \* thread that holds the mutex, or Nothing
          buffer,            \* the slots
          pc,                \* per thread: next step
          elem,              \* per thread: the element it puts, or has got
          r,                 \* per writer: what seqQueuePutF will return
          puts, flushes,     \* calls so far
          overlap            \* history: a put took effect during the get

vars == <<wr, rd, overflow, mutex, buffer, pc, elem, r, puts, flushes, overlap>>

shared == <<wr, rd, overflow, mutex, buffer>>

Threads == Readers \cup Writers
Slots   == 0 .. numElems - 1

\* (i + 1) % q->numElems
Next1(i) == IF i = numElems - 1 THEN 0 ELSE i + 1

Init == /\ wr = 0 /\ rd = 0 /\ overflow = FALSE
        /\ mutex = Nothing
        /\ buffer = [i \in Slots |-> Nothing]
        /\ pc = [t \in Threads |-> "idle"]
        /\ elem = [t \in Threads |-> Nothing]
        /\ r = [w \in Writers |-> FALSE]
        /\ puts = 0 /\ flushes = 0
        /\ overlap = [t \in Readers |-> FALSE]

Goto(t, from, to) == pc[t] = from /\ pc' = [pc EXCEPT ![t] = to]

Lock(t, from, to) == /\ Goto(t, from, to)
                     /\ mutex = Nothing
                     /\ mutex' = t

\* History of a call of thread t: which readers' calls does a put overlap?
NoteOverlap(t) == overlap' = [u \in Readers |->
                                IF t = u THEN \E w \in Writers : pc[w] # "idle"
                                ELSE overlap[u] \/ (t \in Writers /\ pc[u] # "idle")]

-----------------------------------------------------------------------------
(* seqQueueGetF *)

GetCall(t) == /\ Goto(t, "idle", "testEmpty")
              /\ elem' = [elem EXCEPT ![t] = Nothing]
              /\ NoteOverlap(t)
              /\ UNCHANGED <<shared, r, puts, flushes>>

GetTestEmpty(t) == /\ Goto(t, "testEmpty", IF wr = rd THEN "testOverflow" ELSE "copy")
                   /\ UNCHANGED <<shared, elem, r, puts, flushes, overlap>>

GetTestOverflow(t) == /\ Goto(t, "testOverflow", IF overflow THEN "lockGet" ELSE "missed")
                      /\ UNCHANGED <<shared, elem, r, puts, flushes, overlap>>

Copy(t, from, to) == /\ Goto(t, from, to)
                     /\ elem' = [elem EXCEPT ![t] = buffer[rd]]
                     /\ UNCHANGED <<shared, r, puts, flushes, overlap>>

GetCopy(t) == Copy(t, "copy", "advance")

GetAdvance(t) == /\ Goto(t, "advance", "got")
                 /\ rd' = Next1(rd)
                 /\ UNCHANGED <<wr, overflow, mutex, buffer, elem, r, puts, flushes, overlap>>

GetLock(t) == /\ Lock(t, "lockGet", "copyLocked")
              /\ UNCHANGED <<wr, rd, overflow, buffer, elem, r, puts, flushes, overlap>>

GetCopyLocked(t) == Copy(t, "copyLocked", "checkAgain")

\* without the second check
GetCheckOnce(t) == /\ Goto(t, "checkAgain", "got")
                   /\ overflow' = FALSE
                   /\ mutex' = Nothing
                   /\ UNCHANGED <<wr, rd, buffer, elem, r, puts, flushes, overlap>>

\* Check again, since a put might have intervened; then unlock.
GetCheckAgain(t) == /\ Goto(t, "checkAgain", "got")
                    /\ IF wr = rd /\ overflow
                       THEN overflow' = FALSE /\ UNCHANGED rd
                       ELSE rd' = Next1(rd) /\ UNCHANGED overflow
                    /\ mutex' = Nothing
                    /\ UNCHANGED <<wr, buffer, elem, r, puts, flushes, overlap>>

GetReturn(t) == /\ pc[t] \in {"got", "missed"}
                /\ pc' = [pc EXCEPT ![t] = "idle"]
                /\ elem' = [elem EXCEPT ![t] = Nothing]
                /\ UNCHANGED <<shared, r, puts, flushes, overlap>>

-----------------------------------------------------------------------------
(* seqQueuePutF: the n-th put puts the number n. *)

PutCall(w) == /\ puts < MaxPuts
              /\ Goto(w, "idle", "testFull")
              /\ puts' = puts + 1
              /\ elem' = [elem EXCEPT ![w] = puts + 1]
              /\ r' = [r EXCEPT ![w] = FALSE]
              /\ NoteOverlap(w)
              /\ UNCHANGED <<shared, flushes>>

PutTestOverflow(w) == /\ Goto(w, "testFull", IF overflow THEN "lockPut" ELSE "testNext")
                      /\ UNCHANGED <<shared, elem, r, puts, flushes, overlap>>

\* the path without the mutex taken whenever the overflow flag is clear
PutTestNextNever(w) == /\ Goto(w, "testNext", "store")
                       /\ UNCHANGED <<shared, elem, r, puts, flushes, overlap>>

PutTestNext(w) == /\ Goto(w, "testNext", IF Next1(wr) = rd THEN "lockPut" ELSE "store")
                  /\ UNCHANGED <<shared, elem, r, puts, flushes, overlap>>

Store(w, from, to) == /\ Goto(w, from, to)
                      /\ buffer' = [buffer EXCEPT ![wr] = elem[w]]
                      /\ UNCHANGED <<wr, rd, overflow, mutex, elem, r, puts, flushes, overlap>>

PutStore(w) == Store(w, "store", "publish")

PutPublish(w) == /\ Goto(w, "publish", "put")
                 /\ wr' = Next1(wr)
                 /\ UNCHANGED <<rd, overflow, mutex, buffer, elem, r, puts, flushes, overlap>>

PutLock(w) == /\ Lock(w, "lockPut", "testNextLocked")
              /\ UNCHANGED <<wr, rd, overflow, buffer, elem, r, puts, flushes, overlap>>

\* No room: the slot at wr holds the last element. If it held one already,
\* this put overwrites it.
PutTestNextLocked(w) == LET full == Next1(wr) = rd
                            overwrites == full /\ overflow
                        IN /\ Goto(w, "testNextLocked", IF ~full THEN "room"
                                                        ELSE IF overwrites THEN "storeLocked" ELSE "setOverflow")
                           /\ r' = [r EXCEPT ![w] = overwrites]
                           /\ UNCHANGED <<shared, elem, puts, flushes, overlap>>

PutSetOverflow(w) == /\ Goto(w, "setOverflow", "storeLocked")
                     /\ overflow' = TRUE
                     /\ UNCHANGED <<wr, rd, mutex, buffer, elem, r, puts, flushes, overlap>>

\* A get since the last put: the slot at wr becomes an ordinary one.
PutRoom(w) == /\ Goto(w, "room", IF overflow THEN "testStillFull" ELSE "storeLocked")
              /\ wr' = IF overflow THEN Next1(wr) ELSE wr
              /\ UNCHANGED <<rd, overflow, mutex, buffer, elem, r, puts, flushes, overlap>>

PutTestStillFull(w) == /\ Goto(w, "testStillFull", "storeLocked")
                       /\ overflow' = (Next1(wr) = rd)
                       /\ UNCHANGED <<wr, rd, mutex, buffer, elem, r, puts, flushes, overlap>>

PutStoreLocked(w) == Store(w, "storeLocked", "unlockPut")

PutUnlock(w) == /\ Goto(w, "unlockPut", "put")
                /\ mutex' = Nothing
                /\ wr' = IF overflow THEN wr ELSE Next1(wr)
                /\ UNCHANGED <<rd, overflow, buffer, elem, r, puts, flushes, overlap>>

PutReturn(w) == /\ Goto(w, "put", "idle")
                /\ elem' = [elem EXCEPT ![w] = Nothing]
                /\ UNCHANGED <<shared, r, puts, flushes, overlap>>

-----------------------------------------------------------------------------
(* seqQueueFlush *)

FlushCall(t) == /\ flushes < MaxFlushes
                /\ Goto(t, "idle", "lockFlush")
                /\ flushes' = flushes + 1
                /\ NoteOverlap(t)
                /\ UNCHANGED <<shared, elem, r, puts>>

FlushLock(t) == /\ Lock(t, "lockFlush", "moveRd")
                /\ UNCHANGED <<wr, rd, overflow, buffer, elem, r, puts, flushes, overlap>>

FlushMoveRd(t) == /\ Goto(t, "moveRd", "clearOverflow")
                  /\ rd' = wr
                  /\ UNCHANGED <<wr, overflow, mutex, buffer, elem, r, puts, flushes, overlap>>

FlushClearOverflow(t) == /\ Goto(t, "clearOverflow", "flushed")
                         /\ overflow' = FALSE
                         /\ mutex' = Nothing
                         /\ UNCHANGED <<wr, rd, buffer, elem, r, puts, flushes, overlap>>

FlushReturn(t) == /\ Goto(t, "flushed", "idle")
                  /\ UNCHANGED <<shared, elem, r, puts, flushes, overlap>>

-----------------------------------------------------------------------------
Get(t) == \/ GetCall(t) \/ GetTestEmpty(t) \/ GetTestOverflow(t) \/ GetCopy(t) \/ GetAdvance(t)
          \/ GetLock(t) \/ GetCopyLocked(t) \/ GetCheckAgain(t) \/ GetReturn(t)

Put(w) == \/ PutCall(w) \/ PutTestOverflow(w) \/ PutTestNext(w) \/ PutStore(w) \/ PutPublish(w)
          \/ PutLock(w) \/ PutTestNextLocked(w) \/ PutSetOverflow(w) \/ PutRoom(w) \/ PutTestStillFull(w)
          \/ PutStoreLocked(w) \/ PutUnlock(w) \/ PutReturn(w)

Flush(t) == FlushCall(t) \/ FlushLock(t) \/ FlushMoveRd(t) \/ FlushClearOverflow(t) \/ FlushReturn(t)

Next == \/ \E t \in Readers : Get(t) \/ Flush(t)
        \/ \E w \in Writers : Put(w)

Spec == Init /\ [][Next]_vars

-----------------------------------------------------------------------------
(* Properties *)

GetSteps    == {"testEmpty", "testOverflow", "copy", "advance", "lockGet", "copyLocked", "checkAgain"}
FlushSteps  == {"lockFlush", "moveRd"}
ReaderSteps == {"idle", "got", "missed", "clearOverflow", "flushed"} \cup GetSteps \cup FlushSteps
WriterSteps == {"idle", "testFull", "testNext", "store", "publish", "lockPut",
                "testNextLocked", "room", "setOverflow", "testStillFull", "storeLocked", "unlockPut", "put"}

\* All variables have values of their types; rd and wr stay in the ring (seqQueueInvariant).
TypeOK == /\ wr \in Slots /\ rd \in Slots
          /\ overflow \in BOOLEAN
          /\ mutex \in Threads \cup {Nothing}
          /\ buffer \in [Slots -> 1 .. MaxPuts \cup {Nothing}]
          /\ elem \in [Threads -> 1 .. MaxPuts \cup {Nothing}]
          /\ r \in [Writers -> BOOLEAN]
          /\ puts \in 0 .. MaxPuts /\ flushes \in 0 .. MaxFlushes
          /\ pc \in [Threads -> ReaderSteps \cup WriterSteps]
          /\ \A t \in Readers : pc[t] \in ReaderSteps
          /\ \A w \in Writers : pc[w] \in WriterSteps
          /\ overlap \in [Readers -> BOOLEAN]

\* The queue that the ring stands for. Between its tests and its last write
\* a writer may have moved wr without having put its element (testStillFull);
\* an overflow flag that a flush is about to clear counts for nothing.
Used == (numElems + wr - rd) % numElems

LastElement == LET storing == {w \in Writers : pc[w] = "storeLocked"}
               IN IF ~overflow \/ \E t \in Threads : pc[t] \in {"testStillFull", "clearOverflow"}
                  THEN << >>
                  ELSE << IF storing # {} THEN elem[CHOOSE w \in storing : TRUE] ELSE buffer[wr] >>

Contents == [i \in 1 .. Used |-> buffer[(rd + i - 1) % numElems]] \o LastElement

\* Has the operation of thread t taken effect, and which one is it?
CallOf(t) == CASE pc[t] = "idle" -> "idle"
               [] pc[t] \in GetSteps -> "get"
               [] pc[t] \in FlushSteps -> "flush"
               [] pc[t] \in {"got", "missed", "clearOverflow", "flushed", "put"} -> "done"
               [] pc[t] \in {"storeLocked", "unlockPut"} -> IF overflow THEN "done" ELSE "put"
               [] OTHER -> "put"

ItemOf(t) == IF t \in Readers /\ pc[t] # "got" THEN Nothing ELSE elem[t]

Promised == INSTANCE BoundedQueue
  WITH Capacity <- numElems, Values <- 1 .. MaxPuts, queue <- Contents,
       call <- [t \in Threads |-> CallOf(t)], item <- [t \in Threads |-> ItemOf(t)], lost <- r

\* With one reader and one writer, elements come out in the order they went in,
\* exactly those are lost of which a put says so (the concurrent test of queueTest.c),
\* and a get that no put overlaps finds the element that is there.
ImplementsQueue == Promised!Spec

\* A writer on the path without the mutex still has room for its element in the
\* ring, whatever the reader has done since the writer looked.
RoomForStore == \A w \in Writers : pc[w] \in {"store", "publish"} => ~overflow /\ Next1(wr) # rd
=============================================================================
