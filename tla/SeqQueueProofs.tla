--------------------------- MODULE SeqQueueProofs ---------------------------
(***************************************************************************)
(* For every number of slots: with one reader and one writer, as the       *)
(* header of seq_queue.h demands, wr and rd stay in the ring and the       *)
(* writer that works without the mutex never runs into the reader.         *)
(*                                                                         *)
(* The invariant RoomForStore is not inductive. Whether a step of the      *)
(* reader keeps the writer's room depends on what the reader knew of wr    *)
(* when it moves rd (ReaderKnows), and that, in turn, on the writer only   *)
(* moving wr when it has seen room (WriterKnows).                          *)
(*                                                                         *)
(* From there the ring implements BoundedQueue. The lemmas about Ring say  *)
(* what moving rd or wr and storing at wr do to the sequence the ring      *)
(* stands for; those named MapsTo... say when a step is the step of        *)
(* BoundedQueue; Knowledge is what a thread knows when it takes it.        *)
(*                                                                         *)
(* The last part is about SeqSyncQ, with many writers: what pvGetQ has     *)
(* found under the lock of the program is still so when it clears the      *)
(* event flag (SyncInv).                                                   *)
(***************************************************************************)
EXTENDS SeqSyncQ, SequenceTheorems, TLAPS

OneReader == \A t, u \in Readers : t = u
OneReaderOneWriter == OneReader /\ \A w, x \in Writers : w = x

\* The mutex is held by the thread that is between lock and unlock.
LockedSteps == {"copyLocked", "checkAgain", "moveRd", "clearOverflow", "testNextLocked", "room",
                "setOverflow", "testStillFull", "storeLocked", "unlockPut"}

MutexInv == \A t \in Threads : pc[t] \in LockedSteps <=> mutex = t

\* What the writer knows at each step: the overflow flag, and room in the ring.
WriterKnows == \A w \in Writers :
  /\ pc[w] = "testNext" => ~overflow
  /\ pc[w] \in {"store", "publish"} => ~overflow /\ Next1(wr) # rd
  /\ pc[w] = "room" => Next1(wr) # rd
  /\ pc[w] \in {"storeLocked", "unlockPut"} => overflow \/ Next1(wr) # rd

\* What the reader knows: there is an element to take. While it waits for the mutex,
\* the writer may be about to turn the overflow flag into a step of wr.
ReaderKnows == \A t \in Readers :
  /\ pc[t] \in {"copy", "advance"} => wr # rd
  /\ pc[t] \in {"copyLocked", "checkAgain"} => overflow \/ wr # rd
  /\ pc[t] = "lockGet" => \/ overflow \/ wr # rd
                          \/ \E w \in Writers : pc[w] \in {"storeLocked", "unlockPut"}

IInv == TypeOK /\ MutexInv /\ WriterKnows /\ ReaderKnows

-----------------------------------------------------------------------------
(* (i + 1) % numElems stays in the ring, is injective, and moves i unless the *)
(* ring has one slot.                                                         *)
LEMMA Next1Lemma ==
  /\ \A i \in Slots : Next1(i) \in Slots
  /\ \A i, j \in Slots : Next1(i) = Next1(j) => i = j
  /\ \A i, j \in Slots : Next1(i) # j => Next1(i) # i
  BY NumElemsAssumption, SMT DEF Slots, Next1

THEOREM InitIInv == Init => IInv
  <1> SUFFICES ASSUME Init PROVE IInv
    OBVIOUS
  <1>1. TypeOK
    <2>1. wr \in Slots /\ rd \in Slots
      BY NumElemsAssumption DEF Init, Slots
    <2>2. pc \in [Threads -> ReaderSteps \cup WriterSteps]
      BY DEF Init, ReaderSteps, WriterSteps
    <2>3. /\ \A t \in Readers : pc[t] \in ReaderSteps
          /\ \A w \in Writers : pc[w] \in WriterSteps
      BY DEF Init, Threads, ReaderSteps, WriterSteps
    <2>4. puts \in 0 .. MaxPuts /\ flushes \in 0 .. MaxFlushes
      BY BoundsAssumption DEF Init
    <2>5. /\ overflow \in BOOLEAN
          /\ mutex \in Threads \cup {Nothing}
          /\ buffer \in [Slots -> 1 .. MaxPuts \cup {Nothing}]
          /\ elem \in [Threads -> 1 .. MaxPuts \cup {Nothing}]
          /\ r \in [Writers -> BOOLEAN]
          /\ overlap \in [Readers -> BOOLEAN]
      BY DEF Init
    <2> QED BY <2>1, <2>2, <2>3, <2>4, <2>5 DEF TypeOK
  <1>2. MutexInv
    BY ThreadsAssumption DEF Init, MutexInv, LockedSteps, Threads
  <1>3. WriterKnows /\ ReaderKnows
    BY DEF Init, WriterKnows, ReaderKnows, Threads
  <1> QED BY <1>1, <1>2, <1>3 DEF IInv

LEMMA ReaderStep ==
  ASSUME OneReaderOneWriter, IInv, NEW t \in Readers, Get(t) \/ Flush(t)
  PROVE  IInv'
  <1> USE DEF OneReaderOneWriter, OneReader
  <1>1. CASE GetCall(t)
    <2>1. TypeOK'
      <3>1. overlap' \in [Readers -> BOOLEAN]
        BY <1>1, Zenon DEF IInv, TypeOK, GetCall, NoteOverlap
      <3>2. puts' \in 0 .. MaxPuts /\ flushes' \in 0 .. MaxFlushes
        BY <1>1, BoundsAssumption DEF IInv, TypeOK, GetCall
      <3>3. elem' \in [Threads -> 1 .. MaxPuts \cup {Nothing}] /\ r' \in [Writers -> BOOLEAN]
        BY <1>1, BoundsAssumption DEF IInv, TypeOK, GetCall, Threads
      <3>4. /\ wr' \in Slots /\ rd' \in Slots
            /\ overflow' \in BOOLEAN
            /\ mutex' \in Threads \cup {Nothing}
            /\ buffer' \in [Slots -> 1 .. MaxPuts \cup {Nothing}]
        BY <1>1 DEF IInv, TypeOK, GetCall, shared
      <3>5. /\ pc' \in [Threads -> ReaderSteps \cup WriterSteps]
            /\ \A u \in Readers : pc'[u] \in ReaderSteps
            /\ \A x \in Writers : pc'[x] \in WriterSteps
        BY <1>1, ThreadsAssumption DEF IInv, TypeOK, GetCall, Goto, Threads, ReaderSteps, WriterSteps, GetSteps, FlushSteps
      <3> QED BY <3>1, <3>2, <3>3, <3>4, <3>5 DEF TypeOK
    <2>2. MutexInv'
      BY <1>1, ThreadsAssumption
      DEF IInv, TypeOK, MutexInv, LockedSteps, GetCall, Goto, NoteOverlap, shared, Threads
    <2>3. WriterKnows'
      BY <1>1, Next1Lemma, ThreadsAssumption
      DEF IInv, TypeOK, MutexInv, LockedSteps, WriterKnows, ReaderKnows, GetCall, Goto, NoteOverlap, shared, Threads
    <2>4. ReaderKnows'
      BY <1>1, Next1Lemma, ThreadsAssumption
      DEF IInv, TypeOK, MutexInv, LockedSteps, WriterKnows, ReaderKnows, GetCall, Goto, NoteOverlap, shared, Threads
    <2> QED BY <2>1, <2>2, <2>3, <2>4 DEF IInv
  <1>2. CASE GetTestEmpty(t)
    <2>1. TypeOK'
      BY <1>2, Next1Lemma, NumElemsAssumption, BoundsAssumption
      DEF IInv, TypeOK, GetTestEmpty, Goto, shared, Threads, Slots, ReaderSteps, WriterSteps, GetSteps, FlushSteps
    <2>2. (MutexInv /\ WriterKnows /\ ReaderKnows)'
      BY <1>2, Next1Lemma, ThreadsAssumption
      DEF IInv, TypeOK, MutexInv, LockedSteps, WriterKnows, ReaderKnows, GetTestEmpty, Goto, shared, Threads
    <2> QED BY <2>1, <2>2 DEF IInv
  <1>3. CASE GetTestOverflow(t)
    <2>1. TypeOK'
      BY <1>3, Next1Lemma, NumElemsAssumption, BoundsAssumption
      DEF IInv, TypeOK, GetTestOverflow, Goto, shared, Threads, Slots, ReaderSteps, WriterSteps, GetSteps, FlushSteps
    <2>2. (MutexInv /\ WriterKnows /\ ReaderKnows)'
      BY <1>3, Next1Lemma, ThreadsAssumption
      DEF IInv, TypeOK, MutexInv, LockedSteps, WriterKnows, ReaderKnows, GetTestOverflow, Goto, shared, Threads
    <2> QED BY <2>1, <2>2 DEF IInv
  <1>4. CASE GetCopy(t)
    <2>1. TypeOK'
      BY <1>4, Next1Lemma, NumElemsAssumption, BoundsAssumption
      DEF IInv, TypeOK, GetCopy, Copy, Goto, shared, Threads, Slots, ReaderSteps, WriterSteps, GetSteps, FlushSteps
    <2>2. (MutexInv /\ WriterKnows /\ ReaderKnows)'
      BY <1>4, Next1Lemma, ThreadsAssumption
      DEF IInv, TypeOK, MutexInv, LockedSteps, WriterKnows, ReaderKnows, GetCopy, Copy, Goto, shared, Threads
    <2> QED BY <2>1, <2>2 DEF IInv
  <1>5. CASE GetAdvance(t)
    <2>1. TypeOK'
      BY <1>5, Next1Lemma, NumElemsAssumption, BoundsAssumption
      DEF IInv, TypeOK, GetAdvance, Goto, shared, Threads, Slots, ReaderSteps, WriterSteps, GetSteps, FlushSteps
    <2>2. (MutexInv /\ WriterKnows /\ ReaderKnows)'
      BY <1>5, Next1Lemma, ThreadsAssumption
      DEF IInv, TypeOK, MutexInv, LockedSteps, WriterKnows, ReaderKnows, GetAdvance, Goto, shared, Threads
    <2> QED BY <2>1, <2>2 DEF IInv
  <1>6. CASE GetLock(t)
    <2>1. TypeOK'
      BY <1>6, Next1Lemma, NumElemsAssumption, BoundsAssumption
      DEF IInv, TypeOK, GetLock, Lock, Goto, shared, Threads, Slots, ReaderSteps, WriterSteps, GetSteps, FlushSteps
    <2>2. (MutexInv /\ WriterKnows /\ ReaderKnows)'
      BY <1>6, Next1Lemma, ThreadsAssumption
      DEF IInv, TypeOK, MutexInv, LockedSteps, WriterKnows, ReaderKnows, GetLock, Lock, Goto, shared, Threads
    <2> QED BY <2>1, <2>2 DEF IInv
  <1>7. CASE GetCopyLocked(t)
    <2>1. TypeOK'
      BY <1>7, Next1Lemma, NumElemsAssumption, BoundsAssumption
      DEF IInv, TypeOK, GetCopyLocked, Copy, Goto, shared, Threads, Slots, ReaderSteps, WriterSteps, GetSteps, FlushSteps
    <2>2. (MutexInv /\ WriterKnows /\ ReaderKnows)'
      BY <1>7, Next1Lemma, ThreadsAssumption
      DEF IInv, TypeOK, MutexInv, LockedSteps, WriterKnows, ReaderKnows, GetCopyLocked, Copy, Goto, shared, Threads
    <2> QED BY <2>1, <2>2 DEF IInv
  <1>8. CASE GetCheckAgain(t)
    <2>1. TypeOK'
      <3>1. wr' \in Slots /\ rd' \in Slots
        BY <1>8, Next1Lemma DEF IInv, TypeOK, GetCheckAgain
      <3> QED BY <1>8, <3>1, NumElemsAssumption, BoundsAssumption
      DEF IInv, TypeOK, GetCheckAgain, Goto, Threads, ReaderSteps, WriterSteps, GetSteps, FlushSteps
    <2>2. (MutexInv /\ WriterKnows /\ ReaderKnows)'
      BY <1>8, Next1Lemma, ThreadsAssumption
      DEF IInv, TypeOK, MutexInv, LockedSteps, WriterKnows, ReaderKnows, GetCheckAgain, Goto, shared, Threads
    <2> QED BY <2>1, <2>2 DEF IInv
  <1>9. CASE GetReturn(t)
    <2>1. TypeOK'
      BY <1>9, Next1Lemma, NumElemsAssumption, BoundsAssumption
      DEF IInv, TypeOK, GetReturn, shared, Threads, Slots, ReaderSteps, WriterSteps, GetSteps, FlushSteps
    <2>2. (MutexInv /\ WriterKnows /\ ReaderKnows)'
      BY <1>9, Next1Lemma, ThreadsAssumption
      DEF IInv, TypeOK, MutexInv, LockedSteps, WriterKnows, ReaderKnows, GetReturn, shared, Threads
    <2> QED BY <2>1, <2>2 DEF IInv
  <1>10. CASE FlushCall(t)
    <2>1. TypeOK'
      <3>1. overlap' \in [Readers -> BOOLEAN]
        BY <1>10, Zenon DEF IInv, TypeOK, FlushCall, NoteOverlap
      <3>2. puts' \in 0 .. MaxPuts /\ flushes' \in 0 .. MaxFlushes
        BY <1>10, BoundsAssumption DEF IInv, TypeOK, FlushCall
      <3>3. elem' \in [Threads -> 1 .. MaxPuts \cup {Nothing}] /\ r' \in [Writers -> BOOLEAN]
        BY <1>10, BoundsAssumption DEF IInv, TypeOK, FlushCall, Threads
      <3>4. /\ wr' \in Slots /\ rd' \in Slots
            /\ overflow' \in BOOLEAN
            /\ mutex' \in Threads \cup {Nothing}
            /\ buffer' \in [Slots -> 1 .. MaxPuts \cup {Nothing}]
        BY <1>10 DEF IInv, TypeOK, FlushCall, shared
      <3>5. /\ pc' \in [Threads -> ReaderSteps \cup WriterSteps]
            /\ \A u \in Readers : pc'[u] \in ReaderSteps
            /\ \A x \in Writers : pc'[x] \in WriterSteps
        BY <1>10, ThreadsAssumption DEF IInv, TypeOK, FlushCall, Goto, Threads, ReaderSteps, WriterSteps, GetSteps, FlushSteps
      <3> QED BY <3>1, <3>2, <3>3, <3>4, <3>5 DEF TypeOK
    <2>2. MutexInv'
      BY <1>10, ThreadsAssumption
      DEF IInv, TypeOK, MutexInv, LockedSteps, FlushCall, Goto, NoteOverlap, shared, Threads
    <2>3. WriterKnows'
      BY <1>10, Next1Lemma, ThreadsAssumption
      DEF IInv, TypeOK, MutexInv, LockedSteps, WriterKnows, ReaderKnows, FlushCall, Goto, NoteOverlap, shared, Threads
    <2>4. ReaderKnows'
      BY <1>10, Next1Lemma, ThreadsAssumption
      DEF IInv, TypeOK, MutexInv, LockedSteps, WriterKnows, ReaderKnows, FlushCall, Goto, NoteOverlap, shared, Threads
    <2> QED BY <2>1, <2>2, <2>3, <2>4 DEF IInv
  <1>11. CASE FlushLock(t)
    <2>1. TypeOK'
      BY <1>11, Next1Lemma, NumElemsAssumption, BoundsAssumption
      DEF IInv, TypeOK, FlushLock, Lock, Goto, shared, Threads, Slots, ReaderSteps, WriterSteps, GetSteps, FlushSteps
    <2>2. (MutexInv /\ WriterKnows /\ ReaderKnows)'
      BY <1>11, Next1Lemma, ThreadsAssumption
      DEF IInv, TypeOK, MutexInv, LockedSteps, WriterKnows, ReaderKnows, FlushLock, Lock, Goto, shared, Threads
    <2> QED BY <2>1, <2>2 DEF IInv
  <1>12. CASE FlushMoveRd(t)
    <2>1. TypeOK'
      BY <1>12, Next1Lemma, NumElemsAssumption, BoundsAssumption
      DEF IInv, TypeOK, FlushMoveRd, Goto, shared, Threads, Slots, ReaderSteps, WriterSteps, GetSteps, FlushSteps
    <2>2. (MutexInv /\ WriterKnows /\ ReaderKnows)'
      BY <1>12, Next1Lemma, ThreadsAssumption
      DEF IInv, TypeOK, MutexInv, LockedSteps, WriterKnows, ReaderKnows, FlushMoveRd, Goto, shared, Threads
    <2> QED BY <2>1, <2>2 DEF IInv
  <1>13. CASE FlushClearOverflow(t)
    <2>1. TypeOK'
      BY <1>13, Next1Lemma, NumElemsAssumption, BoundsAssumption
      DEF IInv, TypeOK, FlushClearOverflow, Goto, shared, Threads, Slots, ReaderSteps, WriterSteps, GetSteps, FlushSteps
    <2>2. (MutexInv /\ WriterKnows /\ ReaderKnows)'
      BY <1>13, Next1Lemma, ThreadsAssumption
      DEF IInv, TypeOK, MutexInv, LockedSteps, WriterKnows, ReaderKnows, FlushClearOverflow, Goto, shared, Threads
    <2> QED BY <2>1, <2>2 DEF IInv
  <1>14. CASE FlushReturn(t)
    <2>1. TypeOK'
      BY <1>14, Next1Lemma, NumElemsAssumption, BoundsAssumption
      DEF IInv, TypeOK, FlushReturn, Goto, shared, Threads, Slots, ReaderSteps, WriterSteps, GetSteps, FlushSteps
    <2>2. (MutexInv /\ WriterKnows /\ ReaderKnows)'
      BY <1>14, Next1Lemma, ThreadsAssumption
      DEF IInv, TypeOK, MutexInv, LockedSteps, WriterKnows, ReaderKnows, FlushReturn, Goto, shared, Threads
    <2> QED BY <2>1, <2>2 DEF IInv
  <1> QED BY <1>1, <1>2, <1>3, <1>4, <1>5, <1>6, <1>7, <1>8, <1>9, <1>10, <1>11, <1>12, <1>13, <1>14 DEF Get, Flush

LEMMA WriterStep ==
  ASSUME OneReaderOneWriter, IInv, NEW w \in Writers, Put(w)
  PROVE  IInv'
  <1> USE DEF OneReaderOneWriter, OneReader
  <1>1. CASE PutCall(w)
    <2>1. TypeOK'
      <3>1. overlap' \in [Readers -> BOOLEAN]
        BY <1>1, Zenon DEF IInv, TypeOK, PutCall, NoteOverlap
      <3>2. puts' \in 0 .. MaxPuts /\ flushes' \in 0 .. MaxFlushes
        BY <1>1, BoundsAssumption DEF IInv, TypeOK, PutCall
      <3>3. elem' \in [Threads -> 1 .. MaxPuts \cup {Nothing}] /\ r' \in [Writers -> BOOLEAN]
        BY <1>1, BoundsAssumption DEF IInv, TypeOK, PutCall, Threads
      <3>4. /\ wr' \in Slots /\ rd' \in Slots
            /\ overflow' \in BOOLEAN
            /\ mutex' \in Threads \cup {Nothing}
            /\ buffer' \in [Slots -> 1 .. MaxPuts \cup {Nothing}]
        BY <1>1 DEF IInv, TypeOK, PutCall, shared
      <3>5. /\ pc' \in [Threads -> ReaderSteps \cup WriterSteps]
            /\ \A u \in Readers : pc'[u] \in ReaderSteps
            /\ \A x \in Writers : pc'[x] \in WriterSteps
        BY <1>1, ThreadsAssumption DEF IInv, TypeOK, PutCall, Goto, Threads, ReaderSteps, WriterSteps, GetSteps, FlushSteps
      <3> QED BY <3>1, <3>2, <3>3, <3>4, <3>5 DEF TypeOK
    <2>2. MutexInv'
      BY <1>1, ThreadsAssumption
      DEF IInv, TypeOK, MutexInv, LockedSteps, PutCall, Goto, NoteOverlap, shared, Threads
    <2>3. WriterKnows'
      BY <1>1, Next1Lemma, ThreadsAssumption
      DEF IInv, TypeOK, MutexInv, LockedSteps, WriterKnows, ReaderKnows, PutCall, Goto, NoteOverlap, shared, Threads
    <2>4. ReaderKnows'
      BY <1>1, Next1Lemma, ThreadsAssumption
      DEF IInv, TypeOK, MutexInv, LockedSteps, WriterKnows, ReaderKnows, PutCall, Goto, NoteOverlap, shared, Threads
    <2> QED BY <2>1, <2>2, <2>3, <2>4 DEF IInv
  <1>2. CASE PutTestOverflow(w)
    <2>1. TypeOK'
      BY <1>2, Next1Lemma, NumElemsAssumption, BoundsAssumption
      DEF IInv, TypeOK, PutTestOverflow, Goto, shared, Threads, Slots, ReaderSteps, WriterSteps, GetSteps, FlushSteps
    <2>2. (MutexInv /\ WriterKnows /\ ReaderKnows)'
      BY <1>2, Next1Lemma, ThreadsAssumption
      DEF IInv, TypeOK, MutexInv, LockedSteps, WriterKnows, ReaderKnows, PutTestOverflow, Goto, shared, Threads
    <2> QED BY <2>1, <2>2 DEF IInv
  <1>3. CASE PutTestNext(w)
    <2>1. TypeOK'
      BY <1>3, Next1Lemma, NumElemsAssumption, BoundsAssumption
      DEF IInv, TypeOK, PutTestNext, Goto, shared, Threads, Slots, ReaderSteps, WriterSteps, GetSteps, FlushSteps
    <2>2. (MutexInv /\ WriterKnows /\ ReaderKnows)'
      BY <1>3, Next1Lemma, ThreadsAssumption
      DEF IInv, TypeOK, MutexInv, LockedSteps, WriterKnows, ReaderKnows, PutTestNext, Goto, shared, Threads
    <2> QED BY <2>1, <2>2 DEF IInv
  <1>4. CASE PutStore(w)
    <2>1. TypeOK'
      BY <1>4, Next1Lemma, NumElemsAssumption, BoundsAssumption
      DEF IInv, TypeOK, PutStore, Store, Goto, shared, Threads, Slots, ReaderSteps, WriterSteps, GetSteps, FlushSteps
    <2>2. (MutexInv /\ WriterKnows /\ ReaderKnows)'
      BY <1>4, Next1Lemma, ThreadsAssumption
      DEF IInv, TypeOK, MutexInv, LockedSteps, WriterKnows, ReaderKnows, PutStore, Store, Goto, shared, Threads
    <2> QED BY <2>1, <2>2 DEF IInv
  <1>5. CASE PutPublish(w)
    <2>1. TypeOK'
      BY <1>5, Next1Lemma, NumElemsAssumption, BoundsAssumption
      DEF IInv, TypeOK, PutPublish, Goto, shared, Threads, Slots, ReaderSteps, WriterSteps, GetSteps, FlushSteps
    <2>2. (MutexInv /\ WriterKnows /\ ReaderKnows)'
      BY <1>5, Next1Lemma, ThreadsAssumption
      DEF IInv, TypeOK, MutexInv, LockedSteps, WriterKnows, ReaderKnows, PutPublish, Goto, shared, Threads
    <2> QED BY <2>1, <2>2 DEF IInv
  <1>6. CASE PutLock(w)
    <2>1. TypeOK'
      BY <1>6, Next1Lemma, NumElemsAssumption, BoundsAssumption
      DEF IInv, TypeOK, PutLock, Lock, Goto, shared, Threads, Slots, ReaderSteps, WriterSteps, GetSteps, FlushSteps
    <2>2. (MutexInv /\ WriterKnows /\ ReaderKnows)'
      BY <1>6, Next1Lemma, ThreadsAssumption
      DEF IInv, TypeOK, MutexInv, LockedSteps, WriterKnows, ReaderKnows, PutLock, Lock, Goto, shared, Threads
    <2> QED BY <2>1, <2>2 DEF IInv
  <1>7. CASE PutTestNextLocked(w)
    <2>1. TypeOK'
      BY <1>7, Next1Lemma, NumElemsAssumption, BoundsAssumption
      DEF IInv, TypeOK, PutTestNextLocked, Goto, shared, Threads, Slots, ReaderSteps, WriterSteps, GetSteps, FlushSteps
    <2>2. (MutexInv /\ WriterKnows /\ ReaderKnows)'
      BY <1>7, Next1Lemma, ThreadsAssumption
      DEF IInv, TypeOK, MutexInv, LockedSteps, WriterKnows, ReaderKnows, PutTestNextLocked, Goto, shared, Threads
    <2> QED BY <2>1, <2>2 DEF IInv
  <1>8. CASE PutSetOverflow(w)
    <2>1. TypeOK'
      BY <1>8, Next1Lemma, NumElemsAssumption, BoundsAssumption
      DEF IInv, TypeOK, PutSetOverflow, Goto, shared, Threads, Slots, ReaderSteps, WriterSteps, GetSteps, FlushSteps
    <2>2. (MutexInv /\ WriterKnows /\ ReaderKnows)'
      BY <1>8, Next1Lemma, ThreadsAssumption
      DEF IInv, TypeOK, MutexInv, LockedSteps, WriterKnows, ReaderKnows, PutSetOverflow, Goto, shared, Threads
    <2> QED BY <2>1, <2>2 DEF IInv
  <1>9. CASE PutRoom(w)
    <2>1. TypeOK'
      BY <1>9, Next1Lemma, NumElemsAssumption, BoundsAssumption
      DEF IInv, TypeOK, PutRoom, Goto, shared, Threads, Slots, ReaderSteps, WriterSteps, GetSteps, FlushSteps
    <2>2. (MutexInv /\ WriterKnows /\ ReaderKnows)'
      BY <1>9, Next1Lemma, ThreadsAssumption
      DEF IInv, TypeOK, MutexInv, LockedSteps, WriterKnows, ReaderKnows, PutRoom, Goto, shared, Threads
    <2> QED BY <2>1, <2>2 DEF IInv
  <1>10. CASE PutTestStillFull(w)
    <2>1. TypeOK'
      BY <1>10, Next1Lemma, NumElemsAssumption, BoundsAssumption
      DEF IInv, TypeOK, PutTestStillFull, Goto, shared, Threads, Slots, ReaderSteps, WriterSteps, GetSteps, FlushSteps
    <2>2. (MutexInv /\ WriterKnows /\ ReaderKnows)'
      BY <1>10, Next1Lemma, ThreadsAssumption
      DEF IInv, TypeOK, MutexInv, LockedSteps, WriterKnows, ReaderKnows, PutTestStillFull, Goto, shared, Threads
    <2> QED BY <2>1, <2>2 DEF IInv
  <1>11. CASE PutStoreLocked(w)
    <2>1. TypeOK'
      BY <1>11, Next1Lemma, NumElemsAssumption, BoundsAssumption
      DEF IInv, TypeOK, PutStoreLocked, Store, Goto, shared, Threads, Slots, ReaderSteps, WriterSteps, GetSteps, FlushSteps
    <2>2. (MutexInv /\ WriterKnows /\ ReaderKnows)'
      BY <1>11, Next1Lemma, ThreadsAssumption
      DEF IInv, TypeOK, MutexInv, LockedSteps, WriterKnows, ReaderKnows, PutStoreLocked, Store, Goto, shared, Threads
    <2> QED BY <2>1, <2>2 DEF IInv
  <1>12. CASE PutUnlock(w)
    <2>1. TypeOK'
      BY <1>12, Next1Lemma, NumElemsAssumption, BoundsAssumption
      DEF IInv, TypeOK, PutUnlock, Goto, shared, Threads, Slots, ReaderSteps, WriterSteps, GetSteps, FlushSteps
    <2>2. (MutexInv /\ WriterKnows /\ ReaderKnows)'
      BY <1>12, Next1Lemma, ThreadsAssumption
      DEF IInv, TypeOK, MutexInv, LockedSteps, WriterKnows, ReaderKnows, PutUnlock, Goto, shared, Threads
    <2> QED BY <2>1, <2>2 DEF IInv
  <1>13. CASE PutReturn(w)
    <2>1. TypeOK'
      BY <1>13, Next1Lemma, NumElemsAssumption, BoundsAssumption
      DEF IInv, TypeOK, PutReturn, Goto, shared, Threads, Slots, ReaderSteps, WriterSteps, GetSteps, FlushSteps
    <2>2. (MutexInv /\ WriterKnows /\ ReaderKnows)'
      BY <1>13, Next1Lemma, ThreadsAssumption
      DEF IInv, TypeOK, MutexInv, LockedSteps, WriterKnows, ReaderKnows, PutReturn, Goto, shared, Threads
    <2> QED BY <2>1, <2>2 DEF IInv
  <1> QED BY <1>1, <1>2, <1>3, <1>4, <1>5, <1>6, <1>7, <1>8, <1>9, <1>10, <1>11, <1>12, <1>13 DEF Put

LEMMA Stutter == IInv /\ UNCHANGED vars => IInv'
  BY DEF IInv, TypeOK, MutexInv, WriterKnows, ReaderKnows, vars

(* The four parts are invariants of every queue with one reader and one writer. *)
THEOREM Invariant == ASSUME OneReaderOneWriter PROVE Spec => []IInv
  <1>1. IInv /\ [Next]_vars => IInv'
    BY ReaderStep, WriterStep, Stutter DEF Next
  <1> QED BY InitIInv, <1>1, PTL DEF Spec

(* rd and wr never leave the ring (seqQueueInvariant), whatever the number of slots. *)
THEOREM TypeCorrect == ASSUME OneReaderOneWriter PROVE Spec => []TypeOK
  BY Invariant, PTL DEF IInv

(* The writer that works without the mutex keeps its room in the ring until it has *)
(* handed over its element: it never writes a slot that the reader may read.       *)
THEOREM WriterHasRoom == ASSUME OneReaderOneWriter PROVE Spec => []RoomForStore
  <1>1. IInv => RoomForStore
    BY DEF IInv, WriterKnows, RoomForStore
  <1> QED BY Invariant, <1>1, PTL

-----------------------------------------------------------------------------
(* The slots from lo up to, and without, hi, as a sequence.                   *)
Elements == 1 .. MaxPuts \cup {Nothing}

Ring(b, lo, hi) == [i \in 1 .. (numElems + hi - lo) % numElems |-> b[(lo + i - 1) % numElems]]

Distance(lo, hi) == IF lo <= hi THEN hi - lo ELSE numElems + hi - lo

SlotAt(lo, i) == IF lo + i - 1 < numElems THEN lo + i - 1 ELSE lo + i - 1 - numElems

(* The remainders that the ring takes are at most one turn away. *)
LEMMA Modulo ==
  ASSUME NEW a \in 0 .. numElems + numElems - 1
  PROVE  a % numElems = IF a < numElems THEN a ELSE a - numElems
  <1>1. CASE a < numElems
    BY <1>1, NumElemsAssumption
  <1>2. CASE a >= numElems
    BY <1>2, NumElemsAssumption
  <1> QED BY <1>1, <1>2, NumElemsAssumption

(* The length of the ring and its elements, without remainders; the slot at hi is *)
(* never one of them.                                                             *)
LEMMA RingElements ==
  ASSUME NEW b \in [Slots -> Elements], NEW lo \in Slots, NEW hi \in Slots
  PROVE  /\ Distance(lo, hi) \in 0 .. numElems - 1
         /\ Ring(b, lo, hi) \in Seq(Elements)
         /\ Len(Ring(b, lo, hi)) = Distance(lo, hi)
         /\ \A i \in 1 .. Distance(lo, hi) : /\ Ring(b, lo, hi)[i] = b[SlotAt(lo, i)]
                                             /\ SlotAt(lo, i) \in Slots /\ SlotAt(lo, i) # hi
  <1>1. Distance(lo, hi) \in 0 .. numElems - 1
    BY NumElemsAssumption DEF Distance, Slots
  <1>2. (numElems + hi - lo) % numElems = Distance(lo, hi)
    <2> DEFINE a == numElems + hi - lo
    <2>1. a \in 0 .. numElems + numElems - 1
      BY NumElemsAssumption DEF Slots
    <2> HIDE DEF a
    <2>2. a % numElems = IF a < numElems THEN a ELSE a - numElems
      BY <2>1, Modulo
    <2>3. lo \in Nat /\ hi \in Nat /\ numElems \in Nat
      BY NumElemsAssumption DEF Slots
    <2>4. (IF a < numElems THEN a ELSE a - numElems) = Distance(lo, hi)
      BY <2>3 DEF a, Distance
    <2>5. (numElems + hi - lo) % numElems = a % numElems
      BY DEF a
    <2> QED BY <2>2, <2>4, <2>5
  <1>3. \A i \in 1 .. Distance(lo, hi) : /\ (lo + i - 1) % numElems = SlotAt(lo, i)
                                        /\ SlotAt(lo, i) \in Slots /\ SlotAt(lo, i) # hi
    <2> TAKE i \in 1 .. Distance(lo, hi)
    <2>1. i \in Nat /\ 1 <= i /\ i <= numElems - 1
      BY <1>1, NumElemsAssumption
    <2> DEFINE a == lo + i - 1
    <2>2. a \in 0 .. numElems + numElems - 1
      BY <2>1, NumElemsAssumption DEF Slots
    <2> HIDE DEF a
    <2>3. a % numElems = IF a < numElems THEN a ELSE a - numElems
      BY <2>2, Modulo
    <2>4. SlotAt(lo, i) \in Slots /\ SlotAt(lo, i) # hi
      BY <2>1, NumElemsAssumption DEF Slots, SlotAt, Distance
    <2>5. (lo + i - 1) % numElems = a % numElems
      BY DEF a
    <2>6. (IF a < numElems THEN a ELSE a - numElems) = SlotAt(lo, i)
      BY <2>1, NumElemsAssumption DEF a, SlotAt, Slots
    <2> QED BY <2>3, <2>4, <2>5, <2>6
  <1>4. Ring(b, lo, hi) = [i \in 1 .. Distance(lo, hi) |-> b[SlotAt(lo, i)]]
    BY <1>2, <1>3 DEF Ring
  <1>5. Ring(b, lo, hi) \in [1 .. Distance(lo, hi) -> Elements]
    BY <1>3, <1>4
  <1>6. Ring(b, lo, hi) \in Seq(Elements) /\ Len(Ring(b, lo, hi)) = Distance(lo, hi)
    <2>1. Ring(b, lo, hi) \in Seq(Elements)
      BY <1>1, <1>5, SeqDef
    <2> QED BY <2>1, <1>1, <1>5, LenProperties
  <1>7. \A i \in 1 .. Distance(lo, hi) : Ring(b, lo, hi)[i] = b[SlotAt(lo, i)]
    BY <1>4
  <1> QED BY <1>1, <1>3, <1>6, <1>7

(* The ring is empty when wr = rd. *)
LEMMA RingEmpty ==
  ASSUME NEW b \in [Slots -> Elements], NEW lo \in Slots, NEW hi \in Slots
  PROVE  Ring(b, lo, hi) = << >> <=> lo = hi
  <1>1. Distance(lo, hi) = 0 <=> lo = hi
    BY NumElemsAssumption DEF Distance, Slots
  <1>2. Ring(b, lo, hi) \in Seq(Elements) /\ Len(Ring(b, lo, hi)) = Distance(lo, hi)
    BY RingElements
  <1>3. Ring(b, lo, hi) = << >> <=> Len(Ring(b, lo, hi)) = 0
    BY <1>2, EmptySeq
  <1> QED BY <1>1, <1>2, <1>3

(* Moving rd takes the first element. *)
LEMMA RingTail ==
  ASSUME NEW b \in [Slots -> Elements], NEW lo \in Slots, NEW hi \in Slots, lo # hi
  PROVE  /\ Next1(lo) \in Slots
         /\ Head(Ring(b, lo, hi)) = b[lo]
         /\ Tail(Ring(b, lo, hi)) = Ring(b, Next1(lo), hi)
  <1> DEFINE q == Ring(b, lo, hi)
             t == Ring(b, Next1(lo), hi)
  <1>1. Next1(lo) \in Slots
    BY NumElemsAssumption DEF Slots, Next1
  <1>2. /\ q \in Seq(Elements) /\ Len(q) = Distance(lo, hi)
        /\ \A i \in 1 .. Distance(lo, hi) : q[i] = b[SlotAt(lo, i)]
    BY RingElements
  <1>0. q # << >>
    BY RingEmpty
  <1>3. /\ t \in Seq(Elements) /\ Len(t) = Distance(Next1(lo), hi)
        /\ \A i \in 1 .. Distance(Next1(lo), hi) : t[i] = b[SlotAt(Next1(lo), i)]
    BY <1>1, RingElements
  <1>4. /\ Distance(lo, hi) \in Nat \ {0}
        /\ Distance(Next1(lo), hi) = Distance(lo, hi) - 1
        /\ SlotAt(lo, 1) = lo
    BY NumElemsAssumption DEF Slots, Next1, Distance, SlotAt
  <1>5. \A i \in 1 .. Distance(lo, hi) - 1 : SlotAt(lo, i + 1) = SlotAt(Next1(lo), i)
    <2> TAKE i \in 1 .. Distance(lo, hi) - 1
    <2>1. i \in Nat \ {0} /\ i < numElems
      BY <1>4, RingElements, NumElemsAssumption
    <2> QED BY <2>1, NumElemsAssumption DEF Slots, Next1, SlotAt
  <1>6. Head(q) = b[lo]
    BY <1>0, <1>2, <1>4
  <1>7. /\ Tail(q) \in Seq(Elements) /\ Len(Tail(q)) = Len(q) - 1
        /\ \A i \in 1 .. Len(Tail(q)) : Tail(q)[i] = q[i + 1]
    BY <1>0, <1>2, HeadTailProperties
  <1>8. \A i \in 1 .. Len(t) : Tail(q)[i] = t[i]
    <2> TAKE i \in 1 .. Len(t)
    <2>1. i \in 1 .. Distance(lo, hi) - 1 /\ i + 1 \in 1 .. Distance(lo, hi)
      BY <1>3, <1>4
    <2> QED BY <2>1, <1>2, <1>3, <1>4, <1>5, <1>7
  <1>9. Tail(q) = t
    BY <1>2, <1>3, <1>4, <1>7, <1>8, SeqEqual
  <1> QED BY <1>1, <1>6, <1>9

(* Moving wr appends the element at wr, and leaves the queue room for one more. *)
LEMMA RingAppend ==
  ASSUME NEW b \in [Slots -> Elements], NEW lo \in Slots, NEW hi \in Slots, Next1(hi) # lo
  PROVE  /\ Ring(b, lo, Next1(hi)) = Append(Ring(b, lo, hi), b[hi])
         /\ Len(Ring(b, lo, hi)) + 1 < numElems
  <1> DEFINE q == Ring(b, lo, hi)
             p == Ring(b, lo, Next1(hi))
  <1>1. Next1(hi) \in Slots /\ b[hi] \in Elements
    BY NumElemsAssumption DEF Slots, Next1
  <1>2. /\ q \in Seq(Elements) /\ Len(q) = Distance(lo, hi)
        /\ \A i \in 1 .. Len(q) : q[i] = b[SlotAt(lo, i)]
    BY RingElements
  <1>3. /\ p \in Seq(Elements) /\ Len(p) = Distance(lo, Next1(hi))
        /\ \A i \in 1 .. Distance(lo, Next1(hi)) : p[i] = b[SlotAt(lo, i)]
    BY <1>1, RingElements
  <1>4. /\ Distance(lo, hi) \in Nat /\ Distance(lo, hi) + 1 < numElems
        /\ Distance(lo, Next1(hi)) = Distance(lo, hi) + 1
        /\ SlotAt(lo, Distance(lo, hi) + 1) = hi
    BY NumElemsAssumption DEF Slots, Next1, Distance, SlotAt
  <1>5. /\ Append(q, b[hi]) \in Seq(Elements) /\ Len(Append(q, b[hi])) = Len(q) + 1
        /\ \A i \in 1 .. Len(q) : Append(q, b[hi])[i] = q[i]
        /\ Append(q, b[hi])[Len(q) + 1] = b[hi]
    BY <1>1, <1>2, AppendProperties
  <1>6. \A i \in 1 .. Len(p) : p[i] = Append(q, b[hi])[i]
    <2> TAKE i \in 1 .. Len(p)
    <2>1. i \in 1 .. Len(q) \/ i = Len(q) + 1
      BY <1>2, <1>3, <1>4
    <2> QED BY <2>1, <1>2, <1>3, <1>4, <1>5
  <1>7. p = Append(q, b[hi])
    BY <1>2, <1>3, <1>4, <1>5, <1>6, SeqEqual
  <1> QED BY <1>2, <1>4, <1>7

(* One slot always stays free, and a ring with no room for wr to move lacks one element. *)
LEMMA RingFull ==
  ASSUME NEW b \in [Slots -> Elements], NEW lo \in Slots, NEW hi \in Slots
  PROVE  /\ Len(Ring(b, lo, hi)) < numElems
         /\ Next1(hi) = lo => Len(Ring(b, lo, hi)) = numElems - 1
  <1>1. Next1(hi) = lo => Distance(lo, hi) = numElems - 1
    BY NumElemsAssumption DEF Slots, Next1, Distance
  <1>2. Distance(lo, hi) \in 0 .. numElems - 1 /\ Len(Ring(b, lo, hi)) = Distance(lo, hi)
    BY RingElements
  <1> QED BY <1>1, <1>2, NumElemsAssumption

(* A store at wr changes no element of the ring. *)
LEMMA RingStore ==
  ASSUME NEW b \in [Slots -> Elements], NEW lo \in Slots, NEW hi \in Slots, NEW e \in Elements
  PROVE  Ring([b EXCEPT ![hi] = e], lo, hi) = Ring(b, lo, hi)
  <1> DEFINE c == [b EXCEPT ![hi] = e]
  <1>1. c \in [Slots -> Elements] /\ \A k \in Slots : k # hi => c[k] = b[k]
    OBVIOUS
  <1> HIDE DEF c
  <1>2. /\ Ring(c, lo, hi) \in Seq(Elements) /\ Len(Ring(c, lo, hi)) = Distance(lo, hi)
        /\ \A i \in 1 .. Distance(lo, hi) : Ring(c, lo, hi)[i] = c[SlotAt(lo, i)]
    BY <1>1, RingElements
  <1>3. /\ Ring(b, lo, hi) \in Seq(Elements) /\ Len(Ring(b, lo, hi)) = Distance(lo, hi)
        /\ \A i \in 1 .. Distance(lo, hi) : /\ Ring(b, lo, hi)[i] = b[SlotAt(lo, i)]
                                            /\ SlotAt(lo, i) \in Slots /\ SlotAt(lo, i) # hi
    BY RingElements
  <1>4. \A i \in 1 .. Len(Ring(c, lo, hi)) : Ring(c, lo, hi)[i] = Ring(b, lo, hi)[i]
    BY <1>1, <1>2, <1>3
  <1>5. Ring(c, lo, hi) = Ring(b, lo, hi)
    BY <1>2, <1>3, <1>4, SeqEqual
  <1> QED BY <1>5 DEF c

(* The first element of a concatenation. *)
LEMMA HeadTailConcat ==
  ASSUME NEW S, NEW s \in Seq(S), NEW t \in Seq(S), s # << >>
  PROVE  /\ s \o t # << >>
         /\ Head(s \o t) = Head(s)
         /\ Tail(s \o t) = Tail(s) \o t
  <1>1. /\ s \o t \in Seq(S) /\ Len(s \o t) = Len(s) + Len(t)
        /\ \A i \in 1 .. Len(s) + Len(t) : (s \o t)[i] = IF i <= Len(s) THEN s[i] ELSE t[i - Len(s)]
    BY ConcatProperties
  <1>2. Len(s) \in Nat \ {0} /\ Len(t) \in Nat
    BY EmptySeq, LenProperties
  <1>3. s \o t # << >>
    BY <1>1, <1>2, EmptySeq
  <1>4. Head(s \o t) = Head(s)
    BY <1>1, <1>2, <1>3
  <1>5. /\ Tail(s) \in Seq(S) /\ Len(Tail(s)) = Len(s) - 1
        /\ \A i \in 1 .. Len(Tail(s)) : Tail(s)[i] = s[i + 1]
    BY HeadTailProperties
  <1>6. /\ Tail(s \o t) \in Seq(S) /\ Len(Tail(s \o t)) = Len(s) + Len(t) - 1
        /\ \A i \in 1 .. Len(Tail(s \o t)) : Tail(s \o t)[i] = (s \o t)[i + 1]
    BY <1>1, <1>3, HeadTailProperties
  <1>7. /\ Tail(s) \o t \in Seq(S) /\ Len(Tail(s) \o t) = Len(s) - 1 + Len(t)
        /\ \A i \in 1 .. Len(s) - 1 + Len(t) :
             (Tail(s) \o t)[i] = IF i <= Len(s) - 1 THEN Tail(s)[i] ELSE t[i - (Len(s) - 1)]
    BY <1>5, ConcatProperties
  <1>8. \A i \in 1 .. Len(s) + Len(t) - 1 : Tail(s \o t)[i] = (Tail(s) \o t)[i]
    <2> TAKE i \in 1 .. Len(s) + Len(t) - 1
    <2>1. i \in Nat /\ i + 1 \in 1 .. Len(s) + Len(t) /\ i \in 1 .. Len(s) - 1 + Len(t)
      BY <1>2
    <2>2. CASE i <= Len(s) - 1
      <3>1. i \in 1 .. Len(Tail(s)) /\ i + 1 <= Len(s)
        BY <2>1, <2>2, <1>2, <1>5
      <3> QED BY <3>1, <2>1, <2>2, <1>1, <1>2, <1>5, <1>6, <1>7
    <2>3. CASE i > Len(s) - 1
      <3>1. i + 1 - Len(s) = i - (Len(s) - 1) /\ ~(i + 1 <= Len(s)) /\ ~(i <= Len(s) - 1)
        BY <2>1, <2>3, <1>2
      <3> QED BY <3>1, <2>1, <1>1, <1>2, <1>6, <1>7
    <2> QED BY <2>1, <2>2, <2>3, <1>2
  <1>9. Tail(s \o t) = Tail(s) \o t
    <2>1. Len(Tail(s \o t)) = Len(Tail(s) \o t)
      BY <1>2, <1>6, <1>7
    <2>2. \A i \in 1 .. Len(Tail(s \o t)) : Tail(s \o t)[i] = (Tail(s) \o t)[i]
      BY <1>6, <1>8
    <2> QED BY <2>1, <2>2, <1>6, <1>7, SeqEqual
  <1> QED BY <1>3, <1>4, <1>9

(* A concatenation with one element. *)
LEMMA AppendConcat ==
  ASSUME NEW S, NEW s \in Seq(S), NEW e \in S
  PROVE  Append(s, e) = s \o << e >>
  <1>1. << e >> \in Seq(S) /\ Len(<< e >>) = 1 /\ << e >>[1] = e
    OBVIOUS
  <1>2. /\ s \o << e >> \in Seq(S) /\ Len(s \o << e >>) = Len(s) + 1
        /\ \A i \in 1 .. Len(s) + 1 : (s \o << e >>)[i] = IF i <= Len(s) THEN s[i] ELSE << e >>[i - Len(s)]
    BY <1>1, ConcatProperties
  <1>3. /\ Append(s, e) \in Seq(S) /\ Len(Append(s, e)) = Len(s) + 1
        /\ \A i \in 1 .. Len(s) : Append(s, e)[i] = s[i]
        /\ Append(s, e)[Len(s) + 1] = e
    BY AppendProperties
  <1>4. Len(s) \in Nat
    BY LenProperties
  <1>5. \A i \in 1 .. Len(s) + 1 : Append(s, e)[i] = (s \o << e >>)[i]
    <2> TAKE i \in 1 .. Len(s) + 1
    <2>1. CASE i \in 1 .. Len(s)
      BY <2>1, <1>2, <1>3, <1>4
    <2>2. CASE i = Len(s) + 1
      <3>1. i - Len(s) = 1 /\ ~(i <= Len(s))
        BY <2>2, <1>4
      <3> QED BY <2>2, <3>1, <1>1, <1>2, <1>3
    <2> QED BY <2>1, <2>2, <1>4
  <1> QED BY <1>2, <1>3, <1>5, SeqEqual

(* Overwriting the last element. *)
LEMMA ReplaceLast ==
  ASSUME NEW s \in Seq(Elements), NEW d \in Elements, NEW e \in Elements, NEW n \in Nat, Len(s) = n - 1
  PROVE  [s \o << d >> EXCEPT ![n] = e] = s \o << e >>
  <1>1. ASSUME NEW x \in Elements
        PROVE  /\ s \o << x >> \in Seq(Elements) /\ Len(s \o << x >>) = n
               /\ \A i \in 1 .. n : (s \o << x >>)[i] = IF i = n THEN x ELSE s[i]
    <2>1. s \o << x >> = Append(s, x)
      BY AppendConcat
    <2>2. /\ Append(s, x) \in Seq(Elements) /\ Len(Append(s, x)) = Len(s) + 1
          /\ \A i \in 1 .. Len(s) : Append(s, x)[i] = s[i]
          /\ Append(s, x)[Len(s) + 1] = x
      BY AppendProperties
    <2>3. Len(s) \in Nat /\ Len(s) + 1 = n
      BY LenProperties
    <2> QED BY <2>1, <2>2, <2>3
  <1> DEFINE u == s \o << d >>
  <1>2. u \in Seq(Elements) /\ n \in 1 .. Len(u) /\ Len(u) = n
    BY <1>1, LenProperties
  <1> HIDE DEF u
  <1>3. /\ [u EXCEPT ![n] = e] \in Seq(Elements) /\ Len([u EXCEPT ![n] = e]) = n
        /\ \A j \in 1 .. n : [u EXCEPT ![n] = e][j] = IF j = n THEN e ELSE u[j]
    BY <1>2, ExceptSeq
  <1>4. \A j \in 1 .. n : [u EXCEPT ![n] = e][j] = (s \o << e >>)[j]
    BY <1>1, <1>3 DEF u
  <1>5. [u EXCEPT ![n] = e] = s \o << e >>
    BY <1>1, <1>3, <1>4, SeqEqual
  <1> QED BY <1>5 DEF u

-----------------------------------------------------------------------------
(* What a thread knows, beyond IInv, when its operation takes effect.         *)

\* The element that a reader copied is still the one at rd when it moves rd; the
\* reader found no element, or a put overlaps its call.
ReaderHas == \A t \in Readers :
  /\ pc[t] \in {"advance", "checkAgain"} => elem[t] = buffer[rd]
  /\ pc[t] = "testOverflow" => wr = rd \/ overlap[t]

\* The steps before the put takes effect.
Unput == {"testFull", "testNext", "store", "publish", "lockPut", "testNextLocked", "room",
          "setOverflow", "testStillFull"}

\* The element stored at wr is the writer's when it moves wr, and it has not yet
\* reported a loss.
WriterHas == \A w \in Writers :
  /\ pc[w] \in {"publish", "unlockPut"} => elem[w] = buffer[wr]
  /\ pc[w] = "setOverflow" => ~overflow
  /\ pc[w] \in Unput \/ (pc[w] \in {"storeLocked", "unlockPut"} /\ ~overflow) => ~r[w]

\* The history of overlapping calls is complete.
OverlapKnown == \A t \in Readers, w \in Writers : pc[t] # "idle" /\ pc[w] # "idle" => overlap[t]

Knowledge == IInv /\ ReaderHas /\ WriterHas /\ OverlapKnown

(* A reader keeps what both threads know. *)
LEMMA ReaderHolds ==
  ASSUME OneReaderOneWriter, Knowledge, NEW t \in Readers, Get(t) \/ Flush(t)
  PROVE  (ReaderHas /\ WriterHas /\ OverlapKnown)'
  <1> USE DEF OneReaderOneWriter, OneReader
  <1>1. CASE GetCall(t)
    BY <1>1, Next1Lemma, ThreadsAssumption
    DEF Knowledge, IInv, TypeOK, MutexInv, LockedSteps, WriterKnows, ReaderKnows, ReaderHas, WriterHas, OverlapKnown, Unput, GetCall, Goto, NoteOverlap, shared, Threads
  <1>2. CASE GetTestEmpty(t)
    BY <1>2, Next1Lemma, ThreadsAssumption
    DEF Knowledge, IInv, TypeOK, MutexInv, LockedSteps, WriterKnows, ReaderKnows, ReaderHas, WriterHas, OverlapKnown, Unput, GetTestEmpty, Goto, shared, Threads
  <1>3. CASE GetTestOverflow(t)
    BY <1>3, Next1Lemma, ThreadsAssumption
    DEF Knowledge, IInv, TypeOK, MutexInv, LockedSteps, WriterKnows, ReaderKnows, ReaderHas, WriterHas, OverlapKnown, Unput, GetTestOverflow, Goto, shared, Threads
  <1>4. CASE GetCopy(t)
    BY <1>4, Next1Lemma, ThreadsAssumption
    DEF Knowledge, IInv, TypeOK, MutexInv, LockedSteps, WriterKnows, ReaderKnows, ReaderHas, WriterHas, OverlapKnown, Unput, GetCopy, Copy, Goto, shared, Threads
  <1>5. CASE GetAdvance(t)
    BY <1>5, Next1Lemma, ThreadsAssumption
    DEF Knowledge, IInv, TypeOK, MutexInv, LockedSteps, WriterKnows, ReaderKnows, ReaderHas, WriterHas, OverlapKnown, Unput, GetAdvance, Goto, shared, Threads
  <1>6. CASE GetLock(t)
    BY <1>6, Next1Lemma, ThreadsAssumption
    DEF Knowledge, IInv, TypeOK, MutexInv, LockedSteps, WriterKnows, ReaderKnows, ReaderHas, WriterHas, OverlapKnown, Unput, GetLock, Lock, Goto, shared, Threads
  <1>7. CASE GetCopyLocked(t)
    BY <1>7, Next1Lemma, ThreadsAssumption
    DEF Knowledge, IInv, TypeOK, MutexInv, LockedSteps, WriterKnows, ReaderKnows, ReaderHas, WriterHas, OverlapKnown, Unput, GetCopyLocked, Copy, Goto, shared, Threads
  <1>8. CASE GetCheckAgain(t)
    BY <1>8, Next1Lemma, ThreadsAssumption
    DEF Knowledge, IInv, TypeOK, MutexInv, LockedSteps, WriterKnows, ReaderKnows, ReaderHas, WriterHas, OverlapKnown, Unput, GetCheckAgain, Goto, shared, Threads
  <1>9. CASE GetReturn(t)
    BY <1>9, Next1Lemma, ThreadsAssumption
    DEF Knowledge, IInv, TypeOK, MutexInv, LockedSteps, WriterKnows, ReaderKnows, ReaderHas, WriterHas, OverlapKnown, Unput, GetReturn, shared, Threads
  <1>10. CASE FlushCall(t)
    BY <1>10, Next1Lemma, ThreadsAssumption
    DEF Knowledge, IInv, TypeOK, MutexInv, LockedSteps, WriterKnows, ReaderKnows, ReaderHas, WriterHas, OverlapKnown, Unput, FlushCall, Goto, NoteOverlap, shared, Threads
  <1>11. CASE FlushLock(t)
    BY <1>11, Next1Lemma, ThreadsAssumption
    DEF Knowledge, IInv, TypeOK, MutexInv, LockedSteps, WriterKnows, ReaderKnows, ReaderHas, WriterHas, OverlapKnown, Unput, FlushLock, Lock, Goto, shared, Threads
  <1>12. CASE FlushMoveRd(t)
    BY <1>12, Next1Lemma, ThreadsAssumption
    DEF Knowledge, IInv, TypeOK, MutexInv, LockedSteps, WriterKnows, ReaderKnows, ReaderHas, WriterHas, OverlapKnown, Unput, FlushMoveRd, Goto, shared, Threads
  <1>13. CASE FlushClearOverflow(t)
    BY <1>13, Next1Lemma, ThreadsAssumption
    DEF Knowledge, IInv, TypeOK, MutexInv, LockedSteps, WriterKnows, ReaderKnows, ReaderHas, WriterHas, OverlapKnown, Unput, FlushClearOverflow, Goto, shared, Threads
  <1>14. CASE FlushReturn(t)
    BY <1>14, Next1Lemma, ThreadsAssumption
    DEF Knowledge, IInv, TypeOK, MutexInv, LockedSteps, WriterKnows, ReaderKnows, ReaderHas, WriterHas, OverlapKnown, Unput, FlushReturn, Goto, shared, Threads
  <1> QED BY <1>1, <1>2, <1>3, <1>4, <1>5, <1>6, <1>7, <1>8, <1>9, <1>10, <1>11, <1>12, <1>13, <1>14 DEF Get, Flush

(* A writer keeps what both threads know. *)
LEMMA WriterHolds ==
  ASSUME OneReaderOneWriter, Knowledge, NEW w \in Writers, Put(w)
  PROVE  (ReaderHas /\ WriterHas /\ OverlapKnown)'
  <1> USE DEF OneReaderOneWriter, OneReader
  <1>1. CASE PutCall(w)
    BY <1>1, Next1Lemma, ThreadsAssumption
    DEF Knowledge, IInv, TypeOK, MutexInv, LockedSteps, WriterKnows, ReaderKnows, ReaderHas, WriterHas, OverlapKnown, Unput, PutCall, Goto, NoteOverlap, shared, Threads
  <1>2. CASE PutTestOverflow(w)
    BY <1>2, Next1Lemma, ThreadsAssumption
    DEF Knowledge, IInv, TypeOK, MutexInv, LockedSteps, WriterKnows, ReaderKnows, ReaderHas, WriterHas, OverlapKnown, Unput, PutTestOverflow, Goto, shared, Threads
  <1>3. CASE PutTestNext(w)
    BY <1>3, Next1Lemma, ThreadsAssumption
    DEF Knowledge, IInv, TypeOK, MutexInv, LockedSteps, WriterKnows, ReaderKnows, ReaderHas, WriterHas, OverlapKnown, Unput, PutTestNext, Goto, shared, Threads
  <1>4. CASE PutStore(w)
    BY <1>4, Next1Lemma, ThreadsAssumption
    DEF Knowledge, IInv, TypeOK, MutexInv, LockedSteps, WriterKnows, ReaderKnows, ReaderHas, WriterHas, OverlapKnown, Unput, PutStore, Store, Goto, shared, Threads
  <1>5. CASE PutPublish(w)
    BY <1>5, Next1Lemma, ThreadsAssumption
    DEF Knowledge, IInv, TypeOK, MutexInv, LockedSteps, WriterKnows, ReaderKnows, ReaderHas, WriterHas, OverlapKnown, Unput, PutPublish, Goto, shared, Threads
  <1>6. CASE PutLock(w)
    BY <1>6, Next1Lemma, ThreadsAssumption
    DEF Knowledge, IInv, TypeOK, MutexInv, LockedSteps, WriterKnows, ReaderKnows, ReaderHas, WriterHas, OverlapKnown, Unput, PutLock, Lock, Goto, shared, Threads
  <1>7. CASE PutTestNextLocked(w)
    BY <1>7, Next1Lemma, ThreadsAssumption
    DEF Knowledge, IInv, TypeOK, MutexInv, LockedSteps, WriterKnows, ReaderKnows, ReaderHas, WriterHas, OverlapKnown, Unput, PutTestNextLocked, Goto, shared, Threads
  <1>8. CASE PutSetOverflow(w)
    BY <1>8, Next1Lemma, ThreadsAssumption
    DEF Knowledge, IInv, TypeOK, MutexInv, LockedSteps, WriterKnows, ReaderKnows, ReaderHas, WriterHas, OverlapKnown, Unput, PutSetOverflow, Goto, shared, Threads
  <1>9. CASE PutRoom(w)
    BY <1>9, Next1Lemma, ThreadsAssumption
    DEF Knowledge, IInv, TypeOK, MutexInv, LockedSteps, WriterKnows, ReaderKnows, ReaderHas, WriterHas, OverlapKnown, Unput, PutRoom, Goto, shared, Threads
  <1>10. CASE PutTestStillFull(w)
    BY <1>10, Next1Lemma, ThreadsAssumption
    DEF Knowledge, IInv, TypeOK, MutexInv, LockedSteps, WriterKnows, ReaderKnows, ReaderHas, WriterHas, OverlapKnown, Unput, PutTestStillFull, Goto, shared, Threads
  <1>11. CASE PutStoreLocked(w)
    BY <1>11, Next1Lemma, ThreadsAssumption
    DEF Knowledge, IInv, TypeOK, MutexInv, LockedSteps, WriterKnows, ReaderKnows, ReaderHas, WriterHas, OverlapKnown, Unput, PutStoreLocked, Store, Goto, shared, Threads
  <1>12. CASE PutUnlock(w)
    BY <1>12, Next1Lemma, ThreadsAssumption
    DEF Knowledge, IInv, TypeOK, MutexInv, LockedSteps, WriterKnows, ReaderKnows, ReaderHas, WriterHas, OverlapKnown, Unput, PutUnlock, Goto, shared, Threads
  <1>13. CASE PutReturn(w)
    BY <1>13, Next1Lemma, ThreadsAssumption
    DEF Knowledge, IInv, TypeOK, MutexInv, LockedSteps, WriterKnows, ReaderKnows, ReaderHas, WriterHas, OverlapKnown, Unput, PutReturn, Goto, shared, Threads
  <1> QED BY <1>1, <1>2, <1>3, <1>4, <1>5, <1>6, <1>7, <1>8, <1>9, <1>10, <1>11, <1>12, <1>13 DEF Put

(* What the threads know is an invariant as well. *)
LEMMA KnowledgeInvariant == ASSUME OneReaderOneWriter PROVE Spec => []Knowledge
  <1>1. Init => Knowledge
    BY InitIInv DEF Init, Knowledge, ReaderHas, WriterHas, OverlapKnown, Unput, Threads
  <1>2. Knowledge /\ [Next]_vars => Knowledge'
    <2> SUFFICES ASSUME Knowledge, [Next]_vars PROVE Knowledge'
      OBVIOUS
    <2>1. IInv'
      BY ReaderStep, WriterStep, Stutter DEF Next, Knowledge
    <2>2. CASE UNCHANGED vars
      BY <2>1, <2>2 DEF Knowledge, ReaderHas, WriterHas, OverlapKnown, vars
    <2> QED BY <2>1, <2>2, ReaderHolds, WriterHolds DEF Next, Knowledge
  <1> QED BY <1>1, <1>2, PTL DEF Spec

-----------------------------------------------------------------------------
(* The refinement mapping: the calls, the items and the contents of the queue. *)

callBar == [t \in Threads |-> CallOf(t)]
itemBar == [t \in Threads |-> ItemOf(t)]

CallTable == \A t \in Threads :
  /\ pc[t] = "idle" <=> CallOf(t) = "idle"
  /\ pc[t] \in GetSteps => CallOf(t) = "get"
  /\ pc[t] \in FlushSteps => CallOf(t) = "flush"
  /\ pc[t] \in {"got", "missed", "clearOverflow", "flushed", "put"} => CallOf(t) = "done"
  /\ pc[t] \in {"storeLocked", "unlockPut"} => CallOf(t) = IF overflow THEN "done" ELSE "put"
  /\ pc[t] \in Unput => CallOf(t) = "put"

(* The call of a thread, read off its next step. *)
LEMMA CallTableHolds == CallTable /\ CallTable'
  <1>1. CallTable
    <2> SUFFICES ASSUME NEW t \in Threads PROVE CallTable!(t)
      BY DEF CallTable
    <2>1. pc[t] = "idle" <=> CallOf(t) = "idle"
      BY DEF CallOf, GetSteps, FlushSteps
    <2>2. pc[t] \in GetSteps => CallOf(t) = "get"
      BY DEF CallOf, GetSteps, FlushSteps
    <2>3. pc[t] \in FlushSteps => CallOf(t) = "flush"
      BY DEF CallOf, GetSteps, FlushSteps
    <2>4. pc[t] \in {"got", "missed", "clearOverflow", "flushed", "put"} => CallOf(t) = "done"
      BY DEF CallOf, GetSteps, FlushSteps
    <2>5. pc[t] \in {"storeLocked", "unlockPut"} => CallOf(t) = IF overflow THEN "done" ELSE "put"
      BY DEF CallOf, GetSteps, FlushSteps
    <2>6. pc[t] \in Unput => CallOf(t) = "put"
      BY DEF CallOf, GetSteps, FlushSteps, Unput
    <2> QED BY <2>1, <2>2, <2>3, <2>4, <2>5, <2>6
  <1>2. CallTable'
    BY <1>1, PTL
  <1> QED BY <1>1, <1>2

LastTable ==
  /\ ~overflow => LastElement = << >>
  /\ \A t \in Threads : pc[t] \in {"testStillFull", "clearOverflow"} => LastElement = << >>
  /\ \A t \in Threads : overflow /\ mutex = t /\ pc[t] \notin {"testStillFull", "clearOverflow", "storeLocked"}
         => LastElement = << buffer[wr] >>
  /\ \A w \in Writers : overflow /\ pc[w] = "storeLocked" => LastElement = << elem[w] >>
  /\ LastElement \in Seq(Elements)

(* The element beyond the ring, if the overflow flag stands for one. *)
LEMMA LastTableHolds == (IInv => LastTable) /\ (IInv' => LastTable')
  <1>1. ASSUME IInv PROVE LastTable
    <2> DEFINE storing == {w \in Writers : pc[w] = "storeLocked"}
    <2>1. ~overflow => LastElement = << >>
      BY DEF LastElement
    <2>2. \A t \in Threads : pc[t] \in {"testStillFull", "clearOverflow"} => LastElement = << >>
      BY DEF LastElement
    <2>3. ASSUME NEW t \in Threads, overflow, mutex = t, pc[t] \notin {"testStillFull", "clearOverflow", "storeLocked"}
          PROVE  LastElement = << buffer[wr] >>
      <3>1. \A u \in Threads : pc[u] \notin {"testStillFull", "clearOverflow", "storeLocked"}
        BY <1>1, <2>3 DEF IInv, MutexInv, LockedSteps
      <3>2. storing = {}
        BY <3>1 DEF Threads
      <3> QED BY <2>3, <3>1, <3>2 DEF LastElement
    <2>4. ASSUME NEW w \in Writers, overflow, pc[w] = "storeLocked"
          PROVE  LastElement = << elem[w] >>
      <3>1. mutex = w
        BY <1>1, <2>4 DEF IInv, MutexInv, LockedSteps, Threads
      <3>2. \A u \in Threads : pc[u] \notin {"testStillFull", "clearOverflow"}
        BY <1>1, <2>4, <3>1 DEF IInv, MutexInv, LockedSteps
      <3>3. storing = {w}
        BY <1>1, <2>4, <3>1 DEF IInv, MutexInv, LockedSteps, Threads
      <3> HIDE DEF storing
      <3>4. (CHOOSE x \in storing : TRUE) = w
        BY <3>3
      <3> QED BY <2>4, <3>2, <3>3, <3>4 DEF LastElement, storing
    <2>5. LastElement \in Seq(Elements)
      <3>1. buffer[wr] \in Elements
        BY <1>1 DEF IInv, TypeOK, Elements
      <3>2. ASSUME storing # {} PROVE elem[CHOOSE w \in storing : TRUE] \in Elements
        <4>1. (CHOOSE w \in storing : TRUE) \in Threads
          BY <3>2 DEF Threads
        <4> QED BY <1>1, <4>1 DEF IInv, TypeOK, Elements
      <3> QED BY <3>1, <3>2 DEF LastElement
    <2> QED BY <2>1, <2>2, <2>3, <2>4, <2>5 DEF LastTable
  <1>2. IInv' => LastTable'
    <2>1. IInv => LastTable
      BY <1>1
    <2> QED BY <2>1, PTL
  <1> QED BY <1>1, <1>2

\* A step of thread t leaves the other threads alone, and the overflow flag unless
\* t holds the mutex.
Moves(t) == /\ \A u \in Threads : u # t => pc'[u] = pc[u] /\ elem'[u] = elem[u]
            /\ overflow' = overflow \/ mutex = t

(* A step of one thread changes the call and the item of that thread alone. *)
LEMMA Frame ==
  ASSUME IInv, IInv', NEW t \in Threads, Moves(t)
  PROVE  /\ callBar' = [callBar EXCEPT ![t] = CallOf(t)']
         /\ itemBar' = [itemBar EXCEPT ![t] = ItemOf(t)']
  <1>1. ASSUME NEW u \in Threads, u # t PROVE CallOf(u)' = CallOf(u)
    <2>1. CASE pc[u] \in {"storeLocked", "unlockPut"}
      <3>1. mutex = u
        BY <2>1 DEF IInv, MutexInv, LockedSteps
      <3> QED BY <1>1, <3>1 DEF CallOf, Moves
    <2>2. CASE pc[u] \notin {"storeLocked", "unlockPut"}
      BY <1>1, <2>2 DEF CallOf, Moves
    <2> QED BY <2>1, <2>2
  <1>2. ASSUME NEW u \in Threads, u # t PROVE ItemOf(u)' = ItemOf(u)
    BY <1>2 DEF ItemOf, Moves
  <1> QED BY <1>1, <1>2 DEF callBar, itemBar

(* A step that has nothing to do with the element beyond the ring leaves it alone. *)
LEMMA SameLast ==
  ASSUME NEW t \in Threads, Moves(t), overflow' = overflow, wr' = wr, buffer' = buffer,
         pc[t] \notin {"testStillFull", "clearOverflow", "storeLocked"},
         pc'[t] \notin {"testStillFull", "clearOverflow", "storeLocked"}
  PROVE  LastElement' = LastElement
  <1> DEFINE storing == {w \in Writers : pc[w] = "storeLocked"}
  <1>1. storing' = storing
    BY DEF Moves, Threads
  <1>2. (\E u \in Threads : pc[u] \in {"testStillFull", "clearOverflow"})'
          <=> \E u \in Threads : pc[u] \in {"testStillFull", "clearOverflow"}
    BY DEF Moves
  <1>3. ASSUME storing # {} PROVE elem'[CHOOSE w \in storing : TRUE] = elem[CHOOSE w \in storing : TRUE]
    <2>1. (CHOOSE w \in storing : TRUE) \in storing
      BY <1>3
    <2> QED BY <2>1 DEF Moves, Threads
  <1>4. LastElement = IF ~overflow \/ \E u \in Threads : pc[u] \in {"testStillFull", "clearOverflow"}
                      THEN << >>
                      ELSE << IF storing # {} THEN elem[CHOOSE w \in storing : TRUE] ELSE buffer[wr] >>
    BY DEF LastElement
  <1>5. LastElement' = IF ~overflow' \/ (\E u \in Threads : pc[u] \in {"testStillFull", "clearOverflow"})'
                       THEN << >>
                       ELSE << IF storing' # {} THEN elem'[CHOOSE w \in storing' : TRUE] ELSE buffer'[wr'] >>
    BY DEF LastElement
  <1> HIDE DEF storing
  <1> QED BY <1>1, <1>2, <1>3, <1>4, <1>5

Shape == /\ Contents = Ring(buffer, rd, wr) \o LastElement
         /\ Ring(buffer, rd, wr) \in Seq(Elements) /\ LastElement \in Seq(Elements)
         /\ Contents \in Seq(Elements) /\ Len(Contents) = Len(Ring(buffer, rd, wr)) + Len(LastElement)
         /\ Len(Contents) \in Nat
         /\ Len(Ring(buffer, rd, wr)) \in Nat /\ Len(Ring(buffer, rd, wr)) < numElems
         /\ Next1(wr) = rd => Len(Ring(buffer, rd, wr)) = numElems - 1

(* The contents: a ring with one free slot, and the element beyond it. *)
LEMMA ShapeHolds == (IInv => Shape) /\ (IInv' => Shape')
  <1>1. ASSUME IInv PROVE Shape
    <2>1. buffer \in [Slots -> Elements] /\ rd \in Slots /\ wr \in Slots
      BY <1>1 DEF IInv, TypeOK, Elements
    <2>2. Ring(buffer, rd, wr) \in Seq(Elements) /\ LastElement \in Seq(Elements)
      BY <1>1, <2>1, RingElements, LastTableHolds DEF LastTable
    <2>3. Contents = Ring(buffer, rd, wr) \o LastElement
      BY DEF Contents, Used, Ring
    <2>4. /\ Len(Ring(buffer, rd, wr)) < numElems
          /\ Next1(wr) = rd => Len(Ring(buffer, rd, wr)) = numElems - 1
      BY <2>1, RingFull
    <2>5. Len(Contents) = Len(Ring(buffer, rd, wr)) + Len(LastElement) /\ Contents \in Seq(Elements)
      BY <2>2, <2>3, ConcatProperties
    <2>6. Len(Ring(buffer, rd, wr)) \in Nat /\ Len(Contents) \in Nat
      BY <2>2, <2>5, LenProperties
    <2> QED BY <2>2, <2>3, <2>4, <2>5, <2>6 DEF Shape
  <1>2. IInv' => Shape'
    <2>1. IInv => Shape
      BY <1>1
    <2> QED BY <2>1, PTL
  <1> QED BY <1>1, <1>2

(* A step that writes nothing of the queue leaves its contents alone. *)
LEMMA Unchanged ==
  ASSUME IInv, IInv', NEW t \in Threads, Moves(t), UNCHANGED <<wr, rd, overflow, buffer>>,
         pc[t] \notin {"testStillFull", "clearOverflow", "storeLocked"},
         pc'[t] \notin {"testStillFull", "clearOverflow", "storeLocked"}
  PROVE  Contents' = Contents
  <1>1. LastElement' = LastElement
    BY SameLast
  <1> QED BY <1>1, ShapeHolds DEF Shape

(* The contents without an element beyond the ring. *)
LEMMA NoLast ==
  ASSUME IInv, IInv', LastElement = << >>
  PROVE  Contents = Ring(buffer, rd, wr)
  BY ShapeHolds, ConcatEmptySeq DEF Shape

(* The same, after a step. *)
LEMMA NoLastNext ==
  ASSUME IInv, IInv', LastElement' = << >>
  PROVE  Contents' = Ring(buffer', rd', wr')
  BY ShapeHolds, ConcatEmptySeq DEF Shape

(* A get that moves rd takes the first element. *)
LEMMA TakeFirst ==
  ASSUME IInv, IInv', rd # wr, rd' = Next1(rd), UNCHANGED <<wr, buffer>>, LastElement' = LastElement
  PROVE  Contents # << >> /\ Head(Contents) = buffer[rd] /\ Contents' = Tail(Contents)
  <1> DEFINE q == Ring(buffer, rd, wr)
  <1>1. buffer \in [Slots -> Elements] /\ rd \in Slots /\ wr \in Slots
    BY DEF IInv, TypeOK, Elements
  <1>2. Head(q) = buffer[rd] /\ Tail(q) = Ring(buffer, Next1(rd), wr)
    BY <1>1, RingTail
  <1>3. q # << >>
    BY <1>1, RingEmpty
  <1>4. q \in Seq(Elements) /\ LastElement \in Seq(Elements) /\ Contents = q \o LastElement
    BY ShapeHolds DEF Shape
  <1>5. Contents # << >> /\ Head(Contents) = Head(q) /\ Tail(Contents) = Tail(q) \o LastElement
    BY <1>3, <1>4, HeadTailConcat
  <1>6. Contents' = Ring(buffer, Next1(rd), wr) \o LastElement
    BY ShapeHolds DEF Shape
  <1> QED BY <1>2, <1>5, <1>6

(* A put appends its element: to the ring, or beyond it. *)
LEMMA Grows ==
  ASSUME IInv, IInv', NEW e \in Elements, LastElement = << >>,
         \/ /\ LastElement' = << >> /\ UNCHANGED <<rd, buffer>>
            /\ wr' = Next1(wr) /\ Next1(wr) # rd /\ buffer[wr] = e
         \/ LastElement' = << e >> /\ UNCHANGED <<rd, wr, buffer>>
  PROVE  Contents' = Append(Contents, e) /\ Len(Contents) < numElems
  <1> DEFINE q == Ring(buffer, rd, wr)
  <1>1. Contents = q /\ q \in Seq(Elements) /\ Len(q) < numElems
    BY NoLast, ShapeHolds DEF Shape
  <1>2. CASE /\ LastElement' = << >> /\ UNCHANGED <<rd, buffer>>
             /\ wr' = Next1(wr) /\ Next1(wr) # rd /\ buffer[wr] = e
    <2>1. Contents' = Ring(buffer, rd, Next1(wr))
      BY <1>2, NoLastNext
    <2>2. Ring(buffer, rd, Next1(wr)) = Append(q, e)
      BY <1>2, RingAppend DEF IInv, TypeOK, Elements
    <2> QED BY <1>1, <2>1, <2>2
  <1>3. CASE LastElement' = << e >> /\ UNCHANGED <<rd, wr, buffer>>
    <2>1. Contents' = q \o << e >>
      BY <1>3, ShapeHolds DEF Shape
    <2>2. Append(q, e) = q \o << e >>
      BY <1>1, AppendConcat
    <2> QED BY <1>1, <2>1, <2>2
  <1> QED BY <1>2, <1>3

(* A step before or after the one that takes effect. *)
LEMMA MapsToStutter ==
  ASSUME IInv, IInv', NEW t \in Threads, Moves(t), Contents' = Contents,
         CallOf(t)' = CallOf(t), ItemOf(t)' = ItemOf(t), UNCHANGED <<r, overlap>>
  PROVE  UNCHANGED Promised!vars
  <1>1. callBar' = callBar /\ itemBar' = itemBar
    BY Frame DEF callBar, itemBar
  <1> QED BY <1>1 DEF Promised!vars, callBar, itemBar

(* A call. *)
LEMMA MapsToBegin ==
  ASSUME IInv, IInv', NEW t \in Threads, Moves(t), NoteOverlap(t), Contents' = Contents,
         pc[t] = "idle", 
         \/ t \in Readers /\ ItemOf(t)' = Nothing /\ CallOf(t)' \in {"get", "flush"} /\ r' = r
         \/ t \in Writers /\ ItemOf(t)' \in 1 .. MaxPuts /\ CallOf(t)' = "put" /\ r' = [r EXCEPT ![t] = FALSE]
  PROVE  Promised!Next
  <1>1. /\ callBar[t] = "idle"
        /\ \A u \in Threads : pc[u] = "idle" <=> callBar[u] = "idle"
    BY CallTableHolds DEF CallTable, callBar
  <1>2. overlap' = [u \in Readers |-> IF t = u THEN \E w \in Writers : callBar[w] # "idle"
                                      ELSE overlap[u] \/ (t \in Writers /\ callBar[u] # "idle")]
    BY <1>1 DEF NoteOverlap, Threads
  <1>3. r' = IF t \in Writers THEN [r EXCEPT ![t] = FALSE] ELSE r
    BY ThreadsAssumption
  <1>4. Promised!Begin(t, CallOf(t)', ItemOf(t)')
    BY <1>1, <1>2, <1>3, Frame DEF Promised!Begin, callBar, itemBar
  <1> QED BY <1>4 DEF Promised!Next

(* A get takes the first element. *)
LEMMA MapsToGet ==
  ASSUME IInv, IInv', NEW t \in Readers, Moves(t), CallOf(t) = "get", CallOf(t)' = "done",
         Contents # << >>, Contents' = Tail(Contents), ItemOf(t)' = Head(Contents), UNCHANGED <<r, overlap>>
  PROVE  Promised!Next
  <1>1. Promised!Get(t)
    BY Frame DEF Promised!Get, Promised!Taken, callBar, itemBar, Threads
  <1> QED BY <1>1 DEF Promised!Next

(* A get finds nothing. *)
LEMMA MapsToGetNothing ==
  ASSUME IInv, IInv', NEW t \in Readers, Moves(t), CallOf(t) = "get", CallOf(t)' = "done",
         Contents = << >> \/ overlap[t], Contents' = Contents, ItemOf(t)' = Nothing, UNCHANGED <<r, overlap>>
  PROVE  Promised!Next
  <1>1. Promised!GetNothing(t)
    BY Frame DEF Promised!GetNothing, Promised!Taken, callBar, itemBar, Threads
  <1> QED BY <1>1 DEF Promised!Next

(* A flush empties the queue. *)
LEMMA MapsToFlush ==
  ASSUME IInv, IInv', NEW t \in Readers, Moves(t), CallOf(t) = "flush", CallOf(t)' = "done",
         Contents' = << >>, ItemOf(t)' = Nothing, UNCHANGED <<r, overlap>>
  PROVE  Promised!Next
  <1>1. Promised!Flush(t)
    BY Frame DEF Promised!Flush, Promised!Taken, callBar, itemBar, Threads
  <1> QED BY <1>1 DEF Promised!Next

(* A return. *)
LEMMA MapsToReturn ==
  ASSUME IInv, IInv', NEW t \in Threads, Moves(t), CallOf(t) = "done", CallOf(t)' = "idle",
         Contents' = Contents, ItemOf(t)' = Nothing, UNCHANGED <<r, overlap>>
  PROVE  Promised!Next
  <1>1. Promised!Return(t)
    BY Frame DEF Promised!Return, callBar, itemBar
  <1> QED BY <1>1 DEF Promised!Next, Threads

(* A put appends its element, or overwrites the last one and says so. *)
LEMMA MapsToPut ==
  ASSUME IInv, IInv', NEW w \in Writers, Moves(w), CallOf(w) = "put", CallOf(w)' = "done",
         Len(Contents) \in Nat,
         \/ /\ Len(Contents) < numElems
            /\ Contents' = Append(Contents, elem[w])
            /\ r' = [r EXCEPT ![w] = FALSE]
         \/ /\ Len(Contents) = numElems
            /\ Contents' = [Contents EXCEPT ![numElems] = elem[w]]
            /\ r' = [r EXCEPT ![w] = TRUE],
         elem'[w] = elem[w], UNCHANGED overlap
  PROVE  Promised!Next
  <1>1. itemBar[w] = elem[w] /\ itemBar' = itemBar
    <2>1. w \in Threads /\ w \notin Readers
      BY ThreadsAssumption DEF Threads
    <2>2. ItemOf(w) = elem[w] /\ ItemOf(w)' = elem[w]
      BY <2>1 DEF ItemOf
    <2> QED BY <2>1, <2>2, Frame DEF itemBar
  <1>2. /\ callBar[w] = "put"
        /\ callBar' = [callBar EXCEPT ![w] = "done"]
    BY Frame DEF callBar, Threads
  <1>3. r' = [r EXCEPT ![w] = (Len(Contents) = numElems)]
    <2>1. CASE Len(Contents) < numElems
      <3>1. (Len(Contents) = numElems) = FALSE
        BY <2>1, NumElemsAssumption
      <3> QED BY <2>1, <3>1, NumElemsAssumption
    <2>2. CASE Len(Contents) = numElems
      <3>1. (Len(Contents) = numElems) = TRUE
        BY <2>2
      <3>2. r' = [r EXCEPT ![w] = TRUE]
        BY <2>2, NumElemsAssumption
      <3> QED BY <3>1, <3>2
    <2> QED BY <2>1, <2>2, NumElemsAssumption
  <1>4. Contents' = IF Len(Contents) < numElems THEN Append(Contents, itemBar[w])
                    ELSE [Contents EXCEPT ![numElems] = itemBar[w]]
    BY <1>1, NumElemsAssumption
  <1>5. Promised!Put(w)
    BY <1>1, <1>2, <1>3, <1>4 DEF Promised!Put, callBar, itemBar
  <1> QED BY <1>5 DEF Promised!Next

-----------------------------------------------------------------------------
(* Every step of the reader is a step of BoundedQueue or a stutter. *)
LEMMA ReaderSimulates ==
  ASSUME Knowledge, Knowledge', NEW t \in Readers, Get(t) \/ Flush(t)
  PROVE  [Promised!Next]_(Promised!vars)
  <1>0. /\ IInv /\ IInv' /\ t \in Threads /\ t \notin Writers
        /\ CallTable /\ CallTable' /\ LastTable /\ LastTable' /\ Shape /\ Shape'
        /\ pc \in [Threads -> ReaderSteps \cup WriterSteps]
        /\ elem \in [Threads -> 1 .. MaxPuts \cup {Nothing}]
    BY CallTableHolds, LastTableHolds, ShapeHolds, ThreadsAssumption DEF Knowledge, Threads, IInv, TypeOK
  <1>1. CASE GetCall(t)
    <2>1. Moves(t) /\ pc[t] = "idle" /\ pc'[t] = "testEmpty" /\ NoteOverlap(t)
          /\ UNCHANGED <<wr, rd, overflow, buffer, r>>
      BY <1>0, <1>1 DEF GetCall, Goto, Moves, shared
    <2>2. Contents' = Contents
      BY <1>0, <2>1, Unchanged
    <2>3. CallOf(t)' = "get" /\ ItemOf(t)' = Nothing
      BY <1>0, <2>1 DEF CallTable, ItemOf, GetSteps
    <2> QED BY <1>0, <2>1, <2>2, <2>3, MapsToBegin
  <1>2. CASE GetTestEmpty(t)
    <2>1. Moves(t) /\ pc[t] = "testEmpty" /\ pc'[t] \in {"testOverflow", "copy"}
          /\ UNCHANGED <<wr, rd, overflow, buffer, r, overlap>>
      BY <1>0, <1>2 DEF GetTestEmpty, Goto, Moves, shared
    <2>2. Contents' = Contents
      BY <1>0, <2>1, Unchanged
    <2>3. CallOf(t)' = CallOf(t) /\ ItemOf(t)' = ItemOf(t)
      BY <1>0, <2>1 DEF CallTable, ItemOf, GetSteps
    <2> QED BY <1>0, <2>1, <2>2, <2>3, MapsToStutter
  <1>3. CASE GetTestOverflow(t)
    <2>1. Moves(t) /\ pc[t] = "testOverflow" /\ pc'[t] = (IF overflow THEN "lockGet" ELSE "missed")
          /\ UNCHANGED <<wr, rd, overflow, buffer, r, overlap>>
      BY <1>0, <1>3 DEF GetTestOverflow, Goto, Moves, shared
    <2>2. Contents' = Contents
      BY <1>0, <2>1, Unchanged
    <2>3. ItemOf(t)' = Nothing /\ ItemOf(t) = Nothing
      BY <1>0, <2>1 DEF ItemOf
    <2>4. CASE overflow
      <3>1. CallOf(t)' = CallOf(t)
        BY <1>0, <2>1, <2>4 DEF CallTable, GetSteps
      <3> QED BY <1>0, <2>1, <2>2, <2>3, <3>1, MapsToStutter
    <2>5. CASE ~overflow
      <3>1. CallOf(t) = "get" /\ CallOf(t)' = "done"
        BY <1>0, <2>1, <2>5 DEF CallTable, GetSteps
      <3>2. wr = rd \/ overlap[t]
        BY <2>1 DEF Knowledge, ReaderHas
      <3>3. Contents = << >> \/ overlap[t]
        <4>1. Contents = Ring(buffer, rd, wr)
          BY <1>0, <2>5, NoLast DEF LastTable
        <4>2. wr = rd => Ring(buffer, rd, wr) = << >>
          BY <1>0, RingEmpty DEF IInv, TypeOK, Elements
        <4> QED BY <3>2, <4>1, <4>2
      <3> QED BY <1>0, <2>1, <2>2, <2>3, <3>1, <3>3, MapsToGetNothing
    <2> QED BY <2>4, <2>5
  <1>4. CASE GetCopy(t)
    <2>1. Moves(t) /\ pc[t] = "copy" /\ pc'[t] = "advance"
          /\ UNCHANGED <<wr, rd, overflow, buffer, r, overlap>>
      BY <1>0, <1>4 DEF GetCopy, Copy, Goto, Moves, shared
    <2>2. Contents' = Contents
      BY <1>0, <2>1, Unchanged
    <2>3. CallOf(t)' = CallOf(t) /\ ItemOf(t)' = ItemOf(t)
      BY <1>0, <2>1 DEF CallTable, ItemOf, GetSteps
    <2> QED BY <1>0, <2>1, <2>2, <2>3, MapsToStutter
  <1>5. CASE GetAdvance(t)
    <2>1. Moves(t) /\ pc[t] = "advance" /\ pc'[t] = "got" /\ elem' = elem
          /\ rd' = Next1(rd) /\ UNCHANGED <<wr, overflow, buffer, r, overlap>>
      BY <1>0, <1>5 DEF GetAdvance, Goto, Moves, shared
    <2>2. LastElement' = LastElement
      BY <1>0, <2>1, SameLast
    <2>3. rd # wr /\ elem[t] = buffer[rd]
      BY <2>1 DEF Knowledge, IInv, ReaderKnows, ReaderHas
    <2>4. Contents # << >> /\ Head(Contents) = buffer[rd] /\ Contents' = Tail(Contents)
      BY <1>0, <2>1, <2>2, <2>3, TakeFirst
    <2>5. CallOf(t) = "get" /\ CallOf(t)' = "done" /\ ItemOf(t)' = elem[t]
      BY <1>0, <2>1 DEF CallTable, ItemOf, GetSteps
    <2> QED BY <1>0, <2>1, <2>3, <2>4, <2>5, MapsToGet
  <1>6. CASE GetLock(t)
    <2>1. Moves(t) /\ pc[t] = "lockGet" /\ pc'[t] = "copyLocked"
          /\ UNCHANGED <<wr, rd, overflow, buffer, r, overlap>>
      BY <1>0, <1>6 DEF GetLock, Lock, Goto, Moves, shared
    <2>2. Contents' = Contents
      BY <1>0, <2>1, Unchanged
    <2>3. CallOf(t)' = CallOf(t) /\ ItemOf(t)' = ItemOf(t)
      BY <1>0, <2>1 DEF CallTable, ItemOf, GetSteps
    <2> QED BY <1>0, <2>1, <2>2, <2>3, MapsToStutter
  <1>7. CASE GetCopyLocked(t)
    <2>1. Moves(t) /\ pc[t] = "copyLocked" /\ pc'[t] = "checkAgain"
          /\ UNCHANGED <<wr, rd, overflow, buffer, r, overlap>>
      BY <1>0, <1>7 DEF GetCopyLocked, Copy, Goto, Moves, shared
    <2>2. Contents' = Contents
      BY <1>0, <2>1, Unchanged
    <2>3. CallOf(t)' = CallOf(t) /\ ItemOf(t)' = ItemOf(t)
      BY <1>0, <2>1 DEF CallTable, ItemOf, GetSteps
    <2> QED BY <1>0, <2>1, <2>2, <2>3, MapsToStutter
  <1>8. CASE GetCheckAgain(t)
    <2>1. pc[t] = "checkAgain" /\ pc'[t] = "got" /\ elem' = elem /\ UNCHANGED <<wr, buffer, r, overlap>>
      BY <1>0, <1>8 DEF GetCheckAgain, Goto
    <2>2. mutex = t
      BY <1>0, <2>1 DEF IInv, MutexInv, LockedSteps
    <2>3. Moves(t)
      BY <1>0, <1>8, <2>1, <2>2 DEF GetCheckAgain, Goto, Moves, IInv, TypeOK
    <2>4. CallOf(t) = "get" /\ CallOf(t)' = "done" /\ ItemOf(t)' = elem[t]
      BY <1>0, <2>1 DEF CallTable, ItemOf, GetSteps
    <2>5. elem[t] = buffer[rd] /\ (overflow \/ wr # rd)
      BY <2>1 DEF Knowledge, IInv, ReaderKnows, ReaderHas
    <2>6. CASE wr = rd /\ overflow
      <3>1. overflow' = FALSE /\ rd' = rd
        BY <1>8, <2>6 DEF GetCheckAgain
      <3>2. Ring(buffer, rd, wr) = << >>
        BY <1>0, <2>6, RingEmpty DEF IInv, TypeOK, Elements
      <3>3. LastElement = << buffer[wr] >>
        BY <1>0, <2>1, <2>2, <2>6 DEF LastTable
      <3>4. Contents = << buffer[rd] >>
        BY <1>0, <2>6, <3>2, <3>3, ConcatEmptySeq DEF Shape
      <3>5. LastElement' = << >>
        BY <1>0, <3>1 DEF LastTable
      <3>6. Contents' = << >>
        BY <1>0, <2>1, <3>1, <3>2, <3>5, NoLastNext
      <3>7. Contents # << >> /\ Head(Contents) = buffer[rd] /\ Contents' = Tail(Contents)
        BY <3>4, <3>6
      <3> QED BY <1>0, <2>1, <2>3, <2>4, <2>5, <3>7, MapsToGet
    <2>7. CASE ~(wr = rd /\ overflow)
      <3>1. overflow' = overflow /\ rd' = Next1(rd) /\ rd # wr
        BY <1>8, <2>5, <2>7 DEF GetCheckAgain
      <3>2. LastElement' = LastElement
        BY <1>0, <2>1, <2>3, <3>1, SameLast
      <3>3. Contents # << >> /\ Head(Contents) = buffer[rd] /\ Contents' = Tail(Contents)
        BY <1>0, <2>1, <3>1, <3>2, TakeFirst
      <3> QED BY <1>0, <2>1, <2>3, <2>4, <2>5, <3>3, MapsToGet
    <2> QED BY <2>6, <2>7
  <1>9. CASE GetReturn(t)
    <2>1. Moves(t) /\ pc[t] \in {"got", "missed"} /\ pc'[t] = "idle"
          /\ UNCHANGED <<wr, rd, overflow, buffer, r, overlap>>
      BY <1>0, <1>9 DEF GetReturn, Moves, shared
    <2>2. Contents' = Contents
      BY <1>0, <2>1, Unchanged
    <2>3. CallOf(t) = "done" /\ CallOf(t)' = "idle" /\ ItemOf(t)' = Nothing
      BY <1>0, <2>1 DEF CallTable, ItemOf
    <2> QED BY <1>0, <2>1, <2>2, <2>3, MapsToReturn
  <1>10. CASE FlushCall(t)
    <2>1. Moves(t) /\ pc[t] = "idle" /\ pc'[t] = "lockFlush" /\ NoteOverlap(t)
          /\ UNCHANGED <<wr, rd, overflow, buffer, r>>
      BY <1>0, <1>10 DEF FlushCall, Goto, Moves, shared
    <2>2. Contents' = Contents
      BY <1>0, <2>1, Unchanged
    <2>3. CallOf(t)' = "flush" /\ ItemOf(t)' = Nothing
      BY <1>0, <2>1 DEF CallTable, ItemOf, FlushSteps
    <2> QED BY <1>0, <2>1, <2>2, <2>3, MapsToBegin
  <1>11. CASE FlushLock(t)
    <2>1. Moves(t) /\ pc[t] = "lockFlush" /\ pc'[t] = "moveRd"
          /\ UNCHANGED <<wr, rd, overflow, buffer, r, overlap>>
      BY <1>0, <1>11 DEF FlushLock, Lock, Goto, Moves, shared
    <2>2. Contents' = Contents
      BY <1>0, <2>1, Unchanged
    <2>3. CallOf(t)' = CallOf(t) /\ ItemOf(t)' = ItemOf(t)
      BY <1>0, <2>1 DEF CallTable, ItemOf, FlushSteps
    <2> QED BY <1>0, <2>1, <2>2, <2>3, MapsToStutter
  <1>12. CASE FlushMoveRd(t)
    <2>1. Moves(t) /\ pc[t] = "moveRd" /\ pc'[t] = "clearOverflow"
          /\ rd' = wr /\ UNCHANGED <<wr, overflow, buffer, r, overlap>>
      BY <1>0, <1>12 DEF FlushMoveRd, Goto, Moves, shared
    <2>2. LastElement' = << >>
      BY <1>0, <2>1 DEF LastTable
    <2>3. Contents' = Ring(buffer, wr, wr)
      BY <1>0, <2>1, <2>2, NoLastNext
    <2>4. Contents' = << >>
      BY <1>0, <2>3, RingEmpty DEF IInv, TypeOK, Elements
    <2>5. CallOf(t) = "flush" /\ CallOf(t)' = "done" /\ ItemOf(t)' = Nothing
      BY <1>0, <2>1 DEF CallTable, ItemOf, FlushSteps
    <2> QED BY <1>0, <2>1, <2>4, <2>5, MapsToFlush
  <1>13. CASE FlushClearOverflow(t)
    <2>1. pc[t] = "clearOverflow" /\ pc'[t] = "flushed" /\ elem' = elem
          /\ overflow' = FALSE /\ UNCHANGED <<wr, rd, buffer, r, overlap>>
      BY <1>0, <1>13 DEF FlushClearOverflow, Goto
    <2>2. mutex = t
      BY <1>0, <2>1 DEF IInv, MutexInv, LockedSteps
    <2>3. Moves(t)
      BY <1>0, <1>13, <2>1, <2>2 DEF FlushClearOverflow, Goto, Moves, IInv, TypeOK
    <2>4. LastElement = << >> /\ LastElement' = << >>
      BY <1>0, <2>1 DEF LastTable
    <2>5. Contents' = Contents
      BY <1>0, <2>1, <2>4, NoLast, NoLastNext
    <2>6. CallOf(t)' = CallOf(t) /\ ItemOf(t)' = ItemOf(t)
      BY <1>0, <2>1 DEF CallTable, ItemOf
    <2> QED BY <1>0, <2>1, <2>3, <2>5, <2>6, MapsToStutter
  <1>14. CASE FlushReturn(t)
    <2>1. Moves(t) /\ pc[t] = "flushed" /\ pc'[t] = "idle"
          /\ UNCHANGED <<wr, rd, overflow, buffer, r, overlap>>
      BY <1>0, <1>14 DEF FlushReturn, Goto, Moves, shared
    <2>2. Contents' = Contents
      BY <1>0, <2>1, Unchanged
    <2>3. CallOf(t) = "done" /\ CallOf(t)' = "idle" /\ ItemOf(t)' = Nothing
      BY <1>0, <2>1 DEF CallTable, ItemOf
    <2> QED BY <1>0, <2>1, <2>2, <2>3, MapsToReturn
  <1> QED BY <1>1, <1>2, <1>3, <1>4, <1>5, <1>6, <1>7, <1>8, <1>9, <1>10, <1>11, <1>12, <1>13, <1>14 DEF Get, Flush

(* Every step of the writer is a step of BoundedQueue or a stutter. *)
LEMMA WriterSimulates ==
  ASSUME Knowledge, Knowledge', NEW w \in Writers, Put(w)
  PROVE  [Promised!Next]_(Promised!vars)
  <1>0. /\ IInv /\ IInv' /\ w \in Threads /\ w \notin Readers
        /\ CallTable /\ CallTable' /\ LastTable /\ LastTable' /\ Shape /\ Shape'
        /\ pc \in [Threads -> ReaderSteps \cup WriterSteps]
        /\ elem \in [Threads -> 1 .. MaxPuts \cup {Nothing}]
        /\ elem[w] \in Elements
        /\ r \in [Writers -> BOOLEAN]
    BY CallTableHolds, LastTableHolds, ShapeHolds, ThreadsAssumption DEF Knowledge, Threads, IInv, TypeOK, Elements
  <1>1. CASE PutCall(w)
    <2>1. Moves(w) /\ pc[w] = "idle" /\ pc'[w] = "testFull" /\ NoteOverlap(w)
          /\ UNCHANGED <<wr, rd, overflow, buffer>> /\ r' = [r EXCEPT ![w] = FALSE] /\ elem'[w] = puts + 1
      BY <1>0, <1>1 DEF PutCall, Goto, Moves, shared
    <2>2. puts + 1 \in 1 .. MaxPuts
      BY <1>1, BoundsAssumption DEF PutCall, IInv, TypeOK, Knowledge
    <2>3. Contents' = Contents
      BY <1>0, <2>1, Unchanged
    <2>4. CallOf(w)' = "put" /\ ItemOf(w)' = puts + 1
      BY <1>0, <2>1 DEF CallTable, ItemOf, Unput
    <2> QED BY <1>0, <2>1, <2>2, <2>3, <2>4, MapsToBegin
  <1>2. CASE PutTestOverflow(w)
    <2>1. Moves(w) /\ pc[w] = "testFull" /\ pc'[w] \in {"lockPut", "testNext"}
          /\ elem' = elem /\ UNCHANGED <<wr, rd, overflow, buffer, r, overlap>>
      BY <1>0, <1>2 DEF PutTestOverflow, Goto, Moves, shared
    <2>2. Contents' = Contents
      BY <1>0, <2>1, Unchanged
    <2>3. CallOf(w)' = CallOf(w) /\ ItemOf(w)' = ItemOf(w)
      BY <1>0, <2>1 DEF CallTable, ItemOf, Unput
    <2> QED BY <1>0, <2>1, <2>2, <2>3, MapsToStutter
  <1>3. CASE PutTestNext(w)
    <2>1. Moves(w) /\ pc[w] = "testNext" /\ pc'[w] \in {"lockPut", "store"}
          /\ elem' = elem /\ UNCHANGED <<wr, rd, overflow, buffer, r, overlap>>
      BY <1>0, <1>3 DEF PutTestNext, Goto, Moves, shared
    <2>2. Contents' = Contents
      BY <1>0, <2>1, Unchanged
    <2>3. CallOf(w)' = CallOf(w) /\ ItemOf(w)' = ItemOf(w)
      BY <1>0, <2>1 DEF CallTable, ItemOf, Unput
    <2> QED BY <1>0, <2>1, <2>2, <2>3, MapsToStutter
  <1>4. CASE PutStore(w)
    <2>1. Moves(w) /\ pc[w] = "store" /\ pc'[w] = "publish" /\ buffer' = [buffer EXCEPT ![wr] = elem[w]]
          /\ elem' = elem /\ UNCHANGED <<wr, rd, overflow, r, overlap>>
      BY <1>0, <1>4 DEF PutStore, Store, Goto, Moves
    <2>2. ~overflow
      BY <2>1 DEF Knowledge, IInv, WriterKnows
    <2>3. LastElement = << >> /\ LastElement' = << >>
      BY <1>0, <2>1, <2>2 DEF LastTable
    <2>4. Ring(buffer', rd, wr) = Ring(buffer, rd, wr)
      <3>1. buffer \in [Slots -> Elements] /\ rd \in Slots /\ wr \in Slots
        BY <1>0 DEF IInv, TypeOK, Elements
      <3> QED BY <1>0, <2>1, <3>1, RingStore
    <2>5. Contents' = Contents
      BY <1>0, <2>1, <2>3, <2>4, NoLast, NoLastNext
    <2>6. CallOf(w)' = CallOf(w) /\ ItemOf(w)' = ItemOf(w)
      BY <1>0, <2>1 DEF CallTable, ItemOf, Unput
    <2> QED BY <1>0, <2>1, <2>5, <2>6, MapsToStutter
  <1>5. CASE PutPublish(w)
    <2>1. Moves(w) /\ pc[w] = "publish" /\ pc'[w] = "put" /\ wr' = Next1(wr)
          /\ elem' = elem /\ UNCHANGED <<rd, overflow, buffer, r, overlap>>
      BY <1>0, <1>5 DEF PutPublish, Goto, Moves
    <2>2. ~overflow /\ Next1(wr) # rd /\ elem[w] = buffer[wr] /\ r[w] = FALSE
      BY <1>0, <2>1 DEF Knowledge, IInv, WriterKnows, WriterHas, Unput
    <2>3. LastElement = << >> /\ LastElement' = << >>
      BY <1>0, <2>1, <2>2 DEF LastTable
    <2>4. Contents' = Append(Contents, elem[w]) /\ Len(Contents) < numElems
      BY <1>0, <2>1, <2>2, <2>3, Grows
    <2>5. CallOf(w) = "put" /\ CallOf(w)' = "done" /\ r' = [r EXCEPT ![w] = FALSE]
      BY <1>0, <2>1, <2>2 DEF CallTable, Unput
    <2> QED BY <1>0, <2>1, <2>4, <2>5, MapsToPut DEF Shape
  <1>6. CASE PutLock(w)
    <2>1. Moves(w) /\ pc[w] = "lockPut" /\ pc'[w] = "testNextLocked"
          /\ elem' = elem /\ UNCHANGED <<wr, rd, overflow, buffer, r, overlap>>
      BY <1>0, <1>6 DEF PutLock, Lock, Goto, Moves
    <2>2. Contents' = Contents
      BY <1>0, <2>1, Unchanged
    <2>3. CallOf(w)' = CallOf(w) /\ ItemOf(w)' = ItemOf(w)
      BY <1>0, <2>1 DEF CallTable, ItemOf, Unput
    <2> QED BY <1>0, <2>1, <2>2, <2>3, MapsToStutter
  <1>7. CASE PutTestNextLocked(w)
    <2>1. Moves(w) /\ pc[w] = "testNextLocked" /\ elem' = elem
          /\ UNCHANGED <<wr, rd, overflow, buffer, overlap>>
      BY <1>0, <1>7 DEF PutTestNextLocked, Goto, Moves, shared
    <2>2. mutex = w /\ r[w] = FALSE
      BY <1>0, <2>1 DEF Knowledge, IInv, MutexInv, LockedSteps, WriterHas, Unput
    <2>3. CallOf(w) = "put"
      BY <1>0, <2>1 DEF CallTable, Unput
    <2>4. CASE Next1(wr) = rd /\ overflow
      <3>1. pc'[w] = "storeLocked" /\ r' = [r EXCEPT ![w] = TRUE]
        BY <1>0, <1>7, <2>4 DEF PutTestNextLocked, Goto
      <3>2. LastElement = << buffer[wr] >> /\ LastElement' = << elem[w] >>
        BY <1>0, <2>1, <2>2, <2>4, <3>1 DEF LastTable
      <3>3. /\ Contents = Ring(buffer, rd, wr) \o << buffer[wr] >>
            /\ Contents' = Ring(buffer, rd, wr) \o << elem[w] >>
            /\ Len(Ring(buffer, rd, wr)) = numElems - 1
            /\ Len(Contents) = numElems
        BY <1>0, <2>1, <2>4, <3>2, NumElemsAssumption DEF Shape
      <3>4. Contents' = [Contents EXCEPT ![numElems] = elem[w]]
        <4>1. buffer[wr] \in Elements /\ Ring(buffer, rd, wr) \in Seq(Elements)
          BY <1>0 DEF Shape, IInv, TypeOK, Elements
        <4>2. [Ring(buffer, rd, wr) \o << buffer[wr] >> EXCEPT ![numElems] = elem[w]]
                = Ring(buffer, rd, wr) \o << elem[w] >>
          BY <1>0, <4>1, <3>3, NumElemsAssumption, ReplaceLast
        <4> QED BY <3>3, <4>2
      <3>5. CallOf(w)' = "done"
        BY <1>0, <2>1, <2>4, <3>1 DEF CallTable
      <3> QED BY <1>0, <2>1, <2>3, <3>1, <3>3, <3>4, <3>5, MapsToPut DEF Shape
    <2>5. CASE ~(Next1(wr) = rd /\ overflow)
      <3>1. pc'[w] \in {"room", "setOverflow"} /\ r' = r
        BY <1>0, <1>7, <2>2, <2>5 DEF PutTestNextLocked, Goto
      <3>2. Contents' = Contents
        BY <1>0, <2>1, <3>1, Unchanged
      <3>3. CallOf(w)' = CallOf(w) /\ ItemOf(w)' = ItemOf(w)
        BY <1>0, <2>1, <3>1 DEF CallTable, ItemOf, Unput
      <3> QED BY <1>0, <2>1, <3>1, <3>2, <3>3, MapsToStutter
    <2> QED BY <2>4, <2>5
  <1>8. CASE PutSetOverflow(w)
    <2>1. pc[w] = "setOverflow" /\ pc'[w] = "storeLocked" /\ overflow' = TRUE
          /\ elem' = elem /\ UNCHANGED <<wr, rd, buffer, r, overlap>>
      BY <1>0, <1>8 DEF PutSetOverflow, Goto
    <2>2. mutex = w /\ ~overflow /\ r[w] = FALSE
      BY <1>0, <2>1 DEF Knowledge, IInv, MutexInv, LockedSteps, WriterHas, Unput
    <2>3. Moves(w)
      BY <1>0, <1>8, <2>1, <2>2 DEF PutSetOverflow, Goto, Moves
    <2>4. LastElement = << >> /\ LastElement' = << elem[w] >>
      BY <1>0, <2>1, <2>2 DEF LastTable
    <2>5. Contents' = Append(Contents, elem[w]) /\ Len(Contents) < numElems
      BY <1>0, <2>1, <2>4, Grows
    <2>6. CallOf(w) = "put" /\ CallOf(w)' = "done" /\ r' = [r EXCEPT ![w] = FALSE]
      BY <1>0, <2>1, <2>2 DEF CallTable, Unput
    <2> QED BY <1>0, <2>1, <2>3, <2>5, <2>6, MapsToPut DEF Shape
  <1>9. CASE PutRoom(w)
    <2>1. Moves(w) /\ pc[w] = "room" /\ elem' = elem /\ UNCHANGED <<rd, overflow, buffer, r, overlap>>
      BY <1>0, <1>9 DEF PutRoom, Goto, Moves
    <2>2. mutex = w /\ Next1(wr) # rd
      BY <1>0, <2>1 DEF Knowledge, IInv, MutexInv, LockedSteps, WriterKnows
    <2>3. CASE overflow
      <3>1. pc'[w] = "testStillFull" /\ wr' = Next1(wr)
        BY <1>0, <1>9, <2>3 DEF PutRoom, Goto
      <3>2. LastElement = << buffer[wr] >> /\ LastElement' = << >>
        BY <1>0, <2>1, <2>2, <2>3, <3>1 DEF LastTable
      <3>3. Contents' = Ring(buffer, rd, Next1(wr))
        BY <1>0, <2>1, <3>1, <3>2, NoLastNext
      <3>4. buffer \in [Slots -> Elements] /\ rd \in Slots /\ wr \in Slots /\ buffer[wr] \in Elements
        BY <1>0 DEF IInv, TypeOK, Elements
      <3>5. Ring(buffer, rd, Next1(wr)) = Append(Ring(buffer, rd, wr), buffer[wr])
        BY <2>2, <3>4, RingAppend
      <3>6. Contents = Append(Ring(buffer, rd, wr), buffer[wr])
        BY <1>0, <3>2, <3>4, AppendConcat DEF Shape
      <3>7. CallOf(w)' = CallOf(w) /\ ItemOf(w)' = ItemOf(w)
        BY <1>0, <2>1, <3>1 DEF CallTable, ItemOf, Unput
      <3> QED BY <1>0, <2>1, <3>3, <3>5, <3>6, <3>7, MapsToStutter
    <2>4. CASE ~overflow
      <3>1. pc'[w] = "storeLocked" /\ wr' = wr
        BY <1>0, <1>9, <2>4 DEF PutRoom, Goto
      <3>2. LastElement = << >> /\ LastElement' = << >>
        BY <1>0, <2>1, <2>4 DEF LastTable
      <3>3. Contents' = Contents
        BY <1>0, <2>1, <3>1, <3>2, NoLast, NoLastNext
      <3>4. CallOf(w)' = CallOf(w) /\ ItemOf(w)' = ItemOf(w)
        BY <1>0, <2>1, <2>4, <3>1 DEF CallTable, ItemOf, Unput
      <3> QED BY <1>0, <2>1, <3>3, <3>4, MapsToStutter
    <2> QED BY <2>3, <2>4
  <1>10. CASE PutTestStillFull(w)
    <2>1. pc[w] = "testStillFull" /\ pc'[w] = "storeLocked" /\ overflow' = (Next1(wr) = rd)
          /\ elem' = elem /\ UNCHANGED <<wr, rd, buffer, r, overlap>>
      BY <1>0, <1>10 DEF PutTestStillFull, Goto
    <2>2. mutex = w /\ r[w] = FALSE
      BY <1>0, <2>1 DEF Knowledge, IInv, MutexInv, LockedSteps, WriterHas, Unput
    <2>3. Moves(w)
      BY <1>0, <1>10, <2>1, <2>2 DEF PutTestStillFull, Goto, Moves, IInv, TypeOK
    <2>4. LastElement = << >>
      BY <1>0, <2>1 DEF LastTable
    <2>5. CallOf(w) = "put" /\ CallOf(w)' = (IF overflow' THEN "done" ELSE "put")
      BY <1>0, <2>1 DEF CallTable, Unput
    <2>6. CASE overflow'
      <3>1. LastElement' = << elem[w] >>
        BY <1>0, <2>1, <2>6 DEF LastTable
      <3>2. Contents' = Append(Contents, elem[w]) /\ Len(Contents) < numElems
        BY <1>0, <2>1, <2>4, <3>1, Grows
      <3>3. CallOf(w)' = "done" /\ r' = [r EXCEPT ![w] = FALSE]
        BY <1>0, <2>1, <2>2, <2>5, <2>6
      <3> QED BY <1>0, <2>1, <2>3, <2>5, <3>2, <3>3, MapsToPut DEF Shape
    <2>7. CASE ~overflow'
      <3>1. LastElement' = << >>
        BY <1>0, <2>7 DEF LastTable
      <3>2. Contents' = Contents
        BY <1>0, <2>1, <2>4, <3>1, NoLast, NoLastNext
      <3>3. CallOf(w)' = CallOf(w) /\ ItemOf(w)' = ItemOf(w)
        BY <1>0, <2>1, <2>5, <2>7 DEF ItemOf
      <3> QED BY <1>0, <2>1, <2>3, <3>2, <3>3, MapsToStutter
    <2> QED BY <2>6, <2>7
  <1>11. CASE PutStoreLocked(w)
    <2>1. Moves(w) /\ pc[w] = "storeLocked" /\ pc'[w] = "unlockPut" /\ buffer' = [buffer EXCEPT ![wr] = elem[w]]
          /\ elem' = elem /\ UNCHANGED <<wr, rd, overflow, mutex, r, overlap>>
      BY <1>0, <1>11 DEF PutStoreLocked, Store, Goto, Moves
    <2>2. mutex = w
      BY <1>0, <2>1 DEF IInv, MutexInv, LockedSteps
    <2>3. buffer \in [Slots -> Elements] /\ rd \in Slots /\ wr \in Slots
      BY <1>0 DEF IInv, TypeOK, Elements
    <2>4. Ring(buffer', rd, wr) = Ring(buffer, rd, wr) /\ buffer'[wr] = elem[w]
      BY <1>0, <2>1, <2>3, RingStore
    <2>5. LastElement' = LastElement
      <3>1. CASE overflow
        BY <1>0, <2>1, <2>2, <2>4, <3>1 DEF LastTable
      <3>2. CASE ~overflow
        BY <1>0, <2>1, <3>2 DEF LastTable
      <3> QED BY <3>1, <3>2
    <2>6. Contents' = Contents
      BY <1>0, <2>1, <2>4, <2>5 DEF Shape
    <2>7. CallOf(w)' = CallOf(w) /\ ItemOf(w)' = ItemOf(w)
      BY <1>0, <2>1 DEF CallTable, ItemOf
    <2> QED BY <1>0, <2>1, <2>6, <2>7, MapsToStutter
  <1>12. CASE PutUnlock(w)
    <2>1. Moves(w) /\ pc[w] = "unlockPut" /\ pc'[w] = "put" /\ wr' = (IF overflow THEN wr ELSE Next1(wr))
          /\ elem' = elem /\ UNCHANGED <<rd, overflow, buffer, r, overlap>>
      BY <1>0, <1>12 DEF PutUnlock, Goto, Moves
    <2>2. mutex = w /\ elem[w] = buffer[wr] /\ CallOf(w)' = "done"
      BY <1>0, <2>1 DEF Knowledge, IInv, MutexInv, LockedSteps, WriterHas, CallTable
    <2>3. CASE overflow
      <3>1. wr' = wr
        BY <2>1, <2>3
      <3>2. LastElement' = LastElement
        BY <1>0, <2>1, <3>1, SameLast
      <3>3. Contents' = Contents
        BY <1>0, <2>1, <3>1, <3>2 DEF Shape
      <3>4. CallOf(w)' = CallOf(w) /\ ItemOf(w)' = ItemOf(w)
        BY <1>0, <2>1, <2>2, <2>3 DEF CallTable, ItemOf
      <3> QED BY <1>0, <2>1, <3>3, <3>4, MapsToStutter
    <2>4. CASE ~overflow
      <3>1. wr' = Next1(wr) /\ Next1(wr) # rd /\ r[w] = FALSE
        BY <1>0, <2>1, <2>4 DEF Knowledge, IInv, WriterKnows, WriterHas
      <3>2. LastElement = << >> /\ LastElement' = << >>
        BY <1>0, <2>1, <2>4 DEF LastTable
      <3>3. Contents' = Append(Contents, elem[w]) /\ Len(Contents) < numElems
        BY <1>0, <2>1, <2>2, <3>1, <3>2, Grows
      <3>4. CallOf(w) = "put" /\ r' = [r EXCEPT ![w] = FALSE]
        BY <1>0, <2>1, <2>4, <3>1 DEF CallTable
      <3> QED BY <1>0, <2>1, <2>2, <3>3, <3>4, MapsToPut DEF Shape
    <2> QED BY <2>3, <2>4
  <1>13. CASE PutReturn(w)
    <2>1. Moves(w) /\ pc[w] = "put" /\ pc'[w] = "idle" /\ elem'[w] = Nothing
          /\ UNCHANGED <<wr, rd, overflow, buffer, r, overlap>>
      BY <1>0, <1>13 DEF PutReturn, Goto, Moves, shared
    <2>2. Contents' = Contents
      BY <1>0, <2>1, Unchanged
    <2>3. CallOf(w) = "done" /\ CallOf(w)' = "idle" /\ ItemOf(w)' = Nothing
      BY <1>0, <2>1 DEF CallTable, ItemOf
    <2> QED BY <1>0, <2>1, <2>2, <2>3, MapsToReturn
  <1> QED BY <1>1, <1>2, <1>3, <1>4, <1>5, <1>6, <1>7, <1>8, <1>9, <1>10, <1>11, <1>12, <1>13 DEF Put

(* With one reader and one writer, the ring of any size with its lock-free paths *)
(* is the bounded FIFO of BoundedQueue: every operation takes effect at one step *)
(* between its call and its return, elements come out in the order they went in, *)
(* exactly those are lost of which a put says so, and a get that no put overlaps *)
(* finds the element that is there.                                              *)
THEOREM Refinement == ASSUME OneReaderOneWriter PROVE Spec => ImplementsQueue
  <1>1. Init => Promised!Init
    <2> SUFFICES ASSUME Init PROVE Promised!Init
      OBVIOUS
    <2>1. IInv
      BY InitIInv
    <2>2. LastElement = << >>
      BY DEF Init, LastElement
    <2>3. Contents = << >>
      <3>1. Contents = Ring(buffer, rd, wr) \o LastElement
        BY DEF Contents, Used, Ring
      <3>2. Ring(buffer, rd, wr) = << >>
        BY <2>1, RingEmpty DEF Init, IInv, TypeOK, Elements
      <3> QED BY <2>2, <3>1, <3>2
    <2>4. \A t \in Threads : CallOf(t) = "idle" /\ ItemOf(t) = Nothing
      BY CallTableHolds DEF CallTable, Init, ItemOf
    <2> QED BY <2>3, <2>4 DEF Promised!Init, Init, Promised!Threads, Threads
  <1>2. Knowledge /\ Knowledge' /\ [Next]_vars => [Promised!Next]_(Promised!vars)
    <2> SUFFICES ASSUME Knowledge, Knowledge', [Next]_vars PROVE [Promised!Next]_(Promised!vars)
      OBVIOUS
    <2>1. CASE UNCHANGED vars
      <3>1. Contents' = Contents
        BY <2>1 DEF vars, Contents, Used, LastElement
      <3>2. \A t \in Threads : CallOf(t)' = CallOf(t) /\ ItemOf(t)' = ItemOf(t)
        BY <2>1 DEF vars, CallOf, ItemOf
      <3> QED BY <2>1, <3>1, <3>2 DEF vars, Promised!vars
    <2> QED BY <2>1, ReaderSimulates, WriterSimulates DEF Next
  <1> QED BY <1>1, <1>2, KnowledgeInvariant, PTL DEF Spec, ImplementsQueue, Promised!Spec

-----------------------------------------------------------------------------
(* The queue with its event flag, as the sequencer uses it (SeqSyncQ).        *)

\* Some state set or monitor callback is in the middle of its put.
Putting == \E w \in Writers : caller[w] # "idle"

GetQLocked == {"isEmpty", "isEmptyOverflow", "clear", "unlock"}
Positions  == {"idle", "getting", "flushing", "putting", "efSet"} \cup GetQLocked

\* sp->lock is held from the test of the queue to the clearing of its flag. What the
\* test has found stays true unless somebody puts; whoever does so meanwhile waits for
\* the lock before it sets the flag.
SyncInv ==
  /\ wr \in Slots /\ rd \in Slots
  /\ caller \in [Threads -> Positions]
  /\ \A t \in Readers : caller[t] \in GetQLocked => progLock = t
  /\ \A w \in Named : caller[w] = "putting" => progLock = w
  /\ \A t \in Readers : caller[t] = "isEmptyOverflow" => Putting \/ wr = rd
  /\ \A t \in Readers : caller[t] = "clear" => Putting \/ (wr = rd /\ ~overflow)

(* No step of the queue takes wr or rd out of the ring, whoever else uses it. *)
LEMMA SlotsKept ==
  ASSUME wr \in Slots, rd \in Slots,
         \/ \E t \in Readers : Get(t) \/ Flush(t)
         \/ \E w \in Writers : Put(w)
  PROVE  wr' \in Slots /\ rd' \in Slots
  <1>1. ASSUME NEW t \in Readers, Get(t) PROVE wr' \in Slots /\ rd' \in Slots
    BY <1>1, Next1Lemma DEF Get, GetCall, GetTestEmpty, GetTestOverflow, GetCopy, GetAdvance, GetLock, GetCopyLocked,
       GetCheckAgain, GetReturn, Copy, shared
  <1>2. ASSUME NEW t \in Readers, Flush(t) PROVE wr' \in Slots /\ rd' \in Slots
    BY <1>2 DEF Flush, FlushCall, FlushLock, FlushMoveRd, FlushClearOverflow, FlushReturn, shared
  <1>3. ASSUME NEW w \in Writers, Put(w) PROVE wr' \in Slots /\ rd' \in Slots
    BY <1>3, Next1Lemma DEF Put, PutCall, PutTestOverflow, PutTestNext, PutStore, PutPublish, PutLock, PutTestNextLocked,
       PutSetOverflow, PutRoom, PutTestStillFull, PutStoreLocked, PutUnlock, PutReturn, Store, shared
  <1> QED BY <1>1, <1>2, <1>3

(* With one state set that gets and flushes, and any number that put. *)
LEMMA SyncInvariant == ASSUME OneReader PROVE SyncSpec => []SyncInv
  <1> USE DEF GetQLocked, Positions
  <1>1. SyncInit => SyncInv
    BY NumElemsAssumption, NamedAssumption DEF SyncInit, Init, SyncInv, Slots, Threads
  <1>2. ASSUME SyncInv, NEW w \in Writers,
               \/ MonitorEvent(w) \/ MonitorEfSet(w) \/ AnonymousPut(w) \/ AnonymousUnlock(w)
               \/ AnonymousEfSet(w) \/ InPut(w)
        PROVE  SyncInv'
    <2>1. wr' \in Slots /\ rd' \in Slots
      BY <1>2, SlotsKept DEF SyncInv, MonitorEvent, MonitorEfSet, AnonymousPut, AnonymousUnlock, AnonymousEfSet, InPut,
         PutCall, shared, vars
    <2>2. w \in Threads /\ w \notin Readers /\ w # Nothing /\ Named \subseteq Writers
      BY ThreadsAssumption, NamedAssumption DEF Threads
    <2>3. caller' \in [Threads -> Positions]
      BY <1>2 DEF SyncInv, MonitorEvent, MonitorEfSet, AnonymousPut, AnonymousUnlock, AnonymousEfSet, At, InPut, syncVars
    <2>4. CASE MonitorEvent(w) \/ AnonymousPut(w) \/ AnonymousUnlock(w)
      <3>1. Putting'
        BY <1>2, <2>2, <2>4 DEF Putting, SyncInv, MonitorEvent, AnonymousPut, AnonymousUnlock, At
      <3> QED BY <1>2, <2>1, <2>2, <2>3, <2>4, <3>1, ThreadsAssumption
              DEF SyncInv, MonitorEvent, AnonymousPut, AnonymousUnlock, At, Threads
    <2>5. CASE InPut(w)
      <3>1. Putting'
        BY <2>2, <2>5 DEF Putting, InPut, syncVars
      <3> QED BY <1>2, <2>1, <2>3, <2>5, <3>1 DEF SyncInv, InPut, syncVars
    <2>6. CASE MonitorEfSet(w) \/ AnonymousEfSet(w)
      <3>1. \A t \in Readers : caller'[t] = caller[t] /\ caller[t] \notin GetQLocked
        BY <1>2, <2>2, <2>6, ThreadsAssumption DEF SyncInv, MonitorEfSet, AnonymousEfSet, At, Threads
      <3>2. \A x \in Named : caller'[x] = "putting" => progLock' = x
        BY <1>2, <2>2, <2>6 DEF SyncInv, MonitorEfSet, AnonymousEfSet, At, Threads
      <3> QED BY <2>1, <2>3, <3>1, <3>2 DEF SyncInv
    <2> QED BY <1>2, <2>4, <2>5, <2>6
  <1>3. ASSUME SyncInv, NEW t \in Readers,
               \/ GetQ(t) \/ GetQLock(t) \/ GetQTestEmpty(t) \/ GetQTestOverflow(t) \/ GetQClear(t) \/ GetQUnlock(t)
               \/ FlushQ(t) \/ FlushQClear(t) \/ InGetOrFlush(t)
        PROVE  SyncInv'
    <2>1. wr' \in Slots /\ rd' \in Slots
      BY <1>3, SlotsKept DEF SyncInv, GetQ, GetQLock, GetQTestEmpty, GetQTestOverflow, GetQClear, GetQUnlock, FlushQ,
         FlushQClear, InGetOrFlush, GetCall, FlushCall, shared, vars
    <2>2. /\ t \in Threads /\ t \notin Writers /\ t # Nothing /\ Named \subseteq Writers
          /\ \A u \in Readers : u = t
      BY ThreadsAssumption, NamedAssumption DEF Threads, OneReader
    <2>3. /\ caller' \in [Threads -> Positions]
          /\ \A w \in Writers : caller'[w] = caller[w]
      BY <1>3, <2>2 DEF SyncInv, GetQ, GetQLock, GetQTestEmpty, GetQTestOverflow, GetQClear, GetQUnlock, FlushQ,
         FlushQClear, InGetOrFlush, At, syncVars, Threads
    <2>4. Putting' = Putting
      BY <2>3 DEF Putting
    <2>5. /\ caller'[t] \in GetQLocked => progLock' = t
          /\ \A w \in Named : caller[w] = "putting" => progLock' = w
      <3>1. caller[t] \in GetQLocked => progLock = t
        BY <1>3 DEF SyncInv
      <3>2. ASSUME NEW w \in Named, caller[w] = "putting" PROVE progLock = w /\ w # t /\ w # Nothing
        BY <1>3, <2>2, <3>2, ThreadsAssumption DEF SyncInv
      <3>3. CASE GetQLock(t) \/ GetQUnlock(t)
        BY <1>3, <2>2, <3>1, <3>2, <3>3 DEF SyncInv, GetQLock, GetQUnlock, At
      <3>4. CASE GetQ(t) \/ FlushQ(t) \/ FlushQClear(t) \/ InGetOrFlush(t)
        <4>1. progLock' = progLock /\ caller'[t] \notin GetQLocked
          BY <1>3, <2>2, <3>4 DEF SyncInv, GetQ, FlushQ, FlushQClear, InGetOrFlush, At, syncVars
        <4> QED BY <3>2, <4>1
      <3>5. CASE GetQTestEmpty(t) \/ GetQTestOverflow(t) \/ GetQClear(t)
        <4>1. progLock' = progLock /\ caller[t] \in GetQLocked
          BY <3>5 DEF GetQTestEmpty, GetQTestOverflow, GetQClear, At
        <4> QED BY <3>1, <3>2, <4>1
      <3> QED BY <1>3, <3>3, <3>4, <3>5
    <2>6. /\ caller'[t] = "isEmptyOverflow" => Putting \/ wr' = rd'
          /\ caller'[t] = "clear" => Putting \/ (wr' = rd' /\ ~overflow')
      BY <1>3, <2>2 DEF SyncInv, GetQ, GetQLock, GetQTestEmpty, GetQTestOverflow, GetQClear, GetQUnlock, FlushQ,
         FlushQClear, InGetOrFlush, At, syncVars, vars
    <2> QED BY <2>1, <2>2, <2>3, <2>4, <2>5, <2>6 DEF SyncInv
  <1>4. ASSUME SyncInv, UNCHANGED <<vars, syncVars>> PROVE SyncInv'
    BY <1>4 DEF SyncInv, Putting, vars, syncVars
  <1>5. SyncInv /\ [SyncNext]_<<vars, syncVars>> => SyncInv'
    BY <1>2, <1>3, <1>4 DEF SyncNext
  <1> QED BY <1>1, <1>5, PTL DEF SyncSpec

(* The event flag of a queue that is not empty is cleared by a flush only, or while a *)
(* writer is about to set it: with one state set that gets and flushes, any number    *)
(* that put by the lock of the program or by those of anonymous channels, and any     *)
(* number of slots. Several writers at once may damage the queue, not the flag.       *)
THEOREM FlagNotLost == ASSUME OneReader PROVE SyncSpec => FlagLostByFlushOnly
  <1>1. ASSUME SyncInv, [SyncNext]_<<vars, syncVars>>, Contents # << >>, evFlag, ~evFlag'
        PROVE  \E t \in Readers : FlushQClear(t) \/ Putting
    <2>1. \E t \in Readers : GetQClear(t) \/ FlushQClear(t)
      BY <1>1 DEF SyncNext, MonitorEvent, MonitorEfSet, AnonymousPut, AnonymousUnlock, AnonymousEfSet, InPut,
         GetQ, GetQLock, GetQTestEmpty, GetQTestOverflow, GetQUnlock, FlushQ, InGetOrFlush, syncVars
    <2>2. PICK t \in Readers : GetQClear(t) \/ FlushQClear(t)
      BY <2>1
    <2>3. ASSUME wr = rd, ~overflow PROVE FALSE
      <3>1. Ring(buffer, rd, wr) = << >>
        <4>1. numElems + wr - rd = numElems /\ numElems % numElems = 0
          BY <1>1, <2>3, NumElemsAssumption DEF SyncInv, Slots
        <4>2. 1 .. 0 = {}
          OBVIOUS
        <4> QED BY <4>1, <4>2 DEF Ring
      <3>2. LastElement = << >>
        BY <2>3 DEF LastElement
      <3>3. Contents = Ring(buffer, rd, wr) \o LastElement
        BY DEF Contents, Used, Ring
      <3> QED BY <1>1, <3>1, <3>2, <3>3
    <2> QED BY <1>1, <2>2, <2>3 DEF SyncInv, GetQClear, At
  <1>2. SyncInv /\ [SyncNext]_<<vars, syncVars>> =>
          (Contents # << >> /\ evFlag /\ ~evFlag' =>
             \E t \in Readers : FlushQClear(t) \/ \E w \in Writers : caller[w] # "idle")
    BY <1>1 DEF Putting
  <1> QED BY <1>2, SyncInvariant, PTL DEF SyncSpec, FlagLostByFlushOnly
=============================================================================
