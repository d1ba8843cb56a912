------------------------ MODULE AsynQueueLockProofs ------------------------
(***************************************************************************)
(* For any threads, asynUsers and lockers: queueLockPort, the callbacks    *)
(* and lockPort exclude each other, and no event is left over.             *)
(*                                                                         *)
(* A thread that waits is in one of few situations: its request is queued, *)
(* portThread serves it, the timer thread has withdrawn it, or the event   *)
(* is set.  The invariant says so, one conjunct for each place the request *)
(* can be in; that no two of them hold at once is what makes it inductive. *)
(***************************************************************************)
EXTENDS AsynQueueLock, SequencesExt, SequenceTheorems, TLAPS

\* Append adds an element.
LEMMA AppendToSet ==
  ASSUME NEW S, NEW s \in Seq(S), NEW n \in S
  PROVE  /\ Append(s, n) \in Seq(S)
         /\ ToSet(Append(s, n)) = ToSet(s) \cup {n}
         /\ IsInjective(s) /\ n \notin ToSet(s) => IsInjective(Append(s, n))
  BY AppendProperties DEF ToSet, IsInjective

\* What RemoveAt of SequencesExt returns.
LEMMA RemoveAtProperties ==
  ASSUME NEW S, NEW s \in Seq(S), NEW i \in 1 .. Len(s)
  PROVE  /\ RemoveAt(s, i) \in Seq(S)
         /\ Len(RemoveAt(s, i)) = Len(s) - 1
         /\ \A j \in 1 .. Len(s) - 1 : RemoveAt(s, i)[j] = IF j < i THEN s[j] ELSE s[j + 1]
<1> DEFINE p == SubSeq(s, 1, i - 1)
           q == SubSeq(s, i + 1, Len(s))
<1>1. /\ p \in Seq(S) /\ Len(p) = i - 1 /\ \A j \in 1 .. i - 1 : p[j] = s[j]
      /\ q \in Seq(S) /\ Len(q) = Len(s) - i /\ \A j \in 1 .. Len(s) - i : q[j] = s[i + j]
  BY SubSeqProperties
<1> HIDE DEF p, q
<1>2. /\ p \o q \in Seq(S) /\ Len(p \o q) = Len(p) + Len(q)
      /\ \A j \in 1 .. Len(p) + Len(q) : (p \o q)[j] = IF j <= Len(p) THEN p[j] ELSE q[j - Len(p)]
  BY <1>1, ConcatProperties
<1>3. RemoveAt(s, i) = p \o q
  BY DEF RemoveAt, p, q
<1>4. \A j \in 1 .. Len(s) - 1 : (p \o q)[j] = IF j < i THEN s[j] ELSE s[j + 1]
  <2> TAKE j \in 1 .. Len(s) - 1
  <2>1. j \in 1 .. Len(p) + Len(q) /\ Len(s) \in Nat
    BY <1>1
  <2>2. CASE j < i
    BY <1>1, <1>2, <2>1, <2>2
  <2>3. CASE ~(j < i)
    <3>1. j - Len(p) \in 1 .. Len(s) - i /\ i + (j - Len(p)) = j + 1 /\ ~(j <= Len(p))
      BY <1>1, <2>1, <2>3
    <3> QED BY <1>1, <1>2, <2>1, <2>3, <3>1
  <2> QED BY <2>2, <2>3
<1>5. Len(p \o q) = Len(s) - 1
  BY <1>1, <1>2
<1> QED BY <1>2, <1>3, <1>4, <1>5

\* From a sequence without repetition, one element goes and the others stay.
LEMMA RemoveAtOnce ==
  ASSUME NEW S, NEW s \in Seq(S), IsInjective(s), NEW i \in 1 .. Len(s)
  PROVE  /\ IsInjective(RemoveAt(s, i))
         /\ ToSet(RemoveAt(s, i)) = ToSet(s) \ {s[i]}
<1> DEFINE t == RemoveAt(s, i)
<1>1. /\ DOMAIN s = 1 .. Len(s) /\ DOMAIN t = 1 .. Len(s) - 1 /\ Len(s) \in Nat
      /\ \A j \in 1 .. Len(s) - 1 : t[j] = IF j < i THEN s[j] ELSE s[j + 1]
  BY RemoveAtProperties, LenProperties
<1> HIDE DEF t
<1>2. IsInjective(t)
  <2> SUFFICES ASSUME NEW a \in 1 .. Len(s) - 1, NEW b \in 1 .. Len(s) - 1, t[a] = t[b]
               PROVE  a = b
    BY <1>1 DEF IsInjective
  <2> DEFINE k(j) == IF j < i THEN j ELSE j + 1
  <2>1. k(a) \in 1 .. Len(s) /\ k(b) \in 1 .. Len(s) /\ s[k(a)] = s[k(b)]
    BY <1>1
  <2>2. k(a) = k(b)
    BY <1>1, <2>1 DEF IsInjective
  <2> QED BY <1>1, <2>2
<1>3. ToSet(t) \subseteq ToSet(s) \ {s[i]}
  BY <1>1 DEF ToSet, IsInjective
<1>4. ASSUME NEW k \in 1 .. Len(s), k # i PROVE s[k] \in ToSet(t)
  <2>1. s[k] = t[IF k < i THEN k ELSE k - 1]
    BY <1>1, <1>4
  <2> QED BY <1>1, <1>4, <2>1 DEF ToSet
<1> QED BY <1>1, <1>2, <1>3, <1>4 DEF ToSet, t

-----------------------------------------------------------------------------
Queued(t) == t \in ToSet(queue)
Served(t) == pt.cur = t /\ pt.at \notin {"idle", "tail"}
InSync == pt.at \in {"callback", "signal", "mutex", "signalEnd", "tail"}

\* portThread serves somebody unless it is idle, and holds synchronousLock from there on.
PortShape ==
  /\ pt.at = "idle" <=> pt.cur = None
  /\ pt.at \in {"signal", "mutex", "signalEnd"} => pt.cur \in Threads
  /\ pt.at \in {"mutex", "signalEnd"} => ~pt.timeout
  /\ InSync <=> sync = "port"
  /\ IsInjective(queue)
  /\ tt.at = "idle" <=> tt.cur = None

\* The mutex and the count of a thread, at each point of its calls.
CallShape(t) ==
  /\ call[t] \in {"queueing", "waiting"} => queueLockPortCount[t] = 0 /\ queueLockPortMutex[t] = t
  /\ call[t] = "unlocking" => queueLockPortCount[t] = 1 /\ queueLockPortMutex[t] = None
  /\ call[t] = "out" => queueLockPortMutex[t] = IF queueLockPortCount[t] = 0 THEN None ELSE t
  /\ call[t] = "queueing" => auxStatus[t] = "Success"
  /\ HasPort(t) => pt.cur = t /\ pt.at = "mutex" /\ ~queueLockPortEvent[t]

WhenQueued(t) == Queued(t) =>
  call[t] = "waiting" /\ ~queueLockPortEvent[t] /\ auxStatus[t] = "Success" /\ ~Served(t)
    /\ (tt.cur = t => tt.at = "fired")

WhenServed(t) == Served(t) =>
  /\ ~Queued(t)
  /\ pt.at \in {"timer", "sync", "callback", "signal"} => call[t] = "waiting" /\ ~queueLockPortEvent[t]
  /\ pt.at \in {"timer", "sync", "callback"} => auxStatus[t] = "Success"
  /\ pt.at = "signal" => auxStatus[t] = "Timeout"
  /\ IF pt.at = "timer" THEN tt.cur = t => tt.at = "fired" ELSE tt.cur # t /\ ~timer[t]
  /\ pt.at = "mutex" =>
       /\ auxStatus[t] = "Success"
       /\ \/ call[t] = "waiting" /\ queueLockPortEvent[t]
          \/ HasPort(t)
          \/ call[t] = "unlocking" /\ ~queueLockPortEvent[t]
  /\ pt.at = "signalEnd" => call[t] = "unlocking" /\ ~queueLockPortEvent[t]

WhenTimer(t) ==
  /\ timer[t] \/ (tt.cur = t /\ tt.at = "fired") => Queued(t) \/ (pt.cur = t /\ pt.at = "timer")
  /\ tt.cur = t => ~timer[t]
  /\ tt.cur = t /\ tt.at \in {"callback", "signal"} =>
       /\ call[t] = "waiting" /\ ~queueLockPortEvent[t] /\ ~Queued(t) /\ ~Served(t)
       /\ auxStatus[t] = IF tt.at = "signal" THEN "Timeout" ELSE "Success"

WhenEvent(t) == queueLockPortEvent[t] =>
  \/ call[t] = "waiting" /\ auxStatus[t] = "Success" /\ pt.cur = t /\ pt.at = "mutex"
  \/ call[t] = "waiting" /\ auxStatus[t] = "Timeout" /\ ~Served(t) /\ tt.cur # t
  \/ call[t] = "unlocking" /\ ~Served(t)

IInv ==
  /\ TypeOK /\ PortShape
  /\ \A t \in Threads : CallShape(t) /\ WhenQueued(t) /\ WhenServed(t) /\ WhenTimer(t) /\ WhenEvent(t)

-----------------------------------------------------------------------------
\* The queue without its first element.
LEMMA TailOnce ==
  ASSUME NEW S, NEW s \in Seq(S), s # << >>, IsInjective(s)
  PROVE  /\ Head(s) \in ToSet(s) /\ Head(s) \in S
         /\ Tail(s) \in Seq(S)
         /\ IsInjective(Tail(s))
         /\ ToSet(Tail(s)) = ToSet(s) \ {Head(s)}
  <1>1. /\ Head(s) = s[1] /\ 1 \in 1 .. Len(s) /\ Len(s) \in Nat
        /\ DOMAIN s = 1 .. Len(s)
        /\ Tail(s) \in Seq(S) /\ DOMAIN Tail(s) = 1 .. Len(s) - 1
        /\ \A i \in 1 .. Len(s) - 1 : Tail(s)[i] = s[i + 1]
    BY HeadTailProperties, EmptySeq, LenProperties
  <1>2. IsInjective(Tail(s))
    <2> SUFFICES ASSUME NEW i \in 1 .. Len(s) - 1, NEW j \in 1 .. Len(s) - 1, Tail(s)[i] = Tail(s)[j]
                 PROVE  i = j
      BY <1>1 DEF IsInjective
    <2>1. i + 1 \in DOMAIN s /\ j + 1 \in DOMAIN s /\ s[i + 1] = s[j + 1]
      BY <1>1
    <2>2. i + 1 = j + 1
      BY <2>1 DEF IsInjective
    <2> QED BY <2>2
  <1>3. ToSet(Tail(s)) \subseteq ToSet(s) \ {Head(s)}
    <2> SUFFICES ASSUME NEW i \in 1 .. Len(s) - 1 PROVE Tail(s)[i] \in ToSet(s) \ {Head(s)}
      BY <1>1 DEF ToSet
    <2>1. i + 1 \in DOMAIN s /\ i + 1 # 1 /\ 1 \in DOMAIN s
      BY <1>1
    <2>2. s[i + 1] # s[1]
      BY <2>1 DEF IsInjective
    <2> QED BY <1>1, <2>1, <2>2 DEF ToSet
  <1>4. ASSUME NEW k \in 1 .. Len(s), k # 1 PROVE s[k] \in ToSet(Tail(s))
    <2>1. k - 1 \in 1 .. Len(s) - 1 /\ Tail(s)[k - 1] = s[(k - 1) + 1] /\ (k - 1) + 1 = k
      BY <1>1, <1>4
    <2> QED BY <1>1, <2>1 DEF ToSet
  <1>5. ToSet(s) \ {Head(s)} \subseteq ToSet(Tail(s))
    BY <1>1, <1>4 DEF ToSet
  <1>6. Head(s) \in ToSet(s) /\ Head(s) \in S
    BY <1>1, ElementOfSeq DEF ToSet
  <1> QED BY <1>1, <1>2, <1>3, <1>5, <1>6

-----------------------------------------------------------------------------
LEMMA InitIInv == Init => IInv
<1> SUFFICES ASSUME Init PROVE IInv
  OBVIOUS
<1>1. ToSet(queue) = {} /\ IsInjective(queue) /\ queue \in Seq(Requesters)
  BY EmptySeq DEF Init, ToSet, IsInjective
<1>2. TypeOK
  BY <1>1, QueueLockAssumption DEF Init, TypeOK, Idle
<1>3. PortShape
  BY <1>1, QueueLockAssumption DEF Init, PortShape, InSync, Idle
<1>4. ASSUME NEW t \in Threads
      PROVE  CallShape(t) /\ WhenQueued(t) /\ WhenServed(t) /\ WhenTimer(t) /\ WhenEvent(t)
  BY <1>1, QueueLockAssumption
     DEF Init, CallShape, WhenQueued, WhenServed, WhenTimer, WhenEvent, Queued, Served, HasPort, Idle
<1> QED BY <1>2, <1>3, <1>4 DEF IInv

\* What the thread t does keeps the invariant.
LEMMA ThreadKeepsIInv ==
  ASSUME IInv, NEW t \in Threads, Thread(t) \/ TimerFires(t)
  PROVE  IInv'
<1> USE QueueLockAssumption DEF IInv
<1>q. ASSUME UNCHANGED queue PROVE ToSet(queue)' = ToSet(queue) /\ IsInjective(queue)' = IsInjective(queue)
  BY <1>q
<1> DEFINE Of(s) == CallShape(s) /\ WhenQueued(s) /\ WhenServed(s) /\ WhenTimer(s) /\ WhenEvent(s)
<1>1. CASE LockAgain(t)
  <2>1. TypeOK'
    BY <1>1 DEF TypeOK, LockAgain, connVars
  <2>2. PortShape'
    BY <1>1, <1>q DEF TypeOK, PortShape, InSync, LockAgain, connVars
  <2>3. ASSUME NEW s \in Threads PROVE Of(s)'
    BY <1>1, <1>q DEF TypeOK, PortShape, InSync, CallShape, WhenQueued, WhenServed, WhenTimer, WhenEvent,
       Queued, Served, HasPort, LockAgain, connVars
  <2> QED BY <2>1, <2>2, <2>3
<1>2. CASE QueueLockPort(t)
  <2>1. TypeOK'
    BY <1>2 DEF TypeOK, QueueLockPort, connVars
  <2>2. PortShape'
    BY <1>2, <1>q DEF TypeOK, PortShape, InSync, QueueLockPort, connVars
  <2>3. ASSUME NEW s \in Threads PROVE Of(s)'
    BY <1>2, <1>q DEF TypeOK, PortShape, InSync, CallShape, WhenQueued, WhenServed, WhenTimer, WhenEvent,
       Queued, Served, HasPort, QueueLockPort, connVars
  <2> QED BY <2>1, <2>2, <2>3
<1>3. CASE Refused(t)
  <2>1. TypeOK'
    BY <1>3 DEF TypeOK, Refused, connVars
  <2>2. PortShape'
    BY <1>3, <1>q DEF TypeOK, PortShape, InSync, Refused, connVars
  <2>3. ASSUME NEW s \in Threads PROVE Of(s)'
    BY <1>3, <1>q DEF TypeOK, PortShape, InSync, CallShape, WhenQueued, WhenServed, WhenTimer, WhenEvent,
       Queued, Served, HasPort, Refused, connVars
  <2> QED BY <2>1, <2>2, <2>3
<1>4. CASE Locked(t)
  <2>1. TypeOK'
    BY <1>4 DEF TypeOK, CallShape, Locked, ReceiveEvent, connVars
  <2>2. PortShape'
    BY <1>4, <1>q DEF TypeOK, PortShape, InSync, Locked, ReceiveEvent, connVars
  <2>3. ASSUME NEW s \in Threads PROVE Of(s)'
    BY <1>4, <1>q DEF TypeOK, PortShape, InSync, CallShape, WhenQueued, WhenServed, WhenTimer, WhenEvent,
       Queued, Served, HasPort, Locked, ReceiveEvent, connVars
  <2> QED BY <2>1, <2>2, <2>3
<1>5. CASE TimedOut(t)
  <2>1. TypeOK'
    BY <1>5 DEF TypeOK, TimedOut, ReceiveEvent, connVars
  <2>2. PortShape'
    BY <1>5, <1>q DEF TypeOK, PortShape, InSync, TimedOut, ReceiveEvent, connVars
  <2>3. ASSUME NEW s \in Threads PROVE Of(s)'
    BY <1>5, <1>q DEF TypeOK, PortShape, InSync, CallShape, WhenQueued, WhenServed, WhenTimer, WhenEvent,
       Queued, Served, HasPort, TimedOut, ReceiveEvent, connVars
  <2> QED BY <2>1, <2>2, <2>3
<1>6. CASE UnlockOnce(t)
  <2>1. TypeOK'
    BY <1>6 DEF TypeOK, UnlockOnce, connVars
  <2>2. PortShape'
    BY <1>6, <1>q DEF TypeOK, PortShape, InSync, UnlockOnce, connVars
  <2>3. ASSUME NEW s \in Threads PROVE Of(s)'
    BY <1>6, <1>q DEF TypeOK, PortShape, InSync, CallShape, WhenQueued, WhenServed, WhenTimer, WhenEvent,
       Queued, Served, HasPort, UnlockOnce, connVars
  <2> QED BY <2>1, <2>2, <2>3
<1>7. CASE QueueUnlockPort(t)
  <2>1. TypeOK'
    BY <1>7 DEF TypeOK, QueueUnlockPort, connVars
  <2>2. PortShape'
    BY <1>7, <1>q DEF TypeOK, PortShape, InSync, QueueUnlockPort, connVars
  <2>3. ASSUME NEW s \in Threads PROVE Of(s)'
    BY <1>7, <1>q DEF TypeOK, PortShape, InSync, CallShape, WhenQueued, WhenServed, WhenTimer, WhenEvent,
       Queued, Served, HasPort, QueueUnlockPort, connVars
  <2> QED BY <2>1, <2>2, <2>3
<1>8. CASE Unlocked(t)
  <2>1. TypeOK'
    BY <1>8 DEF TypeOK, CallShape, Unlocked, ReceiveEvent, connVars
  <2>2. PortShape'
    BY <1>8, <1>q DEF TypeOK, PortShape, InSync, Unlocked, ReceiveEvent, connVars
  <2>3. ASSUME NEW s \in Threads PROVE Of(s)'
    BY <1>8, <1>q DEF TypeOK, PortShape, InSync, CallShape, WhenQueued, WhenServed, WhenTimer, WhenEvent,
       Queued, Served, HasPort, Unlocked, ReceiveEvent, connVars
  <2> QED BY <2>1, <2>2, <2>3
<1>9. CASE TimerFires(t)
  <2>1. TypeOK'
    BY <1>9 DEF TypeOK, TimerFires, lockVars, connVars
  <2>2. PortShape'
    BY <1>9, <1>q DEF TypeOK, PortShape, InSync, TimerFires, lockVars, connVars
  <2>3. ASSUME NEW s \in Threads PROVE Of(s)'
    BY <1>9, <1>q DEF TypeOK, PortShape, InSync, CallShape, WhenQueued, WhenServed, WhenTimer, WhenEvent,
       Queued, Served, HasPort, TimerFires, lockVars, connVars
  <2> QED BY <2>1, <2>2, <2>3
<1>10. CASE QueueRequest(t)
  <2>1. /\ queue' = Append(queue, t) /\ t \notin ToSet(queue) /\ t \in Requesters
        /\ queue' \in Seq(Requesters) /\ ToSet(queue') = ToSet(queue) \cup {t} /\ IsInjective(queue')
    BY <1>10, AppendToSet DEF TypeOK, PortShape, WhenQueued, Queued, QueueRequest, Insert, Requesters
  <2>2. TypeOK'
    BY <1>10, <2>1 DEF TypeOK, QueueRequest, connVars
  <2>3. PortShape'
    BY <1>10, <2>1 DEF TypeOK, PortShape, InSync, QueueRequest, connVars
  <2>4. ASSUME NEW s \in Threads PROVE Of(s)'
    BY <1>10, <2>1 DEF TypeOK, PortShape, InSync, CallShape, WhenQueued, WhenServed, WhenTimer, WhenEvent,
       Queued, Served, HasPort, QueueRequest, connVars
  <2> QED BY <2>2, <2>3, <2>4
<1> QED BY <1>1, <1>2, <1>3, <1>4, <1>5, <1>6, <1>7, <1>8, <1>9, <1>10 DEF Thread

\* portThread keeps the invariant.
LEMMA PortKeepsIInv ==
  ASSUME IInv, PortThread
  PROVE  IInv'
<1> USE QueueLockAssumption DEF IInv
<1>q. ASSUME UNCHANGED queue PROVE ToSet(queue)' = ToSet(queue) /\ IsInjective(queue)' = IsInjective(queue)
  BY <1>q
<1> DEFINE Of(s) == CallShape(s) /\ WhenQueued(s) /\ WhenServed(s) /\ WhenTimer(s) /\ WhenEvent(s)
<1>1. CASE CancelTimer
  <2>1. TypeOK'
    BY <1>1 DEF TypeOK, CancelTimer, Goto, lockVars, connVars
  <2>2. PortShape'
    BY <1>1, <1>q DEF TypeOK, PortShape, InSync, WhenServed, Served, CancelTimer, Goto, lockVars, connVars
  <2>3. ASSUME NEW s \in Threads PROVE Of(s)'
    BY <1>1, <1>q DEF TypeOK, PortShape, InSync, CallShape, WhenQueued, WhenServed, WhenTimer, WhenEvent,
       Queued, Served, HasPort, CancelTimer, Goto, lockVars, connVars
  <2> QED BY <2>1, <2>2, <2>3
<1>2. CASE TakeSync
  <2>1. TypeOK'
    BY <1>2 DEF TypeOK, TakeSync, Goto, lockVars, connVars
  <2>2. PortShape'
    BY <1>2, <1>q DEF TypeOK, PortShape, InSync, WhenServed, Served, TakeSync, Goto, lockVars, connVars
  <2>3. ASSUME NEW s \in Threads PROVE Of(s)'
    BY <1>2, <1>q DEF TypeOK, PortShape, InSync, CallShape, WhenQueued, WhenServed, WhenTimer, WhenEvent,
       Queued, Served, HasPort, TakeSync, Goto, lockVars, connVars
  <2> QED BY <2>1, <2>2, <2>3
<1>3. CASE UserCallback
  <2>1. TypeOK'
    BY <1>3 DEF TypeOK, UserCallback, Goto, lockVars, connVars
  <2>2. PortShape'
    BY <1>3, <1>q DEF TypeOK, PortShape, InSync, WhenServed, Served, UserCallback, Goto, lockVars, connVars
  <2>3. ASSUME NEW s \in Threads PROVE Of(s)'
    BY <1>3, <1>q DEF TypeOK, PortShape, InSync, CallShape, WhenQueued, WhenServed, WhenTimer, WhenEvent,
       Queued, Served, HasPort, UserCallback, Goto, lockVars, connVars
  <2> QED BY <2>1, <2>2, <2>3
<1>4. CASE QueueLockPortCallback
  <2>1. TypeOK'
    BY <1>4 DEF TypeOK, QueueLockPortCallback, Goto, Signal, lockVars, connVars
  <2>2. PortShape'
    BY <1>4, <1>q DEF TypeOK, PortShape, InSync, WhenServed, Served, QueueLockPortCallback, Goto, Signal, lockVars, connVars
  <2>3. ASSUME NEW s \in Threads PROVE Of(s)'
    BY <1>4, <1>q DEF TypeOK, PortShape, InSync, CallShape, WhenQueued, WhenServed, WhenTimer, WhenEvent,
       Queued, Served, HasPort, QueueLockPortCallback, Goto, Signal, lockVars, connVars
  <2> QED BY <2>1, <2>2, <2>3
<1>5. CASE PassMutex
  <2>1. TypeOK'
    BY <1>5 DEF TypeOK, PassMutex, Goto, lockVars, connVars
  <2>2. PortShape'
    BY <1>5, <1>q DEF TypeOK, PortShape, InSync, WhenServed, Served, PassMutex, Goto, lockVars, connVars
  <2>3. ASSUME NEW s \in Threads PROVE Of(s)'
    BY <1>5, <1>q DEF TypeOK, PortShape, InSync, CallShape, WhenQueued, WhenServed, WhenTimer, WhenEvent,
       Queued, Served, HasPort, PassMutex, Goto, lockVars, connVars
  <2> QED BY <2>1, <2>2, <2>3
<1>6. CASE SignalEnd
  <2>1. TypeOK'
    BY <1>6 DEF TypeOK, SignalEnd, Goto, Signal, lockVars, connVars
  <2>2. PortShape'
    BY <1>6, <1>q DEF TypeOK, PortShape, InSync, WhenServed, Served, SignalEnd, Goto, Signal, lockVars, connVars
  <2>3. ASSUME NEW s \in Threads PROVE Of(s)'
    BY <1>6, <1>q DEF TypeOK, PortShape, InSync, CallShape, WhenQueued, WhenServed, WhenTimer, WhenEvent,
       Queued, Served, HasPort, SignalEnd, Goto, Signal, lockVars, connVars
  <2> QED BY <2>1, <2>2, <2>3
<1>7. CASE PortSetsTimeout
  <2>1. TypeOK'
    BY <1>7 DEF TypeOK, PortSetsTimeout, Goto, lockVars, connVars
  <2>2. PortShape'
    BY <1>7, <1>q DEF TypeOK, PortShape, InSync, WhenServed, Served, PortSetsTimeout, Goto, lockVars, connVars
  <2>3. ASSUME NEW s \in Threads PROVE Of(s)'
    BY <1>7, <1>q DEF TypeOK, PortShape, InSync, CallShape, WhenQueued, WhenServed, WhenTimer, WhenEvent,
       Queued, Served, HasPort, PortSetsTimeout, Goto, lockVars, connVars
  <2> QED BY <2>1, <2>2, <2>3
<1>8. CASE PortSignalsTimeout
  <2>1. TypeOK'
    BY <1>8 DEF TypeOK, PortSignalsTimeout, Goto, Signal, lockVars, connVars
  <2>2. PortShape'
    BY <1>8, <1>q DEF TypeOK, PortShape, InSync, WhenServed, Served, PortSignalsTimeout, Goto, Signal, lockVars, connVars
  <2>3. ASSUME NEW s \in Threads PROVE Of(s)'
    BY <1>8, <1>q DEF TypeOK, PortShape, InSync, CallShape, WhenQueued, WhenServed, WhenTimer, WhenEvent,
       Queued, Served, HasPort, PortSignalsTimeout, Goto, Signal, lockVars, connVars
  <2> QED BY <2>1, <2>2, <2>3
<1>9. CASE PortDone
  <2>1. TypeOK'
    BY <1>9 DEF TypeOK, PortDone, Idle, lockVars, connVars
  <2>2. PortShape'
    BY <1>9, <1>q DEF TypeOK, PortShape, InSync, WhenServed, Served, PortDone, Idle, lockVars, connVars
  <2>3. ASSUME NEW s \in Threads PROVE Of(s)'
    BY <1>9, <1>q DEF TypeOK, PortShape, InSync, CallShape, WhenQueued, WhenServed, WhenTimer, WhenEvent,
       Queued, Served, HasPort, PortDone, Idle, lockVars, connVars
  <2> QED BY <2>1, <2>2, <2>3
<1>10. CASE PortTake
  <2>1. /\ Head(queue) \in ToSet(queue) /\ Head(queue) \in Requesters
        /\ queue' \in Seq(Requesters) /\ IsInjective(queue') /\ ToSet(queue') = ToSet(queue) \ {Head(queue)}
    BY <1>10, TailOnce DEF TypeOK, PortShape, PortTake
  <2>2. TypeOK'
    BY <1>10, <2>1 DEF TypeOK, PortTake, lockVars, connVars
  <2>3. PortShape'
    BY <1>10, <2>1 DEF TypeOK, PortShape, InSync, PortTake, Requesters, lockVars, connVars
  <2>4. ASSUME NEW s \in Threads PROVE Of(s)'
    BY <1>10, <2>1 DEF TypeOK, PortShape, InSync, CallShape, WhenQueued, WhenServed, WhenTimer, WhenEvent,
       Queued, Served, HasPort, PortTake, lockVars, connVars
  <2> QED BY <2>2, <2>3, <2>4
<1> QED BY <1>1, <1>2, <1>3, <1>4, <1>5, <1>6, <1>7, <1>8, <1>9, <1>10 DEF PortThread

\* The timer thread keeps the invariant.
LEMMA TimerKeepsIInv ==
  ASSUME IInv, TimerThread
  PROVE  IInv'
<1> USE QueueLockAssumption DEF IInv
<1>q. ASSUME UNCHANGED queue PROVE ToSet(queue)' = ToSet(queue) /\ IsInjective(queue)' = IsInjective(queue)
  BY <1>q
<1> DEFINE Of(s) == CallShape(s) /\ WhenQueued(s) /\ WhenServed(s) /\ WhenTimer(s) /\ WhenEvent(s)
<1>1. CASE TimeoutNotQueued
  <2>1. TypeOK'
    BY <1>1 DEF TypeOK, TimeoutNotQueued, TimerIdle, lockVars, connVars
  <2>2. PortShape'
    BY <1>1, <1>q DEF TypeOK, PortShape, InSync, WhenServed, Served, TimeoutNotQueued, TimerIdle, lockVars, connVars
  <2>3. ASSUME NEW s \in Threads PROVE Of(s)'
    BY <1>1, <1>q DEF TypeOK, PortShape, InSync, CallShape, WhenQueued, WhenServed, WhenTimer, WhenEvent,
       Queued, Served, HasPort, TimeoutNotQueued, TimerIdle, lockVars, connVars
  <2> QED BY <2>1, <2>2, <2>3
<1>2. CASE TimerSetsTimeout
  <2>1. TypeOK'
    BY <1>2 DEF TypeOK, TimerSetsTimeout, lockVars, connVars
  <2>2. PortShape'
    BY <1>2, <1>q DEF TypeOK, PortShape, InSync, WhenServed, Served, TimerSetsTimeout, lockVars, connVars
  <2>3. ASSUME NEW s \in Threads PROVE Of(s)'
    BY <1>2, <1>q DEF TypeOK, PortShape, InSync, CallShape, WhenQueued, WhenServed, WhenTimer, WhenEvent,
       Queued, Served, HasPort, TimerSetsTimeout, lockVars, connVars
  <2> QED BY <2>1, <2>2, <2>3
<1>3. CASE TimerSignalsTimeout
  <2>1. TypeOK'
    BY <1>3 DEF TypeOK, TimerSignalsTimeout, Signal, TimerIdle, lockVars, connVars
  <2>2. PortShape'
    BY <1>3, <1>q DEF TypeOK, PortShape, InSync, WhenServed, Served, TimerSignalsTimeout, Signal, TimerIdle, lockVars, connVars
  <2>3. ASSUME NEW s \in Threads PROVE Of(s)'
    BY <1>3, <1>q DEF TypeOK, PortShape, InSync, CallShape, WhenQueued, WhenServed, WhenTimer, WhenEvent,
       Queued, Served, HasPort, TimerSignalsTimeout, Signal, TimerIdle, lockVars, connVars
  <2> QED BY <2>1, <2>2, <2>3
<1>4. CASE TimeoutQueued
  <2>1. PICK i \in DOMAIN queue : queue[i] = tt.cur /\ queue' = RemoveAt(queue, i)
    BY <1>4 DEF TimeoutQueued
  <2>2. i \in 1 .. Len(queue)
    BY <2>1, LenProperties DEF TypeOK
  <2>3. /\ tt.cur \in ToSet(queue)
        /\ queue' \in Seq(Requesters) /\ IsInjective(queue') /\ ToSet(queue') = ToSet(queue) \ {tt.cur}
    <3>1. queue \in Seq(Requesters) /\ IsInjective(queue)
      BY DEF TypeOK, PortShape
    <3>2. tt.cur \in ToSet(queue)
      BY <2>1 DEF ToSet
    <3>3. RemoveAt(queue, i) \in Seq(Requesters)
      BY <2>2, <3>1, RemoveAtProperties
    <3>4. IsInjective(RemoveAt(queue, i)) /\ ToSet(RemoveAt(queue, i)) = ToSet(queue) \ {queue[i]}
      BY <2>2, <3>1, RemoveAtOnce
    <3> QED BY <2>1, <3>2, <3>3, <3>4
  <2>4. TypeOK'
    BY <1>4, <2>3 DEF TypeOK, TimeoutQueued, lockVars, connVars
  <2>5. PortShape'
    BY <1>4, <2>3 DEF TypeOK, PortShape, InSync, TimeoutQueued, lockVars, connVars
  <2>6. ASSUME NEW s \in Threads PROVE Of(s)'
    BY <1>4, <2>3 DEF TypeOK, PortShape, InSync, CallShape, WhenQueued, WhenServed, WhenTimer, WhenEvent,
       Queued, Served, HasPort, TimeoutQueued, lockVars, connVars
  <2> QED BY <2>4, <2>5, <2>6
<1> QED BY <1>1, <1>2, <1>3, <1>4 DEF TimerThread

\* The others keep the invariant: they touch nothing of a thread's lock but the queue.
LEMMA OthersKeepIInv ==
  ASSUME IInv,
         \/ \E u \in Users : UserRequest(u)
         \/ \E l \in Lockers : LockPort(l) \/ UnlockPort(l)
         \/ \E d \in Dpcs : ConnectionLost(d) \/ ConnectionBack(d)
         \/ UNCHANGED vars
  PROVE  IInv'
<1> USE QueueLockAssumption DEF IInv
<1>q. ASSUME UNCHANGED queue PROVE ToSet(queue)' = ToSet(queue) /\ IsInjective(queue)' = IsInjective(queue)
  BY <1>q
<1> DEFINE Of(s) == CallShape(s) /\ WhenQueued(s) /\ WhenServed(s) /\ WhenTimer(s) /\ WhenEvent(s)
<1>1. CASE ~(\E u \in Users : UserRequest(u))
  <2> DEFINE Kept == /\ UNCHANGED <<call, queueLockPortCount, queueLockPortMutex, queueLockPortEvent>>
                     /\ UNCHANGED <<auxStatus, timer, queue, pt, tt>>
                     /\ sync' = "port" <=> sync = "port"
                     /\ TypeOK'
  <2>1. Kept
    <3>1. ASSUME NEW d \in Dpcs, ConnectionLost(d) PROVE Kept
      <4>1. connected' \in [Dpcs -> BOOLEAN]
        BY <3>1 DEF TypeOK, ConnectionLost
      <4>2. drops' \in 0 .. MaxDrops
        <5>1. drops \in 0 .. MaxDrops /\ drops < MaxDrops /\ drops' = drops + 1 /\ MaxDrops \in Nat
          BY <3>1 DEF TypeOK, ConnectionLost
        <5> QED BY <5>1
      <4>3. TypeOK'
        BY <3>1, <4>1, <4>2 DEF TypeOK, ConnectionLost, lockVars
      <4> QED BY <3>1, <4>3 DEF ConnectionLost, lockVars
    <3>2. ASSUME NEW d \in Dpcs, ConnectionBack(d) PROVE Kept
      <4>1. TypeOK'
        BY <3>2 DEF TypeOK, ConnectionBack, lockVars
      <4> QED BY <3>2, <4>1 DEF ConnectionBack, lockVars
    <3>3. CASE UNCHANGED vars
      <4>1. TypeOK'
        BY <3>3 DEF TypeOK, vars, lockVars, connVars
      <4> QED BY <3>3, <4>1 DEF vars, lockVars, connVars
    <3>4. ASSUME NEW l \in Lockers, LockPort(l) PROVE Kept
      BY <3>4 DEF TypeOK, LockPort, lockVars, connVars
    <3>5. ASSUME NEW l \in Lockers, UnlockPort(l) PROVE Kept
      BY <3>5 DEF TypeOK, UnlockPort, lockVars, connVars
    <3> QED BY <1>1, <3>1, <3>2, <3>3, <3>4, <3>5
  <2>2. PortShape'
    BY <1>q, <2>1 DEF PortShape, InSync
  <2>3. ASSUME NEW s \in Threads PROVE Of(s)'
    BY <1>q, <2>1 DEF CallShape, WhenQueued, WhenServed, WhenTimer, WhenEvent, Queued, Served, HasPort, lockVars
  <2> QED BY <2>1, <2>2, <2>3
<1>2. CASE \E u \in Users : UserRequest(u)
  <2>1. PICK u \in Users : UserRequest(u)
    BY <1>2
  <2>2. /\ u \notin Threads /\ queue' = Append(queue, u)
        /\ queue' \in Seq(Requesters) /\ ToSet(queue') = ToSet(queue) \cup {u} /\ IsInjective(queue')
    BY <2>1, AppendToSet DEF TypeOK, PortShape, UserRequest, Requesters
  <2>3. TypeOK'
    BY <2>1, <2>2 DEF TypeOK, UserRequest, lockVars, connVars
  <2>4. PortShape'
    BY <2>1, <2>2 DEF PortShape, InSync, UserRequest
  <2>5. ASSUME NEW s \in Threads PROVE Of(s)'
    BY <2>1, <2>2 DEF CallShape, WhenQueued, WhenServed, WhenTimer, WhenEvent, Queued, Served, HasPort, UserRequest, lockVars
  <2> QED BY <2>3, <2>4, <2>5
<1> QED BY <1>1, <1>2

-----------------------------------------------------------------------------
\* The invariant holds for any threads, asynUsers and lockers.
THEOREM Invariant == Spec => []IInv
<1>1. Init => IInv
  BY InitIInv
<1>2. IInv /\ [Next]_vars => IInv'
  BY ThreadKeepsIInv, PortKeepsIInv, TimerKeepsIInv, OthersKeepIInv DEF Next
<1> QED BY <1>1, <1>2, PTL DEF Spec

\* Every event is received by the call it is for: a later call of queueLockPort cannot take
\* it for its own.
THEOREM EventsExpected == Spec => []EventExpected
<1>1. IInv => EventExpected
  BY DEF IInv, WhenEvent, EventExpected
<1> QED BY <1>1, Invariant, PTL

-----------------------------------------------------------------------------
\* Who has the port, read off synchronousLock and portThread.
Holder ==
  IF sync \in Lockers THEN {sync}
  ELSE IF \/ pt.at = "callback" /\ pt.cur \in Users
          \/ pt.at = "mutex" /\ pt.cur \in Threads /\ HasPort(pt.cur)
       THEN {pt.cur} ELSE {}

LEMMA OneHolder == IInv => Holders = Holder
<1> SUFFICES ASSUME IInv PROVE Holders = Holder
  OBVIOUS
<1>1. \A t \in Threads : HasPort(t) => pt.cur = t /\ pt.at = "mutex"
  BY DEF IInv, CallShape
<1>2. pt.at \in {"callback", "mutex"} <=> pt.at \in {"callback", "mutex"} /\ sync = "port"
  BY DEF IInv, PortShape, InSync
<1>3. "port" \notin Lockers /\ Threads \cap Users = {}
  BY QueueLockAssumption
<1>4. CASE sync \in Lockers
  BY <1>1, <1>2, <1>3, <1>4 DEF Holders, Holder
<1>5. CASE sync \notin Lockers
  BY <1>1, <1>2, <1>3, <1>5 DEF Holders, Holder
<1> QED BY <1>4, <1>5

\* A client gets the port from nobody and gives it back to nobody, whatever a step does.
LEMMA StepsLock ==
  ASSUME IInv, [Next]_vars, Holders = Holder, Holders' = Holder'
  PROVE  [Lock!Next]_Holders
<1> USE QueueLockAssumption
<1>1. /\ PortShape /\ \A t \in Threads : CallShape(t) /\ WhenServed(t) /\ WhenEvent(t)
      /\ call \in [Threads -> {"out", "queueing", "waiting", "unlocking"}]
      /\ queueLockPortCount \in [Threads -> 0 .. MaxNest]
      /\ pt \in [at : {"idle", "timer", "sync", "callback", "signal", "mutex", "signalEnd", "tail"},
             cur : Requesters \cup {None}, timeout : BOOLEAN]
  BY DEF IInv, TypeOK
<1> SUFFICES Holder' = Holder \/ \E c \in Threads \cup Users \cup Lockers :
                 \/ Holder = {} /\ Holder' = {c}
                 \/ Holder = {c} /\ Holder' = {}
  BY DEF Lock!Next, Lock!Acquire, Lock!Release
<1>2. ASSUME NEW t \in Threads, Thread(t) \/ TimerFires(t)
      PROVE  \/ Holder' = Holder
             \/ Holder = {} /\ Holder' = {t}
             \/ Holder = {t} /\ Holder' = {}
  <2>1. CASE LockAgain(t)
    BY <1>1, <2>1 DEF Holder, HasPort, LockAgain
  <2>2. CASE QueueLockPort(t)
    BY <1>1, <2>2 DEF Holder, HasPort, QueueLockPort
  <2>3. CASE QueueRequest(t)
    BY <1>1, <2>3 DEF Holder, HasPort, QueueRequest
  <2>4. CASE Refused(t)
    BY <1>1, <2>4 DEF Holder, HasPort, CallShape, Refused
  <2>5. CASE Locked(t)
    BY <1>1, <2>5 DEF Holder, HasPort, PortShape, InSync, WhenEvent, Locked, ReceiveEvent
  <2>6. CASE TimedOut(t)
    BY <1>1, <2>6 DEF Holder, HasPort, CallShape, TimedOut, ReceiveEvent
  <2>7. CASE UnlockOnce(t)
    BY <1>1, <2>7 DEF Holder, HasPort, UnlockOnce
  <2>8. CASE QueueUnlockPort(t)
    BY <1>1, <2>8 DEF Holder, HasPort, CallShape, PortShape, InSync, QueueUnlockPort
  <2>9. CASE Unlocked(t)
    BY <1>1, <2>9 DEF Holder, HasPort, CallShape, Unlocked, ReceiveEvent
  <2>10. CASE TimerFires(t)
    BY <2>10 DEF Holder, HasPort, TimerFires, lockVars
  <2> QED BY <1>2, <2>1, <2>2, <2>3, <2>4, <2>5, <2>6, <2>7, <2>8, <2>9, <2>10 DEF Thread
<1>3. ASSUME PortThread
      PROVE  \/ Holder' = Holder
             \/ pt.cur \in Users /\ Holder = {} /\ Holder' = {pt.cur}
             \/ pt.cur \in Users /\ Holder = {pt.cur} /\ Holder' = {}
  <2>1. CASE PortTake
    BY <1>1, <2>1 DEF Holder, HasPort, PortTake, lockVars
  <2>2. CASE CancelTimer
    BY <1>1, <2>2 DEF Holder, HasPort, CancelTimer, Goto, lockVars
  <2>3. CASE TakeSync
    BY <1>1, <2>3 DEF Holder, HasPort, PortShape, TakeSync, Goto, lockVars
  <2>4. CASE UserCallback
    BY <1>1, <2>4 DEF Holder, HasPort, PortShape, InSync, UserCallback, Goto, lockVars
  <2>5. CASE QueueLockPortCallback
    BY <1>1, <2>5 DEF Holder, HasPort, PortShape, CallShape, QueueLockPortCallback, Goto, lockVars
  <2>6. CASE PassMutex
    BY <1>1, <2>6 DEF Holder, HasPort, PortShape, CallShape, PassMutex, Goto, lockVars
  <2>7. CASE SignalEnd
    BY <1>1, <2>7 DEF Holder, HasPort, SignalEnd, Goto, lockVars
  <2>8. CASE PortSetsTimeout
    BY <1>1, <2>8 DEF Holder, HasPort, PortSetsTimeout, Goto, lockVars
  <2>9. CASE PortSignalsTimeout
    BY <1>1, <2>9 DEF Holder, HasPort, PortSignalsTimeout, Goto, lockVars
  <2>10. CASE PortDone
    BY <1>1, <2>10 DEF Holder, HasPort, PortShape, InSync, PortDone, Idle, lockVars
  <2> QED BY <1>3, <2>1, <2>2, <2>3, <2>4, <2>5, <2>6, <2>7, <2>8, <2>9, <2>10 DEF PortThread
<1>4. CASE TimerThread
  BY <1>4 DEF Holder, HasPort, TimerThread, TimeoutQueued, TimeoutNotQueued, TimerSetsTimeout, TimerSignalsTimeout,
     lockVars
<1>5. ASSUME NEW u \in Users, UserRequest(u) PROVE Holder' = Holder
  BY <1>5 DEF Holder, HasPort, UserRequest, lockVars
<1>6. ASSUME NEW l \in Lockers, LockPort(l)
      PROVE  Holder = {} /\ Holder' = {l}
  BY <1>1, <1>6 DEF Holder, PortShape, InSync, LockPort, lockVars
<1>7. ASSUME NEW l \in Lockers, UnlockPort(l)
      PROVE  Holder = {l} /\ Holder' = {}
  BY <1>1, <1>7 DEF Holder, PortShape, InSync, UnlockPort, lockVars
<1>8. CASE (\E d \in Dpcs : ConnectionLost(d) \/ ConnectionBack(d)) \/ UNCHANGED vars
  BY <1>8 DEF Holder, HasPort, ConnectionLost, ConnectionBack, vars, lockVars
<1> QED BY <1>2, <1>3, <1>4, <1>5, <1>6, <1>7, <1>8 DEF Next

\* queueLockPort, the callbacks of queueRequest and lockPort are one lock: at most one of
\* their callers has the port, and it lets go before another one gets it.
THEOREM PortIsLock == Spec => ImplementsLock
<1>1. Init => Lock!Init
  BY QueueLockAssumption DEF Init, Lock!Init, Holders, HasPort, Idle
<1>2. IInv /\ [Next]_vars /\ Holders = Holder /\ (Holders = Holder)' => [Lock!Next]_Holders
  BY StepsLock
<1>3. Spec => [](Holders = Holder)
  <2>1. IInv => Holders = Holder
    BY OneHolder
  <2> QED BY <2>1, Invariant, PTL
<1> QED BY <1>1, <1>2, <1>3, Invariant, PTL DEF Spec, ImplementsLock, Lock!Spec
=============================================================================
