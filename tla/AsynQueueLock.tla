--------------------------- MODULE AsynQueueLock ---------------------------
(***************************************************************************)
(* queueLockPort and queueUnlockPort of asynManager on a port that can     *)
(* block.  A thread queues a request whose callback, in portThread, tells  *)
(* the thread by an event that it has the port and then waits for a mutex  *)
(* which the thread holds: that keeps portThread, and with it              *)
(* synchronousLock, until queueUnlockPort releases the mutex.              *)
(*                                                                         *)
(* Beside the threads: the requests of other asynUsers (Users), threads    *)
(* that call lockPort (Lockers), portThread (pt), and the thread of the    *)
(* timer queue (tt).  Of the port there is what these calls use: one queue,*)
(* since requests of a higher priority may overtake without end, no blocks *)
(* and no disabling; the requests are all for one device of the port.  The *)
(* driver registers no asynLockPortNotify, as all drivers but one in       *)
(* testApp.                                                                *)
(***************************************************************************)
EXTENDS Naturals, SequencesExt

CONSTANTS
  Threads,   \* threads that call queueLockPort
  Users,     \* asynUsers with requests of their own
  Lockers,   \* threads that call lockPort
  None,
  MaxNest,   \* bound on nested queueLockPort calls of a thread
  MaxLocks,  \* bound on the lockPort calls of each locker
  MaxDrops   \* bound on losses of the connection

ASSUME QueueLockAssumption ==
  /\ Threads \cap Users = {} /\ Threads \cap Lockers = {} /\ Users \cap Lockers = {}
  /\ "port" \notin Threads \cup Users \cup Lockers /\ None \notin Threads \cup Users \cup Lockers \cup {"port"}
  /\ MaxNest \in Nat \ {0} /\ MaxLocks \in Nat /\ MaxDrops \in Nat

VARIABLES
  call,      \* where in queueLockPort or queueUnlockPort a thread is
  queueLockPortCount, queueLockPortEvent,
  queueLockPortMutex,  \* the thread itself, or None
  auxStatus, \* of the copy of the asynUser the thread has queued
  timer,     \* whether the timer of that copy runs
  queue,     \* the queue of the port
  sync,      \* who holds synchronousLock
  locks,     \* lockPort calls a locker may still make
  connected, drops,    \* the connections of the port and of the device, and how often one was lost
  pt,        \* portThread: where it is, for whom, and whether it calls the timeout callback
  tt         \* the timer thread: where it is and for whom

lockVars == <<call, queueLockPortCount, queueLockPortMutex>>
connVars == <<connected, drops>>
vars == <<lockVars, queueLockPortEvent, auxStatus, timer, queue, sync, locks, connVars, pt, tt>>

Requesters == Threads \cup Users
Dpcs == {"port", "device"}
Idle == [at |-> "idle", cur |-> None, timeout |-> FALSE]

TypeOK ==
  /\ call \in [Threads -> {"out", "queueing", "waiting", "unlocking"}]
  /\ queueLockPortCount \in [Threads -> 0 .. MaxNest]
  /\ queueLockPortEvent \in [Threads -> BOOLEAN]
  /\ queueLockPortMutex \in [Threads -> Threads \cup {None}]
  /\ auxStatus \in [Threads -> {"Success", "Timeout"}]
  /\ timer \in [Threads -> BOOLEAN]
  /\ queue \in Seq(Requesters)
  /\ sync \in Lockers \cup {"port", None}
  /\ locks \in [Lockers -> 0 .. MaxLocks]
  /\ connected \in [Dpcs -> BOOLEAN] /\ drops \in 0 .. MaxDrops
  /\ pt \in [at : {"idle", "timer", "sync", "callback", "signal", "mutex", "signalEnd", "tail"},
             cur : Requesters \cup {None}, timeout : BOOLEAN]
  /\ tt \in [at : {"idle", "fired", "callback", "signal"}, cur : Threads \cup {None}]

Init ==
  /\ call = [t \in Threads |-> "out"]
  /\ queueLockPortCount = [t \in Threads |-> 0]
  /\ queueLockPortEvent = [t \in Threads |-> FALSE]
  /\ queueLockPortMutex = [t \in Threads |-> None]
  /\ auxStatus = [t \in Threads |-> "Success"]
  /\ timer = [t \in Threads |-> FALSE]
  /\ queue = << >>
  /\ sync = None
  /\ locks = [l \in Lockers |-> MaxLocks]
  /\ connected = [d \in Dpcs |-> TRUE] /\ drops = 0
  /\ pt = Idle
  /\ tt = [at |-> "idle", cur |-> None]

-----------------------------------------------------------------------------
(* queueLockPort *)

\* A thread that has the port only counts.
LockAgain(t) ==
  /\ call[t] = "out" /\ queueLockPortCount[t] \in 1 .. MaxNest - 1
  /\ queueLockPortCount' = [queueLockPortCount EXCEPT ![t] = @ + 1]
  /\ UNCHANGED <<call, queueLockPortMutex, queueLockPortEvent, auxStatus, timer, queue, sync, locks, connVars, pt, tt>>

QueueLockPort(t) ==
  /\ call[t] = "out" /\ queueLockPortCount[t] = 0
  /\ queueLockPortMutex[t] = None
  /\ auxStatus' = [auxStatus EXCEPT ![t] = "Success"]
  /\ queueLockPortMutex' = [queueLockPortMutex EXCEPT ![t] = t]
  /\ call' = [call EXCEPT ![t] = "queueing"]
  /\ UNCHANGED <<queueLockPortCount, queueLockPortEvent, timer, queue, sync, locks, connVars, pt, tt>>

\* ahead of everybody who waits
InsertFirst(q, t) == <<t>> \o q
Insert(q, t) == Append(q, t)

\* queueRequest accepts the request, or refuses it while the port is not connected.
QueueRequest(t) ==
  /\ call[t] = "queueing" /\ connected["port"]
  /\ queue' = Insert(queue, t)
  /\ timer' = [timer EXCEPT ![t] = TRUE]
  /\ call' = [call EXCEPT ![t] = "waiting"]
  /\ UNCHANGED <<queueLockPortCount, queueLockPortMutex, queueLockPortEvent, auxStatus, sync, locks, connVars, pt, tt>>

Refused(t) ==
  /\ call[t] = "queueing" /\ ~connected["port"]
  /\ queueLockPortMutex' = [queueLockPortMutex EXCEPT ![t] = None]
  /\ call' = [call EXCEPT ![t] = "out"]
  /\ UNCHANGED <<queueLockPortCount, queueLockPortEvent, auxStatus, timer, queue, sync, locks, connVars, pt, tt>>

ReceiveEvent(t) ==
  /\ queueLockPortEvent[t]
  /\ queueLockPortEvent' = [queueLockPortEvent EXCEPT ![t] = FALSE]
  /\ call' = [call EXCEPT ![t] = "out"]

\* The event has come: the port is locked, or the request has timed out.
Locked(t) ==
  /\ call[t] = "waiting" /\ ReceiveEvent(t)
  /\ auxStatus[t] = "Success"
  /\ queueLockPortCount' = [queueLockPortCount EXCEPT ![t] = @ + 1]
  /\ UNCHANGED <<queueLockPortMutex, auxStatus, timer, queue, sync, locks, connVars, pt, tt>>

TimedOut(t) ==
  /\ call[t] = "waiting" /\ ReceiveEvent(t)
  /\ auxStatus[t] # "Success"
  /\ queueLockPortMutex' = [queueLockPortMutex EXCEPT ![t] = None]
  /\ UNCHANGED <<queueLockPortCount, auxStatus, timer, queue, sync, locks, connVars, pt, tt>>

-----------------------------------------------------------------------------
(* queueUnlockPort *)

UnlockOnce(t) ==
  /\ call[t] = "out" /\ queueLockPortCount[t] > 1
  /\ queueLockPortCount' = [queueLockPortCount EXCEPT ![t] = @ - 1]
  /\ UNCHANGED <<call, queueLockPortMutex, queueLockPortEvent, auxStatus, timer, queue, sync, locks, connVars, pt, tt>>

\* returns without waiting for the callback to end
QueueUnlockPortAtOnce(t) ==
  /\ call[t] = "out" /\ queueLockPortCount[t] = 1
  /\ queueLockPortMutex' = [queueLockPortMutex EXCEPT ![t] = None]
  /\ queueLockPortCount' = [queueLockPortCount EXCEPT ![t] = 0]
  /\ UNCHANGED <<call, queueLockPortEvent, auxStatus, timer, queue, sync, locks, connVars, pt, tt>>

QueueUnlockPort(t) ==
  /\ call[t] = "out" /\ queueLockPortCount[t] = 1
  /\ queueLockPortMutex' = [queueLockPortMutex EXCEPT ![t] = None]
  /\ call' = [call EXCEPT ![t] = "unlocking"]
  /\ UNCHANGED <<queueLockPortCount, queueLockPortEvent, auxStatus, timer, queue, sync, locks, connVars, pt, tt>>

Unlocked(t) ==
  /\ call[t] = "unlocking" /\ ReceiveEvent(t)
  /\ queueLockPortCount' = [queueLockPortCount EXCEPT ![t] = @ - 1]
  /\ UNCHANGED <<queueLockPortMutex, auxStatus, timer, queue, sync, locks, connVars, pt, tt>>

-----------------------------------------------------------------------------
(* The others: a request of an asynUser, lockPort and unlockPort, the connection. *)

UserRequest(u) ==
  /\ connected["port"]
  /\ u \notin ToSet(queue) /\ pt.cur # u
  /\ queue' = Append(queue, u)
  /\ UNCHANGED <<lockVars, queueLockPortEvent, auxStatus, timer, sync, locks, connVars, pt, tt>>

LockPort(l) ==
  /\ sync = None /\ locks[l] > 0
  /\ sync' = l
  /\ locks' = [locks EXCEPT ![l] = @ - 1]
  /\ UNCHANGED <<lockVars, queueLockPortEvent, auxStatus, timer, queue, connVars, pt, tt>>

UnlockPort(l) ==
  /\ sync = l
  /\ sync' = None
  /\ UNCHANGED <<lockVars, queueLockPortEvent, auxStatus, timer, queue, locks, connVars, pt, tt>>

ConnectionLost(d) ==
  /\ connected[d] /\ drops < MaxDrops
  /\ connected' = [connected EXCEPT ![d] = FALSE] /\ drops' = drops + 1
  /\ UNCHANGED <<lockVars, queueLockPortEvent, auxStatus, timer, queue, sync, locks, pt, tt>>

ConnectionBack(d) ==
  /\ ~connected[d]
  /\ connected' = [connected EXCEPT ![d] = TRUE]
  /\ UNCHANGED <<lockVars, queueLockPortEvent, auxStatus, timer, queue, sync, locks, drops, pt, tt>>

-----------------------------------------------------------------------------
(* portThread *)

Goto(at) == pt' = [pt EXCEPT !.at = at]
Signal(t) == queueLockPortEvent' = [queueLockPortEvent EXCEPT ![t] = TRUE]

\* portThread leaves the queue alone while the port is not connected.  When the device is not,
\* a request that has a timeout callback gets that one.
PortTake ==
  /\ pt.at = "idle" /\ queue # << >> /\ connected["port"]
  /\ queue' = Tail(queue)
  /\ pt' = [at |-> "timer", cur |-> Head(queue), timeout |-> ~connected["device"] /\ Head(queue) \in Threads]
  /\ UNCHANGED <<lockVars, queueLockPortEvent, auxStatus, timer, sync, locks, connVars, tt>>

\* epicsTimerCancel waits for a callback of the timer that is running.
CancelTimer ==
  /\ pt.at = "timer"
  /\ tt.cur # pt.cur
  /\ timer' = [t \in Threads |-> timer[t] /\ t # pt.cur]
  /\ Goto("sync")
  /\ UNCHANGED <<lockVars, queueLockPortEvent, auxStatus, queue, sync, locks, connVars, tt>>

TakeSync ==
  /\ pt.at = "sync" /\ sync = None
  /\ sync' = "port"
  /\ Goto("callback")
  /\ UNCHANGED <<lockVars, queueLockPortEvent, auxStatus, timer, queue, locks, connVars, tt>>

UserCallback ==
  /\ pt.at = "callback" /\ pt.cur \in Users
  /\ Goto("tail")
  /\ UNCHANGED <<lockVars, queueLockPortEvent, auxStatus, timer, queue, sync, locks, connVars, tt>>

\* the thread is told that it has the port, and may release it in the same breath
QueueLockPortCallbackNoMutex ==
  /\ pt.at = "callback" /\ pt.cur \in Threads /\ ~pt.timeout
  /\ Signal(pt.cur)
  /\ Goto("signalEnd")
  /\ UNCHANGED <<lockVars, auxStatus, timer, queue, sync, locks, connVars, tt>>

\* queueLockPortCallback: tells the thread, waits for its mutex, tells it again.
QueueLockPortCallback ==
  /\ pt.at = "callback" /\ pt.cur \in Threads /\ ~pt.timeout
  /\ Signal(pt.cur)
  /\ Goto("mutex")
  /\ UNCHANGED <<lockVars, auxStatus, timer, queue, sync, locks, connVars, tt>>

PassMutex ==
  /\ pt.at = "mutex" /\ queueLockPortMutex[pt.cur] = None
  /\ Goto("signalEnd")
  /\ UNCHANGED <<lockVars, queueLockPortEvent, auxStatus, timer, queue, sync, locks, connVars, tt>>

SignalEndForgotten ==
  /\ pt.at = "signalEnd"
  /\ Goto("tail")
  /\ UNCHANGED <<lockVars, queueLockPortEvent, auxStatus, timer, queue, sync, locks, connVars, tt>>

SignalEnd ==
  /\ pt.at = "signalEnd"
  /\ Signal(pt.cur)
  /\ Goto("tail")
  /\ UNCHANGED <<lockVars, auxStatus, timer, queue, sync, locks, connVars, tt>>

\* queueLockPortTimeoutCallback, called by portThread for a device that is not connected.
PortSetsTimeout ==
  /\ pt.at = "callback" /\ pt.cur \in Threads /\ pt.timeout
  /\ auxStatus' = [auxStatus EXCEPT ![pt.cur] = "Timeout"]
  /\ Goto("signal")
  /\ UNCHANGED <<lockVars, queueLockPortEvent, timer, queue, sync, locks, connVars, tt>>

PortSignalsTimeout ==
  /\ pt.at = "signal"
  /\ Signal(pt.cur)
  /\ Goto("tail")
  /\ UNCHANGED <<lockVars, auxStatus, timer, queue, sync, locks, connVars, tt>>

PortDone ==
  /\ pt.at = "tail"
  /\ sync' = None
  /\ pt' = Idle
  /\ UNCHANGED <<lockVars, queueLockPortEvent, auxStatus, timer, queue, locks, connVars, tt>>

-----------------------------------------------------------------------------
(* The timer thread: queueTimeoutCallback and queueLockPortTimeoutCallback. *)

TimerFires(t) ==
  /\ tt.at = "idle" /\ timer[t]
  /\ timer' = [timer EXCEPT ![t] = FALSE]
  /\ tt' = [at |-> "fired", cur |-> t]
  /\ UNCHANGED <<lockVars, queueLockPortEvent, auxStatus, queue, sync, locks, connVars, pt>>

TimerIdle == [at |-> "idle", cur |-> None]

TimeoutQueued ==
  /\ tt.at = "fired"
  /\ \E i \in DOMAIN queue : queue[i] = tt.cur /\ queue' = RemoveAt(queue, i)
  /\ tt' = [tt EXCEPT !.at = "callback"]
  /\ UNCHANGED <<lockVars, queueLockPortEvent, auxStatus, timer, sync, locks, connVars, pt>>

TimeoutNotQueued ==
  /\ tt.at = "fired" /\ tt.cur \notin ToSet(queue)
  /\ tt' = TimerIdle
  /\ UNCHANGED <<lockVars, queueLockPortEvent, auxStatus, timer, queue, sync, locks, connVars, pt>>

TimerSetsTimeout ==
  /\ tt.at = "callback"
  /\ auxStatus' = [auxStatus EXCEPT ![tt.cur] = "Timeout"]
  /\ tt' = [tt EXCEPT !.at = "signal"]
  /\ UNCHANGED <<lockVars, queueLockPortEvent, timer, queue, sync, locks, connVars, pt>>

TimerSignalsTimeout ==
  /\ tt.at = "signal"
  /\ Signal(tt.cur)
  /\ tt' = TimerIdle
  /\ UNCHANGED <<lockVars, auxStatus, timer, queue, sync, locks, connVars, pt>>

-----------------------------------------------------------------------------
Thread(t) ==
  \/ LockAgain(t) \/ QueueLockPort(t) \/ QueueRequest(t) \/ Refused(t) \/ Locked(t) \/ TimedOut(t)
  \/ UnlockOnce(t) \/ QueueUnlockPort(t) \/ Unlocked(t)

PortThread ==
  \/ PortTake \/ CancelTimer \/ TakeSync \/ UserCallback
  \/ QueueLockPortCallback \/ PassMutex \/ SignalEnd \/ PortSetsTimeout \/ PortSignalsTimeout \/ PortDone

TimerThread ==
  TimeoutQueued \/ TimeoutNotQueued \/ TimerSetsTimeout \/ TimerSignalsTimeout

Next ==
  \/ \E t \in Threads : Thread(t) \/ TimerFires(t)
  \/ \E u \in Users : UserRequest(u)
  \/ \E l \in Lockers : LockPort(l) \/ UnlockPort(l)
  \/ \E d \in Dpcs : ConnectionLost(d) \/ ConnectionBack(d)
  \/ PortThread \/ TimerThread

Spec == Init /\ [][Next]_vars

(***************************************************************************)
(* portThread and the timer thread run, whoever has locked the port        *)
(* releases it in the end, and a call that can go on does.  No timer need  *)
(* ever expire, and nobody need call anything.                             *)
(***************************************************************************)
Fairness ==
  /\ WF_vars(PortThread) /\ WF_vars(TimerThread)
  /\ \A t \in Threads : WF_vars(QueueRequest(t) \/ Refused(t) \/ Locked(t) \/ TimedOut(t) \/ Unlocked(t))
                        /\ WF_vars(UnlockOnce(t) \/ QueueUnlockPort(t)) /\ SF_vars(QueueUnlockPort(t))
  /\ \A l \in Lockers : WF_vars(UnlockPort(l))

FairSpec == Spec /\ Fairness

-----------------------------------------------------------------------------
(* Properties *)

\* Who may use the driver: a thread between the return of queueLockPort and the call of
\* queueUnlockPort, an asynUser in its callback, a thread between lockPort and unlockPort.
HasPort(t) == call[t] = "out" /\ queueLockPortCount[t] > 0
Holders ==
  {t \in Threads : HasPort(t)} \cup {u \in Users : pt.at = "callback" /\ pt.cur = u} \cup {l \in Lockers : sync = l}

\* One of them at a time, and each lets go before the next one begins (asynDriver.rst:
\* "Other code that calls queueRequest and/or lockPort will be delayed").
Lock == INSTANCE PortLock WITH Clients <- Threads \cup Users \cup Lockers, holders <- Holders
ImplementsLock == Lock!Spec

\* No event is left over for the next call of the thread: the two signals of a lock and the
\* one of a timeout have each been received by the call they are for.
EventExpected == \A t \in Threads : queueLockPortEvent[t] => call[t] \in {"waiting", "unlocking"}

\* A request at a port that is not connected waits for the connection, or for its timer.
AtDisconnectedPort(r) == ~connected["port"] /\ r \in ToSet(queue)

\* queueLockPort and queueUnlockPort return, however often other threads lock the port and
\* though no timer expires, unless the port is not connected: "a thread that repeatedly calls queueLockPort without sleeping
\* between calls will still allow other threads to access the port" (asynDriver.rst).
CallsReturn == \A t \in Threads : call[t] \in {"waiting", "unlocking"} ~> call[t] = "out" \/ AtDisconnectedPort(t)

\* So it is with the requests of the others.
OthersServed == \A u \in Users : u \in ToSet(queue) ~> pt.cur = u \/ AtDisconnectedPort(u)
=============================================================================
