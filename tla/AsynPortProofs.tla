--------------------------- MODULE AsynPortProofs ---------------------------
(***************************************************************************)
(* What holds of a port for any number of asynUsers and devices.           *)
(*                                                                         *)
(* For any use of the interface (all of ClientOps, CallbackOps, EnvOps):   *)
(* the queues and the scan are sound (IInv), portThread sleeps only when   *)
(* there is nothing it could serve, and serves by priority (WakeInv).      *)
(*                                                                         *)
(* Whatever clients and callbacks call, and when: cancel waits, timers are *)
(* armed and disarmed, what is freed is unused, as far as the requests of  *)
(* an asynUser do not overlap (OverlapInv).                                *)
(***************************************************************************)
EXTENDS AsynPort, SequencesExt, SequenceTheorems, TLAPS

\* What RemoveAt of SequencesExt returns.
LEMMA RemoveAtProperties ==
  ASSUME NEW S, NEW s \in Seq(S), NEW i \in 1 .. Len(s)
  PROVE  /\ RemoveAt(s, i) \in Seq(S)
         /\ Len(RemoveAt(s, i)) = Len(s) - 1
         /\ \A j \in 1 .. Len(s) - 1 : RemoveAt(s, i)[j] = IF j < i THEN s[j] ELSE s[j + 1]
<1> DEFINE p == SubSeq(s, 1, i - 1)
           q == SubSeq(s, i + 1, Len(s))
<1>1. /\ p \in Seq(S) /\ Len(p) = i - 1 /\ \A j \in 1 .. i - 1 : p[j] = s[j]
      /\ q \in Seq(S) /\ Len(q) = Len(s) - i /\ \A j \in 1 .. Len(s) - i : q[j] = s[i + j]
  BY SubSeqProperties
<1> HIDE DEF p, q
<1>2. /\ p \o q \in Seq(S) /\ Len(p \o q) = Len(p) + Len(q)
      /\ \A j \in 1 .. Len(p) + Len(q) : (p \o q)[j] = IF j <= Len(p) THEN p[j] ELSE q[j - Len(p)]
  BY <1>1, ConcatProperties
<1>3. RemoveAt(s, i) = p \o q
  BY DEF RemoveAt, p, q
<1>4. \A j \in 1 .. Len(s) - 1 : (p \o q)[j] = IF j < i THEN s[j] ELSE s[j + 1]
  <2> TAKE j \in 1 .. Len(s) - 1
  <2>1. j \in 1 .. Len(p) + Len(q) /\ Len(s) \in Nat
    BY <1>1
  <2>2. CASE j < i
    BY <1>1, <1>2, <2>1, <2>2
  <2>3. CASE ~(j < i)
    <3>1. j - Len(p) \in 1 .. Len(s) - i /\ i + (j - Len(p)) = j + 1 /\ ~(j <= Len(p))
      BY <1>1, <2>1, <2>3
    <3> QED BY <1>1, <1>2, <2>1, <2>3, <3>1
  <2> QED BY <2>2, <2>3
<1>5. Len(p \o q) = Len(s) - 1
  BY <1>1, <1>2
<1> QED BY <1>2, <1>3, <1>4, <1>5

-----------------------------------------------------------------------------
(***************************************************************************)
(* The inductive invariant.  TypeOK and QueueConsistent are what is to be  *)
(* shown; the other parts say why they hold, and give the theorems at the  *)
(* end.                                                                    *)
(***************************************************************************)
RequestPcs == {"timerCancel", "syncLock", "callback", "tail"}
ElementPcs == {"auto", "attempt", "announce", "relock", "scanCheck"}
LockedPcs  == {"connectQ", "auto", "scanStart", "scan", "scanCheck"}

\* portThread holds the lock exactly where its code does, and its locals are set
\* where they are used.
PortControlInv ==
  /\ locked <=> pc \in LockedPcs
  /\ pc \in RequestPcs \cup {"scanCheck"} => cur \in Users /\ curDp \in Dpcs
  /\ pc \in ElementPcs /\ cur # None => curDp \in Dpcs

\* The timer thread knows its asynUser while it runs.
TimerControlInv == tpc # "idle" => tcur \in Users

\* An asynUser that is queued is its client's; one that is not its client's is
\* connected to nothing.
LifeInv ==
  \A u \in Users :
    /\ isQueued[u] => dp[u] # None
    /\ life[u] # "live" => dp[u] = None
    /\ freeAfterCallback[u] => life[u] = "released"

\* Either the queues have changed since portThread let go of the lock and the
\* change is marked, or the element under the scan is where it was.
ScanInv ==
  pc \in ElementPcs /\ cur # None /\ ~queueStateChange =>
    /\ scan[2] \in DOMAIN ScanQueue
    /\ ScanQueue[scan[2]] = cur
    /\ curDp = dp[cur]

\* From the moment portThread takes a request until its callback has returned,
\* the blocks let the request pass.
BlockInv == pc \in RequestPcs /\ kind = "normal" => NotBlocked(cur, curDp)

\* What every step of the port preserves, whatever is called and when: the queues
\* agree with the flags because portThread, having let go of the lock, tests
\* queueStateChange before it takes the element it had looked at.
IInv ==
  /\ TypeOK /\ PortControlInv /\ TimerControlInv
  /\ QueueConsistent /\ LifeInv /\ ScanInv /\ BlockInv

-----------------------------------------------------------------------------
(* Type correctness. *)

\* A group of variables that a step leaves alone keeps its types.
LEMMA TypeOKFrame ==
  ASSUME TypeOK
  PROVE  /\ UNCHANGED reqVars => ReqTypeOK'
         /\ UNCHANGED lifeVars => LifeTypeOK'
         /\ UNCHANGED blockVars => BlockTypeOK'
         /\ UNCHANGED queueVars => QueueTypeOK'
         /\ UNCHANGED dpcVars => DpcTypeOK'
         /\ UNCHANGED lockVars => LockTypeOK'
         /\ UNCHANGED ptVars => PortThreadTypeOK'
         /\ UNCHANGED ttVars => TimerThreadTypeOK'
         /\ UNCHANGED epc => (epc \in {"idle", "announce"})'
<1> USE DEF TypeOK
<1>1. UNCHANGED reqVars => ReqTypeOK'
  BY DEF reqVars, ReqTypeOK
<1>2. UNCHANGED lifeVars => LifeTypeOK'
  BY DEF lifeVars, LifeTypeOK
<1>3. UNCHANGED blockVars => BlockTypeOK'
  BY DEF blockVars, BlockTypeOK
<1>4. UNCHANGED queueVars => QueueTypeOK'
  BY DEF queueVars, QueueTypeOK
<1>5. UNCHANGED dpcVars => DpcTypeOK'
  BY DEF dpcVars, DpcTypeOK
<1>6. UNCHANGED lockVars => LockTypeOK'
  BY DEF lockVars, LockTypeOK
<1>7. UNCHANGED ptVars => PortThreadTypeOK'
  BY DEF ptVars, ptLocals, PortThreadTypeOK
<1>8. UNCHANGED ttVars => TimerThreadTypeOK'
  BY DEF ttVars, TimerThreadTypeOK
<1> QED
  BY <1>1, <1>2, <1>3, <1>4, <1>5, <1>6, <1>7, <1>8

\* Operations of clients and callbacks.
LEMMA RequestTypeOK ==
  ASSUME TypeOK, NEW u \in Users, Request(u) PROVE TypeOK'
<1> USE TypeOKFrame DEF threads
<1>1. ASSUME NEW p \in Priorities, NEW t \in BOOLEAN, QueueRequest(u, p, t)
      PROVE  TypeOK'
  <2>1. QueueTypeOK'
    BY <1>1, AsynPortAssumption
    DEF TypeOK, QueueTypeOK, QueueRequest, QueueChanged, Signal
  <2>2. ReqTypeOK'
    BY <1>1 DEF TypeOK, ReqTypeOK, QueueRequest, StartTimer, Overlapping, Overlaps
  <2> QED
    BY <1>1, <2>1, <2>2 DEF TypeOK, QueueRequest
<1>2. ASSUME NEW b \in BOOLEAN, BlockProcessCallback(u, b) PROVE TypeOK'
  <2>1. BlockTypeOK'
    BY <1>2, AsynPortAssumption DEF TypeOK, BlockTypeOK, blockVars, BlockProcessCallback
  <2> QED
    BY <1>2, <2>1 DEF TypeOK, BlockProcessCallback
<1>3. ASSUME UnblockPort(u) PROVE TypeOK'
  <2>1. BlockTypeOK'
    BY <1>3, AsynPortAssumption DEF TypeOK, BlockTypeOK, UnblockPort, HasBlocked
  <2>2. QueueTypeOK'
    BY <1>3 DEF TypeOK, QueueTypeOK, UnblockPort, SignalIf
  <2> QED
    BY <1>3, <2>1, <2>2 DEF TypeOK, UnblockPort
<1>4. ASSUME UnblockDevice(u) PROVE TypeOK'
  <2>1. BlockTypeOK'
    BY <1>4, AsynPortAssumption
    DEF TypeOK, BlockTypeOK, LifeTypeOK, UnblockDevice, HasBlocked
  <2>2. QueueTypeOK'
    BY <1>4 DEF TypeOK, QueueTypeOK, UnblockDevice, SignalIf
  <2> QED
    BY <1>4, <2>1, <2>2 DEF TypeOK, UnblockDevice
<1>5. ASSUME CancelQueued(u) PROVE TypeOK'
  <2>1. QueueTypeOK'
    BY <1>5, RemoveAtProperties
    DEF TypeOK, QueueTypeOK, CancelQueued, Dequeue, QueueChanged, SignalIf
  <2>2. ReqTypeOK'
    BY <1>5 DEF TypeOK, ReqTypeOK, CancelQueued
  <2>3. LifeTypeOK'
    BY <1>5 DEF TypeOK, LifeTypeOK, CancelQueued, CPcs
  <2> QED
    BY <1>5, <2>1, <2>2, <2>3 DEF TypeOK, CancelQueued
<1>6. ASSUME CancelNotQueued(u) PROVE TypeOK'
  <2>1. ReqTypeOK' /\ LifeTypeOK'
    BY <1>6 DEF TypeOK, ReqTypeOK, LifeTypeOK, CancelNotQueued, States, CPcs
  <2> QED
    BY <1>6, <2>1 DEF TypeOK, CancelNotQueued
<1>7. ASSUME ResumeClient(u) PROVE TypeOK'
  <2>1. LifeTypeOK'
    BY <1>7 DEF TypeOK, LifeTypeOK, ResumeClient, CPcs
  <2> QED
    BY <1>7, <2>1 DEF TypeOK, ResumeClient
<1>8. ASSUME Disconnect(u) PROVE TypeOK'
  <2>1. LifeTypeOK'
    BY <1>8 DEF TypeOK, LifeTypeOK, Disconnect
  <2> QED
    BY <1>8, <2>1 DEF TypeOK, Disconnect
<1>9. ASSUME NEW d \in Dpcs, ConnectDevice(u, d) PROVE TypeOK'
  <2>1. LifeTypeOK'
    BY <1>9 DEF TypeOK, LifeTypeOK, ConnectDevice
  <2> QED
    BY <1>9, <2>1 DEF TypeOK, ConnectDevice
<1>10. ASSUME FreeAsynUser(u) PROVE TypeOK'
  <2>1. LifeTypeOK'
    BY <1>10 DEF TypeOK, LifeTypeOK, FreeAsynUser, Lives
  <2> QED
    BY <1>10, <2>1 DEF TypeOK, FreeAsynUser
<1>11. ASSUME FreeInCallback(u) PROVE TypeOK'
  <2>1. LifeTypeOK'
    BY <1>11 DEF TypeOK, LifeTypeOK, FreeInCallback, Lives
  <2> QED
    BY <1>11, <2>1 DEF TypeOK, FreeInCallback
<1>12. ASSUME CreateAsynUser(u) PROVE TypeOK'
  <2>1. ReqTypeOK' /\ LifeTypeOK'
    BY <1>12 DEF TypeOK, ReqTypeOK, LifeTypeOK, CreateAsynUser, Lives, States
  <2> QED
    BY <1>12, <2>1 DEF TypeOK, CreateAsynUser
<1>13. ASSUME LockPort(u) PROVE TypeOK'
  <2>1. LifeTypeOK' /\ LockTypeOK'
    BY <1>13 DEF TypeOK, LifeTypeOK, LockTypeOK, LockPort, CPcs
  <2> QED
    BY <1>13, <2>1 DEF TypeOK, LockPort
<1> QED
  BY <1>1, <1>2, <1>3, <1>4, <1>5, <1>6, <1>7, <1>8, <1>9, <1>10, <1>11,
     <1>12, <1>13 DEF Request

\* The steps that end an operation of a client.
LEMMA CompleteTypeOK ==
  ASSUME TypeOK, NEW u \in Users, Complete(u) PROVE TypeOK'
<1> USE TypeOKFrame DEF threads
<1>1. ASSUME CancelTimer(u) PROVE TypeOK'
  <2>1. ReqTypeOK' /\ LifeTypeOK' /\ QueueTypeOK'
    BY <1>1 DEF TypeOK, ReqTypeOK, LifeTypeOK, QueueTypeOK, CancelTimer, Signal, CPcs
  <2> QED
    BY <1>1, <2>1 DEF TypeOK, CancelTimer
<1>2. ASSUME CancelWaitDone(u) PROVE TypeOK'
  <2>1. ReqTypeOK' /\ LifeTypeOK'
    BY <1>2 DEF TypeOK, ReqTypeOK, LifeTypeOK, CancelWaitDone, CPcs
  <2> QED
    BY <1>2, <2>1 DEF TypeOK, CancelWaitDone
<1>3. ASSUME FreeTestState(u) PROVE TypeOK'
  <2>1. LifeTypeOK'
    BY <1>3 DEF TypeOK, LifeTypeOK, FreeTestState, Lives
  <2> QED
    BY <1>3, <2>1 DEF TypeOK, FreeTestState
<1>4. ASSUME FreeSetFlag(u) PROVE TypeOK'
  <2>1. LifeTypeOK'
    BY <1>4 DEF TypeOK, LifeTypeOK, FreeSetFlag, Lives
  <2> QED
    BY <1>4, <2>1 DEF TypeOK, FreeSetFlag
<1>5. ASSUME UnlockPort(u) PROVE TypeOK'
  <2>1. LifeTypeOK' /\ LockTypeOK'
    BY <1>5 DEF TypeOK, LifeTypeOK, LockTypeOK, UnlockPort, CPcs
  <2> QED
    BY <1>5, <2>1 DEF TypeOK, UnlockPort
<1> QED
  BY <1>1, <1>2, <1>3, <1>4, <1>5 DEF Complete

\* portThread.  Sleep resets its locals.
LEMMA SleepTypeOK ==
  ASSUME TypeOK, Sleep, sync' = sync
  PROVE  PortThreadTypeOK' /\ LockTypeOK'
<1>1. Connect \in AllPriorities /\ 1 \in Nat \ {0} /\ Port \in Dpcs
  BY DEF AllPriorities, Low, Connect, Dpcs
<1>2. scan' \in AllPriorities \X (Nat \ {0})
  BY <1>1 DEF Sleep
<1> QED
  BY <1>1, <1>2 DEF TypeOK, Sleep, Goto, PortThreadTypeOK, LockTypeOK, Pcs, Kinds

\* Taking a request sets the locals of portThread.
LEMMA StartRequestTypeOK ==
  ASSUME TypeOK, NEW u \in Users, NEW d \in Dpcs \cup {None}, NEW p, NEW i,
         StartRequest(u, d, p, i), UNCHANGED <<sync, attempt>>, callTimeoutUser' \in BOOLEAN
  PROVE  PortThreadTypeOK' /\ LockTypeOK'
<1>1. scan' \in AllPriorities \X (Nat \ {0})
  BY DEF StartRequest, AllPriorities, Low, Connect
<1> QED
  BY <1>1
  DEF TypeOK, ReqTypeOK, PortThreadTypeOK, LockTypeOK, StartRequest, Goto, Pcs, Kinds

\* What follows a callback touches the request and the life of its asynUser.
LEMMA FinishRequestTypeOK ==
  ASSUME TypeOK, NEW u, FinishRequest(u), UNCHANGED <<isQueued, timeout, timer, overlap, dp, cpc>>
  PROVE  ReqTypeOK' /\ LifeTypeOK'
BY DEF TypeOK, ReqTypeOK, LifeTypeOK, FinishRequest, States, Lives

\* The steps of portThread.  The removal of a request needs ScanInv: the element
\* taken is in the list it is taken from.
LEMMA PortThreadStepTypeOK ==
  ASSUME TypeOK, PortControlInv, ScanInv, PortThread PROVE TypeOK'
<1> USE TypeOKFrame DEF threads
<1>1. ASSUME EventWait PROVE TypeOK'
  <2>1. QueueTypeOK' /\ PortThreadTypeOK'
    BY <1>1 DEF TypeOK, QueueTypeOK, PortThreadTypeOK, EventWait, ptLocals, Pcs
  <2> QED
    BY <1>1, <2>1 DEF TypeOK, EventWait
<1>2. ASSUME TestEnabled PROVE TypeOK'
  <2>1. PortThreadTypeOK' /\ LockTypeOK'
    BY <1>2, SleepTypeOK
    DEF TypeOK, PortThreadTypeOK, LockTypeOK, TestEnabled, Goto, ptLocals, Pcs
  <2> QED
    BY <1>2, <2>1 DEF TypeOK, TestEnabled
<1>3. ASSUME TakeConnectRequest PROVE TypeOK'
  <2>1. PICK u \in Users : u = queueList[Connect][1] /\ StartRequest(u, dp[u], Connect, 1)
    BY <1>3 DEF TypeOK, QueueTypeOK, TakeConnectRequest, AllPriorities, Low, Connect
  <2>2. QueueTypeOK' /\ ReqTypeOK'
    BY <1>3, <2>1, RemoveAtProperties
    DEF TypeOK, QueueTypeOK, ReqTypeOK, TakeConnectRequest, StartRequest, States,
        Overlapping, Overlaps, AllPriorities, Low, Connect
  <2>3. PortThreadTypeOK' /\ LockTypeOK'
    BY <1>3, <2>1, StartRequestTypeOK
    DEF TypeOK, LifeTypeOK, PortThreadTypeOK, TakeConnectRequest
  <2> QED
    BY <1>3, <2>2, <2>3 DEF TypeOK, TakeConnectRequest
<1>4. ASSUME ConnectQueueEmpty PROVE TypeOK'
  <2>1. PortThreadTypeOK'
    BY <1>4 DEF TypeOK, PortThreadTypeOK, ConnectQueueEmpty, Pcs
  <2> QED
    BY <1>4, <2>1 DEF TypeOK, ConnectQueueEmpty
<1>5. ASSUME AutoNext, sync' = sync PROVE PortThreadTypeOK' /\ LockTypeOK'
  BY <1>5, SleepTypeOK
  DEF TypeOK, PortThreadTypeOK, LockTypeOK, AutoNext, Goto, Pcs, Dpcs
<1>6. ASSUME AutoSkip PROVE TypeOK'
  BY <1>5, <1>6 DEF TypeOK, AutoSkip
<1>7. ASSUME AutoAttempt PROVE TypeOK'
  <2>1. PortThreadTypeOK' /\ LockTypeOK'
    BY <1>7 DEF TypeOK, PortThreadTypeOK, LockTypeOK, AutoAttempt, Goto, ptLocals, Pcs
  <2> QED
    BY <1>7, <2>1 DEF TypeOK, AutoAttempt
<1>8. ASSUME AttemptFails PROVE TypeOK'
  <2>1. PortThreadTypeOK'
    BY <1>8 DEF TypeOK, PortThreadTypeOK, AttemptFails, ptLocals, Pcs
  <2> QED
    BY <1>8, <2>1 DEF TypeOK, AttemptFails
<1>9. ASSUME AttemptConnects PROVE TypeOK'
  <2>1. PortThreadTypeOK' /\ LockTypeOK' /\ DpcTypeOK'
    BY <1>9
    DEF TypeOK, PortThreadTypeOK, LockTypeOK, DpcTypeOK, AttemptConnects, ptLocals, Pcs
  <2> QED
    BY <1>9, <2>1 DEF TypeOK, AttemptConnects
<1>10. ASSUME AnnounceConnect PROVE TypeOK'
  <2>1. PortThreadTypeOK' /\ LockTypeOK' /\ QueueTypeOK'
    BY <1>10
    DEF TypeOK, PortThreadTypeOK, LockTypeOK, QueueTypeOK, AnnounceConnect,
        QueueChanged, Signal, ptLocals, Pcs
  <2> QED
    BY <1>10, <2>1 DEF TypeOK, AnnounceConnect
<1>11. ASSUME AutoRelock PROVE TypeOK'
  BY <1>5, <1>11 DEF TypeOK, AutoRelock
<1>12. ASSUME ScanStart PROVE TypeOK'
  <2>1. scan' \in AllPriorities \X (Nat \ {0})
    BY <1>12 DEF ScanStart, TopQueue, AllPriorities, Low, Connect
  <2>2. PortThreadTypeOK' /\ QueueTypeOK'
    BY <1>12, <2>1 DEF TypeOK, PortThreadTypeOK, QueueTypeOK, ScanStart, Pcs
  <2> QED
    BY <1>12, <2>2 DEF TypeOK, ScanStart
<1>13. ASSUME ScanNextQueue PROVE TypeOK'
  <2>1. scan[1] > Low => scan[1] - 1 \in AllPriorities
    BY DEF TypeOK, PortThreadTypeOK, AllPriorities, Low, Connect
  <2>2. PortThreadTypeOK' /\ LockTypeOK'
    BY <1>13, <2>1, SleepTypeOK DEF TypeOK, PortThreadTypeOK, LockTypeOK, ScanNextQueue
  <2> QED
    BY <1>13, <2>2 DEF TypeOK, ScanNextQueue
<1>14. ASSUME ScanElement PROVE TypeOK'
  <2>1. ScanQueue[scan[2]] \in Users
    BY <1>14 DEF TypeOK, PortThreadTypeOK, QueueTypeOK, ScanElement, ScanQueue
  <2>2. PortThreadTypeOK'
    BY <1>14, <2>1
    DEF TypeOK, LifeTypeOK, PortThreadTypeOK, ScanElement, ScanNext, Pcs
  <2> QED
    BY <1>14, <2>2 DEF TypeOK, ScanElement
<1>15. ASSUME ScanAbort PROVE TypeOK'
  BY <1>15, SleepTypeOK DEF TypeOK, ScanAbort
<1>16. ASSUME ScanCheck PROVE TypeOK'
  <2>1. callTimeoutUser' \in BOOLEAN
    BY <1>16 DEF TypeOK, PortThreadTypeOK, ScanCheck
  <2>2. cur \in Users /\ curDp \in Dpcs
    BY <1>16 DEF PortControlInv, ScanCheck
  <2>3. scan = <<scan[1], scan[2]>> /\ scan[1] \in AllPriorities /\ scan[2] \in Nat \ {0}
    BY DEF TypeOK, PortThreadTypeOK
  <2>4. CASE NotBlocked(cur, curDp)
    <3>1. StartRequest(cur, curDp, scan[1], scan[2])
      BY <1>16, <2>4 DEF ScanCheck
    <3>2. scan[2] \in 1 .. Len(queueList[scan[1]])
      BY <1>16, <2>2, <2>3, AsynPortAssumption
      DEF ScanInv, ElementPcs, ScanCheck, ScanQueue, TypeOK, QueueTypeOK
    <3>3. QueueTypeOK' /\ ReqTypeOK'
      BY <1>16, <2>2, <2>3, <3>1, <3>2, RemoveAtProperties
      DEF TypeOK, QueueTypeOK, ReqTypeOK, ScanCheck, StartRequest, States, Overlapping, Overlaps
    <3>4. PortThreadTypeOK' /\ LockTypeOK'
      BY <1>16, <2>1, <2>2, <3>1, StartRequestTypeOK DEF ScanCheck
    <3> QED
      BY <1>16, <3>3, <3>4 DEF TypeOK, ScanCheck
  <2>5. CASE ~NotBlocked(cur, curDp)
    <3>1. UNCHANGED <<reqVars, queueVars, lockVars>>
      BY <1>16, <2>5 DEF ScanCheck, reqVars, queueVars, lockVars
    <3>2. PortThreadTypeOK'
      BY <1>16, <2>1, <2>3, <2>5
      DEF TypeOK, PortThreadTypeOK, ScanCheck, ScanNext, Pcs
    <3> QED
      BY <1>16, <3>1, <3>2 DEF TypeOK, ScanCheck
  <2> QED
    BY <2>4, <2>5
<1>17. ASSUME CancelRequestTimer PROVE TypeOK'
  <2>1. PortThreadTypeOK' /\ ReqTypeOK'
    BY <1>17 DEF TypeOK, PortThreadTypeOK, ReqTypeOK, CancelRequestTimer, Pcs
  <2> QED
    BY <1>17, <2>1 DEF TypeOK, CancelRequestTimer
<1>18. ASSUME BeginCallback PROVE TypeOK'
  <2>1. PortThreadTypeOK' /\ LockTypeOK'
    BY <1>18 DEF TypeOK, PortThreadTypeOK, LockTypeOK, BeginCallback, ptLocals, Pcs
  <2> QED
    BY <1>18, <2>1 DEF TypeOK, BeginCallback
<1>19. ASSUME EndCallback PROVE TypeOK'
  <2>1. PortThreadTypeOK' /\ LockTypeOK'
    BY <1>19 DEF TypeOK, PortThreadTypeOK, LockTypeOK, EndCallback, ptLocals, Pcs
  <2> QED
    BY <1>19, <2>1 DEF TypeOK, EndCallback
<1>20. ASSUME FinishConnectRequest PROVE TypeOK'
  <2>1. ReqTypeOK' /\ LifeTypeOK'
    BY <1>20, FinishRequestTypeOK DEF FinishConnectRequest
  <2>2. PortThreadTypeOK' /\ LockTypeOK'
    BY <1>20
    DEF TypeOK, PortThreadTypeOK, LockTypeOK, FinishConnectRequest, Goto, ptLocals, Pcs
  <2> QED
    BY <1>20, <2>1, <2>2 DEF TypeOK, FinishConnectRequest
<1>21. ASSUME FinishNormalRequest PROVE TypeOK'
  <2>1. ReqTypeOK' /\ LifeTypeOK'
    BY <1>21, FinishRequestTypeOK DEF FinishNormalRequest
  <2>2. PortThreadTypeOK' /\ LockTypeOK'
    BY <1>21, SleepTypeOK
    DEF TypeOK, PortThreadTypeOK, LockTypeOK, FinishNormalRequest, Goto, ptLocals, Pcs
  <2>3. cur \in Users /\ curDp \in Dpcs
    BY <1>21 DEF PortControlInv, RequestPcs, FinishNormalRequest
  <2>4. BlockTypeOK'
    BY <1>21, <2>3 DEF TypeOK, BlockTypeOK, FinishNormalRequest
  <2> QED
    BY <1>21, <2>1, <2>2, <2>4 DEF TypeOK, FinishNormalRequest
<1> QED
  BY <1>1, <1>2, <1>3, <1>4, <1>6, <1>7, <1>8, <1>9, <1>10, <1>11, <1>12, <1>13,
     <1>14, <1>15, <1>16, <1>17, <1>18, <1>19, <1>20, <1>21 DEF PortThread

\* The steps of queueTimeoutCallback.
LEMMA TimerThreadStepTypeOK ==
  ASSUME TypeOK, TimerThread PROVE TypeOK'
<1> USE TypeOKFrame DEF threads
<1>1. ASSUME NEW u \in Users, TimerExpires(u) PROVE TypeOK'
  <2>1. ReqTypeOK' /\ TimerThreadTypeOK'
    BY <1>1 DEF TypeOK, ReqTypeOK, TimerThreadTypeOK, TimerExpires
  <2> QED
    BY <1>1, <2>1 DEF TypeOK, TimerExpires
<1>2. ASSUME TimeoutNotQueued PROVE TypeOK'
  <2>1. TimerThreadTypeOK'
    BY <1>2 DEF TypeOK, TimerThreadTypeOK, TimeoutNotQueued
  <2> QED
    BY <1>2, <2>1 DEF TypeOK, TimeoutNotQueued
<1>3. ASSUME TimeoutQueued PROVE TypeOK'
  <2>1. QueueTypeOK'
    BY <1>3, RemoveAtProperties
    DEF TypeOK, QueueTypeOK, TimeoutQueued, Dequeue, QueueChanged
  <2>2. ReqTypeOK'
    BY <1>3 DEF TypeOK, ReqTypeOK, TimeoutQueued, States, Overlapping, Overlaps
  <2>3. TimerThreadTypeOK'
    BY <1>3 DEF TypeOK, TimerThreadTypeOK, TimeoutQueued
  <2> QED
    BY <1>3, <2>1, <2>2, <2>3 DEF TypeOK, TimeoutQueued
<1>4. ASSUME EndTimeoutCallback PROVE TypeOK'
  <2>1. TimerThreadTypeOK'
    BY <1>4 DEF TypeOK, TimerThreadTypeOK, EndTimeoutCallback
  <2> QED
    BY <1>4, <2>1 DEF TypeOK, EndTimeoutCallback
<1>5. ASSUME FinishTimeout PROVE TypeOK'
  <2>1. ReqTypeOK' /\ LifeTypeOK'
    BY <1>5, FinishRequestTypeOK DEF FinishTimeout
  <2>2. TimerThreadTypeOK' /\ QueueTypeOK'
    BY <1>5 DEF TypeOK, TimerThreadTypeOK, QueueTypeOK, FinishTimeout, Signal
  <2> QED
    BY <1>5, <2>1, <2>2 DEF TypeOK, FinishTimeout
<1> QED
  BY <1>1, <1>2, <1>3, <1>4, <1>5 DEF TimerThread

\* The steps of the driver and of operators.
LEMMA EnvironmentTypeOK ==
  ASSUME TypeOK, Environment PROVE TypeOK'
<1> USE TypeOKFrame
<1>1. ASSUME NEW d \in Dpcs,
             Enable(d) \/ AutoConnectAsyn(d) \/ ExceptionConnect(d) \/ ExceptionDisconnect(d)
      PROVE  TypeOK'
  <2>1. DpcTypeOK' /\ epc' = "announce"
    BY <1>1
    DEF TypeOK, DpcTypeOK, Enable, AutoConnectAsyn, ExceptionConnect, ExceptionDisconnect
  <2> QED
    BY <1>1, <2>1
    DEF TypeOK, Enable, AutoConnectAsyn, ExceptionConnect, ExceptionDisconnect
<1>2. ASSUME AnnounceException PROVE TypeOK'
  <2>1. QueueTypeOK'
    BY <1>2 DEF TypeOK, QueueTypeOK, AnnounceException, QueueChanged, Signal
  <2> QED
    BY <1>2, <2>1 DEF TypeOK, AnnounceException
<1> QED
  BY <1>1, <1>2 DEF Environment

\* Every step keeps the types.
LEMMA TypeOKStep ==
  ASSUME TypeOK, PortControlInv, ScanInv, [Next]_vars PROVE TypeOK'
<1>1. CASE UNCHANGED vars
  BY <1>1, TypeOKFrame DEF TypeOK, vars, threads
<1> QED
  BY <1>1, RequestTypeOK, CompleteTypeOK, PortThreadStepTypeOK, TimerThreadStepTypeOK,
     EnvironmentTypeOK DEF Next

-----------------------------------------------------------------------------
(* The queues. *)

\* What takes an asynUser off its queue keeps flags and queues consistent.
LEMMA RemovalConsistent ==
  ASSUME TypeOK, QueueConsistent,
         NEW u \in Users, NEW p \in AllPriorities, NEW i \in DOMAIN queueList[p],
         queueList[p][i] = u,
         queueList' = [queueList EXCEPT ![p] = RemoveAt(@, i)],
         isQueued' = [isQueued EXCEPT ![u] = FALSE]
  PROVE  QueueConsistent'
<1> DEFINE n == Len(queueList[p])
<1>1. queueList[p] \in Seq(Users) /\ n \in Nat /\ i \in 1 .. n
  BY DEF TypeOK, QueueTypeOK
<1>2. /\ Len(queueList'[p]) = n - 1
      /\ \A j \in 1 .. n - 1 :
           queueList'[p][j] = IF j < i THEN queueList[p][j] ELSE queueList[p][j + 1]
  <2>1. queueList'[p] = RemoveAt(queueList[p], i)
    BY DEF TypeOK, QueueTypeOK
  <2> QED
    BY <1>1, <2>1, RemoveAtProperties
<1>3. /\ DOMAIN queueList'[p] = 1 .. n - 1
      /\ \A q \in AllPriorities \ {p} : queueList'[q] = queueList[q]
  BY <1>1, <1>2, RemoveAtProperties DEF TypeOK, QueueTypeOK
\* pos maps a position after the removal to the position before.
<1> DEFINE pos(q, j) == IF q = p /\ ~(j < i) THEN j + 1 ELSE j
<1>4. ASSUME NEW q \in AllPriorities, NEW j \in DOMAIN queueList'[q]
      PROVE  /\ pos(q, j) \in DOMAIN queueList[q] /\ j \in Int
             /\ queueList'[q][j] = queueList[q][pos(q, j)]
             /\ ~(q = p /\ pos(q, j) = i)
  BY <1>1, <1>2, <1>3 DEF TypeOK, QueueTypeOK
<1>5. ASSUME NEW v \in Users, NEW q \in AllPriorities, NEW k \in DOMAIN queueList[q],
             queueList[q][k] = v, v # u
      PROVE  \E j \in DOMAIN queueList'[q] : queueList'[q][j] = v
  <2>1. CASE q # p
    BY <1>3, <1>5, <2>1
  <2>2. CASE q = p /\ k < i
    BY <1>1, <1>2, <1>3, <1>5, <2>2
  <2>3. CASE q = p /\ ~(k < i)
    <3>1. k # i /\ k - 1 \in 1 .. n - 1 /\ ~(k - 1 < i) /\ (k - 1) + 1 = k
      BY <1>1, <1>5, <2>3
    <3> QED
      BY <1>2, <1>3, <1>5, <2>3, <3>1
  <2> QED
    BY <2>1, <2>2, <2>3
<1> HIDE DEF pos
<1>6. ASSUME NEW v \in Users
      PROVE  isQueued'[v] <=> \E q \in AllPriorities :
                                \E j \in DOMAIN queueList'[q] : queueList'[q][j] = v
  <2>1. CASE v = u
    <3>1. ASSUME NEW q \in AllPriorities, NEW j \in DOMAIN queueList'[q],
                 queueList'[q][j] = u
          PROVE  FALSE
      BY <1>4, <3>1 DEF QueueConsistent
    <3> QED
      BY <2>1, <3>1 DEF TypeOK, ReqTypeOK
  <2>2. CASE v # u
    <3>1. isQueued'[v] = isQueued[v]
      BY <2>2 DEF TypeOK, ReqTypeOK
    <3> QED
      BY <1>4, <1>5, <2>2, <3>1 DEF QueueConsistent
  <2> QED
    BY <2>1, <2>2
<1>7. ASSUME NEW v \in Users, NEW q \in AllPriorities, NEW r \in AllPriorities,
             NEW j \in DOMAIN queueList'[q], NEW k \in DOMAIN queueList'[r],
             queueList'[q][j] = v, queueList'[r][k] = v
      PROVE  q = r /\ j = k
  <2>1. q = r /\ pos(q, j) = pos(r, k)
    BY <1>4, <1>7 DEF QueueConsistent
  <2> QED
    BY <1>1, <1>4, <2>1 DEF pos
<1> QED
  BY <1>6, <1>7 DEF QueueConsistent

\* queueRequest puts an asynUser that is on no queue at one end of one.
LEMMA AdditionConsistent ==
  ASSUME TypeOK, QueueConsistent,
         NEW u \in Users, NEW p \in AllPriorities, ~isQueued[u],
         \/ queueList' = [queueList EXCEPT ![p] = <<u>> \o @]
         \/ queueList' = [queueList EXCEPT ![p] = Append(@, u)],
         isQueued' = [isQueued EXCEPT ![u] = TRUE]
  PROVE  QueueConsistent'
<1> DEFINE n == Len(queueList[p])
<1>1. queueList[p] \in Seq(Users) /\ n \in Nat /\ DOMAIN queueList[p] = 1 .. n
  BY DEF TypeOK, QueueTypeOK
\* at is where u is now; pos maps any other position to the position before.
<1>2. \E at \in {1, n + 1} :
        /\ DOMAIN queueList'[p] = 1 .. n + 1
        /\ queueList'[p][at] = u
        /\ \A j \in 1 .. n + 1 : j # at =>
             queueList'[p][j] = queueList[p][IF at = 1 /\ n # 0 THEN j - 1 ELSE j]
  <2>1. CASE queueList' = [queueList EXCEPT ![p] = <<u>> \o @]
    <3>1. queueList'[p] = <<u>> \o queueList[p]
      BY <2>1 DEF TypeOK, QueueTypeOK
    <3>2. /\ Len(queueList'[p]) = n + 1 /\ queueList'[p] \in Seq(Users)
          /\ queueList'[p][1] = u
          /\ \A j \in 1 .. n + 1 : j # 1 => queueList'[p][j] = queueList[p][j - 1]
      BY <1>1, <3>1
    <3> QED
      BY <1>1, <3>2
  <2>2. CASE queueList' = [queueList EXCEPT ![p] = Append(@, u)]
    <3>1. queueList'[p] = Append(queueList[p], u)
      BY <2>2 DEF TypeOK, QueueTypeOK
    <3>2. /\ Len(queueList'[p]) = n + 1 /\ queueList'[p] \in Seq(Users)
          /\ queueList'[p][n + 1] = u
          /\ \A j \in 1 .. n : queueList'[p][j] = queueList[p][j]
      BY <1>1, <3>1
    <3> QED
      BY <1>1, <3>2
  <2> QED
    BY <2>1, <2>2
<1>3. PICK at \in {1, n + 1} :
        /\ DOMAIN queueList'[p] = 1 .. n + 1
        /\ queueList'[p][at] = u
        /\ \A j \in 1 .. n + 1 : j # at =>
             queueList'[p][j] = queueList[p][IF at = 1 /\ n # 0 THEN j - 1 ELSE j]
  BY <1>2
<1>4. \A q \in AllPriorities \ {p} : queueList'[q] = queueList[q]
  BY DEF TypeOK, QueueTypeOK
<1> DEFINE pos(q, j) == IF q = p /\ at = 1 /\ n # 0 THEN j - 1 ELSE j
<1>5. ASSUME NEW q \in AllPriorities, NEW j \in DOMAIN queueList'[q], ~(q = p /\ j = at)
      PROVE  /\ pos(q, j) \in DOMAIN queueList[q]
             /\ queueList'[q][j] = queueList[q][pos(q, j)]
  BY <1>1, <1>3, <1>4, <1>5
<1>6. ASSUME NEW q \in AllPriorities, NEW k \in DOMAIN queueList[q]
      PROVE  \E j \in DOMAIN queueList'[q] : queueList'[q][j] = queueList[q][k]
  <2>1. CASE q # p
    BY <1>4, <2>1
  <2>2. CASE q = p /\ at = 1 /\ n # 0
    <3>1. k + 1 \in 1 .. n + 1 /\ k + 1 # at /\ (k + 1) - 1 = k
      BY <1>1, <2>2
    <3> QED
      BY <1>3, <2>2, <3>1
  <2>3. CASE q = p /\ ~(at = 1 /\ n # 0)
    BY <1>1, <1>3, <2>3
  <2> QED
    BY <2>1, <2>2, <2>3
<1>7. ASSUME NEW q \in AllPriorities, NEW k \in DOMAIN queueList[q]
      PROVE  queueList[q][k] # u
  BY DEF QueueConsistent
<1>8. \A q \in AllPriorities : \A j \in DOMAIN queueList'[q] : j \in Int
  BY <1>1, <1>3, <1>4 DEF TypeOK, QueueTypeOK
<1> HIDE DEF pos
<1>9. ASSUME NEW v \in Users
      PROVE  isQueued'[v] <=> \E q \in AllPriorities :
                                \E j \in DOMAIN queueList'[q] : queueList'[q][j] = v
  <2>1. CASE v = u
    BY <1>1, <1>3, <2>1 DEF TypeOK, ReqTypeOK
  <2>2. CASE v # u
    <3>1. isQueued'[v] = isQueued[v]
      BY <2>2 DEF TypeOK, ReqTypeOK
    <3> QED
      BY <1>3, <1>5, <1>6, <2>2, <3>1 DEF QueueConsistent
  <2> QED
    BY <2>1, <2>2
<1>10. ASSUME NEW v \in Users, NEW q \in AllPriorities, NEW r \in AllPriorities,
              NEW j \in DOMAIN queueList'[q], NEW k \in DOMAIN queueList'[r],
              queueList'[q][j] = v, queueList'[r][k] = v
       PROVE  q = r /\ j = k
  <2>1. CASE v = u
    BY <1>5, <1>7, <1>10, <2>1
  <2>2. CASE v # u
    <3>1. q = r /\ pos(q, j) = pos(r, k)
      BY <1>3, <1>5, <1>10, <2>2 DEF QueueConsistent
    <3> QED
      BY <1>8, <3>1 DEF pos
  <2> QED
    BY <2>1, <2>2
<1> QED
  BY <1>9, <1>10 DEF QueueConsistent

\* The steps that change the queues or their flags.
QueueSteps ==
  \/ \E u \in Users :
       \/ \E p \in Priorities, t \in BOOLEAN : QueueRequest(u, p, t)
       \/ CancelQueued(u)
       \/ CreateAsynUser(u)
  \/ TakeConnectRequest \/ ScanCheck \/ TimeoutQueued

\* Nothing but QueueSteps touches the queues and their flags.
LEMMA QueueFrame ==
  ASSUME [Next]_vars PROVE QueueSteps \/ UNCHANGED <<queueList, isQueued>>
<1> USE DEF reqVars, queueVars, vars
<1>1. ASSUME NEW u \in Users, Request(u)
      PROVE  QueueSteps \/ UNCHANGED <<queueList, isQueued>>
  BY <1>1
  DEF QueueSteps, Request, BlockProcessCallback, UnblockPort, UnblockDevice, CancelNotQueued,
      ResumeClient, Disconnect, ConnectDevice, FreeAsynUser, FreeInCallback, LockPort
<1>2. ASSUME NEW u \in Users, Complete(u)
      PROVE  UNCHANGED <<queueList, isQueued>>
  BY <1>2
  DEF Complete, CancelTimer, CancelWaitDone, FreeTestState, FreeSetFlag, UnlockPort
<1>3. ASSUME PortThread PROVE QueueSteps \/ UNCHANGED <<queueList, isQueued>>
  BY <1>3
  DEF QueueSteps, PortThread, EventWait, TestEnabled, ConnectQueueEmpty, AutoSkip,
      AutoAttempt, AttemptFails, AttemptConnects, AnnounceConnect, AutoRelock, ScanStart,
      ScanNextQueue, ScanElement, ScanAbort, CancelRequestTimer, BeginCallback,
      EndCallback, FinishConnectRequest, FinishNormalRequest
<1>4. ASSUME TimerThread PROVE QueueSteps \/ UNCHANGED <<queueList, isQueued>>
  BY <1>4
  DEF QueueSteps, TimerThread, TimerExpires, TimeoutNotQueued, EndTimeoutCallback,
      FinishTimeout
<1>5. ASSUME Environment PROVE UNCHANGED <<queueList, isQueued>>
  BY <1>5
  DEF Environment, Enable, AutoConnectAsyn, ExceptionConnect, ExceptionDisconnect,
      AnnounceException
<1> QED
  BY <1>1, <1>2, <1>3, <1>4, <1>5 DEF Next

\* Every step keeps queues and flags consistent.
LEMMA QueueConsistentStep ==
  ASSUME IInv, [Next]_vars PROVE QueueConsistent'
<1> USE DEF IInv
<1>1. CASE UNCHANGED <<queueList, isQueued>>
  BY <1>1 DEF QueueConsistent
<1>2. ASSUME NEW u \in Users, NEW p \in Priorities, NEW t \in BOOLEAN, QueueRequest(u, p, t)
      PROVE  QueueConsistent'
  BY <1>2, AdditionConsistent, AsynPortAssumption DEF QueueRequest
<1>3. ASSUME NEW u \in Users, Dequeue(u), isQueued' = [isQueued EXCEPT ![u] = FALSE]
      PROVE  QueueConsistent'
  BY <1>3, RemovalConsistent DEF Dequeue
<1>4. ASSUME NEW u \in Users, CreateAsynUser(u) PROVE QueueConsistent'
  <2>1. ~isQueued[u]
    BY <1>4, AsynPortAssumption DEF CreateAsynUser, LifeInv
  <2>2. UNCHANGED <<queueList, isQueued>>
    BY <1>4, <2>1 DEF CreateAsynUser, queueVars, TypeOK, ReqTypeOK
  <2> QED
    BY <2>2 DEF QueueConsistent
<1>5. ASSUME TakeConnectRequest PROVE QueueConsistent'
  <2> DEFINE u == queueList[Connect][1]
  <2>1. Connect \in AllPriorities /\ queueList[Connect] \in Seq(Users)
    BY DEF TypeOK, QueueTypeOK, AllPriorities, Low, Connect
  <2>2. u \in Users /\ 1 \in DOMAIN queueList[Connect]
    BY <1>5, <2>1 DEF TakeConnectRequest
  <2>3. /\ queueList' = [queueList EXCEPT ![Connect] = RemoveAt(@, 1)]
        /\ isQueued' = [isQueued EXCEPT ![u] = FALSE]
    BY <1>5, <2>1 DEF TakeConnectRequest, StartRequest
  <2> QED
    BY <2>1, <2>2, <2>3, RemovalConsistent
<1>6. ASSUME ScanCheck, NotBlocked(cur, curDp) PROVE QueueConsistent'
  <2>1. cur \in Users
    BY <1>6 DEF ScanCheck, PortControlInv
  <2>2. /\ scan[1] \in AllPriorities /\ scan[2] \in DOMAIN queueList[scan[1]]
        /\ queueList[scan[1]][scan[2]] = cur
    BY <1>6, <2>1, AsynPortAssumption
    DEF ScanCheck, ScanInv, ElementPcs, ScanQueue, TypeOK, PortThreadTypeOK
  <2>3. /\ queueList' = [queueList EXCEPT ![scan[1]] = RemoveAt(@, scan[2])]
        /\ isQueued' = [isQueued EXCEPT ![cur] = FALSE]
    BY <1>6 DEF ScanCheck, StartRequest
  <2> QED
    BY <2>1, <2>2, <2>3, RemovalConsistent
<1>7. ASSUME ScanCheck, ~NotBlocked(cur, curDp) PROVE UNCHANGED <<queueList, isQueued>>
  BY <1>7 DEF ScanCheck
<1>8. ASSUME TimeoutQueued PROVE QueueConsistent'
  BY <1>3, <1>8 DEF TimeoutQueued, TimerControlInv
<1> QED
  BY <1>1, <1>2, <1>3, <1>4, <1>5, <1>6, <1>7, <1>8, QueueFrame DEF QueueSteps, CancelQueued

-----------------------------------------------------------------------------
(* The life of asynUsers, the scan and the blocks. *)

\* The steps that connect and disconnect, create and free, queue and dequeue.
LifeSteps ==
  \/ QueueSteps
  \/ \E u \in Users :
       \/ Disconnect(u) \/ (\E d \in Dpcs : ConnectDevice(u, d))
       \/ FreeAsynUser(u) \/ FreeInCallback(u) \/ FreeTestState(u) \/ FreeSetFlag(u)
  \/ FinishConnectRequest \/ FinishNormalRequest \/ FinishTimeout

\* Nothing but LifeSteps touches what LifeInv speaks of.
LEMMA LifeFrame ==
  ASSUME [Next]_vars
  PROVE  LifeSteps \/ UNCHANGED <<isQueued, dp, life, freeAfterCallback>>
<1> USE DEF reqVars, lifeVars, vars
<1>1. ASSUME NEW u \in Users, Request(u)
      PROVE  LifeSteps \/ UNCHANGED <<isQueued, dp, life, freeAfterCallback>>
  BY <1>1
  DEF LifeSteps, QueueSteps, Request, BlockProcessCallback, UnblockPort, UnblockDevice,
      CancelNotQueued, ResumeClient, LockPort
<1>2. ASSUME NEW u \in Users, Complete(u)
      PROVE  LifeSteps \/ UNCHANGED <<isQueued, dp, life, freeAfterCallback>>
  BY <1>2 DEF LifeSteps, Complete, CancelTimer, CancelWaitDone, UnlockPort
<1>3. ASSUME PortThread
      PROVE  LifeSteps \/ UNCHANGED <<isQueued, dp, life, freeAfterCallback>>
  BY <1>3
  DEF LifeSteps, QueueSteps, PortThread, EventWait, TestEnabled, ConnectQueueEmpty,
      AutoSkip, AutoAttempt, AttemptFails, AttemptConnects, AnnounceConnect, AutoRelock,
      ScanStart, ScanNextQueue, ScanElement, ScanAbort, CancelRequestTimer,
      BeginCallback, EndCallback
<1>4. ASSUME TimerThread
      PROVE  LifeSteps \/ UNCHANGED <<isQueued, dp, life, freeAfterCallback>>
  BY <1>4
  DEF LifeSteps, QueueSteps, TimerThread, TimerExpires, TimeoutNotQueued,
      EndTimeoutCallback
<1>5. ASSUME Environment PROVE UNCHANGED <<isQueued, dp, life, freeAfterCallback>>
  BY <1>5
  DEF Environment, Enable, AutoConnectAsyn, ExceptionConnect, ExceptionDisconnect,
      AnnounceException
<1> QED
  BY <1>1, <1>2, <1>3, <1>4, <1>5 DEF Next

\* An asynUser leaves its client only when it is off the queues: disconnect refuses
\* one that is queued.
LEMMA LifeInvStep ==
  ASSUME IInv, [Next]_vars PROVE LifeInv'
<1> USE AsynPortAssumption DEF IInv, TypeOK, ReqTypeOK, LifeTypeOK, LifeInv
<1>1. CASE UNCHANGED <<isQueued, dp, life, freeAfterCallback>>
  BY <1>1
<1>2. ASSUME NEW u \in Users, NEW p \in Priorities, NEW t \in BOOLEAN, QueueRequest(u, p, t)
      PROVE  LifeInv'
  BY <1>2 DEF QueueRequest, lifeVars
<1>3. ASSUME NEW u \in Users, CancelQueued(u) PROVE LifeInv'
  BY <1>3 DEF CancelQueued
<1>4. ASSUME NEW u \in Users, CreateAsynUser(u) PROVE LifeInv'
  BY <1>4 DEF CreateAsynUser
<1>5. ASSUME TakeConnectRequest \/ (ScanCheck /\ NotBlocked(cur, curDp)) PROVE LifeInv'
  <2>1. UNCHANGED lifeVars /\ \E u : isQueued' = [isQueued EXCEPT ![u] = FALSE]
    BY <1>5 DEF TakeConnectRequest, ScanCheck, StartRequest
  <2> QED
    BY <2>1 DEF lifeVars
<1>6. ASSUME ScanCheck, ~NotBlocked(cur, curDp) PROVE LifeInv'
  BY <1>6 DEF ScanCheck, lifeVars
<1>7. ASSUME TimeoutQueued PROVE LifeInv'
  BY <1>7 DEF TimeoutQueued, lifeVars
<1>8. ASSUME NEW u \in Users, Disconnect(u) PROVE LifeInv'
  BY <1>8 DEF Disconnect, MayDisconnect, reqVars
<1>9. ASSUME NEW u \in Users, NEW d \in Dpcs, ConnectDevice(u, d) PROVE LifeInv'
  BY <1>9 DEF ConnectDevice, reqVars
<1>10. ASSUME NEW u \in Users, FreeAsynUser(u) PROVE LifeInv'
  BY <1>10 DEF FreeAsynUser, MayDisconnect, reqVars
<1>11. ASSUME NEW u \in Users, FreeInCallback(u) PROVE LifeInv'
  BY <1>11 DEF FreeInCallback, MayDisconnect, reqVars
<1>12. ASSUME NEW u \in Users, FreeTestState(u) PROVE LifeInv'
  BY <1>12 DEF FreeTestState, reqVars
<1>13. ASSUME NEW u \in Users, FreeSetFlag(u) PROVE LifeInv'
  BY <1>13 DEF FreeSetFlag, reqVars
<1>14. ASSUME NEW u, FinishRequest(u), UNCHANGED <<isQueued, dp>> PROVE LifeInv'
  BY <1>14 DEF FinishRequest
<1>15. ASSUME FinishConnectRequest \/ FinishNormalRequest \/ FinishTimeout PROVE LifeInv'
  BY <1>14, <1>15 DEF FinishConnectRequest, FinishNormalRequest, FinishTimeout
<1> QED
  BY <1>1, <1>2, <1>3, <1>4, <1>5, <1>6, <1>7, <1>8, <1>9, <1>10, <1>11, <1>12, <1>13,
     <1>15, LifeFrame DEF LifeSteps, QueueSteps

\* What a step of another thread than portThread does to what portThread uses.
LEMMA OtherThreads ==
  ASSUME IInv,
         \/ \E u \in Users : Request(u) \/ Complete(u)
         \/ TimerThread \/ Environment \/ UNCHANGED vars
  PROVE  /\ UNCHANGED <<ptVars, locked>>
         /\ \/ queueStateChange'
            \/ UNCHANGED <<queueList, queueStateChange>>
         /\ \A v \in Users : isQueued[v] => dp'[v] = dp[v]
         /\ portHolder' \in {None, portHolder}
         /\ \A d \in Dpcs : dpHolder'[d] \in {None, dpHolder[d]}
<1> DEFINE Goal == /\ UNCHANGED <<ptVars, locked>>
                   /\ queueStateChange' \/ UNCHANGED <<queueList, queueStateChange>>
                   /\ \A v \in Users : isQueued[v] => dp'[v] = dp[v]
                   /\ portHolder' \in {None, portHolder}
                   /\ \A d \in Dpcs : dpHolder'[d] \in {None, dpHolder[d]}
<1> USE DEF threads, lockVars, queueVars, lifeVars, blockVars, QueueChanged
<1>1. ASSUME NEW u \in Users, Complete(u) PROVE Goal
  BY <1>1
  DEF Complete, CancelTimer, CancelWaitDone, FreeTestState, FreeSetFlag, UnlockPort
<1>2. ASSUME TimerThread PROVE Goal
  BY <1>2
  DEF TimerThread, TimerExpires, TimeoutNotQueued, TimeoutQueued, EndTimeoutCallback,
      FinishTimeout
<1>3. ASSUME Environment PROVE Goal
  BY <1>3
  DEF Environment, Enable, AutoConnectAsyn, ExceptionConnect, ExceptionDisconnect,
      AnnounceException
<1>4. ASSUME NEW u \in Users,
             dp' = [dp EXCEPT ![u] = None] \/ \E d \in Dpcs : dp' = [dp EXCEPT ![u] = d],
             ~isQueued[u] \/ dp[u] = None
      PROVE  \A v \in Users : isQueued[v] => dp'[v] = dp[v]
  BY <1>4 DEF IInv, TypeOK, LifeTypeOK, LifeInv
<1>5. ASSUME NEW u \in Users,
             \/ Disconnect(u) \/ (\E d \in Dpcs : ConnectDevice(u, d))
             \/ FreeAsynUser(u) \/ FreeInCallback(u)
      PROVE  Goal
  BY <1>4, <1>5
  DEF Disconnect, MayDisconnect, ConnectDevice, FreeAsynUser, FreeInCallback
<1>6. ASSUME NEW u \in Users, UnblockPort(u) \/ UnblockDevice(u) PROVE Goal
  BY <1>6 DEF UnblockPort, UnblockDevice, IInv, TypeOK, BlockTypeOK
<1>8. ASSUME NEW u \in Users, Request(u) PROVE Goal
  BY <1>5, <1>6, <1>8
  DEF Request, QueueRequest, BlockProcessCallback,
      CancelQueued, CancelNotQueued, ResumeClient, CreateAsynUser, LockPort
<1>7. CASE UNCHANGED vars
  BY <1>7 DEF vars
<1> QED
  BY <1>1, <1>2, <1>3, <1>7, <1>8

\* A step of portThread: where it leads, what it looks at and whom it lets pass.
ThreadInv == PortControlInv /\ ScanInv /\ BlockInv

\* Every step of portThread keeps ThreadInv.  ScanElement establishes ScanInv, under
\* the lock; the steps up to ScanCheck keep it.
LEMMA PortThreadInv ==
  ASSUME IInv, PortThread PROVE ThreadInv'
<1> USE DEF ThreadInv, PortControlInv, ScanInv, BlockInv, RequestPcs, ElementPcs, LockedPcs
<1>1. ASSUME Sleep PROVE ThreadInv'
  BY <1>1 DEF Sleep, Goto
<1>2. ASSUME NEW u \in Users, NEW d \in Dpcs, NEW p, NEW i, StartRequest(u, d, p, i),
             p # Connect => NotBlocked(u, d), UNCHANGED blockVars
      PROVE  ThreadInv'
  BY <1>2 DEF StartRequest, Goto, NotBlocked, blockVars
\* An asynUser found on a queue is connected.
<1>3. ASSUME NEW p \in AllPriorities, NEW i \in DOMAIN queueList[p]
      PROVE  /\ queueList[p][i] \in Users
             /\ isQueued[queueList[p][i]]
             /\ dp[queueList[p][i]] \in Dpcs
  <2>1. queueList[p][i] \in Users
    BY DEF IInv, TypeOK, QueueTypeOK
  <2>2. isQueued[queueList[p][i]]
    BY <2>1 DEF IInv, QueueConsistent
  <2> QED
    BY <2>1, <2>2 DEF IInv, LifeInv, TypeOK, LifeTypeOK
<1>4. ASSUME EventWait PROVE ThreadInv'
  BY <1>4 DEF EventWait, lockVars, ptLocals, IInv
<1>5. ASSUME TestEnabled PROVE ThreadInv'
  BY <1>1, <1>5 DEF TestEnabled, Goto, ptLocals
<1>6. ASSUME TakeConnectRequest PROVE ThreadInv'
  <2>1. Connect \in AllPriorities /\ queueList[Connect] \in Seq(Users)
    BY DEF IInv, TypeOK, QueueTypeOK, AllPriorities, Low, Connect
  <2>2. 1 \in DOMAIN queueList[Connect] /\ Head(queueList[Connect]) = queueList[Connect][1]
    BY <1>6, <2>1 DEF TakeConnectRequest
  <2> QED
    BY <1>2, <1>3, <1>6, <2>1, <2>2 DEF TakeConnectRequest
<1>7. ASSUME ConnectQueueEmpty PROVE ThreadInv'
  BY <1>7 DEF ConnectQueueEmpty, lockVars, IInv
<1>8. ASSUME AutoNext, UNCHANGED <<queueVars, dp>>, pc \in {"auto", "relock"}
      PROVE  ThreadInv'
  <2>1. CASE Sleep
    BY <1>1, <2>1
  <2>2. CASE ~Sleep
    BY <1>8, <2>2, AsynPortAssumption
    DEF AutoNext, Goto, queueVars, ScanQueue, IInv, TypeOK, PortThreadTypeOK
  <2> QED
    BY <2>1, <2>2
<1>9. ASSUME AutoSkip \/ AutoRelock PROVE ThreadInv'
  BY <1>8, <1>9 DEF AutoSkip, AutoRelock, lifeVars
<1>10. ASSUME AutoAttempt PROVE ThreadInv'
  BY <1>10 DEF AutoAttempt, Goto, ptLocals, queueVars, lifeVars, ScanQueue, IInv
<1>11. ASSUME AttemptFails PROVE ThreadInv'
  BY <1>11 DEF AttemptFails, lockVars, ptLocals, queueVars, lifeVars, ScanQueue, IInv
<1>12. ASSUME AttemptConnects PROVE ThreadInv'
  BY <1>12 DEF AttemptConnects, ptLocals, queueVars, lifeVars, ScanQueue, IInv
<1>13. ASSUME AnnounceConnect PROVE ThreadInv'
  BY <1>13 DEF AnnounceConnect, QueueChanged, ptLocals, IInv
<1>14. ASSUME ScanStart PROVE ThreadInv'
  BY <1>14 DEF ScanStart, lockVars, IInv
<1>15. ASSUME ScanNextQueue PROVE ThreadInv'
  <2>1. Sleep \/ UNCHANGED <<pc, locked, cur, curDp>>
    BY <1>15 DEF ScanNextQueue
  <2>2. pc = "scan"
    BY <1>15 DEF ScanNextQueue
  <2>3. CASE UNCHANGED <<pc, locked, cur, curDp>>
    BY <2>2, <2>3 DEF IInv
  <2> QED
    BY <1>1, <2>1, <2>3
<1>16. ASSUME ScanElement PROVE ThreadInv'
  <2> DEFINE u == ScanQueue[scan[2]]
  <2>1. scan[1] \in AllPriorities /\ scan[2] \in DOMAIN queueList[scan[1]]
    BY <1>16 DEF ScanElement, ScanQueue, IInv, TypeOK, PortThreadTypeOK, QueueTypeOK
  <2>2. u \in Users /\ dp[u] \in Dpcs
    BY <1>3, <2>1 DEF ScanQueue
  <2>3. UNCHANGED <<queueVars, lifeVars, blockVars, locked>> /\ locked
    BY <1>16 DEF ScanElement, lockVars, IInv
  <2>4. CASE ~enabled[dp[u]]
    BY <1>16, <2>3, <2>4 DEF ScanElement
  <2>5. CASE enabled[dp[u]]
    <3>1. cur' = u /\ curDp' = dp[u] /\ UNCHANGED scan /\ pc' \in {"scanCheck", "auto"}
      BY <1>16, <2>5 DEF ScanElement
    <3> QED
      BY <2>1, <2>2, <2>3, <3>1 DEF ScanQueue, queueVars, lifeVars
  <2> QED
    BY <2>4, <2>5
<1>17. ASSUME ScanAbort PROVE ThreadInv'
  BY <1>1, <1>17 DEF ScanAbort
<1>18. ASSUME ScanCheck PROVE ThreadInv'
  <2>1. cur \in Users /\ curDp \in Dpcs /\ locked
    BY <1>18 DEF ScanCheck, IInv
  <2>2. CASE NotBlocked(cur, curDp)
    BY <1>2, <1>18, <2>1, <2>2 DEF ScanCheck
  <2>3. CASE ~NotBlocked(cur, curDp)
    BY <1>18, <2>1, <2>3 DEF ScanCheck
  <2> QED
    BY <2>2, <2>3
<1>19. ASSUME CancelRequestTimer PROVE ThreadInv'
  BY <1>19 DEF CancelRequestTimer, lockVars, blockVars, NotBlocked, IInv
<1>20. ASSUME BeginCallback PROVE ThreadInv'
  BY <1>20 DEF BeginCallback, ptLocals, blockVars, NotBlocked, IInv
<1>21. ASSUME EndCallback PROVE ThreadInv'
  BY <1>21 DEF EndCallback, ptLocals, blockVars, NotBlocked, IInv
<1>22. ASSUME FinishConnectRequest PROVE ThreadInv'
  BY <1>22 DEF FinishConnectRequest, Goto
<1>23. ASSUME FinishNormalRequest PROVE ThreadInv'
  BY <1>1, <1>23 DEF FinishNormalRequest, Goto
<1> QED
  BY <1>4, <1>5, <1>6, <1>7, <1>9, <1>10, <1>11, <1>12, <1>13, <1>14, <1>15, <1>16,
     <1>17, <1>18, <1>19, <1>20, <1>21, <1>22, <1>23 DEF PortThread

\* A step of another thread: the queues change and the change is marked, or
\* nothing that portThread uses changes.
LEMMA OtherThreadsInv ==
  ASSUME IInv,
         \/ \E u \in Users : Request(u) \/ Complete(u)
         \/ TimerThread \/ Environment \/ UNCHANGED vars
  PROVE  ThreadInv'
<1>1. /\ UNCHANGED <<ptVars, locked>>
      /\ queueStateChange' \/ UNCHANGED <<queueList, queueStateChange>>
      /\ \A v \in Users : isQueued[v] => dp'[v] = dp[v]
      /\ portHolder' \in {None, portHolder}
      /\ \A d \in Dpcs : dpHolder'[d] \in {None, dpHolder[d]}
  BY OtherThreads
<1>2. PortControlInv'
  BY <1>1 DEF IInv, PortControlInv, ptVars, ptLocals
<1>3. ScanInv'
  <2>1. CASE queueStateChange'
    BY <2>1 DEF ScanInv
  <2>2. CASE ~queueStateChange' /\ pc \in ElementPcs /\ cur # None
    <3>1. /\ scan[2] \in DOMAIN ScanQueue /\ ScanQueue[scan[2]] = cur
          /\ curDp = dp[cur]
      BY <1>1, <2>2 DEF IInv, ScanInv
    <3>2. scan[1] \in AllPriorities /\ cur \in Users
      BY <2>2 DEF IInv, TypeOK, PortThreadTypeOK
    <3>3. isQueued[cur]
      BY <3>1, <3>2 DEF IInv, QueueConsistent, ScanQueue
    <3> QED
      BY <1>1, <2>2, <3>1, <3>2, <3>3 DEF ScanInv, ScanQueue, ptVars, ptLocals
  <2>3. CASE ~(pc \in ElementPcs /\ cur # None)
    BY <1>1, <2>3 DEF ScanInv, ptVars, ptLocals
  <2> QED
    BY <2>1, <2>2, <2>3
<1>4. BlockInv'
  <2> SUFFICES ASSUME pc \in RequestPcs, kind = "normal" PROVE NotBlocked(cur, curDp)'
    BY <1>1 DEF BlockInv, ptVars, ptLocals
  <2>1. curDp \in Dpcs /\ NotBlocked(cur, curDp)
    BY DEF IInv, PortControlInv, BlockInv
  <2> QED
    BY <1>1, <2>1 DEF NotBlocked, ptVars, ptLocals
<1> QED
  BY <1>2, <1>3, <1>4 DEF ThreadInv

\* The timer thread knows its asynUser while it runs.
LEMMA TimerControlInvStep ==
  ASSUME IInv, [Next]_vars PROVE TimerControlInv'
<1> USE DEF TimerControlInv, threads, ttVars, IInv
<1>1. ASSUME NEW u \in Users, Request(u) PROVE UNCHANGED ttVars
  BY <1>1
  DEF Request, QueueRequest, BlockProcessCallback, UnblockPort, UnblockDevice,
      CancelQueued, CancelNotQueued, ResumeClient, Disconnect, ConnectDevice,
      FreeAsynUser, FreeInCallback, CreateAsynUser, LockPort
<1>2. ASSUME NEW u \in Users, Complete(u) PROVE UNCHANGED ttVars
  BY <1>2
  DEF Complete, CancelTimer, CancelWaitDone, FreeTestState, FreeSetFlag, UnlockPort
<1>3. ASSUME PortThread PROVE UNCHANGED ttVars
  BY <1>3
  DEF PortThread, EventWait, TestEnabled, TakeConnectRequest, ConnectQueueEmpty,
      AutoSkip, AutoAttempt, AttemptFails, AttemptConnects, AnnounceConnect, AutoRelock,
      ScanStart, ScanNextQueue, ScanElement, ScanAbort, ScanCheck, CancelRequestTimer,
      BeginCallback, EndCallback, FinishConnectRequest, FinishNormalRequest
<1>4. ASSUME TimerThread PROVE TimerControlInv'
  BY <1>4
  DEF TimerThread, TimerExpires, TimeoutNotQueued, TimeoutQueued, EndTimeoutCallback,
      FinishTimeout
<1>5. ASSUME Environment PROVE UNCHANGED ttVars
  BY <1>5
  DEF Environment, Enable, AutoConnectAsyn, ExceptionConnect, ExceptionDisconnect,
      AnnounceException
<1>6. CASE UNCHANGED vars
  BY <1>6 DEF vars
<1> QED
  BY <1>1, <1>2, <1>3, <1>4, <1>5, <1>6 DEF Next

-----------------------------------------------------------------------------
(* The theorems. *)

\* The initial states satisfy the invariant.
LEMMA InitIInv == Init => IInv
<1> SUFFICES ASSUME Init PROVE IInv
  OBVIOUS
<1> USE DEF Init
<1>1. ReqTypeOK /\ LifeTypeOK
  BY DEF ReqTypeOK, LifeTypeOK, States, Lives, CPcs, Overlaps
<1>2. BlockTypeOK /\ DpcTypeOK /\ LockTypeOK /\ TimerThreadTypeOK
  <2>1. 0 \in 0 .. MaxBlock
    BY AsynPortAssumption
  <2>2. BlockTypeOK
    BY <2>1 DEF BlockTypeOK
  <2> QED
    BY <2>2 DEF DpcTypeOK, LockTypeOK, TimerThreadTypeOK
<1>3. QueueTypeOK
  <2>1. <<>> \in Seq(Users)
    OBVIOUS
  <2> QED
    BY <2>1 DEF QueueTypeOK
<1>4. PortThreadTypeOK
  <2>1. scan \in AllPriorities \X (Nat \ {0}) /\ attempt \in Dpcs
    BY DEF AllPriorities, Low, Connect, Dpcs
  <2> QED
    BY <2>1 DEF PortThreadTypeOK, Pcs, Kinds
<1>5. QueueConsistent
  BY DEF QueueConsistent
<1>6. LifeInv
  BY AsynPortAssumption DEF LifeInv
<1> QED
  BY <1>1, <1>2, <1>3, <1>4, <1>5, <1>6
  DEF IInv, TypeOK, PortControlInv, TimerControlInv, ScanInv, BlockInv, RequestPcs,
      ElementPcs, LockedPcs

\* Every step keeps the invariant.
LEMMA NextIInv == IInv /\ [Next]_vars => IInv'
<1> SUFFICES ASSUME IInv, [Next]_vars PROVE IInv'
  OBVIOUS
<1>1. TypeOK'
  BY TypeOKStep DEF IInv
<1>2. ThreadInv'
  BY PortThreadInv, OtherThreadsInv DEF Next
<1> QED
  BY <1>1, <1>2, QueueConsistentStep, LifeInvStep, TimerControlInvStep DEF IInv, ThreadInv

\* The inductive invariant, for every use of the port.
THEOREM Invariant == Spec => []IInv
  BY InitIInv, NextIInv, PTL DEF Spec

\* Every variable keeps its type.
THEOREM TypeCorrect == Spec => []TypeOK
<1>1. IInv => TypeOK
  BY DEF IInv
<1> QED
  BY <1>1, Invariant, PTL

\* The queues and the flags isQueued agree, whatever the clients do.
THEOREM QueuesConsistent == Spec => []QueueConsistent
<1>1. IInv => QueueConsistent
  BY DEF IInv
<1> QED
  BY <1>1, Invariant, PTL

\* A request that is queued stays with its client and connected: the assertion of
\* portThread on findDpCommon holds.
THEOREM QueuedUsersConnected == Spec => []QueuedIsConnected
<1>1. IInv => QueuedIsConnected
  BY DEF IInv, LifeInv, QueuedIsConnected
<1> QED
  BY <1>1, Invariant, PTL

\* portThread may use the element under its scan after it let go of the lock.
THEOREM ScanIsSound == Spec => []ScanSound
<1>1. IInv => ScanSound
  <2> SUFFICES ASSUME IInv, pc = "scanCheck", ~queueStateChange
               PROVE  /\ scan[2] \in DOMAIN ScanQueue /\ ScanQueue[scan[2]] = cur
                      /\ isQueued[cur] /\ curDp = dp[cur]
    BY DEF ScanSound
  <2>1. cur \in Users
    BY DEF IInv, PortControlInv
  <2>2. scan[2] \in DOMAIN ScanQueue /\ ScanQueue[scan[2]] = cur /\ curDp = dp[cur]
    BY <2>1, AsynPortAssumption DEF IInv, ScanInv, ElementPcs
  <2>3. isQueued[cur]
    BY <2>1, <2>2 DEF IInv, QueueConsistent, ScanQueue, TypeOK, PortThreadTypeOK
  <2> QED
    BY <2>2, <2>3
<1> QED
  BY <1>1, Invariant, PTL

\* A block keeps the callbacks of all other asynUsers out.
THEOREM BlocksExclude == Spec => []BlockExclusion
<1>1. IInv => BlockExclusion
  BY DEF IInv, BlockInv, BlockExclusion, NotBlocked, RequestPcs
<1> QED
  BY <1>1, Invariant, PTL

-----------------------------------------------------------------------------
(* The scan of the queues and the event that wakes portThread. *)

\* portThread has found no connect request left: it looks for other requests, or
\* serves one.
Serving == pc \in RequestPcs /\ kind = "normal"
Scanning == pc = "scan" \/ (pc \in ElementPcs /\ cur # None)
Normal == pc \in ElementPcs \cup {"scanStart", "scan"} \/ Serving

\* What portThread has passed in its scan it could not take.
Passed ==
  \A q \in AllPriorities : \A j \in DOMAIN queueList[q] :
    LET v == queueList[q][j]
    IN  Ahead(scan[1], scan[2], q, j) => ~enabled[dp[v]] \/ ~NotBlocked(v, dp[v])

\* The scan may have gone out of date, and somebody knows.
Outdated == queueStateChange \/ notify \/ epc = "announce"

\* portThread sleeps when it has passed all requests, or after a change of the
\* queues that has set its event or is going to.
WakeInv ==
  /\ Normal => queueList[Connect] = <<>> \/ WakeupPending
  /\ Scanning \/ Serving => (queueStateChange => WakeupPending)
  /\ Scanning => scan[1] < Connect
  /\ Scanning => Passed \/ Outdated
  /\ NoLostWakeup

\* The event stays pending until portThread receives it, and every change of what
\* the scan has seen makes it pending, or is marked.
LEMMA OtherThreadsWake ==
  ASSUME IInv,
         \/ \E u \in Users : Request(u) \/ Complete(u)
         \/ TimerThread \/ Environment \/ UNCHANGED vars
  PROVE  /\ notify => notify'
         /\ WakeupPending => WakeupPending'
         /\ epc = "announce" => epc' = "announce" \/ notify'
         /\ queueStateChange' => queueStateChange \/ WakeupPending'
         /\ WakeupPending' \/ UNCHANGED <<queueList, isQueued, enabled, connected, portHolder, dpHolder>>
         /\ Outdated' \/ UNCHANGED <<queueList, enabled, portHolder, dpHolder>>
<1> DEFINE Goal == /\ notify => notify'
                   /\ WakeupPending => WakeupPending'
                   /\ epc = "announce" => epc' = "announce" \/ notify'
                   /\ queueStateChange' => queueStateChange \/ WakeupPending'
                   /\ WakeupPending' \/ UNCHANGED <<queueList, isQueued, enabled, connected, portHolder, dpHolder>>
                   /\ Outdated' \/ UNCHANGED <<queueList, enabled, portHolder, dpHolder>>
<1> USE DEF threads, lockVars, queueVars, lifeVars, blockVars, reqVars, dpcVars, ptVars, ttVars,
            QueueChanged, Signal, SignalIf, WakeupPending, Outdated
<1>0. cpc \in [Users -> CPcs] /\ isQueued \in [Users -> BOOLEAN]
  BY DEF IInv, TypeOK, LifeTypeOK, ReqTypeOK
<1>1. ASSUME NEW u \in Users, NEW p \in Priorities, NEW t \in BOOLEAN, QueueRequest(u, p, t) PROVE Goal
  BY <1>1 DEF QueueRequest
<1>2. ASSUME NEW u \in Users, CancelQueued(u) PROVE Goal
  <2>1. timeout[u] => cpc'[u] = "cancelTimer"
    BY <1>0, <1>2 DEF CancelQueued
  <2>2. \A v \in Users : cpc[v] = "cancelTimer" => cpc'[v] = "cancelTimer"
    BY <1>0, <1>2 DEF CancelQueued
  <2> QED
    BY <1>2, <2>1, <2>2 DEF CancelQueued
<1>3. ASSUME NEW u \in Users, CancelTimer(u) PROVE Goal
  BY <1>3 DEF CancelTimer
<1>4. ASSUME NEW u \in Users,
             CancelNotQueued(u) \/ ResumeClient(u) \/ LockPort(u) \/ CancelWaitDone(u) \/ UnlockPort(u)
      PROVE  Goal
  <2>1. \A v \in Users : cpc[v] = "cancelTimer" => cpc'[v] = "cancelTimer"
    BY <1>0, <1>4 DEF CancelNotQueued, ResumeClient, LockPort, CancelWaitDone, UnlockPort
  <2> QED
    BY <1>4, <2>1 DEF CancelNotQueued, ResumeClient, LockPort, CancelWaitDone, UnlockPort
<1>5. ASSUME NEW u \in Users, CreateAsynUser(u) PROVE Goal
  <2>1. UNCHANGED isQueued
    BY <1>0, <1>5, AsynPortAssumption DEF CreateAsynUser, IInv, LifeInv
  <2> QED
    BY <1>5, <2>1 DEF CreateAsynUser
<1>6. ASSUME NEW u \in Users, UnblockPort(u) \/ UnblockDevice(u) PROVE Goal
  <2>1. notify' \/ UNCHANGED <<portHolder, dpHolder>>
    BY <1>6 DEF UnblockPort, UnblockDevice, IInv, TypeOK, BlockTypeOK
  <2>2. notify => notify'
    BY <1>6 DEF UnblockPort, UnblockDevice
  <2>3. UNCHANGED <<queueList, queueStateChange, isQueued, enabled, connected, epc, tpc, cpc>>
    BY <1>6 DEF UnblockPort, UnblockDevice
  <2> QED
    BY <2>1, <2>2, <2>3
<1>7. ASSUME NEW u \in Users,
             \/ \E b \in BOOLEAN : BlockProcessCallback(u, b)
             \/ Disconnect(u) \/ (\E d \in Dpcs : ConnectDevice(u, d))
             \/ FreeAsynUser(u) \/ FreeInCallback(u) \/ FreeTestState(u) \/ FreeSetFlag(u)
      PROVE  Goal
  BY <1>7
  DEF BlockProcessCallback, Disconnect, ConnectDevice, FreeAsynUser, FreeInCallback,
      FreeTestState, FreeSetFlag
<1>8. ASSUME TimerThread PROVE Goal
  BY <1>8
  DEF TimerThread, TimerExpires, TimeoutNotQueued, TimeoutQueued, EndTimeoutCallback,
      FinishTimeout
<1>9. ASSUME Environment PROVE Goal
  BY <1>9
  DEF Environment, Enable, AutoConnectAsyn, ExceptionConnect, ExceptionDisconnect,
      AnnounceException
<1>10. CASE UNCHANGED vars
  BY <1>10 DEF vars
<1> QED
  BY <1>1, <1>2, <1>3, <1>4, <1>5, <1>6, <1>7, <1>8, <1>9, <1>10 DEF Request, Complete

\* A step of another thread keeps WakeInv.
LEMMA OtherThreadsWakeInv ==
  ASSUME IInv, WakeInv,
         \/ \E u \in Users : Request(u) \/ Complete(u)
         \/ TimerThread \/ Environment \/ UNCHANGED vars
  PROVE  WakeInv'
<1>1. /\ UNCHANGED <<pc, cur, kind, scan>>
      /\ queueStateChange => queueStateChange'
      /\ \A v \in Users : isQueued[v] => dp'[v] = dp[v]
  BY OtherThreads DEF ptVars, ptLocals
<1>2. /\ WakeupPending => WakeupPending'
      /\ queueStateChange' => queueStateChange \/ WakeupPending'
      /\ WakeupPending' \/ UNCHANGED <<queueList, isQueued, enabled, connected, portHolder, dpHolder>>
      /\ Outdated' \/ UNCHANGED <<queueList, enabled, portHolder, dpHolder>>
      /\ Outdated => Outdated'
  BY <1>1, OtherThreadsWake DEF Outdated
<1>3. UNCHANGED <<Normal, Scanning, Serving>>
  BY <1>1 DEF Normal, Scanning, Serving
<1>4. Normal => (queueList[Connect] = <<>>)' \/ WakeupPending'
  BY <1>2 DEF WakeInv
<1>5. Scanning \/ Serving => (queueStateChange' => WakeupPending')
  BY <1>2 DEF WakeInv
<1>6. ASSUME Scanning, ~Outdated' PROVE Passed'
  <2>1. Passed
    BY <1>2, <1>6 DEF WakeInv
  <2>2. ASSUME NEW q \in AllPriorities, NEW j \in DOMAIN queueList[q]
        PROVE  dp'[queueList[q][j]] = dp[queueList[q][j]]
    <3>1. queueList[q][j] \in Users
      BY DEF IInv, TypeOK, QueueTypeOK
    <3>2. isQueued[queueList[q][j]]
      BY <3>1 DEF IInv, QueueConsistent
    <3> QED
      BY <1>1, <3>1, <3>2
  <2> QED
    BY <1>1, <1>2, <1>6, <2>1, <2>2 DEF Passed, NotBlocked
<1>7. NoLostWakeup'
  <2> SUFFICES ASSUME pc = "wait", ~WakeupPending', enabled'[Port] PROVE NoLostWakeup'
    BY <1>1 DEF NoLostWakeup
  <2>1. UNCHANGED <<queueList, isQueued, enabled, connected, portHolder, dpHolder>> /\ ~WakeupPending
    BY <1>2
  <2> QED
    BY <1>1, <2>1 DEF WakeInv, NoLostWakeup, NotBlocked
<1> QED
  BY <1>1, <1>3, <1>4, <1>5, <1>6, <1>7 DEF WakeInv

\* The end of a scan: there is no request that portThread could take.
LEMMA ScanComplete ==
  ASSUME IInv, Passed, queueList[Connect] = <<>>, scan[1] = Low, scan[2] > Len(queueList[Low]),
         NEW u \in Users, isQueued[u], enabled[dp[u]]
  PROVE  ~NotBlocked(u, dp[u])
<1>1. PICK p \in AllPriorities : \E i \in DOMAIN queueList[p] : queueList[p][i] = u
  BY DEF IInv, QueueConsistent
<1>2. PICK i \in DOMAIN queueList[p] : queueList[p][i] = u
  BY <1>1
<1>3. p # Connect
  BY <1>2
<1>4. i \in 1 .. Len(queueList[p])
  BY DEF IInv, TypeOK, QueueTypeOK
<1>5. scan[2] \in Nat
  BY DEF IInv, TypeOK, PortThreadTypeOK
<1>6. Ahead(scan[1], scan[2], p, i)
  <2>1. p = Low => i < scan[2]
    BY <1>4, <1>5 DEF IInv, TypeOK, QueueTypeOK
  <2> QED
    BY <1>3, <2>1 DEF Ahead, AllPriorities, Low, Connect
<1> QED
  BY <1>2, <1>6 DEF Passed

\* Every step of portThread keeps WakeInv: it sleeps at the end of a scan, or on a
\* pending event.
LEMMA PortThreadWakeInv ==
  ASSUME IInv, WakeInv, PortThread PROVE WakeInv'
<1> USE DEF Normal, Scanning, Serving, RequestPcs, ElementPcs
<1> DEFINE Quiet == notify' = notify /\ UNCHANGED <<epc, tpc, cpc>>
<1>0. Quiet => WakeupPending' = WakeupPending
  BY DEF WakeupPending
\* portThread goes to sleep.
<1>1. ASSUME Sleep, Quiet, UNCHANGED <<queueVars, enabled, connected>>,
             \/ ~enabled[Port]
             \/ WakeupPending
             \/ queueList[Connect] = <<>> /\ ~connected[Port]
      PROVE  WakeInv'
  BY <1>0, <1>1 DEF Sleep, Goto, WakeInv, NoLostWakeup, queueVars
<1>2. ASSUME EventWait PROVE WakeInv'
  BY <1>2 DEF EventWait, WakeInv, NoLostWakeup
<1>3. ASSUME TestEnabled PROVE WakeInv'
  <2>1. CASE Sleep /\ ~enabled[Port]
    BY <1>1, <1>3, <2>1 DEF TestEnabled, queueVars, dpcVars, ttVars, lifeVars
  <2>2. CASE Goto("connectQ", TRUE)
    BY <2>2 DEF Goto, WakeInv, NoLostWakeup
  <2> QED
    BY <1>3, <2>1, <2>2 DEF TestEnabled
<1>4. ASSUME TakeConnectRequest PROVE WakeInv'
  BY <1>4 DEF TakeConnectRequest, StartRequest, Goto, WakeInv, NoLostWakeup
<1>5. ASSUME ConnectQueueEmpty PROVE WakeInv'
  BY <1>5 DEF ConnectQueueEmpty, WakeInv, NoLostWakeup, queueVars
\* portThread tries to connect, or goes on to look at an element of its scan.
<1>6. ASSUME pc \in ElementPcs, pc' \in ElementPcs \cup {"scanStart"}, Quiet,
             UNCHANGED <<queueVars, enabled, dp, blockVars, scan, cur, kind>>
      PROVE  WakeInv'
  <2>1. Passed' = Passed /\ Outdated' = Outdated
    BY <1>6 DEF Passed, Outdated, NotBlocked, blockVars, queueVars
  <2> QED
    BY <1>0, <1>6, <2>1 DEF WakeInv, NoLostWakeup, queueVars
<1>7. ASSUME AutoSkip \/ AutoRelock PROVE WakeInv'
  <2>1. Quiet /\ UNCHANGED <<queueVars, enabled, connected, dp, blockVars>> /\ pc \in {"auto", "relock"} /\ AutoNext
    BY <1>7 DEF AutoSkip, AutoRelock, queueVars, dpcVars, lifeVars, ttVars
  <2>2. CASE Sleep /\ cur = None /\ ~connected[Port]
    BY <1>1, <2>1, <2>2 DEF WakeInv
  <2>3. CASE ~Sleep
    <3>1. pc' \in ElementPcs \cup {"scanStart"} /\ UNCHANGED <<scan, cur, kind>>
      BY <2>1, <2>3 DEF AutoNext, Goto
    <3> QED
      BY <1>6, <2>1, <3>1
  <2>4. Sleep => pc' = "wait"
    BY DEF Sleep, Goto
  <2> QED
    BY <2>1, <2>2, <2>3, <2>4 DEF AutoNext, Goto
<1>8. ASSUME AutoAttempt \/ AttemptFails \/ AttemptConnects PROVE WakeInv'
  BY <1>6, <1>8
  DEF AutoAttempt, AttemptFails, AttemptConnects, Goto, queueVars, dpcVars, lifeVars, ttVars, ptLocals
<1>9. ASSUME AnnounceConnect PROVE WakeInv'
  BY <1>9
  DEF AnnounceConnect, QueueChanged, Signal, WakeInv, NoLostWakeup, WakeupPending, Outdated, ptLocals
<1>10. ASSUME ScanStart PROVE WakeInv'
  <2>1. scan' = <<Connect - 1, 1>> /\ queueStateChange' = FALSE /\ pc' = "scan" /\ pc = "scanStart"
    BY <1>10 DEF ScanStart, TopQueue
  <2>2. queueList' = queueList /\ Quiet
    BY <1>10 DEF ScanStart, lifeVars, ttVars
  <2>3. Passed'
    <3>1. ASSUME NEW q \in AllPriorities, NEW j \in DOMAIN queueList[q] PROVE ~Ahead(Connect - 1, 1, q, j)
      <4>1. j \in 1 .. Len(queueList[q])
        BY DEF IInv, TypeOK, QueueTypeOK
      <4> QED
        BY <4>1 DEF Ahead, Connect
    <3> QED
      BY <2>1, <2>2, <3>1 DEF Passed
  <2> QED
    BY <1>0, <2>1, <2>2, <2>3 DEF WakeInv, NoLostWakeup, Connect
\* The scan goes on behind an element that portThread could not take.
<1>11. ASSUME Scanning, pc' = "scan", Quiet,
              UNCHANGED <<queueList, queueStateChange, enabled, dp, blockVars, kind>>,
              scan'[1] < Connect, Passed \/ Outdated => Passed' \/ Outdated
       PROVE  WakeInv'
  <2>1. Outdated' = Outdated
    BY <1>11 DEF Outdated
  <2> QED
    BY <1>0, <1>11, <2>1 DEF WakeInv, NoLostWakeup
<1>12. ASSUME Passed, ScanNext, UNCHANGED <<queueList, enabled, dp, blockVars>>,
              scan[2] \in DOMAIN ScanQueue,
              LET v == ScanQueue[scan[2]] IN ~enabled[dp[v]] \/ ~NotBlocked(v, dp[v])
       PROVE  Passed'
  <2>0. scan[1] \in AllPriorities /\ scan[2] \in Nat /\ scan' = <<scan[1], scan[2] + 1>>
    BY <1>12 DEF ScanNext, IInv, TypeOK, PortThreadTypeOK
  <2>1. ASSUME NEW q \in AllPriorities, NEW j \in DOMAIN queueList[q],
               Ahead(scan[1], scan[2] + 1, q, j)
        PROVE  Ahead(scan[1], scan[2], q, j) \/ (q = scan[1] /\ j = scan[2])
    <3>1. j \in Nat
      BY DEF IInv, TypeOK, QueueTypeOK
    <3> QED
      BY <2>0, <2>1, <3>1 DEF Ahead
  <2> QED
    BY <1>12, <2>0, <2>1 DEF Passed, ScanQueue, NotBlocked, blockVars
<1>13. ASSUME ScanNextQueue PROVE WakeInv'
  <2>0. /\ pc = "scan" /\ scan[2] > Len(queueList[scan[1]]) /\ Quiet
        /\ UNCHANGED <<queueVars, enabled, connected, dp, blockVars, isQueued>>
    BY <1>13 DEF ScanNextQueue, ScanQueue, queueVars, dpcVars, lifeVars, ttVars, reqVars
  <2>1. CASE scan[1] > Low /\ scan' = <<scan[1] - 1, 1>> /\ UNCHANGED <<pc, kind>>
    <3>0. scan[1] \in AllPriorities /\ scan[2] \in Nat
      BY DEF IInv, TypeOK, PortThreadTypeOK
    <3>1. ASSUME Passed PROVE Passed'
      <4>1. ASSUME NEW q \in AllPriorities, NEW j \in DOMAIN queueList[q], Ahead(scan[1] - 1, 1, q, j)
            PROVE  Ahead(scan[1], scan[2], q, j)
        <5>1. j \in 1 .. Len(queueList[q]) /\ Len(queueList[q]) \in Nat
          BY DEF IInv, TypeOK, QueueTypeOK
        <5> QED
          BY <2>0, <3>0, <4>1, <5>1 DEF Ahead, AllPriorities, Low, Connect
      <4> QED
        BY <2>0, <2>1, <3>1, <4>1 DEF Passed, NotBlocked, blockVars, queueVars
    <3> QED
      BY <1>11, <2>0, <2>1, <3>0, <3>1 DEF WakeInv, queueVars, AllPriorities, Low, Connect
  <2>2. CASE scan[1] = Low /\ Sleep
    <3>1. pc' = "wait"
      BY <2>2 DEF Sleep, Goto
    <3>2. CASE WakeupPending
      BY <1>1, <2>0, <2>2, <3>2
    <3>3. CASE ~WakeupPending
      <4>1. queueList[Connect] = <<>> /\ Passed
        BY <2>0, <3>3 DEF WakeInv, Outdated, WakeupPending
      <4>2. \A u \in Users : isQueued[u] /\ enabled[dp[u]] => ~NotBlocked(u, dp[u])
        BY <2>0, <2>2, <4>1, ScanComplete
      <4> QED
        BY <2>0, <3>1, <4>1, <4>2 DEF WakeInv, NoLostWakeup, NotBlocked, queueVars, blockVars
    <3> QED
      BY <3>2, <3>3
  <2> QED
    BY <1>13, <2>1, <2>2 DEF ScanNextQueue
<1>14. ASSUME ScanElement PROVE WakeInv'
  <2> DEFINE u == ScanQueue[scan[2]]
  <2>0. /\ pc = "scan" /\ Quiet
        /\ UNCHANGED <<queueVars, enabled, dp, blockVars, kind>>
    BY <1>14 DEF ScanElement, queueVars, dpcVars, lifeVars, ttVars
  <2>1. scan[1] \in AllPriorities /\ scan[2] \in DOMAIN ScanQueue /\ u \in Users
    BY <1>14 DEF ScanElement, ScanQueue, IInv, TypeOK, PortThreadTypeOK, QueueTypeOK
  <2>2. CASE ~enabled[dp[u]]
    <3>1. ScanNext /\ pc' = "scan"
      BY <1>14, <2>2 DEF ScanElement
    <3>2. Passed => Passed'
      BY <1>12, <2>0, <2>1, <2>2, <3>1 DEF queueVars
    <3>3. scan'[1] = scan[1]
      BY <3>1 DEF ScanNext
    <3> QED
      BY <1>11, <2>0, <3>1, <3>2, <3>3 DEF WakeInv, queueVars
  <2>3. CASE enabled[dp[u]]
    <3>1. cur' = u /\ pc' \in {"scanCheck", "auto"} /\ UNCHANGED scan
      BY <1>14, <2>3 DEF ScanElement
    <3>2. Passed' = Passed /\ Outdated' = Outdated
      BY <2>0, <3>1 DEF Passed, Outdated, NotBlocked, blockVars, queueVars
    <3> QED
      BY <1>0, <2>0, <3>1, <3>2 DEF WakeInv, NoLostWakeup, queueVars
  <2> QED
    BY <2>2, <2>3
<1>15. ASSUME ScanAbort PROVE WakeInv'
  <2>1. cur \in Users
    BY <1>15 DEF ScanAbort, IInv, PortControlInv
  <2>2. WakeupPending
    BY <1>15, <2>1, AsynPortAssumption DEF ScanAbort, WakeInv
  <2> QED
    BY <1>1, <1>15, <2>2 DEF ScanAbort, queueVars, dpcVars, lifeVars, ttVars
<1>16. ASSUME ScanCheck PROVE WakeInv'
  <2>0. /\ pc = "scanCheck" /\ Scanning /\ ~queueStateChange /\ Quiet
        /\ UNCHANGED <<queueStateChange, enabled, dp, blockVars>>
    BY <1>16, AsynPortAssumption DEF ScanCheck, IInv, PortControlInv, dpcVars, lifeVars, ttVars
  <2>1. scan[1] \in AllPriorities /\ scan[1] # Connect
    BY <2>0 DEF WakeInv, IInv, TypeOK, PortThreadTypeOK, Connect
  <2>2. CASE StartRequest(cur, curDp, scan[1], scan[2])
    <3>1. pc' = "timerCancel" /\ kind' = "normal" /\ queueList'[Connect] = queueList[Connect]
      BY <2>1, <2>2 DEF StartRequest, Goto, IInv, TypeOK, QueueTypeOK, Connect, AllPriorities, Low
    <3> QED
      BY <1>0, <2>0, <3>1 DEF WakeInv, NoLostWakeup
  <2>3. CASE ~NotBlocked(cur, curDp)
    <3>1. ScanNext /\ pc' = "scan" /\ UNCHANGED <<queueList, kind>>
      BY <1>16, <2>3 DEF ScanCheck
    <3>2. scan[2] \in DOMAIN ScanQueue /\ ScanQueue[scan[2]] = cur /\ curDp = dp[cur]
      BY <2>0 DEF IInv, ScanInv
    <3>3. Passed => Passed'
      BY <1>12, <2>0, <2>3, <3>1, <3>2
    <3>4. scan'[1] = scan[1]
      BY <3>1 DEF ScanNext
    <3> QED
      BY <1>11, <2>0, <3>1, <3>3, <3>4 DEF WakeInv
  <2> QED
    BY <1>16, <2>2, <2>3 DEF ScanCheck
\* From the removal of a request to the end of its callback.
<1>17. ASSUME pc \in RequestPcs, pc' \in RequestPcs, Quiet, UNCHANGED <<queueVars, kind>>
       PROVE  WakeInv'
  BY <1>0, <1>17 DEF WakeInv, NoLostWakeup, queueVars
<1>18. ASSUME CancelRequestTimer \/ BeginCallback \/ EndCallback PROVE WakeInv'
  BY <1>17, <1>18 DEF CancelRequestTimer, BeginCallback, EndCallback, queueVars, lifeVars, ttVars, ptLocals
<1>19. ASSUME FinishConnectRequest PROVE WakeInv'
  BY <1>19 DEF FinishConnectRequest, Goto, WakeInv, NoLostWakeup
<1>20. ASSUME FinishNormalRequest PROVE WakeInv'
  <2>0. Serving /\ Quiet /\ UNCHANGED <<queueVars, enabled, connected>>
    BY <1>20 DEF FinishNormalRequest, queueVars, dpcVars, ttVars
  <2>1. CASE queueStateChange /\ Sleep
    BY <1>1, <2>0, <2>1 DEF WakeInv
  <2>2. CASE Goto("scanStart", TRUE)
    BY <1>0, <2>0, <2>2 DEF Goto, WakeInv, NoLostWakeup, queueVars
  <2> QED
    BY <1>20, <2>1, <2>2 DEF FinishNormalRequest
<1> QED
  BY <1>2, <1>3, <1>4, <1>5, <1>7, <1>8, <1>9, <1>10, <1>13, <1>14, <1>15, <1>16,
     <1>18, <1>19, <1>20 DEF PortThread

\* See WakeInv.
THEOREM WakeInvariant == Spec => []WakeInv
<1>1. Init => WakeInv
  BY DEF Init, AllPriorities, Low, Connect, WakeInv, NoLostWakeup, Normal, Scanning, Serving, RequestPcs, ElementPcs
<1>2. IInv /\ WakeInv /\ [Next]_vars => WakeInv'
  BY PortThreadWakeInv, OtherThreadsWakeInv DEF Next
<1> QED
  BY Invariant, <1>1, <1>2, PTL DEF Spec

\* portThread never sleeps on a request that it could serve.
THEOREM WakeupsAreNotLost == Spec => []NoLostWakeup
<1>1. WakeInv => NoLostWakeup
  BY DEF WakeInv
<1> QED
  BY <1>1, WakeInvariant, PTL

\* Requests are served by priority, and in order within a priority.
THEOREM ServedByPriority == Spec => PriorityOrder
<1> DEFINE Order ==
      pc = "scanCheck" /\ pc' = "timerCancel" /\ epc = "idle" /\ ~notify =>
        \A q \in AllPriorities : \A j \in DOMAIN queueList[q] :
          LET v == queueList[q][j]
          IN  Ahead(scan[1], scan[2], q, j) => ~enabled[dp[v]] \/ ~NotBlocked(v, dp[v])
<1>1. IInv /\ WakeInv /\ [Next]_vars => [Order]_vars
  <2> SUFFICES ASSUME IInv, WakeInv, Next, pc = "scanCheck", pc' = "timerCancel", epc = "idle", ~notify
               PROVE  Passed
    BY DEF Passed
  <2>1. PortThread
    <3> SUFFICES ASSUME \/ \E u \in Users : Request(u) \/ Complete(u)
                        \/ TimerThread \/ Environment
                 PROVE  FALSE
      BY DEF Next
    <3>1. pc' = pc
      BY OtherThreads DEF ptVars
    <3> QED
      BY <3>1
  <2>2. ~queueStateChange /\ cur \in Users
    BY <2>1
    DEF PortThread, EventWait, TestEnabled, TakeConnectRequest, ConnectQueueEmpty,
      AutoSkip, AutoAttempt, AttemptFails, AttemptConnects, AnnounceConnect, AutoRelock,
      ScanStart, ScanNextQueue, ScanElement, ScanAbort, ScanCheck, CancelRequestTimer,
      BeginCallback, EndCallback, FinishConnectRequest, FinishNormalRequest, Sleep, Goto,
      IInv, PortControlInv
  <2> QED
    BY <2>2, AsynPortAssumption DEF WakeInv, Scanning, ElementPcs, Outdated
<1> QED
  BY Invariant, WakeInvariant, <1>1, PTL DEF Spec, PriorityOrder

-----------------------------------------------------------------------------
(* How the requests of one asynUser follow each other.  What holds of them *)
(* depends on the history overlap, and on nothing else: clients and        *)
(* callbacks may queue, cancel and free whenever the interface lets them.  *)

\* Unless both threads have come to be busy with u: at most one is, state tells so,
\* a cancelRequest that waits will be signalled, and u is not freed meanwhile.
TakenInv(u) ==
  /\ ~(PortThreadUses(u) /\ TimedOut(u))
  /\ state[u] = "Idle" <=> ~Busy(u)
  /\ state[u] = "Canceled" => cpc[u] = "waitDone"
  /\ callbackDone[u] => cpc[u] = "waitDone" /\ state[u] # "Canceled"
  /\ cpc[u] = "waitDone" => state[u] = "Canceled" \/ callbackDone[u]
  /\ life[u] = "free" => ~Busy(u)

\* If requests do not overlap: one is queued, or a thread is busy with it, or over.
RequestInv(u) ==
  /\ isQueued[u] => cpc[u] \in {"idle", "portLocked"} /\ ~Busy(u)
  /\ callbackDone[u] => ~Busy(u)
  /\ cpc[u] \in {"cancelTimer", "canceled"} => ~Busy(u)

\* If requests do not overlap, somebody looks after a timer that runs or has
\* expired: its request is queued, or who has taken the request off the queue is to
\* cancel the timer.
TimerInv(u) ==
  /\ isQueued[u] /\ timeout[u] => timer[u] \/ Expired(u)
  /\ timer[u] \/ Expired(u) => \/ isQueued[u] /\ timeout[u]
                               \/ pc = "timerCancel" /\ cur = u /\ curTimeout
                               \/ cpc[u] = "cancelTimer"
  /\ timer[u] => ~TimerThreadUses(u)
  /\ cpc[u] = "cancelTimer" => life[u] = "live"

\* However they follow: an asynUser that is not connected blocks nobody, and the
\* flag is set from the end of freeAsynUser until it is read.
FreeInv(u) ==
  /\ dp[u] = None => blockPortCount[u] = 0 /\ blockDeviceCount[u] = 0
  /\ life[u] = "released" => freeAfterCallback[u]

UserInv(u) ==
  /\ overlap[u] # "both" => TakenInv(u)
  /\ overlap[u] = "none" => RequestInv(u) /\ TimerInv(u)
  /\ FreeInv(u)

OverlapInv == \A u \in Users : UserInv(u)

\* A cancelRequest that waits for a callback is signalled, or will be.
WaiterSignalled ==
  \A u \in Users :
    cpc[u] = "waitDone" => (state[u] = "Canceled" /\ Busy(u)) \/ callbackDone[u] \/ overlap[u] = "both"

\* A freed asynUser that is not on the free list yet is in the hands of a thread
\* that will put it there, or the thread has missed the flag.
FreedIsHeld ==
  \A u \in Users :
    life[u] \in {"flagging", "released"} => Busy(u) \/ FreeMissed(u) \/ overlap[u] = "both"

\* Operations of clients and callbacks.
LEMMA RequestOverlapInv ==
  ASSUME IInv, OverlapInv, NEW u \in Users, Request(u) PROVE OverlapInv'
<1> USE AsynPortAssumption
<1> USE DEF OverlapInv, UserInv, TakenInv, RequestInv, TimerInv, FreeInv, Busy, Expired, TimedOut, PortThreadUses,
            TimerThreadUses, reqVars, lifeVars, blockVars, threads, ptVars, ptLocals, ttVars
<1>0. /\ isQueued \in [Users -> BOOLEAN] /\ timeout \in [Users -> BOOLEAN] /\ timer \in [Users -> BOOLEAN]
      /\ state \in [Users -> States] /\ callbackDone \in [Users -> BOOLEAN] /\ overlap \in [Users -> Overlaps]
      /\ dp \in [Users -> Dpcs \cup {None}] /\ life \in [Users -> Lives] /\ cpc \in [Users -> CPcs]
      /\ freeAfterCallback \in [Users -> BOOLEAN]
      /\ blockPortCount \in [Users -> 0 .. MaxBlock] /\ blockDeviceCount \in [Users -> 0 .. MaxBlock]
      /\ tpc \in {"idle", "fired", "callback", "tail"}
  BY DEF IInv, TypeOK, ReqTypeOK, LifeTypeOK, BlockTypeOK, TimerThreadTypeOK
<1>1. ASSUME NEW p \in Priorities, NEW t \in BOOLEAN, QueueRequest(u, p, t) PROVE OverlapInv'
  <2>1. ~isQueued[u] /\ dp[u] # None /\ life[u] = "live" /\ (cpc[u] = "idle" \/ Busy(u))
    BY <1>1 DEF QueueRequest, MayCallWhenOver, InCallback, InPortCallback, InTimerCallback
  <2>2. /\ isQueued' = [isQueued EXCEPT ![u] = TRUE]
        /\ timeout' = [timeout EXCEPT ![u] = t] /\ timer' = [timer EXCEPT ![u] = t \/ @]
        /\ UNCHANGED <<state, callbackDone, lifeVars, blockVars, threads>>
    BY <1>1 DEF QueueRequest, StartTimer
  <2>3. overlap' = [overlap EXCEPT ![u] =
          IF Alone(u) THEN "none" ELSE IF IsOver(u) \/ overlap[u] = "both" THEN overlap[u] ELSE "queued"]
    BY <1>1 DEF QueueRequest, Overlapping
  <2>4. overlap'[u] # "both" => TakenInv(u)'
    BY <1>0, <2>1, <2>2, <2>3 DEF Alone, Overlaps
  <2>5. ASSUME overlap'[u] = "none" PROVE RequestInv(u)' /\ TimerInv(u)'
    <3>1. CASE Alone(u)
      <4>1. ~Busy(u) /\ cpc[u] \in {"idle", "portLocked"} /\ ~callbackDone[u] /\ ~timer[u] /\ ~Expired(u)
        BY <2>1, <3>1 DEF Alone
      <4>2. RequestInv(u)'
        BY <1>0, <2>2, <4>1
      <4>3. TimerInv(u)'
        BY <1>0, <2>1, <2>2, <4>1
      <4> QED
        BY <4>2, <4>3
    <3>2. CASE IsOver(u) /\ overlap[u] = "none"
      BY <1>0, <2>1, <2>2, <3>2 DEF IsOver
    <3>3. Alone(u) \/ (IsOver(u) /\ overlap[u] = "none")
      BY <1>0, <2>3, <2>5
    <3> QED
      BY <3>1, <3>2, <3>3
  <2>6. FreeInv(u)'
    BY <2>2
  <2>7. ASSUME NEW v \in Users \ {u} PROVE UserInv(v)'
    BY <1>0, <2>2, <2>3
  <2> QED
    BY <2>4, <2>5, <2>6, <2>7
<1>2. ASSUME NEW b \in BOOLEAN, BlockProcessCallback(u, b) PROVE OverlapInv'
  BY <1>0, <1>2 DEF BlockProcessCallback
<1>3. ASSUME UnblockPort(u) \/ UnblockDevice(u) PROVE OverlapInv'
  BY <1>0, <1>3 DEF UnblockPort, UnblockDevice
<1>4. ASSUME CancelQueued(u) PROVE OverlapInv'
  BY <1>0, <1>4 DEF CancelQueued
<1>5. ASSUME CancelNotQueued(u) PROVE OverlapInv'
  BY <1>0, <1>5 DEF CancelNotQueued, States
<1>6. ASSUME ResumeClient(u) PROVE OverlapInv'
  BY <1>0, <1>6 DEF ResumeClient
<1>7. ASSUME Disconnect(u) PROVE OverlapInv'
  BY <1>0, <1>7 DEF Disconnect, MayDisconnect, IsBlocking, HasBlocked
<1>8. ASSUME NEW d \in Dpcs, ConnectDevice(u, d) PROVE OverlapInv'
  BY <1>0, <1>8 DEF ConnectDevice
<1>9. ASSUME FreeAsynUser(u) PROVE OverlapInv'
  BY <1>0, <1>9 DEF FreeAsynUser, MayDisconnect, IsBlocking, HasBlocked
<1>10. ASSUME FreeInCallback(u) PROVE OverlapInv'
  <2>1. /\ life[u] = "live" /\ Busy(u)
        /\ dp[u] = None \/ (blockPortCount[u] = 0 /\ blockDeviceCount[u] = 0)
    BY <1>0, <1>10
    DEF FreeInCallback, InCallback, InPortCallback, InTimerCallback, MayDisconnect, IsBlocking, HasBlocked
  <2>2. /\ dp' = [dp EXCEPT ![u] = None]
        /\ life' = [life EXCEPT ![u] = IF state[u] = "Idle" THEN "free" ELSE "released"]
        /\ freeAfterCallback' = [freeAfterCallback EXCEPT ![u] = state[u] # "Idle"]
        /\ UNCHANGED <<reqVars, cpc, blockVars, threads>>
    BY <1>10 DEF FreeInCallback
  <2>3. UserInv(u)'
    BY <1>0, <2>1, <2>2
  <2>4. ASSUME NEW v \in Users \ {u} PROVE UserInv(v)'
    BY <1>0, <2>2
  <2> QED
    BY <2>3, <2>4
<1>11. ASSUME CreateAsynUser(u) PROVE OverlapInv'
  BY <1>0, <1>11 DEF CreateAsynUser, IInv, LifeInv
<1>12. ASSUME LockPort(u) PROVE OverlapInv'
  BY <1>0, <1>12 DEF LockPort
<1> QED
  BY <1>1, <1>2, <1>3, <1>4, <1>5, <1>6, <1>7, <1>8, <1>9, <1>10, <1>11, <1>12 DEF Request

\* The steps that end an operation of a client.
LEMMA CompleteOverlapInv ==
  ASSUME IInv, OverlapInv, NEW u \in Users, Complete(u) PROVE OverlapInv'
<1> USE DEF OverlapInv, UserInv, TakenInv, RequestInv, TimerInv, FreeInv, Busy, Expired, TimedOut, PortThreadUses,
            TimerThreadUses, reqVars, lifeVars, blockVars, threads, ptVars, ptLocals, ttVars
<1>0. /\ timer \in [Users -> BOOLEAN] /\ callbackDone \in [Users -> BOOLEAN]
      /\ life \in [Users -> Lives] /\ cpc \in [Users -> CPcs] /\ freeAfterCallback \in [Users -> BOOLEAN]
  BY DEF IInv, TypeOK, ReqTypeOK, LifeTypeOK
<1>1. ASSUME CancelTimer(u) PROVE OverlapInv'
  BY <1>0, <1>1 DEF CancelTimer, TimerQuiet
<1>2. ASSUME CancelWaitDone(u) PROVE OverlapInv'
  BY <1>0, <1>2 DEF CancelWaitDone
<1>3. ASSUME FreeTestState(u) PROVE OverlapInv'
  BY <1>0, <1>3 DEF FreeTestState
<1>4. ASSUME FreeSetFlag(u) PROVE OverlapInv'
  BY <1>0, <1>4 DEF FreeSetFlag
<1>5. ASSUME UnlockPort(u) PROVE OverlapInv'
  BY <1>0, <1>5 DEF UnlockPort
<1> QED
  BY <1>1, <1>2, <1>3, <1>4, <1>5 DEF Complete

\* The callback of u has returned, and its thread is busy with u no more.
LEMMA FinishOverlapInv ==
  ASSUME IInv, OverlapInv, NEW u \in Users, Busy(u), FinishRequest(u),
         UNCHANGED <<isQueued, timeout, timer, overlap, dp, cpc, blockPortCount, blockDeviceCount>>,
         \/ pc = "tail" /\ cur = u /\ pc' \notin RequestPcs /\ UNCHANGED ttVars
         \/ tpc = "tail" /\ tcur = u /\ tpc' = "idle" /\ UNCHANGED ptVars
  PROVE  OverlapInv'
<1>0. /\ state \in [Users -> States] /\ callbackDone \in [Users -> BOOLEAN] /\ life \in [Users -> Lives]
      /\ freeAfterCallback \in [Users -> BOOLEAN]
  BY DEF IInv, TypeOK, ReqTypeOK, LifeTypeOK
<1>1. /\ callbackDone' = [callbackDone EXCEPT ![u] = @ \/ state[u] = "Canceled"]
      /\ state' = [state EXCEPT ![u] = "Idle"]
      /\ freeAfterCallback' = [freeAfterCallback EXCEPT ![u] = FALSE]
      /\ life' = [life EXCEPT ![u] = IF freeAfterCallback[u] THEN "free" ELSE @]
  BY DEF FinishRequest
<1>2. freeAfterCallback[u] => life[u] = "released"
  BY DEF IInv, LifeInv
<1> USE DEF OverlapInv, UserInv, TakenInv, RequestInv, TimerInv, FreeInv, Busy, Expired, TimedOut, PortThreadUses,
            TimerThreadUses, ptVars, ptLocals, ttVars, RequestPcs
<1>3. overlap[u] # "both" => ~Busy(u)'
  OBVIOUS
<1>4. \A v \in Users \ {u} : Busy(v)' = Busy(v)
  OBVIOUS
<1>5. \A v \in Users : Expired(v)' = Expired(v)
  OBVIOUS
<1>6. overlap[u] # "both" => TakenInv(u)'
  BY <1>0, <1>1, <1>2, <1>3
<1>7. overlap[u] = "none" => RequestInv(u)' /\ TimerInv(u)'
  BY <1>0, <1>1, <1>2, <1>3
<1>8. FreeInv(u)'
  BY <1>0, <1>1, <1>2
<1>9. ASSUME NEW v \in Users \ {u} PROVE UserInv(v)'
  BY <1>0, <1>1, <1>4
<1> QED
  BY <1>6, <1>7, <1>8, <1>9

\* portThread becomes busy with a request that it takes off its queue.
LEMMA PortThreadOverlapInv ==
  ASSUME IInv, OverlapInv, PortThread PROVE OverlapInv'
<1> USE DEF OverlapInv, UserInv, TakenInv, RequestInv, TimerInv, FreeInv, Busy, Expired, TimedOut, PortThreadUses,
            TimerThreadUses, reqVars, lifeVars, blockVars, ttVars
<1>0. /\ isQueued \in [Users -> BOOLEAN] /\ timeout \in [Users -> BOOLEAN] /\ timer \in [Users -> BOOLEAN]
      /\ state \in [Users -> States] /\ cpc \in [Users -> CPcs] /\ overlap \in [Users -> Overlaps]
      /\ tpc \in {"idle", "fired", "callback", "tail"}
  BY DEF IInv, TypeOK, ReqTypeOK, LifeTypeOK, TimerThreadTypeOK
\* Between requests portThread uses no asynUser.
<1>1. ASSUME pc \notin RequestPcs, pc' \notin RequestPcs, UNCHANGED <<reqVars, lifeVars, blockVars, ttVars>>
      PROVE  OverlapInv'
  BY <1>1 DEF RequestPcs
<1>2. CASE \/ EventWait \/ TestEnabled \/ ConnectQueueEmpty \/ AutoSkip \/ AutoAttempt \/ AttemptFails
           \/ AttemptConnects \/ AnnounceConnect \/ AutoRelock \/ ScanStart \/ ScanNextQueue
           \/ ScanElement \/ ScanAbort
  <2>1. UNCHANGED <<reqVars, lifeVars, blockVars, ttVars>>
    BY <1>2
    DEF EventWait, TestEnabled, ConnectQueueEmpty, AutoSkip, AutoAttempt, AttemptFails,
        AttemptConnects, AnnounceConnect, AutoRelock, ScanStart, ScanNextQueue, ScanElement, ScanAbort
  <2>2. pc \notin RequestPcs /\ pc' \notin RequestPcs
    BY <1>2
    DEF EventWait, TestEnabled, ConnectQueueEmpty, AutoSkip, AutoAttempt, AttemptFails,
        AttemptConnects, AnnounceConnect, AutoRelock, ScanStart, ScanNextQueue, ScanElement,
        ScanAbort, AutoNext, Sleep, Goto, RequestPcs
  <2> QED
    BY <1>1, <2>1, <2>2
<1>3. ASSUME NEW u \in Users, isQueued[u], NEW d, NEW p, NEW i, StartRequest(u, d, p, i),
             pc \notin RequestPcs, UNCHANGED <<timeout, callbackDone, timer, lifeVars, blockVars, ttVars>>
      PROVE  OverlapInv'
  <2>1. /\ isQueued' = [isQueued EXCEPT ![u] = FALSE] /\ state' = [state EXCEPT ![u] = "Active"]
        /\ pc' = "timerCancel" /\ cur' = u /\ curTimeout' = timeout[u]
        /\ overlap' = [overlap EXCEPT ![u] =
             IF Alone(u) THEN "none" ELSE IF TimedOut(u) THEN "both" ELSE overlap[u]]
    BY <1>3 DEF StartRequest, Goto, Overlapping
  <2>2. life[u] = "live" /\ ~PortThreadUses(u)
    BY <1>3, AsynPortAssumption DEF IInv, LifeInv, RequestPcs
  <2>3. overlap'[u] # "both" => ~TimedOut(u) /\ TakenInv(u)'
    BY <1>0, <1>3, <2>1, <2>2 DEF Alone
  <2>4. ASSUME overlap'[u] = "none" PROVE RequestInv(u)' /\ TimerInv(u)'
    <3>1. CASE Alone(u)
      <4>1. /\ ~Busy(u) /\ cpc[u] \in {"idle", "portLocked"} /\ ~callbackDone[u]
            /\ timer[u] \/ Expired(u) => timeout[u]
            /\ ~(timer[u] /\ Expired(u))
        BY <3>1 DEF Alone
      <4>2. RequestInv(u)'
        BY <1>0, <1>3, <2>1, <4>1
      <4>3. TimerInv(u)'
        BY <1>0, <1>3, <2>1, <2>2, <4>1
      <4> QED
        BY <4>2, <4>3
    <3>2. CASE overlap[u] = "none"
      BY <1>0, <1>3, <2>1, <2>2, <2>3, <2>4, <3>2
    <3>3. Alone(u) \/ overlap[u] = "none"
      BY <1>0, <2>1, <2>4
    <3> QED
      BY <3>1, <3>2, <3>3
  <2>5. FreeInv(u)'
    BY <1>3
  <2>6. ASSUME NEW v \in Users \ {u} PROVE UserInv(v)'
    BY <1>0, <1>3, <2>1 DEF RequestPcs
  <2> QED
    BY <2>3, <2>4, <2>5, <2>6
<1>4. CASE TakeConnectRequest
  <2>1. Connect \in AllPriorities /\ queueList[Connect] \in Seq(Users)
    BY DEF IInv, TypeOK, QueueTypeOK, AllPriorities, Low, Connect
  <2>2. PICK u \in Users : u = Head(queueList[Connect]) /\ StartRequest(u, dp[u], Connect, 1) /\ isQueued[u]
    <3>1. 1 \in DOMAIN queueList[Connect] /\ Head(queueList[Connect]) = queueList[Connect][1]
          /\ queueList[Connect][1] \in Users
      BY <1>4, <2>1 DEF TakeConnectRequest
    <3>2. isQueued[Head(queueList[Connect])]
      BY <2>1, <3>1 DEF IInv, QueueConsistent
    <3> QED
      BY <1>4, <3>1, <3>2 DEF TakeConnectRequest
  <2> QED
    BY <1>3, <1>4, <2>2 DEF TakeConnectRequest, RequestPcs
<1>5. CASE ScanCheck
  <2>1. CASE NotBlocked(cur, curDp)
    <3>1. cur \in Users /\ StartRequest(cur, curDp, scan[1], scan[2]) /\ pc = "scanCheck"
      BY <1>5, <2>1 DEF ScanCheck, IInv, PortControlInv
    <3>2. isQueued[cur]
      BY <1>5, <3>1, AsynPortAssumption
      DEF ScanCheck, IInv, ScanInv, ElementPcs, QueueConsistent, ScanQueue, TypeOK, PortThreadTypeOK
    <3> QED
      BY <1>3, <1>5, <3>1, <3>2 DEF ScanCheck, RequestPcs
  <2>2. CASE ~NotBlocked(cur, curDp)
    BY <1>1, <1>5, <2>2 DEF ScanCheck, RequestPcs
  <2> QED
    BY <2>1, <2>2
<1>6. CASE CancelRequestTimer
  <2>1. cur \in Users
    BY <1>6 DEF CancelRequestTimer, IInv, PortControlInv, RequestPcs
  <2>2. /\ pc = "timerCancel" /\ pc' = "syncLock" /\ UNCHANGED cur
        /\ UNCHANGED <<isQueued, timeout, state, callbackDone, overlap, lifeVars, blockVars, ttVars>>
        /\ curTimeout => ~timer'[cur] /\ ~Expired(cur)
        /\ ~curTimeout => timer'[cur] = timer[cur]
        /\ \A v \in Users \ {cur} : timer'[v] = timer[v]
    BY <1>0, <1>6, <2>1 DEF CancelRequestTimer, TimerQuiet
  <2>3. UserInv(cur)'
    BY <2>1, <2>2
  <2>4. ASSUME NEW v \in Users \ {cur} PROVE UserInv(v)'
    BY <2>2
  <2> QED
    BY <2>1, <2>2, <2>3, <2>4
<1>7. CASE BeginCallback \/ EndCallback
  BY <1>7 DEF BeginCallback, EndCallback, ptLocals
<1>8. CASE FinishConnectRequest \/ FinishNormalRequest
  <2>1. cur \in Users /\ pc = "tail"
    BY <1>8 DEF FinishConnectRequest, FinishNormalRequest, IInv, PortControlInv, RequestPcs
  <2>2. /\ FinishRequest(cur) /\ pc' \notin RequestPcs /\ UNCHANGED ttVars
        /\ UNCHANGED <<isQueued, timeout, timer, overlap, dp, cpc, blockPortCount, blockDeviceCount>>
    BY <1>8 DEF FinishConnectRequest, FinishNormalRequest, Goto, Sleep, RequestPcs
  <2>3. Busy(cur)
    BY <2>1
  <2> HIDE DEF OverlapInv, Busy
  <2> QED
    BY <2>1, <2>2, <2>3, FinishOverlapInv
<1> QED
  BY <1>2, <1>4, <1>5, <1>6, <1>7, <1>8 DEF PortThread

\* The timer thread becomes busy with a request that is still queued.
LEMMA TimerThreadOverlapInv ==
  ASSUME IInv, OverlapInv, TimerThread PROVE OverlapInv'
<1> USE DEF OverlapInv, UserInv, TakenInv, RequestInv, TimerInv, FreeInv, Busy, Expired, TimedOut, PortThreadUses,
            TimerThreadUses, reqVars, lifeVars, blockVars, ptVars, ptLocals
<1>0. /\ isQueued \in [Users -> BOOLEAN] /\ timer \in [Users -> BOOLEAN] /\ state \in [Users -> States]
      /\ overlap \in [Users -> Overlaps]
  BY DEF IInv, TypeOK, ReqTypeOK
<1>1. ASSUME NEW u \in Users, TimerExpires(u) PROVE OverlapInv'
  BY <1>0, <1>1 DEF TimerExpires
<1>2. ASSUME TimeoutNotQueued PROVE OverlapInv'
  BY <1>2 DEF TimeoutNotQueued
<1>3. ASSUME TimeoutQueued PROVE OverlapInv'
  <2>1. /\ tpc = "fired" /\ tpc' = "callback" /\ isQueued[tcur]
        /\ isQueued' = [isQueued EXCEPT ![tcur] = FALSE] /\ state' = [state EXCEPT ![tcur] = "Active"]
        /\ overlap' = [overlap EXCEPT ![tcur] =
             IF Alone(tcur) THEN "none" ELSE IF PortThreadUses(tcur) THEN "both" ELSE overlap[tcur]]
        /\ UNCHANGED <<timeout, callbackDone, timer, lifeVars, blockVars, ptVars, tcur>>
    BY <1>3 DEF TimeoutQueued, Overlapping
  <2>2. tcur \in Users
    BY <2>1 DEF IInv, TimerControlInv
  <2>3. life[tcur] = "live" /\ ~TimedOut(tcur)
    BY <2>1, <2>2, AsynPortAssumption DEF IInv, LifeInv
  <2>4. overlap'[tcur] # "both" => ~PortThreadUses(tcur) /\ TakenInv(tcur)'
    BY <1>0, <2>1, <2>2, <2>3 DEF Alone
  <2>5. ASSUME overlap'[tcur] = "none" PROVE RequestInv(tcur)' /\ TimerInv(tcur)'
    <3>1. CASE Alone(tcur)
      BY <1>0, <2>1, <2>2, <2>3, <3>1 DEF Alone
    <3>2. CASE overlap[tcur] = "none"
      BY <1>0, <2>1, <2>2, <2>3, <2>4, <2>5, <3>2
    <3> QED
      BY <1>0, <2>1, <2>2, <2>5, <3>1, <3>2
  <2>6. FreeInv(tcur)'
    BY <2>1, <2>2
  <2>7. ASSUME NEW v \in Users \ {tcur} PROVE UserInv(v)'
    BY <1>0, <2>1
  <2> QED
    BY <2>1, <2>4, <2>5, <2>6, <2>7
<1>4. ASSUME EndTimeoutCallback PROVE OverlapInv'
  BY <1>4 DEF EndTimeoutCallback
<1>5. ASSUME FinishTimeout PROVE OverlapInv'
  <2>1. /\ FinishRequest(tcur) /\ tpc = "tail" /\ tpc' = "idle" /\ UNCHANGED ptVars
        /\ UNCHANGED <<isQueued, timeout, timer, overlap, dp, cpc, blockPortCount, blockDeviceCount>>
    BY <1>5 DEF FinishTimeout
  <2>2. tcur \in Users
    BY <2>1 DEF IInv, TimerControlInv
  <2>3. Busy(tcur)
    BY <2>1
  <2> HIDE DEF OverlapInv, Busy
  <2> QED
    BY <2>1, <2>2, <2>3, FinishOverlapInv
<1> QED
  BY <1>1, <1>2, <1>3, <1>4, <1>5 DEF TimerThread

\* See OverlapInv: nothing is assumed of clients and callbacks.
THEOREM OverlapInvariant == Spec => []OverlapInv
<1> USE DEF OverlapInv, UserInv, TakenInv, RequestInv, TimerInv, FreeInv, Busy, Expired, TimedOut, PortThreadUses,
            TimerThreadUses
<1>1. Init => OverlapInv
  BY DEF Init
<1>2. ASSUME OverlapInv, UNCHANGED vars PROVE OverlapInv'
  BY <1>2 DEF vars, reqVars, lifeVars, blockVars, threads, ptVars, ptLocals, ttVars
<1>3. ASSUME OverlapInv, Environment PROVE OverlapInv'
  <2>1. UNCHANGED <<reqVars, lifeVars, blockVars, ptVars, ttVars>>
    BY <1>3
    DEF Environment, Enable, AutoConnectAsyn, ExceptionConnect, ExceptionDisconnect, AnnounceException
  <2> QED
    BY <1>3, <2>1 DEF reqVars, lifeVars, blockVars, ptVars, ptLocals, ttVars
<1> HIDE DEF OverlapInv
<1>4. IInv /\ OverlapInv /\ [Next]_vars => OverlapInv'
  BY <1>2, <1>3, RequestOverlapInv, CompleteOverlapInv, PortThreadOverlapInv, TimerThreadOverlapInv DEF Next
<1> QED
  BY Invariant, <1>1, <1>4, PTL DEF Spec

\* Nothing refers to an asynUser on the free list any more, unless its requests
\* overlapped.
THEOREM FreedAreUnused == Spec => []FreeListUnused
<1>1. IInv /\ OverlapInv => FreeListUnused
  BY AsynPortAssumption
  DEF IInv, LifeInv, OverlapInv, UserInv, TakenInv, RequestInv, TimerInv, FreeInv, Busy, Expired, TimedOut,
      PortThreadUses, TimerThreadUses, FreeListUnused, TypeOK, TimerThreadTypeOK
<1> QED
  BY Invariant, OverlapInvariant, <1>1, PTL

\* cancelRequest returns only when no callback of the asynUser is active, unless its
\* requests overlapped.
THEOREM CancelsWait == Spec => []CancelWaitsForCallback
<1>1. OverlapInv => CancelWaitsForCallback
  BY DEF OverlapInv, UserInv, RequestInv, Busy, TimedOut, PortThreadUses, InCallback, InPortCallback,
         InTimerCallback, CancelWaitsForCallback
<1> QED
  BY OverlapInvariant, <1>1, PTL

\* A request queued with a timeout has its timer running until it leaves the queue,
\* unless requests overlapped.
THEOREM TimeoutsArmed == Spec => []TimeoutArmed
<1>1. OverlapInv => TimeoutArmed
  BY DEF OverlapInv, UserInv, TimerInv, Expired, TimeoutArmed
<1> QED
  BY OverlapInvariant, <1>1, PTL

\* The safety half of CancelReturns: callbacks may queue their request again and
\* clients may be hasty, yet no cancelRequest waits for a signal nobody will give.
THEOREM WaitersAreSignalled == Spec => []WaiterSignalled
<1>1. IInv /\ OverlapInv => WaiterSignalled
  BY DEF IInv, TypeOK, ReqTypeOK, States, OverlapInv, UserInv, TakenInv, WaiterSignalled
<1> QED
  BY Invariant, OverlapInvariant, <1>1, PTL

\* The safety half of FreedReachesFreeList: an asynUser is not lost between its owner
\* and the threads of the port but in the race that FreeMissed names.
THEOREM FreedAreHeld == Spec => []FreedIsHeld
<1>1. OverlapInv => FreedIsHeld
  BY DEF OverlapInv, UserInv, TakenInv, FreeInv, FreeMissed, FreedIsHeld
<1> QED
  BY OverlapInvariant, <1>1, PTL

=============================================================================
