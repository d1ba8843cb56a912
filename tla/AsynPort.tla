------------------------------ MODULE AsynPort ------------------------------
(***************************************************************************)
(* The request queues of one asynchronous port (ASYN_CANBLOCK) of          *)
(* asynManager: queueRequest, cancelRequest, the queue timeout, the blocks *)
(* placed by blockProcessCallback, the life of an asynUser, and portThread,*)
(* which serves the queues and reconnects the port and its devices.        *)
(*                                                                         *)
(* Threads: the port thread (variable pc), the thread of the shared timer  *)
(* queue (tpc), one client thread per asynUser (cpc), and a thread of the  *)
(* driver or of an operator, which enables, disables, connects and         *)
(* disconnects (epc).  A section of code under asynManagerLock is one step,*)
(* except in portThread, which holds the lock over several steps (locked). *)
(***************************************************************************)
EXTENDS Naturals, FiniteSets, SequencesExt

CONSTANTS
  Users,        \* the asynUsers (struct userPvt)
  Port,         \* the dpCommon of the port itself
  Devices,      \* the dpCommons of its devices; {} if not ASYN_MULTIDEVICE
  None,         \* the null pointer
  TimeoutUsers, \* the asynUsers created with a timeout callback
  MaxBlock,     \* bound on the nesting of blockProcessCallback
  Priorities,   \* the priorities requests are queued with
  ClientOps,    \* what the client of each asynUser calls outside of callbacks
  CallbackOps,  \* what its process or timeout callback calls for it
  EnvOps        \* what a driver or an operator does to the port

Dpcs == Devices \cup {Port}

\* asynQueuePriority
Low == 0
Connect == 3
AllPriorities == Low .. Connect

AllOps == {"queue", "queueTimeout", "cancel", "block", "unblock", "free",
           "disconnect", "lockPort", "early"}

ASSUME AsynPortAssumption ==
  /\ Port \notin Devices /\ None \notin Users /\ None \notin Dpcs
  /\ "port" \notin Users
  /\ TimeoutUsers \subseteq Users
  /\ MaxBlock \in Nat
  /\ Priorities \subseteq AllPriorities
  /\ ClientOps \in [Users -> SUBSET AllOps] /\ CallbackOps \in [Users -> SUBSET AllOps]
  /\ EnvOps \subseteq {"enable", "connect", "autoConnect"}

VARIABLES
  (* struct userPvt *)
  dp,           \* pport and pdevice, as findDpCommon sees them
  isQueued, state, freeAfterCallback,
  timeout,      \* whether the request was queued with a timeout > 0
  timer,        \* whether the timer is running
  callbackDone, \* epicsEvent
  blockPortCount, blockDeviceCount,
  overlap,      \* a history: how the requests of the asynUser follow each other
  life,         \* where the asynUser is between createAsynUser and the free list
  cpc,          \* what the client thread of the asynUser is doing
  (* struct port, struct dpCommon *)
  queueList, queueStateChange,
  notify,       \* epicsEvent notifyPortThread
  portHolder,   \* port.pblockProcessHolder
  dpHolder,     \* dpCommon.pblockProcessHolder
  enabled, connected, autoConnect,
  locked,       \* portThread holds asynManagerLock
  sync,         \* who holds synchronousLock
  (* the locals of portThread *)
  pc, cur, curDp, curTimeout, kind, callTimeoutUser, scan, attempt,
  (* the timer thread, and the thread behind EnvOps *)
  tpc, tcur, epc

reqVars   == <<isQueued, timeout, state, callbackDone, timer, overlap>>
lifeVars  == <<dp, life, freeAfterCallback, cpc>>
blockVars == <<blockPortCount, blockDeviceCount, portHolder, dpHolder>>
queueVars == <<queueList, queueStateChange, notify>>
dpcVars   == <<enabled, connected, autoConnect>>
lockVars  == <<locked, sync>>
ptLocals  == <<cur, curDp, curTimeout, kind, callTimeoutUser, scan, attempt>>
ptVars    == <<pc, ptLocals>>
ttVars    == <<tpc, tcur>>
threads   == <<ptVars, ttVars, epc>>
vars      == <<reqVars, lifeVars, blockVars, queueVars, dpcVars, lockVars, threads>>

States == {"Idle", "Active", "Canceled"}
Overlaps == {"none", "queued", "both"}
Lives  == {"live", "freeing", "flagging", "released", "free"}
CPcs   == {"idle", "waitDone", "cancelTimer", "canceled", "portLocked"}
Pcs    == {"wait", "woken", "connectQ", "auto", "attempt", "announce", "relock",
           "scanStart", "scan", "scanCheck", "timerCancel", "syncLock",
           "callback", "tail"}
Kinds  == {"connect", "normal"}

ReqTypeOK ==
  /\ isQueued \in [Users -> BOOLEAN]
  /\ timeout \in [Users -> BOOLEAN]
  /\ state \in [Users -> States]
  /\ callbackDone \in [Users -> BOOLEAN]
  /\ timer \in [Users -> BOOLEAN]
  /\ overlap \in [Users -> Overlaps]

LifeTypeOK ==
  /\ dp \in [Users -> Dpcs \cup {None}]
  /\ life \in [Users -> Lives]
  /\ freeAfterCallback \in [Users -> BOOLEAN]
  /\ cpc \in [Users -> CPcs]

BlockTypeOK ==
  /\ blockPortCount \in [Users -> 0 .. MaxBlock]
  /\ blockDeviceCount \in [Users -> 0 .. MaxBlock]
  /\ portHolder \in Users \cup {None}
  /\ dpHolder \in [Dpcs -> Users \cup {None}]

QueueTypeOK ==
  /\ queueList \in [AllPriorities -> Seq(Users)]
  /\ queueStateChange \in BOOLEAN
  /\ notify \in BOOLEAN

DpcTypeOK ==
  /\ enabled \in [Dpcs -> BOOLEAN]
  /\ connected \in [Dpcs -> BOOLEAN]
  /\ autoConnect \in [Dpcs -> BOOLEAN]

LockTypeOK ==
  /\ locked \in BOOLEAN
  /\ sync \in Users \cup {"port", None}

PortThreadTypeOK ==
  /\ pc \in Pcs
  /\ cur \in Users \cup {None}
  /\ curDp \in Dpcs \cup {None}
  /\ curTimeout \in BOOLEAN
  /\ kind \in Kinds
  /\ callTimeoutUser \in BOOLEAN
  /\ scan \in AllPriorities \X (Nat \ {0})
  /\ attempt \in Dpcs

TimerThreadTypeOK ==
  /\ tpc \in {"idle", "fired", "callback", "tail"}
  /\ tcur \in Users \cup {None}

TypeOK ==
  /\ ReqTypeOK /\ LifeTypeOK /\ BlockTypeOK /\ QueueTypeOK
  /\ DpcTypeOK /\ LockTypeOK /\ PortThreadTypeOK /\ TimerThreadTypeOK
  /\ epc \in {"idle", "announce"}

(***************************************************************************)
(* Users have been created and connected to the port or to a device; every *)
(* dpCommon is as dpCommonInit leaves it, but connected.                   *)
(***************************************************************************)
Init ==
  /\ dp \in [Users -> Dpcs]
  /\ isQueued = [u \in Users |-> FALSE]
  /\ state = [u \in Users |-> "Idle"]
  /\ freeAfterCallback = [u \in Users |-> FALSE]
  /\ timeout = [u \in Users |-> FALSE]
  /\ timer = [u \in Users |-> FALSE]
  /\ callbackDone = [u \in Users |-> FALSE]
  /\ overlap = [u \in Users |-> "none"]
  /\ blockPortCount = [u \in Users |-> 0]
  /\ blockDeviceCount = [u \in Users |-> 0]
  /\ life = [u \in Users |-> "live"]
  /\ cpc = [u \in Users |-> "idle"]
  /\ queueList = [p \in AllPriorities |-> <<>>]
  /\ queueStateChange = FALSE
  /\ notify = FALSE
  /\ portHolder = None
  /\ dpHolder = [d \in Dpcs |-> None]
  /\ enabled = [d \in Dpcs |-> TRUE]
  /\ connected = [d \in Dpcs |-> TRUE]
  /\ autoConnect = [d \in Dpcs |-> TRUE]
  /\ locked = FALSE
  /\ sync = None
  /\ pc = "wait"
  /\ cur = None /\ curDp = None
  /\ curTimeout = FALSE
  /\ kind = "normal"
  /\ callTimeoutUser = FALSE
  /\ scan = <<Connect, 1>>
  /\ attempt = Port
  /\ tpc = "idle" /\ tcur = None
  /\ epc = "idle"

-----------------------------------------------------------------------------
(* What clients and callbacks call. *)

InPortCallback(u)  == pc = "callback" /\ cur = u
InTimerCallback(u) == tpc = "callback" /\ tcur = u
InCallback(u) == InPortCallback(u) \/ InTimerCallback(u)

\* The port thread or the timer thread holds a pointer to u.
PortThreadUses(u)  == pc \in {"timerCancel", "syncLock", "callback", "tail"} /\ cur = u
TimerThreadUses(u) == tpc # "idle" /\ tcur = u

\* The timer of u has expired; the timer thread has taken its request.
Expired(u)  == tpc = "fired" /\ tcur = u
TimedOut(u) == tpc \in {"callback", "tail"} /\ tcur = u
Busy(u)     == PortThreadUses(u) \/ TimedOut(u)

MayCall(op, u) ==
  /\ life[u] = "live"
  /\ \/ op \in ClientOps[u] /\ cpc[u] = "idle"
     \/ op \in CallbackOps[u] /\ InCallback(u)

\* A client that is not "early" begins something new only when its last request
\* is over.
IsOver(u) == ~PortThreadUses(u) /\ ~TimerThreadUses(u)
LastIsOver(u) == "early" \in ClientOps[u] \/ IsOver(u)

MayCallWhenOver(op, u) ==
  /\ life[u] = "live"
  /\ \/ op \in ClientOps[u] /\ cpc[u] = "idle" /\ LastIsOver(u)
     \/ op \in CallbackOps[u] /\ InCallback(u)

IsHolder(u) == portHolder = u \/ dpHolder[dp[u]] = u

\* The test of unblockProcessCallback and disconnect on either count.
HasBlocked(count, u) == count[u] > 0
IsBlocking(u) == HasBlocked(blockPortCount, u) \/ HasBlocked(blockDeviceCount, u)

\* epicsEventSignal(notifyPortThread), after a change of the queues or otherwise.
SignalForgotten      == UNCHANGED notify
Signal               == notify' = TRUE
SignalIfForgotten(b) == UNCHANGED notify
SignalIf(b)          == notify' = (notify \/ b)
QueueChangeUnmarked  == UNCHANGED queueStateChange
QueueChanged         == queueStateChange' = TRUE

DequeueFirst(u) ==
  \E p \in AllPriorities : \E i \in DOMAIN queueList[p] :
    /\ queueList[p][i] = u
    /\ queueList' = [queueList EXCEPT ![p] = Tail(@)]

\* Takes u out of the queue it is found on.
Dequeue(u) ==
  \E p \in AllPriorities : \E i \in DOMAIN queueList[p] :
    /\ queueList[p][i] = u
    /\ queueList' = [queueList EXCEPT ![p] = RemoveAt(@, i)]

\* Nothing is left of the earlier requests of u: no thread is busy with one, no
\* client cancels one, and the timer runs exactly for the one that is queued.
Alone(u) ==
  /\ state[u] = "Idle" /\ ~Busy(u)
  /\ cpc[u] \in {"idle", "portLocked"} /\ ~callbackDone[u]
  /\ timer[u] \/ Expired(u) <=> isQueued[u] /\ timeout[u]
  /\ ~(timer[u] /\ Expired(u))

\* The history of u after a step that queues or takes a request.  Its requests
\* overlap ("queued") from the one that is queued before the last is over, and
\* entangle both threads ("both") from the one that is taken while the other thread
\* is busy with u, until nothing is left of them.
Overlapping(u, otherwise) ==
  overlap' = [overlap EXCEPT ![u] = IF Alone(u) THEN "none" ELSE otherwise]

StartTimerKeepFlag(u, t) ==
  /\ timeout' = [timeout EXCEPT ![u] = t \/ @]
  /\ timer' = [timer EXCEPT ![u] = t \/ @]

StartTimer(u, t) ==
  /\ timeout' = [timeout EXCEPT ![u] = t]
  /\ timer' = [timer EXCEPT ![u] = t \/ @]

\* queueRequest on priority p, with a timeout or without (t).  The caller's
\* reason may be ASYN_REASON_QUEUE_EVEN_IF_NOT_CONNECTED, which spares a connect
\* request the check of the port's connection.
QueueRequest(u, p, t) ==
  /\ MayCallWhenOver(IF t THEN "queueTimeout" ELSE "queue", u)
  /\ ~locked
  /\ dp[u] # None
  /\ enabled[Port]
  /\ p = Connect \/ connected[Port]
  /\ ~isQueued[u]
  /\ t => u \in TimeoutUsers
  /\ queueList' = [queueList EXCEPT ![p] =
       IF IsBlocking(u) /\ IsHolder(u) THEN <<u>> \o @ ELSE Append(@, u)]
  /\ isQueued' = [isQueued EXCEPT ![u] = TRUE]
  /\ StartTimer(u, t)
  /\ Overlapping(u, IF IsOver(u) \/ overlap[u] = "both" THEN overlap[u] ELSE "queued")
  /\ QueueChanged /\ Signal
  /\ UNCHANGED <<state, callbackDone, lifeVars, blockVars, dpcVars, lockVars,
                 threads>>

\* cancelRequest of a request still queued: it leaves the queue, then, outside of
\* the lock, its timer is cancelled.
CancelQueued(u) ==
  /\ "cancel" \in ClientOps[u] /\ life[u] = "live" /\ cpc[u] = "idle"
  /\ ~locked
  /\ dp[u] # None
  /\ isQueued[u]
  /\ Dequeue(u)
  /\ isQueued' = [isQueued EXCEPT ![u] = FALSE]
  /\ cpc' = [cpc EXCEPT ![u] = IF timeout[u] THEN "cancelTimer" ELSE "canceled"]
  /\ QueueChanged /\ SignalIf(~timeout[u])
  /\ UNCHANGED <<timeout, state, callbackDone, timer, overlap, dp, life,
                 freeAfterCallback, blockVars, dpcVars, lockVars, threads>>

\* epicsTimerCancel waits for a callback of the timer that is running.
TimerQuiet(u) == ~(tpc # "idle" /\ tcur = u)

CancelTimer(u) ==
  /\ cpc[u] = "cancelTimer"
  /\ TimerQuiet(u)
  /\ timer' = [timer EXCEPT ![u] = FALSE]
  /\ Signal
  /\ cpc' = [cpc EXCEPT ![u] = "canceled"]
  /\ UNCHANGED <<isQueued, timeout, state, callbackDone, overlap, dp, life,
                 freeAfterCallback, blockVars, queueList, queueStateChange,
                 dpcVars, lockVars, threads>>

\* cancelRequest when nothing is queued: waits for a callback, if state says so.
CancelNotQueued(u) ==
  /\ "cancel" \in ClientOps[u] /\ life[u] = "live" /\ cpc[u] = "idle"
  /\ ~locked
  /\ dp[u] # None
  /\ ~isQueued[u]
  /\ \/ /\ state[u] = "Active"
        /\ state' = [state EXCEPT ![u] = "Canceled"]
        /\ cpc' = [cpc EXCEPT ![u] = "waitDone"]
     \/ /\ state[u] # "Active"
        /\ cpc' = [cpc EXCEPT ![u] = "canceled"]
        /\ UNCHANGED state
  /\ UNCHANGED <<isQueued, timeout, callbackDone, timer, overlap, dp, life,
                 freeAfterCallback, blockVars, queueVars, dpcVars, lockVars,
                 threads>>

CancelWaitDone(u) ==
  /\ cpc[u] = "waitDone"
  /\ callbackDone[u]
  /\ callbackDone' = [callbackDone EXCEPT ![u] = FALSE]
  /\ cpc' = [cpc EXCEPT ![u] = "canceled"]
  /\ UNCHANGED <<isQueued, timeout, state, timer, overlap, dp, life,
                 freeAfterCallback, blockVars, queueVars, dpcVars, lockVars, threads>>

\* The client acts on the return of cancelRequest.
ResumeClient(u) ==
  /\ cpc[u] = "canceled"
  /\ cpc' = [cpc EXCEPT ![u] = "idle"]
  /\ UNCHANGED <<reqVars, dp, life, freeAfterCallback, blockVars, queueVars,
                 dpcVars, lockVars, threads>>

BlockProcessCallback(u, allDevices) ==
  /\ MayCall("block", u)
  /\ ~locked
  /\ dp[u] # None
  /\ ~isQueued[u]
  /\ \/ /\ allDevices /\ blockPortCount[u] < MaxBlock
        /\ blockPortCount' = [blockPortCount EXCEPT ![u] = @ + 1]
        /\ UNCHANGED blockDeviceCount
     \/ /\ ~allDevices /\ blockDeviceCount[u] < MaxBlock
        /\ blockDeviceCount' = [blockDeviceCount EXCEPT ![u] = @ + 1]
        /\ UNCHANGED blockPortCount
  /\ UNCHANGED <<reqVars, lifeVars, portHolder, dpHolder, queueVars, dpcVars,
                 lockVars, threads>>

UnblockPort(u) ==
  /\ MayCall("unblock", u)
  /\ ~locked
  /\ dp[u] # None
  /\ ~isQueued[u]
  /\ HasBlocked(blockPortCount, u)
  /\ blockPortCount' = [blockPortCount EXCEPT ![u] = @ - 1]
  /\ LET wasOwner == blockPortCount[u] = 1 /\ portHolder = u
     IN  /\ portHolder' = IF wasOwner THEN None ELSE portHolder
         /\ SignalIf(wasOwner)
  /\ UNCHANGED <<reqVars, lifeVars, blockDeviceCount, dpHolder, queueList,
                 queueStateChange, dpcVars, lockVars, threads>>

UnblockDevice(u) ==
  /\ MayCall("unblock", u)
  /\ ~locked
  /\ dp[u] # None
  /\ ~isQueued[u]
  /\ HasBlocked(blockDeviceCount, u)
  /\ blockDeviceCount' = [blockDeviceCount EXCEPT ![u] = @ - 1]
  /\ LET wasOwner == blockDeviceCount[u] = 1 /\ dpHolder[dp[u]] = u
     IN  /\ dpHolder' = [dpHolder EXCEPT ![dp[u]] = IF wasOwner THEN None ELSE @]
         /\ SignalIf(wasOwner)
  /\ UNCHANGED <<reqVars, lifeVars, blockPortCount, portHolder, queueList,
                 queueStateChange, dpcVars, lockVars, threads>>

\* disconnect refuses an asynUser that is queued or that blocks.
MayDisconnectQueued(u) == dp[u] # None /\ ~IsBlocking(u)
MayDisconnect(u) == dp[u] # None /\ ~isQueued[u] /\ ~IsBlocking(u)

Disconnect(u) ==
  /\ MayCallWhenOver("disconnect", u)
  /\ ~locked
  /\ MayDisconnect(u)
  /\ dp' = [dp EXCEPT ![u] = None]
  /\ UNCHANGED <<reqVars, life, freeAfterCallback, cpc, blockVars, queueVars,
                 dpcVars, lockVars, threads>>

ConnectDevice(u, d) ==
  /\ life[u] = "live" /\ cpc[u] = "idle"
  /\ ~locked
  /\ dp[u] = None
  /\ dp' = [dp EXCEPT ![u] = d]
  /\ UNCHANGED <<reqVars, life, freeAfterCallback, cpc, blockVars, queueVars,
                 dpcVars, lockVars, threads>>

\* freeAsynUser: disconnect under asynManagerLock, then the test of state and the
\* write of freeAfterCallback under pasynBase->lock, which excludes neither the
\* port thread nor the timer thread.
FreeAsynUser(u) ==
  /\ "free" \in ClientOps[u] /\ life[u] = "live" /\ cpc[u] = "idle" /\ LastIsOver(u)
  /\ \/ ~locked /\ MayDisconnect(u)
     \/ dp[u] = None
  /\ dp' = [dp EXCEPT ![u] = None]
  /\ life' = [life EXCEPT ![u] = "freeing"]
  /\ UNCHANGED <<reqVars, freeAfterCallback, cpc, blockVars, queueVars, dpcVars,
                 lockVars, threads>>

FreeTestState(u) ==
  /\ life[u] = "freeing"
  /\ life' = [life EXCEPT ![u] = IF state[u] = "Idle" THEN "free" ELSE "flagging"]
  /\ UNCHANGED <<reqVars, dp, freeAfterCallback, cpc, blockVars, queueVars,
                 dpcVars, lockVars, threads>>

FreeSetFlag(u) ==
  /\ life[u] = "flagging"
  /\ freeAfterCallback' = [freeAfterCallback EXCEPT ![u] = TRUE]
  /\ life' = [life EXCEPT ![u] = "released"]
  /\ UNCHANGED <<reqVars, dp, cpc, blockVars, queueVars, dpcVars, lockVars,
                 threads>>

FreeInCallbackAtOnce(u) ==
  /\ "free" \in CallbackOps[u] /\ life[u] = "live" /\ InCallback(u)
  /\ ~locked /\ MayDisconnect(u)
  /\ dp' = [dp EXCEPT ![u] = None]
  /\ life' = [life EXCEPT ![u] = "free"]
  /\ UNCHANGED <<reqVars, freeAfterCallback, cpc, blockVars, queueVars, dpcVars,
                 lockVars, threads>>

\* freeAsynUser from the callback itself: nothing can change state in between.
FreeInCallback(u) ==
  /\ "free" \in CallbackOps[u] /\ life[u] = "live" /\ InCallback(u)
  /\ \/ ~locked /\ MayDisconnect(u)
     \/ dp[u] = None
  /\ dp' = [dp EXCEPT ![u] = None]
  /\ LET idle == state[u] = "Idle"
     IN  /\ life' = [life EXCEPT ![u] = IF idle THEN "free" ELSE "released"]
         /\ freeAfterCallback' = [freeAfterCallback EXCEPT ![u] = ~idle]
  /\ UNCHANGED <<reqVars, cpc, blockVars, queueVars, dpcVars, lockVars,
                 threads>>

\* createAsynUser takes u from the free list and resets it.
CreateAsynUser(u) ==
  /\ life[u] = "free"
  /\ life' = [life EXCEPT ![u] = "live"]
  /\ timeout' = [timeout EXCEPT ![u] = FALSE]
  /\ state' = [state EXCEPT ![u] = "Idle"]
  /\ isQueued' = [isQueued EXCEPT ![u] = FALSE]
  /\ UNCHANGED <<callbackDone, timer, overlap, dp, freeAfterCallback, cpc, blockVars,
                 queueVars, dpcVars, lockVars, threads>>

LockPort(u) ==
  /\ "lockPort" \in ClientOps[u] /\ life[u] = "live" /\ cpc[u] = "idle"
  /\ dp[u] # None
  /\ sync = None
  /\ sync' = u
  /\ cpc' = [cpc EXCEPT ![u] = "portLocked"]
  /\ UNCHANGED <<reqVars, dp, life, freeAfterCallback, blockVars, queueVars,
                 dpcVars, locked, threads>>

UnlockPort(u) ==
  /\ cpc[u] = "portLocked"
  /\ sync' = None
  /\ cpc' = [cpc EXCEPT ![u] = "idle"]
  /\ UNCHANGED <<reqVars, dp, life, freeAfterCallback, blockVars, queueVars,
                 dpcVars, locked, threads>>

-----------------------------------------------------------------------------
(* portThread. *)

Goto(label, hold) == pc' = label /\ locked' = hold

\* Leaves the locked section to wait for the next event: the locals are dead.
Sleep ==
  /\ Goto("wait", FALSE)
  /\ cur' = None /\ curDp' = None
  /\ curTimeout' = FALSE /\ kind' = "normal" /\ callTimeoutUser' = FALSE
  /\ scan' = <<Connect, 1>> /\ attempt' = Port

EventWait ==
  /\ pc = "wait"
  /\ notify
  /\ notify' = FALSE
  /\ pc' = "woken"
  /\ UNCHANGED <<reqVars, lifeVars, blockVars, queueList, queueStateChange,
                 dpcVars, lockVars, ptLocals, ttVars, epc>>

TestEnabled ==
  /\ pc = "woken"
  /\ ~locked
  /\ \/ enabled[Port] /\ Goto("connectQ", TRUE) /\ UNCHANGED ptLocals
     \/ ~enabled[Port] /\ Sleep
  /\ UNCHANGED <<reqVars, lifeVars, blockVars, queueVars, dpcVars, sync, ttVars,
                 epc>>

\* Takes u off its queue and unlocks, to run its callback.
StartRequest(u, d, p, i) ==
  /\ queueList' = [queueList EXCEPT ![p] = RemoveAt(@, i)]
  /\ isQueued' = [isQueued EXCEPT ![u] = FALSE]
  /\ state' = [state EXCEPT ![u] = "Active"]
  /\ Overlapping(u, IF TimedOut(u) THEN "both" ELSE overlap[u])
  /\ cur' = u /\ curDp' = d /\ curTimeout' = timeout[u]
  /\ kind' = IF p = Connect THEN "connect" ELSE "normal"
  /\ scan' = <<Connect, 1>>
  /\ Goto("timerCancel", FALSE)

TakeConnectRequest ==
  /\ pc = "connectQ"
  /\ queueList[Connect] # <<>>
  /\ LET u == Head(queueList[Connect]) IN StartRequest(u, dp[u], Connect, 1)
  /\ UNCHANGED <<timeout, callbackDone, timer, lifeVars, blockVars,
                 queueStateChange, notify, dpcVars, sync, callTimeoutUser,
                 attempt, ttVars, epc>>

\* No connect request is left.  A port that is not connected is connected first.
ConnectQueueEmpty ==
  /\ pc = "connectQ"
  /\ queueList[Connect] = <<>>
  /\ pc' = IF connected[Port] THEN "scanStart" ELSE "auto"
  /\ cur' = None /\ curDp' = None
  /\ UNCHANGED <<reqVars, lifeVars, blockVars, queueVars, dpcVars, lockVars,
                 curTimeout, kind, callTimeoutUser, scan, attempt, ttVars, epc>>

\* autoConnectDevice(port, device): tries the port, then the device.  cur is None
\* when it is called for the port alone.
AutoNext ==
  \/ /\ connected[Port] /\ attempt = Port /\ curDp \notin {None, Port}
     /\ attempt' = curDp
     /\ Goto("auto", TRUE)
     /\ UNCHANGED <<cur, curDp, curTimeout, kind, callTimeoutUser, scan>>
  \/ /\ ~connected[Port] \/ attempt # Port \/ curDp \in {None, Port}
     /\ cur # None \/ connected[Port]
     /\ attempt' = Port
     /\ Goto(IF cur # None THEN "scanCheck" ELSE "scanStart", TRUE)
     /\ UNCHANGED <<cur, curDp, curTimeout, kind, callTimeoutUser, scan>>
  \/ cur = None /\ ~connected[Port] /\ Sleep

\* Nothing to do, no autoConnect, or too soon after the last attempt (2 s).
AutoSkip ==
  /\ pc = "auto"
  /\ AutoNext
  /\ UNCHANGED <<reqVars, lifeVars, blockVars, queueVars, dpcVars, sync, ttVars,
                 epc>>

AutoAttempt ==
  /\ pc = "auto"
  /\ ~connected[attempt] /\ autoConnect[attempt]
  /\ Goto("attempt", FALSE)
  /\ UNCHANGED <<reqVars, lifeVars, blockVars, queueVars, dpcVars, sync,
                 ptLocals, ttVars, epc>>

\* connectAttempt: the driver's connect, under synchronousLock, fails; or it
\* succeeds and calls exceptionConnect; or somebody else has connected.
AttemptFails ==
  /\ pc = "attempt"
  /\ sync = None \/ connected[attempt]
  /\ pc' = "relock"
  /\ UNCHANGED <<reqVars, lifeVars, blockVars, queueVars, dpcVars, lockVars,
                 ptLocals, ttVars, epc>>

AttemptConnects ==
  /\ pc = "attempt"
  /\ ~connected[attempt]
  /\ sync = None
  /\ sync' = "port"
  /\ connected' = [connected EXCEPT ![attempt] = TRUE]
  /\ pc' = "announce"
  /\ UNCHANGED <<reqVars, lifeVars, blockVars, queueVars, enabled, autoConnect,
                 locked, ptLocals, ttVars, epc>>

AnnounceConnect ==
  /\ pc = "announce"
  /\ QueueChanged /\ Signal
  /\ sync' = None
  /\ pc' = "relock"
  /\ UNCHANGED <<reqVars, lifeVars, blockVars, queueList, dpcVars, locked,
                 ptLocals, ttVars, epc>>

AutoRelock ==
  /\ pc = "relock"
  /\ AutoNext
  /\ UNCHANGED <<reqVars, lifeVars, blockVars, queueVars, dpcVars, sync, ttVars,
                 epc>>

LastQueue == Low
TopQueue == Connect - 1

ScanStart ==
  /\ pc = "scanStart"
  /\ callTimeoutUser' = FALSE
  /\ queueStateChange' = FALSE
  /\ scan' = <<TopQueue, 1>>
  /\ pc' = "scan"
  /\ UNCHANGED <<reqVars, lifeVars, blockVars, queueList, notify, dpcVars,
                 lockVars, cur, curDp, curTimeout, kind, attempt, ttVars, epc>>

\* scan is the queue under the scan and the position in it.
ScanQueue == queueList[scan[1]]
ScanNext  == scan' = <<scan[1], scan[2] + 1>>

\* Past the last element of a queue: the next queue; past the last queue: sleep.
ScanNextQueue ==
  /\ pc = "scan"
  /\ scan[2] > Len(ScanQueue)
  /\ \/ /\ scan[1] > Low
        /\ scan' = <<scan[1] - 1, 1>>
        /\ UNCHANGED <<pc, locked, cur, curDp, curTimeout, kind, callTimeoutUser, attempt>>
     \/ scan[1] = Low /\ Sleep
  /\ UNCHANGED <<reqVars, lifeVars, blockVars, queueVars, dpcVars, sync, ttVars,
                 epc>>

ScanElement ==
  /\ pc = "scan"
  /\ scan[2] <= Len(ScanQueue)
  /\ LET u == ScanQueue[scan[2]]
     IN  \/ ~enabled[dp[u]] /\ ScanNext /\ UNCHANGED <<pc, cur, curDp>>
         \/ /\ enabled[dp[u]]
            /\ cur' = u
            /\ curDp' = dp[u]
            /\ pc' = IF connected[dp[u]] THEN "scanCheck" ELSE "auto"
            /\ UNCHANGED scan
  /\ UNCHANGED <<reqVars, lifeVars, blockVars, queueVars, dpcVars, lockVars,
                 curTimeout, kind, callTimeoutUser, attempt, ttVars, epc>>

\* The queues changed while autoConnectDevice had let go of the lock.
ScanAbort ==
  /\ pc = "scanCheck"
  /\ queueStateChange
  /\ Sleep
  /\ UNCHANGED <<reqVars, lifeVars, blockVars, queueVars, dpcVars, sync, ttVars,
                 epc>>

NotBlockedOnPort(u, d) == portHolder \in {None, u}

\* No block of another asynUser holds u back.
NotBlocked(u, d) == portHolder \in {None, u} /\ dpHolder[d] \in {None, u}

ScanCheck ==
  /\ pc = "scanCheck"
  /\ ~queueStateChange
  /\ callTimeoutUser' = (callTimeoutUser \/ (~connected[curDp] /\ cur \in TimeoutUsers))
  /\ \/ NotBlocked(cur, curDp) /\ StartRequest(cur, curDp, scan[1], scan[2])
     \/ /\ ~NotBlocked(cur, curDp)
        /\ ScanNext
        /\ pc' = "scan"
        /\ UNCHANGED <<queueList, isQueued, state, overlap, cur, curDp, curTimeout, kind, locked>>
  /\ UNCHANGED <<timeout, callbackDone, timer, lifeVars, blockVars,
                 queueStateChange, notify, dpcVars, sync, attempt, ttVars, epc>>

CancelRequestTimer ==
  /\ pc = "timerCancel"
  /\ \/ curTimeout /\ TimerQuiet(cur) /\ timer' = [timer EXCEPT ![cur] = FALSE]
     \/ ~curTimeout /\ UNCHANGED timer
  /\ curTimeout' = FALSE
  /\ pc' = "syncLock"
  /\ UNCHANGED <<isQueued, timeout, state, callbackDone, overlap, lifeVars, blockVars,
                 queueVars, dpcVars, lockVars, cur, curDp, kind,
                 callTimeoutUser, scan, attempt, ttVars, epc>>

\* Under synchronousLock portThread calls the timeout callback, if callTimeoutUser
\* says so, or the process callback.
BeginCallback ==
  /\ pc = "syncLock"
  /\ sync = None
  /\ sync' = "port"
  /\ pc' = "callback"
  /\ UNCHANGED <<reqVars, lifeVars, blockVars, queueVars, dpcVars, locked,
                 ptLocals, ttVars, epc>>

EndCallback ==
  /\ pc = "callback"
  /\ sync' = None
  /\ pc' = "tail"
  /\ UNCHANGED <<reqVars, lifeVars, blockVars, queueVars, dpcVars, locked,
                 ptLocals, ttVars, epc>>

FinishRequestEarly(u) ==
  /\ callbackDone' = [callbackDone EXCEPT ![u] = TRUE]
  /\ state' = [state EXCEPT ![u] = "Idle"]
  /\ freeAfterCallback' = [freeAfterCallback EXCEPT ![u] = FALSE]
  /\ life' = [life EXCEPT ![u] = IF freeAfterCallback[u] THEN "free" ELSE @]

FinishRequestSilently(u) ==
  /\ UNCHANGED callbackDone
  /\ state' = [state EXCEPT ![u] = "Idle"]
  /\ freeAfterCallback' = [freeAfterCallback EXCEPT ![u] = FALSE]
  /\ life' = [life EXCEPT ![u] = IF freeAfterCallback[u] THEN "free" ELSE @]

FinishRequestNoFree(u) ==
  /\ callbackDone' = [callbackDone EXCEPT ![u] = @ \/ state[u] = "Canceled"]
  /\ state' = [state EXCEPT ![u] = "Idle"]
  /\ freeAfterCallback' = [freeAfterCallback EXCEPT ![u] = FALSE]
  /\ UNCHANGED life

\* What both threads do once a callback of u has returned.
FinishRequest(u) ==
  /\ callbackDone' = [callbackDone EXCEPT ![u] = @ \/ state[u] = "Canceled"]
  /\ state' = [state EXCEPT ![u] = "Idle"]
  /\ freeAfterCallback' = [freeAfterCallback EXCEPT ![u] = FALSE]
  /\ life' = [life EXCEPT ![u] = IF freeAfterCallback[u] THEN "free" ELSE @]

FinishConnectRequest ==
  /\ pc = "tail" /\ kind = "connect"
  /\ FinishRequest(cur)
  /\ Goto("connectQ", TRUE)
  /\ UNCHANGED <<isQueued, timeout, timer, overlap, dp, cpc, blockVars, queueVars,
                 dpcVars, sync, ptLocals, ttVars, epc>>

FinishNormalRequest ==
  /\ pc = "tail" /\ kind = "normal"
  /\ portHolder' = IF blockPortCount[cur] > 0 THEN cur ELSE portHolder
  /\ dpHolder' = [dpHolder EXCEPT ![curDp] = IF blockDeviceCount[cur] > 0 THEN cur ELSE @]
  /\ FinishRequest(cur)
  /\ \/ queueStateChange /\ Sleep
     \/ ~queueStateChange /\ Goto("scanStart", TRUE) /\ UNCHANGED ptLocals
  /\ UNCHANGED <<isQueued, timeout, timer, overlap, dp, cpc, blockPortCount,
                 blockDeviceCount, queueVars, dpcVars, sync, ttVars, epc>>

-----------------------------------------------------------------------------
(* The timer thread: queueTimeoutCallback. *)

TimerExpires(u) ==
  /\ tpc = "idle"
  /\ timer[u]
  /\ timer' = [timer EXCEPT ![u] = FALSE]
  /\ tpc' = "fired"
  /\ tcur' = u
  /\ UNCHANGED <<isQueued, timeout, state, callbackDone, overlap, lifeVars, blockVars,
                 queueVars, dpcVars, lockVars, ptVars, epc>>

TimeoutNotQueued ==
  /\ tpc = "fired"
  /\ ~locked
  /\ ~isQueued[tcur]
  /\ tpc' = "idle"
  /\ tcur' = None
  /\ UNCHANGED <<reqVars, lifeVars, blockVars, queueVars, dpcVars, lockVars,
                 ptVars, epc>>

TimeoutQueued ==
  /\ tpc = "fired"
  /\ ~locked
  /\ isQueued[tcur]
  /\ Dequeue(tcur)
  /\ isQueued' = [isQueued EXCEPT ![tcur] = FALSE]
  /\ QueueChanged
  /\ state' = [state EXCEPT ![tcur] = "Active"]
  /\ Overlapping(tcur, IF PortThreadUses(tcur) THEN "both" ELSE overlap[tcur])
  /\ tpc' = "callback"
  /\ UNCHANGED <<timeout, callbackDone, timer, lifeVars, blockVars, notify,
                 dpcVars, lockVars, ptVars, tcur, epc>>

EndTimeoutCallback ==
  /\ tpc = "callback"
  /\ tpc' = "tail"
  /\ UNCHANGED <<reqVars, lifeVars, blockVars, queueVars, dpcVars, lockVars,
                 ptVars, tcur, epc>>

FinishTimeout ==
  /\ tpc = "tail"
  /\ ~locked
  /\ FinishRequest(tcur)
  /\ Signal
  /\ tpc' = "idle"
  /\ tcur' = None
  /\ UNCHANGED <<isQueued, timeout, timer, overlap, dp, cpc, blockVars, queueList,
                 queueStateChange, dpcVars, lockVars, ptVars, epc>>

-----------------------------------------------------------------------------
(* enable, autoConnectAsyn, exceptionConnect and exceptionDisconnect write *)
(* their flag without the lock, then announce the exception.               *)

Enable(d) ==
  /\ "enable" \in EnvOps
  /\ epc = "idle"
  /\ enabled' = [enabled EXCEPT ![d] = ~@]
  /\ epc' = "announce"
  /\ UNCHANGED <<reqVars, lifeVars, blockVars, queueVars, connected,
                 autoConnect, lockVars, ptVars, ttVars>>

AutoConnectAsyn(d) ==
  /\ "autoConnect" \in EnvOps
  /\ epc = "idle"
  /\ autoConnect' = [autoConnect EXCEPT ![d] = ~@]
  /\ epc' = "announce"
  /\ UNCHANGED <<reqVars, lifeVars, blockVars, queueVars, enabled, connected,
                 lockVars, ptVars, ttVars>>

ExceptionConnect(d) ==
  /\ "connect" \in EnvOps
  /\ epc = "idle"
  /\ ~connected[d]
  /\ connected' = [connected EXCEPT ![d] = TRUE]
  /\ epc' = "announce"
  /\ UNCHANGED <<reqVars, lifeVars, blockVars, queueVars, enabled, autoConnect,
                 lockVars, ptVars, ttVars>>

ExceptionDisconnect(d) ==
  /\ "connect" \in EnvOps
  /\ epc = "idle"
  /\ connected[d]
  /\ connected' = [connected EXCEPT ![d] = FALSE]
  /\ epc' = "announce"
  /\ UNCHANGED <<reqVars, lifeVars, blockVars, queueVars, enabled, autoConnect,
                 lockVars, ptVars, ttVars>>

AnnounceException ==
  /\ epc = "announce"
  /\ ~locked
  /\ QueueChanged /\ Signal
  /\ epc' = "idle"
  /\ UNCHANGED <<reqVars, lifeVars, blockVars, queueList, dpcVars, lockVars,
                 ptVars, ttVars>>

-----------------------------------------------------------------------------
Request(u) ==
  \/ \E p \in Priorities, t \in BOOLEAN : QueueRequest(u, p, t)
  \/ \E allDevices \in BOOLEAN : BlockProcessCallback(u, allDevices)
  \/ UnblockPort(u) \/ UnblockDevice(u)
  \/ CancelQueued(u) \/ CancelNotQueued(u) \/ ResumeClient(u)
  \/ Disconnect(u) \/ (\E d \in Dpcs : ConnectDevice(u, d))
  \/ FreeAsynUser(u) \/ FreeInCallback(u) \/ CreateAsynUser(u)
  \/ LockPort(u)

\* The steps that a client which has begun an operation takes to end it.
Complete(u) ==
  CancelTimer(u) \/ CancelWaitDone(u) \/ FreeTestState(u) \/ FreeSetFlag(u) \/ UnlockPort(u)

PortThread ==
  \/ EventWait \/ TestEnabled \/ TakeConnectRequest \/ ConnectQueueEmpty
  \/ AutoSkip \/ AutoAttempt \/ AttemptFails \/ AttemptConnects
  \/ AnnounceConnect \/ AutoRelock
  \/ ScanStart \/ ScanNextQueue \/ ScanElement \/ ScanAbort \/ ScanCheck
  \/ CancelRequestTimer \/ BeginCallback \/ EndCallback
  \/ FinishConnectRequest \/ FinishNormalRequest

TimerThread ==
  \/ \E u \in Users : TimerExpires(u)
  \/ TimeoutNotQueued \/ TimeoutQueued \/ EndTimeoutCallback \/ FinishTimeout

Environment ==
  \/ \E d \in Dpcs : Enable(d) \/ AutoConnectAsyn(d)
                     \/ ExceptionConnect(d) \/ ExceptionDisconnect(d)
  \/ AnnounceException

Next ==
  \/ \E u \in Users : Request(u) \/ Complete(u)
  \/ PortThread
  \/ TimerThread
  \/ Environment

Spec == Init /\ [][Next]_vars

(***************************************************************************)
(* Mutexes are granted to a thread that waits for them, callbacks and the  *)
(* driver's connect return, timers expire, and a client whose call has     *)
(* returned goes on.  Nothing is assumed of the requests themselves.       *)
(***************************************************************************)
Fairness ==
  /\ SF_vars(PortThread)
  /\ SF_vars(TimerThread)
  /\ SF_vars(AnnounceException)
  /\ \A u \in Users : SF_vars(Complete(u)) /\ WF_vars(ResumeClient(u))

FairSpec == Spec /\ Fairness

-----------------------------------------------------------------------------
(* Safety. *)

\* The flag isQueued and the four lists agree: an asynUser is on a list exactly
\* if its flag says so, and it is there once.
QueueConsistent ==
  \A u \in Users :
    /\ isQueued[u] <=> \E p \in AllPriorities : \E i \in DOMAIN queueList[p] : queueList[p][i] = u
    /\ \A p, q \in AllPriorities : \A i \in DOMAIN queueList[p], j \in DOMAIN queueList[q] :
         queueList[p][i] = u /\ queueList[q][j] = u => p = q /\ i = j

\* A queued asynUser belongs to its client and is connected: portThread asserts
\* that findDpCommon finds its dpCommon.
QueuedIsConnected == \A u \in Users : isQueued[u] => dp[u] # None /\ life[u] = "live"

\* portThread may have let go of the lock while it connected a device.  When it
\* goes on, the element it looks at is still where it found it.
ScanSound ==
  pc = "scanCheck" /\ ~queueStateChange =>
    /\ scan[2] \in DOMAIN ScanQueue
    /\ ScanQueue[scan[2]] = cur
    /\ isQueued[cur]
    /\ curDp = dp[cur]

\* While an asynUser blocks the port or a device, no process callback of another
\* one runs there, connect requests excepted.
BlockExclusion ==
  pc = "callback" /\ kind = "normal" =>
    portHolder \in {None, cur} /\ dpHolder[curDp] \in {None, cur}

\* portThread does not sleep on a request that it could serve, unless the event
\* that wakes it is set or the thread that changed the queue has yet to set it.
WakeupPending ==
  \/ notify
  \/ epc = "announce"
  \/ tpc \in {"callback", "tail"}
  \/ \E u \in Users : cpc[u] = "cancelTimer"

NoLostWakeup ==
  pc = "wait" /\ enabled[Port] /\ ~WakeupPending =>
    /\ queueList[Connect] = <<>>
    /\ connected[Port] => \A u \in Users :
         isQueued[u] /\ enabled[dp[u]] => ~NotBlocked(u, dp[u])

\* Nothing refers any more to an asynUser that is on the free list: not the port
\* thread or the timer thread in the callback that was to free it, nor its timer,
\* provided its requests did not overlap.
FreeListUnused ==
  \A u \in Users : life[u] = "free" =>
    /\ ~isQueued[u] /\ ~freeAfterCallback[u]
    /\ blockPortCount[u] = 0 /\ blockDeviceCount[u] = 0
    /\ overlap[u] # "both" => ~Busy(u)
    /\ overlap[u] = "none" => ~TimerThreadUses(u) /\ ~timer[u]

\* cancelRequest returns only when no callback of the asynUser is active.  That is
\* what asynDriver.rst promises, and it allows a callback to queue its asynUser
\* again; but then the request is found queued, and the code returns at once, the
\* callback still active.  So the promise is kept to requests that do not overlap.
CancelWaitsForCallback ==
  \A u \in Users : cpc[u] = "canceled" => ~InCallback(u) \/ overlap[u] # "none"

\* The timer of a request queued with a timeout runs as long as it is queued, unless
\* the one that ends an earlier request still has the timer to cancel.
TimeoutArmed ==
  \A u \in Users :
    isQueued[u] /\ timeout[u] => timer[u] \/ Expired(u) \/ overlap[u] # "none"

\* portThread takes an asynUser only after all those ahead of it, on its own queue
\* and on the queues of a higher priority, that it could take, unless something has
\* changed since its scan began (an exception yet to be announced, an event yet to
\* be received).
Ahead(p, i, q, j) == q \in p + 1 .. Connect - 1 \/ (q = p /\ j < i)
PriorityOrder ==
  [][pc = "scanCheck" /\ pc' = "timerCancel" /\ epc = "idle" /\ ~notify =>
       \A q \in AllPriorities : \A j \in DOMAIN queueList[q] :
         LET v == queueList[q][j]
         IN  Ahead(scan[1], scan[2], q, j) =>
               ~enabled[dp[v]] \/ ~NotBlocked(v, dp[v])]_vars

-----------------------------------------------------------------------------
(* Liveness. *)

\* cancelRequest returns, though the callback it waits for may queue the request
\* again; unless both threads come to run a callback of the asynUser, and the second
\* to begin overwrites the mark that tells the first to signal.
CancelReturns ==
  \A u \in Users :
    cpc[u] \in {"waitDone", "cancelTimer"} ~> cpc[u] = "canceled" \/ overlap[u] = "both"

\* The callback has ended between the test of freeAsynUser and the write of its flag:
\* nobody is left to read the flag.
FreeMissed(u) == state[u] = "Idle" /\ (life[u] = "flagging" \/ freeAfterCallback[u])

\* The storage of a freed asynUser reaches the free list, whoever frees it, unless
\* the callback that was to put it there ends before it is told.
FreedReachesFreeList ==
  \A u \in Users :
    life[u] \in {"freeing", "flagging", "released"} ~> life[u] = "free" \/ FreeMissed(u)

\* Another asynUser is queued with a higher priority than u, which is queued.
Overtaken(u) ==
  /\ isQueued[u]
  /\ \E p, q \in AllPriorities :
       /\ p < q
       /\ \E i \in DOMAIN queueList[p] : queueList[p][i] = u
       /\ Len(queueList'[q]) > Len(queueList[q])

\* A request leaves the queue: portThread serves it, its timeout or a cancel
\* withdraws it.  Only requests of higher priority, queued again and again, can keep
\* it there; those of its own priority, and of lower ones, cannot.
RequestServed ==
  \A u \in Users : (isQueued[u] ~> ~isQueued[u]) \/ []<><<Overtaken(u)>>_vars

=============================================================================
