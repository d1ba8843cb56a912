----------------------------- MODULE StreamCore -----------------------------
(***************************************************************************)
(* StreamDevice: passive records that run protocols on one asyn port       *)
(* (StreamCore.cc, AsynDriverInterface.cc, StreamEpics.cc). The commands   *)
(* of a protocol are a sequence, commandIndex is what is left of it. A     *)
(* thread that holds the mutex of a stream runs evalCommand and            *)
(* finishProtocol as steps of their own; what the interface does outside   *)
(* of the mutex interleaves with it. The manager is what AsynPort promises:*)
(* a queued request is served, unless another asynUser blocks the device   *)
(* or the port is not connected, or its queue timeout is called.           *)
(*                                                                         *)
(* A record may be processed while @init of its stream still runs after a  *)
(* reconnection: process() tests pact, which @init does not set. What is   *)
(* then left behind, e.g. a device that nobody unblocks, is there for ever.*)
(* The history variable interfered says that it has happened; only         *)
(* properties read it.                                                     *)
(***************************************************************************)
EXTENDS Naturals, Sequences

CONSTANTS Streams, None,
          Protocols,          \* per stream, those it may be given: commands, onInit, handlers
          MaxDrops            \* bound: how often the port loses its connection

ASSUME DropsAssumption   == MaxDrops \in Nat

Threads == {"client", "port", "queueTimer", "timer", "driver", "callback"}

ASSUME StreamsAssumption == None \notin Streams \cup Threads

VARIABLES proto,     \* protocol of the stream
          core,      \* StreamCore
          mutex,     \* mutex of the stream: who holds it, what comes next, the value returned
          bus,       \* AsynDriverInterface and its asynUser
          waiting,   \* timer of the wait command
          execs,     \* commandCallback is requested
          results,   \* requests of processCallback
          at,        \* per thread: stream and ioAction it works for
          blocks, holder, portConnected,   \* the asyn port
          untold,    \* streams whose exceptionHandler is to be called
          drops,
          interfered \* history: a record has been processed while its @init ran

vars == <<proto, core, mutex, bus, waiting, execs, results, at, blocks, holder, portConnected, untold, drops, interfered>>

portVars  == <<portConnected, untold, drops>>
timerVars == <<waiting, execs>>

Free == [by |-> None, next |-> "none", status |-> "Success", ret |-> "open"]
Idle == [s |-> None, act |-> "None"]

Init ==
  /\ proto \in {p \in [Streams -> UNION {Protocols[s] : s \in Streams}] : \A s \in Streams : p[s] \in Protocols[s]}
  /\ core = [s \in Streams |-> [flags |-> {}, activeCommand |-> "end", commandIndex |-> << >>,
       runningHandler |-> "Success", unparsedInput |-> FALSE, lastInputStatus |-> "Success",
       pact |-> FALSE, refused |-> FALSE]]
  /\ mutex = [s \in Streams |-> Free]
  /\ bus = [s \in Streams |-> [ioAction |-> "None", timer |-> FALSE, eventMask |-> FALSE,
       receivedEvent |-> FALSE, queued |-> "no", queueTimer |-> FALSE]]
  /\ waiting = [s \in Streams |-> FALSE] /\ execs = [s \in Streams |-> FALSE]
  /\ results = [s \in Streams |-> 0]
  /\ at = [t \in Threads |-> Idle]
  /\ blocks = [s \in Streams |-> 0] /\ holder = None
  /\ portConnected = TRUE /\ untold = {} /\ drops = 0 /\ interfered = FALSE

Has(s, f) == f \in core[s].flags
BusPending == {"LockPending", "WritePending", "WaitPending"}
Command(s) == IF core[s].commandIndex = << >> THEN "end" ELSE Head(core[s].commandIndex)

-----------------------------------------------------------------------------
(* The holder of the mutex goes on with c for core[s], or leaves. *)

Decide(s, v) == IF mutex[s].ret = "open" THEN v ELSE mutex[s].ret

\* What is evaluated next; v is what the function that called it returns.
Continue(s, c, next, status, v) ==
  /\ core' = [core EXCEPT ![s] = c]
  /\ mutex' = [mutex EXCEPT ![s].next = next, ![s].status = status, ![s].ret = v]
  /\ UNCHANGED <<at, holder>>

\* portThread makes the asynUser the holder of the device once its callback has returned.
HolderAfter(s, t) == IF t = "port" /\ blocks[s] > 0 THEN s ELSE holder

Leave(s, c, v) ==
  LET t == mutex[s].by IN
  /\ core' = [core EXCEPT ![s] = IF t = "client" THEN [c EXCEPT !.pact = Decide(s, v) = "ok"] ELSE c]
  /\ mutex' = [mutex EXCEPT ![s] = Free]
  /\ at' = [at EXCEPT ![t] = Idle]
  /\ holder' = HolderAfter(s, t)

\* A callback that takes the mutex: it is not expected, or it goes on.
Enter(s, t, c, next, status) ==
  /\ core' = [core EXCEPT ![s] = c]
  /\ mutex' = [mutex EXCEPT ![s] = [by |-> t, next |-> next, status |-> status, ret |-> "open"]]
  /\ UNCHANGED <<at, holder>>

NotExpected(s, t) ==
  /\ at' = [at EXCEPT ![t] = Idle]
  /\ holder' = HolderAfter(s, t)
  /\ UNCHANGED <<core, mutex>>

Drop(s, fs) == [core[s] EXCEPT !.flags = @ \ fs]

\* All flags of the model are among ClearOnStart.
Started(s, cmds, fs) ==
  [core[s] EXCEPT !.flags = fs, !.commandIndex = cmds, !.runningHandler = "Success", !.refused = FALSE]

InitRuns(s) == Has(s, "InitRun") /\ core[s].activeCommand # "end"

\* The record is processed while it is not active; @init, which does not make it active, is cut off.
Process(s) ==
  /\ ~core[s].pact /\ mutex[s] = Free
  /\ interfered' = (interfered \/ InitRuns(s))
  /\ Enter(s, "client", Started(s, proto[s].commands, {}), "eval", "Success")
  /\ UNCHANGED <<proto, bus, timerVars, results, blocks, portVars>>

-----------------------------------------------------------------------------
(* queueRequest *)

Queueable(s, priority) == bus[s].queued = "no" /\ (portConnected \/ priority = "connect")

Queue(s, act, priority, timed) ==
  bus' = [bus EXCEPT ![s].ioAction = act, ![s].queued = priority, ![s].queueTimer = timed]

\* A command whose request is refused returns false, and nothing else.
Request(s, c, act, priority) ==
  IF Queueable(s, priority)
  THEN Queue(s, act, priority, TRUE) /\ Leave(s, c, "ok")
  ELSE /\ bus' = [bus EXCEPT ![s].ioAction = act]
       /\ Leave(s, [c EXCEPT !.refused = TRUE], "failed")

UnblockForgotten(s) == UNCHANGED blocks
Unblock(s) == blocks' = [blocks EXCEPT ![s] = IF @ = 0 \/ bus[s].queued # "no" THEN @ ELSE @ - 1]
Unblocked(s) == IF blocks'[s] = 0 /\ holder = s THEN None ELSE holder

-----------------------------------------------------------------------------
(* evalCommand *)

Eval(s, cmd) == mutex[s].next = "eval" /\ core[s].flags \cap BusPending = {} /\ Command(s) = cmd
Evaluated(s) == [core[s] EXCEPT !.activeCommand = Command(s), !.commandIndex = Tail(@)]

EvalStillWaiting(s) ==
  /\ mutex[s].next = "eval" /\ core[s].flags \cap BusPending # {}
  /\ Leave(s, core[s], "failed")
  /\ UNCHANGED <<proto, interfered, bus, timerVars, results, blocks, portVars>>

EvalEnd(s) ==
  /\ Eval(s, "end")
  /\ Continue(s, [core[s] EXCEPT !.activeCommand = "end"], "finish", "Success", Decide(s, "ok"))
  /\ UNCHANGED <<proto, interfered, bus, timerVars, results, blocks, portVars>>

\* Early input and events are accepted as soon as the command before is evaluated.
Early(s) == CASE Len(core[s].commandIndex) < 2 -> {}
              [] core[s].commandIndex[2] = "in" -> {"AcceptInput"}
              [] core[s].commandIndex[2] = "event" -> {"AcceptEvent"}
              [] OTHER -> {}

EvalOut(s) ==
  LET c == [Evaluated(s) EXCEPT !.unparsedInput = FALSE, !.flags = @ \cup Early(s)] IN
  /\ Eval(s, "out")
  /\ CASE Has(s, "BusOwner") -> Request(s, [c EXCEPT !.flags = @ \cup {"WritePending"}], "Write", "low")
       [] ~Has(s, "BusOwner") /\ Queueable(s, "low") ->
            /\ Queue(s, "Lock", "low", ~Has(s, "InitRun"))
            /\ Leave(s, [c EXCEPT !.flags = @ \cup {"LockPending"}], "ok")
       [] OTHER -> /\ bus' = [bus EXCEPT ![s].ioAction = "None"]
                   /\ Continue(s, c, "finish", "Offline", Decide(s, "failed"))
  /\ UNCHANGED <<proto, interfered, timerVars, results, blocks, portVars>>

\* formatOutput fails in out or exec.
FormatFails(s) ==
  /\ Eval(s, "out") \/ Eval(s, "exec")
  /\ Continue(s, [Evaluated(s) EXCEPT !.unparsedInput = @ /\ Command(s) = "exec"], "finish", "FormatError",
              Decide(s, "failed"))
  /\ UNCHANGED <<proto, interfered, bus, timerVars, results, blocks, portVars>>

\* What readCallback makes of its input: the next command, an error, or a wait for more.
Parse(status) == CASE status = "Success" -> {"match", "ScanError", "more"}
                   [] status = "Timeout" -> {"match", "ScanError", "ReadTimeout"}
                   [] status = "NoReply" -> {"ReplyTimeout"}
                   [] status = "Fault"   -> {"Fault"}

\* Input is left unless it never came to matchInput.
LeftBy(s, r) == IF r \in {"ReplyTimeout", "Fault"} THEN {core[s].unparsedInput} ELSE BOOLEAN
Then(r)   == IF r = "match" THEN "eval" ELSE "finish"
Status(r) == IF r = "match" THEN "Success" ELSE r

EvalIn(s) ==
  LET c == [Evaluated(s) EXCEPT !.flags = @ \cup {"AcceptInput"}] IN
  /\ Eval(s, "in")
  /\ \/ ~c.unparsedInput /\ Request(s, c, "Read", "low")
     \/ /\ c.unparsedInput /\ "more" \in Parse(c.lastInputStatus)
        /\ Request(s, c, "Read", "low")
     \/ /\ c.unparsedInput
        /\ \E r \in Parse(c.lastInputStatus) \ {"more"} : \E left \in LeftBy(s, r) :
              Continue(s, [c EXCEPT !.unparsedInput = left], Then(r), Status(r), Decide(s, "ok"))
        /\ UNCHANGED bus
  /\ UNCHANGED <<proto, interfered, timerVars, results, blocks, portVars>>

EvalWait(s) ==
  /\ Eval(s, "wait")
  /\ waiting' = [waiting EXCEPT ![s] = TRUE]
  /\ Leave(s, [Evaluated(s) EXCEPT !.flags = @ \cup {"WaitPending"}], "ok")
  /\ UNCHANGED <<proto, interfered, bus, execs, results, blocks, portVars>>

\* An early event is taken at once; acceptEvent starts the timer of the interface.
EvalEvent(s) ==
  /\ Eval(s, "event")
  /\ IF bus[s].receivedEvent
     THEN /\ bus' = [bus EXCEPT ![s].receivedEvent = FALSE]
          /\ Continue(s, [Evaluated(s) EXCEPT !.flags = @ \ {"AcceptEvent"}], "eval", "Success", Decide(s, "ok"))
     ELSE /\ bus' = [bus EXCEPT ![s].eventMask = TRUE, ![s].ioAction = "ReceiveEvent", ![s].timer = TRUE]
          /\ Leave(s, [Evaluated(s) EXCEPT !.flags = @ \cup {"AcceptEvent"}], "ok")
  /\ UNCHANGED <<proto, interfered, timerVars, results, blocks, portVars>>

EvalExec(s) ==
  /\ Eval(s, "exec")
  /\ execs' = [execs EXCEPT ![s] = TRUE]
  /\ IF Has(s, "BusOwner") THEN Unblock(s) ELSE UNCHANGED blocks
  /\ core' = [core EXCEPT ![s] = [Evaluated(s) EXCEPT !.flags = @ \ {"BusOwner"},
                                    !.pact = IF mutex[s].by = "client" THEN Decide(s, "ok") = "ok" ELSE @]]
  /\ mutex' = [mutex EXCEPT ![s] = Free]
  /\ at' = [at EXCEPT ![mutex[s].by] = Idle]
  /\ holder' = Unblocked(s)
  /\ UNCHANGED <<proto, interfered, bus, waiting, results, portVars>>

EvalConnect(s) ==
  /\ Eval(s, "connect")
  /\ Request(s, Evaluated(s), "Connect", "connect")
  /\ UNCHANGED <<proto, interfered, timerVars, results, blocks, portVars>>

\* A refused disconnect, unlike the other commands, finishes the protocol.
EvalDisconnect(s) ==
  /\ Eval(s, "disconnect")
  /\ IF Queueable(s, "connect")
     THEN Queue(s, "Disconnect", "connect", FALSE) /\ Leave(s, Evaluated(s), "ok")
     ELSE /\ bus' = [bus EXCEPT ![s].ioAction = "Disconnect"]
          /\ Continue(s, Evaluated(s), "finish", "Fault", Decide(s, "failed"))
  /\ UNCHANGED <<proto, interfered, timerVars, results, blocks, portVars>>

-----------------------------------------------------------------------------
(* finishProtocol *)

Handled == {"WriteTimeout", "ReplyTimeout", "ReadTimeout", "ScanError"}
HandlesAgain(s) == ~Has(s, "InitRun") /\ mutex[s].status \in Handled
Handles(s) == core[s].runningHandler = "Success" /\ ~Has(s, "InitRun") /\ mutex[s].status \in Handled
Handler(s) == proto[s].handlers[mutex[s].status]
Reparses(s) == mutex[s].status = "ScanError" /\ Handler(s) # << >> /\ Handler(s)[1] = "in"

\* The first error runs its handler; one that begins with in parses the line again.
FinishHandler(s) ==
  LET c == [core[s] EXCEPT !.activeCommand = "end", !.runningHandler = mutex[s].status] IN
  /\ mutex[s].next = "finish" /\ Handles(s)
  /\ Continue(s, [c EXCEPT !.commandIndex = IF Reparses(s) THEN Tail(Handler(s)) ELSE Handler(s)],
              "eval", "Success", mutex[s].ret)
  /\ UNCHANGED <<proto, interfered, bus, timerVars, results, blocks, portVars>>

\* The error of the protocol is its result, whatever the handler does.
Result(s) == IF mutex[s].status = "Success" THEN core[s].runningHandler ELSE mutex[s].status

FinishUnlock(s) ==
  LET c == [core[s] EXCEPT !.activeCommand = "end", !.flags = @ \ {"BusOwner"},
              !.runningHandler = IF @ = "Success" /\ ~Has(s, "InitRun") THEN mutex[s].status ELSE @,
              !.unparsedInput = @ /\ (mutex[s].status \in Handled \cup {"Success"} \/ core[s].runningHandler # "Success"
                                      \/ Has(s, "InitRun"))] IN
  /\ mutex[s].next = "finish" /\ (Handles(s) => Reparses(s))
  /\ core' = [core EXCEPT ![s] = c]
  /\ mutex' = [mutex EXCEPT ![s].next = "busFinish", ![s].status = Result(s)]
  /\ IF Has(s, "BusOwner") THEN Unblock(s) /\ holder' = Unblocked(s) ELSE UNCHANGED <<blocks, holder>>
  /\ UNCHANGED <<proto, interfered, bus, at, timerVars, results, portVars>>

\* cancelTimer waits for a callback of this timer that runs in the thread of the timers.
TimerQuiet(s) == at["timer"].s = s /\ at["timer"].act # "wait" => mutex[s].by = "timer"

\* busFinish, protocolFinishHook
BusFinish(s) ==
  /\ mutex[s].next = "busFinish" /\ TimerQuiet(s)
  /\ bus' = [bus EXCEPT ![s].timer = FALSE, ![s].ioAction = "None"]
  /\ results' = [results EXCEPT ![s] = IF core[s].pact /\ ~Has(s, "InitRun") THEN @ + 1 ELSE @]
  /\ UNCHANGED blocks
  /\ Leave(s, Drop(s, {"AcceptInput", "AcceptEvent"}), "ok")
  /\ UNCHANGED <<proto, interfered, timerVars, portVars>>

\* recordProcessCallback: the record is processed again.
RecordProcess(s) ==
  /\ results[s] > 0 /\ mutex[s] = Free /\ core[s].pact
  /\ results' = [results EXCEPT ![s] = @ - 1]
  /\ core' = [core EXCEPT ![s].pact = FALSE]
  /\ UNCHANGED <<proto, interfered, mutex, bus, timerVars, at, blocks, holder, portVars>>

-----------------------------------------------------------------------------
(* handleRequest, in the port thread *)

\* Another asynUser does not hold the device.
NotBlockedIgnored(s) == TRUE
NotBlocked(s) == holder \in {None, s}

PortTake(s) ==
  /\ at["port"] = Idle
  /\ \/ bus[s].queued = "connect"
     \/ bus[s].queued = "low" /\ portConnected /\ NotBlocked(s)
  /\ bus' = [bus EXCEPT ![s].queued = "no", ![s].queueTimer = FALSE]
  /\ at' = [at EXCEPT !["port"] = [s |-> s, act |-> "take"]]
  /\ UNCHANGED <<proto, interfered, core, mutex, timerVars, results, blocks, holder, portVars>>

\* cancelTimer, switch (ioAction)
HandleRequest(s) ==
  /\ at["port"] = [s |-> s, act |-> "take"]
  /\ at["timer"].s = s => at["timer"].act = "wait"
  /\ bus' = [bus EXCEPT ![s].timer = FALSE]
  /\ at' = [at EXCEPT !["port"] = IF bus[s].ioAction = "None" THEN Idle ELSE [s |-> s, act |-> bus[s].ioAction]]
  /\ holder' = IF bus[s].ioAction = "None" THEN HolderAfter(s, "port") ELSE holder
  /\ UNCHANGED <<proto, interfered, core, mutex, timerVars, results, blocks, portVars>>

Serves(s, act) == at["port"] = [s |-> s, act |-> act] /\ mutex[s] = Free

\* lockHandler, lockCallback: blocked for the others; the write request may be refused.
LockHandler(s) ==
  LET c == [Drop(s, {"LockPending"}) EXCEPT !.flags = @ \cup {"BusOwner", "WritePending"}] IN
  /\ Serves(s, "Lock")
  /\ blocks' = [blocks EXCEPT ![s] = @ + 1]
  /\ CASE ~Has(s, "LockPending") ->
            /\ at' = [at EXCEPT !["port"] = Idle]
            /\ holder' = s /\ UNCHANGED <<core, mutex, bus>>
       [] Has(s, "LockPending") /\ Queueable(s, "low") ->
            /\ Queue(s, "Write", "low", TRUE)
            /\ core' = [core EXCEPT ![s] = c] /\ at' = [at EXCEPT !["port"] = Idle]
            /\ holder' = s /\ UNCHANGED mutex
       [] OTHER -> bus' = [bus EXCEPT ![s].ioAction = "Write"] /\ Enter(s, "port", c, "finish", "Fault")
  /\ UNCHANGED <<proto, interfered, timerVars, results, portVars>>

\* disconnectCallback of a device that has gone.
DisconnectedIgnored(s) == NotExpected(s, "port")
Disconnected(s) == Enter(s, "port", Drop(s, BusPending), "finish", "Offline")

WriteHandler(s) ==
  /\ Serves(s, "Write")
  /\ bus' = [bus EXCEPT ![s].receivedEvent = FALSE]
  /\ UNCHANGED blocks
  /\ \/ ~portConnected /\ Disconnected(s)
     \/ portConnected /\ ~Has(s, "WritePending") /\ NotExpected(s, "port")
     \/ /\ portConnected /\ Has(s, "WritePending")
        /\ \/ Enter(s, "port", Drop(s, {"WritePending"}), "eval", "Success")
           \/ Enter(s, "port", Drop(s, {"WritePending"}), "finish", "WriteTimeout")
  /\ UNCHANGED <<proto, interfered, timerVars, results, portVars>>

\* readHandler reads until readCallback has enough.
ReadHandler(s) ==
  /\ Serves(s, "Read")
  /\ UNCHANGED <<bus, blocks>>
  /\ \/ ~portConnected /\ Disconnected(s)
     \/ portConnected /\ ~Has(s, "AcceptInput") /\ NotExpected(s, "port")
     \/ /\ portConnected /\ Has(s, "AcceptInput")
        /\ \E io \in {"Success", "Timeout", "NoReply", "Fault"} :
           \E r \in Parse(io) \ {"more"} : \E left \in LeftBy(s, r) :
              Enter(s, "port", [core[s] EXCEPT !.lastInputStatus = io, !.unparsedInput = left], Then(r), Status(r))
  /\ UNCHANGED <<proto, interfered, timerVars, results, portVars>>

\* The port is connected or not; its exception callbacks tell every stream.
ConnectHandler(s) ==
  /\ Serves(s, "Connect")
  /\ UNCHANGED <<bus, blocks>>
  /\ IF core[s].activeCommand # "connect" THEN NotExpected(s, "port") /\ UNCHANGED portVars ELSE
     \/ /\ portConnected' = TRUE /\ untold' = IF portConnected THEN untold ELSE Streams \ {s}
        /\ Enter(s, "port", core[s], "eval", "Success") /\ UNCHANGED drops
     \/ Enter(s, "port", core[s], "finish", "Fault") /\ UNCHANGED portVars
  /\ UNCHANGED <<proto, interfered, timerVars, results>>

DisconnectHandler(s) ==
  /\ Serves(s, "Disconnect")
  /\ portConnected' = FALSE
  /\ IF core[s].activeCommand = "disconnect" THEN Enter(s, "port", core[s], "eval", "Success") ELSE Disconnected(s)
  /\ UNCHANGED <<proto, interfered, bus, timerVars, results, blocks, untold, drops>>

-----------------------------------------------------------------------------
(* Timeouts, events, exceptions *)

QueueTimeout(s) ==
  /\ at["queueTimer"] = Idle /\ bus[s].queueTimer
  /\ bus' = [bus EXCEPT ![s].queued = "no", ![s].queueTimer = FALSE]
  /\ at' = [at EXCEPT !["queueTimer"] = [s |-> s, act |-> bus[s].ioAction]]
  /\ UNCHANGED <<proto, interfered, core, mutex, timerVars, results, blocks, holder, portVars>>

\* The callback of an ioAction is expected, ends what is pending, and finishes the protocol.
Awaited(s, act) == CASE act = "Lock" -> Has(s, "LockPending") [] act = "Write" -> Has(s, "WritePending")
                     [] act = "Read" -> Has(s, "AcceptInput") [] act = "Connect" -> core[s].activeCommand = "connect"
                     [] OTHER -> FALSE
Pending(act) == CASE act = "Lock" -> {"LockPending"} [] act = "Write" -> {"WritePending"} [] OTHER -> {}
TimeoutResult(act) == CASE act = "Lock" -> "LockTimeout" [] act = "Write" -> "WriteTimeout" [] OTHER -> "Fault"

HandleTimeout(s) ==
  LET act == at["queueTimer"].act IN
  /\ at["queueTimer"].s = s /\ mutex[s] = Free
  /\ UNCHANGED blocks
  /\ IF Awaited(s, act)
     THEN Enter(s, "queueTimer", [Drop(s, Pending(act)) EXCEPT !.lastInputStatus = IF act = "Read" THEN "Fault" ELSE @],
                "finish", TimeoutResult(act))
     ELSE NotExpected(s, "queueTimer")
  /\ UNCHANGED <<proto, interfered, bus, timerVars, results, portVars>>

\* timerExpired looks at ioAction, then sets it, then calls eventCallback.
TimerExpires(s) ==
  /\ at["timer"] = Idle /\ bus[s].timer
  /\ bus' = [bus EXCEPT ![s].timer = FALSE]
  /\ at' = IF bus[s].ioAction = "ReceiveEvent" THEN [at EXCEPT !["timer"] = [s |-> s, act |-> "expired"]] ELSE at
  /\ UNCHANGED <<proto, interfered, core, mutex, timerVars, results, blocks, holder, portVars>>

TimerResets(s) ==
  /\ at["timer"] = [s |-> s, act |-> "expired"]
  /\ bus' = [bus EXCEPT ![s].ioAction = "None"]
  /\ at' = [at EXCEPT !["timer"].act = "event"]
  /\ UNCHANGED <<proto, interfered, core, mutex, timerVars, results, blocks, holder, portVars>>

WaitExpires(s) ==
  /\ at["timer"] = Idle /\ waiting[s]
  /\ waiting' = [waiting EXCEPT ![s] = FALSE]
  /\ at' = [at EXCEPT !["timer"] = [s |-> s, act |-> "wait"]]
  /\ UNCHANGED <<proto, interfered, core, mutex, bus, execs, results, blocks, holder, portVars>>

TimerCallback(s) ==
  /\ at["timer"] = [s |-> s, act |-> "wait"] /\ mutex[s] = Free
  /\ UNCHANGED blocks
  /\ IF Has(s, "WaitPending") THEN Enter(s, "timer", Drop(s, {"WaitPending"}), "eval", "Success")
     ELSE NotExpected(s, "timer")
  /\ UNCHANGED <<proto, interfered, bus, timerVars, results, portVars>>

HasEvent(s) == \E i \in DOMAIN proto[s].commands : proto[s].commands[i] = "event"

\* intrCallbackInt32: an event is waited for, or kept.
Interrupt(s) ==
  /\ at["driver"] = Idle /\ HasEvent(s)
  /\ IF bus[s].eventMask
     THEN bus' = [bus EXCEPT ![s].eventMask = FALSE] /\ at' = [at EXCEPT !["driver"] = [s |-> s, act |-> "event"]]
     ELSE bus' = [bus EXCEPT ![s].receivedEvent = TRUE] /\ UNCHANGED at
  /\ UNCHANGED <<proto, interfered, core, mutex, timerVars, results, blocks, holder, portVars>>

AcceptsEventAlways(s) == TRUE
AcceptsEvent(s) == Has(s, "AcceptEvent")

EventCallback(s, t) ==
  /\ at[t] = [s |-> s, act |-> "event"] /\ mutex[s] = Free
  /\ UNCHANGED blocks
  /\ IF ~AcceptsEvent(s) THEN NotExpected(s, t)
     ELSE Enter(s, t, Drop(s, {"AcceptEvent"}), IF t = "timer" THEN "finish" ELSE "eval",
                IF t = "timer" THEN "ReplyTimeout" ELSE "Success")
  /\ UNCHANGED <<proto, interfered, bus, timerVars, results, portVars>>

\* executeCommand, execCallback
ExecCallback(s) ==
  /\ execs[s] /\ mutex[s] = Free
  /\ execs' = [execs EXCEPT ![s] = FALSE]
  /\ UNCHANGED blocks
  /\ IF core[s].activeCommand = "exec"
     THEN \/ Enter(s, "callback", core[s], "eval", "Success")
          \/ Enter(s, "callback", core[s], "finish", "Fault")
     ELSE NotExpected(s, "callback")
  /\ UNCHANGED <<proto, interfered, bus, waiting, results, portVars>>

ConnectionLost ==
  /\ portConnected /\ drops < MaxDrops
  /\ portConnected' = FALSE /\ drops' = drops + 1
  /\ UNCHANGED <<proto, interfered, core, mutex, bus, timerVars, results, at, blocks, holder, untold>>

ConnectionBack ==
  /\ ~portConnected
  /\ portConnected' = TRUE /\ untold' = Streams
  /\ UNCHANGED <<proto, interfered, core, mutex, bus, timerVars, results, at, blocks, holder, drops>>

\* exceptionHandler looks at ioAction without the mutex.
ExceptionHandler(s) ==
  /\ s \in untold /\ at["driver"] = Idle
  /\ untold' = untold \ {s}
  /\ at' = IF portConnected /\ bus[s].ioAction = "None" THEN [at EXCEPT !["driver"] = [s |-> s, act |-> "connect"]] ELSE at
  /\ UNCHANGED <<proto, interfered, core, mutex, bus, timerVars, results, blocks, holder, portConnected, drops>>

\* connectCallback: @init runs again, if there is one.
ConnectCallback(s) ==
  LET init == Started(s, proto[s].onInit, {"InitRun"}) IN
  /\ at["driver"] = [s |-> s, act |-> "connect"] /\ mutex[s] = Free
  /\ UNCHANGED blocks
  /\ CASE core[s].activeCommand = "end" /\ proto[s].onInit # << >> -> Enter(s, "driver", init, "eval", "Success")
       [] core[s].activeCommand = "end" /\ proto[s].onInit = << >> ->
            /\ core' = [core EXCEPT ![s].flags = {}]
            /\ at' = [at EXCEPT !["driver"] = Idle] /\ UNCHANGED <<mutex, holder>>
       [] core[s].activeCommand = "connect" -> Enter(s, "driver", core[s], "eval", "Success")
       [] OTHER -> NotExpected(s, "driver")
  /\ UNCHANGED <<proto, interfered, bus, timerVars, results, portVars>>

-----------------------------------------------------------------------------
EvalCommand(s) ==
  \/ EvalStillWaiting(s) \/ EvalEnd(s) \/ EvalOut(s) \/ FormatFails(s) \/ EvalIn(s) \/ EvalWait(s)
  \/ EvalEvent(s) \/ EvalExec(s) \/ EvalConnect(s) \/ EvalDisconnect(s)
FinishProtocol(s) == FinishHandler(s) \/ FinishUnlock(s) \/ BusFinish(s)
HandleIO(s) ==
  \/ HandleRequest(s) \/ LockHandler(s) \/ WriteHandler(s) \/ ReadHandler(s)
  \/ ConnectHandler(s) \/ DisconnectHandler(s)
Timers(s) == TimerExpires(s) \/ TimerResets(s) \/ WaitExpires(s) \/ TimerCallback(s) \/ EventCallback(s, "timer")
Driver(s) == EventCallback(s, "driver") \/ ExceptionHandler(s) \/ ConnectCallback(s)

Step(s) ==
  \/ EvalCommand(s) \/ FinishProtocol(s) \/ RecordProcess(s) \/ PortTake(s) \/ HandleIO(s)
  \/ QueueTimeout(s) \/ HandleTimeout(s) \/ Timers(s) \/ Driver(s) \/ ExecCallback(s)

Next == ConnectionLost \/ ConnectionBack \/ \E s \in Streams : Process(s) \/ Interrupt(s) \/ Step(s)

Spec == Init /\ [][Next]_vars

\* Every thread runs: the holder of a mutex, portThread, the timers, the callbacks.
Fairness == \A s \in Streams :
  /\ WF_vars(EvalCommand(s)) /\ WF_vars(FinishProtocol(s)) /\ WF_vars(RecordProcess(s))
  /\ WF_vars(PortTake(s)) /\ WF_vars(HandleIO(s)) /\ WF_vars(Driver(s)) /\ WF_vars(ExecCallback(s))
  /\ WF_vars(QueueTimeout(s)) /\ WF_vars(HandleTimeout(s))
  /\ WF_vars(TimerExpires(s) \/ WaitExpires(s))
  /\ WF_vars(TimerResets(s) \/ TimerCallback(s) \/ EventCallback(s, "timer"))
FairSpec == Spec /\ Fairness

-----------------------------------------------------------------------------
(* Properties. None promises anything once a record has been processed during its @init (interfered). *)

Results == {"Success", "LockTimeout", "WriteTimeout", "ReplyTimeout", "ReadTimeout", "ScanError",
            "FormatError", "Offline", "Fault"}

\* Nothing holds the stream, and no callback is on its way in the port thread.
Quiet(s) == mutex[s] = Free /\ at["port"].s # s

\* The timer of an event has expired while another thread finishes the protocol: each waits for the other.
Jammed(s) == mutex[s].next = "busFinish" /\ ~TimerQuiet(s)

\* "The device is unlocked when the protocol terminates" (processing.html): the asynUser blocks
\* the device exactly while the stream owns the bus, once, through errors, handlers and exec.
OwnerBlocks == \A s \in Streams : ~interfered /\ Quiet(s) =>
  /\ blocks[s] = IF Has(s, "BusOwner") THEN 1 ELSE 0
  /\ Has(s, "BusOwner") => holder = s /\ core[s].activeCommand # "end"

\* While a stream owns the device, portThread locks, writes and reads for no other one:
\* the reply reaches the stream that has sent the request.
ExclusiveAccess == \A s, t \in Streams : ~interfered /\ s # t /\ Has(s, "BusOwner") /\ mutex[t] = Free =>
  /\ ~Has(t, "BusOwner")
  /\ ~(at["port"].s = t /\ at["port"].act \in {"Lock", "Write", "Read"})

\* The record is processed again only once for a protocol, after it has finished.
OneResult == \A s \in Streams :
  ~interfered /\ results[s] > 0 => results[s] = 1 /\ core[s].pact /\ (core[s].activeCommand = "end" \/ Has(s, "InitRun"))

\* Something is on its way that goes on with the protocol of an active record,
\* unless the port refused a request after the device was locked.
Driven(s) == \/ mutex[s] # Free \/ bus[s].queued # "no" \/ waiting[s] \/ execs[s] \/ results[s] > 0
             \/ \E t \in Threads : at[t].s = s
AlwaysDriven == \A s \in Streams :
  ~interfered /\ core[s].pact /\ ~core[s].refused /\ ~HasEvent(s) => Driven(s)

\* "After the protocol has finished, the record is processed again, leaving PACT=0" (processing.html):
\* an active record becomes passive, but for a refused request, an event, and the timers that jam.
ProcessCompletes == \A s \in Streams :
  core[s].pact ~> (~core[s].pact \/ interfered \/ core[s].refused \/ HasEvent(s) \/ \E t \in Streams : Jammed(t))

=============================================================================
