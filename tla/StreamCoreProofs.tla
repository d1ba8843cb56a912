-------------------------- MODULE StreamCoreProofs --------------------------
(***************************************************************************)
(* For any number of streams, any protocols of plain commands, of any      *)
(* length and with any handlers and @init, and any number of lost          *)
(* connections: a stream blocks the device while it owns the bus and no    *)
(* longer, reads only what it has asked for, and finishes once; and unless *)
(* a protocol ends in startProtocol, an active record is never left        *)
(* without something that goes on with it. All of this holds until a       *)
(* record is processed while its @init runs.                               *)
(*                                                                         *)
(* What makes these inductive is that a protocol has one carrier: the      *)
(* holder of the mutex, the request in the queue, the thread that has      *)
(* taken it, the timer of a wait or the command of an exec. While it is    *)
(* under way, flags and activeCommand are those the callback looks for, so *)
(* that no callback finds itself unexpected.                               *)
(*                                                                         *)
(* Events and connect are not plain: the exception or the timeout of an    *)
(* earlier protocol may be taken for the answer, and there are then two    *)
(* carriers.                                                               *)
(***************************************************************************)
EXTENDS StreamCore, SequenceTheorems, TLAPS

\* The commands of a plain protocol.
PlainCommands == {"out", "in", "wait", "exec", "disconnect"}

Plain == \A s \in Streams : \A p \in Protocols[s] :
  /\ p.commands \in Seq(PlainCommands) /\ p.onInit \in Seq(PlainCommands)
  /\ \A r \in Handled : p.handlers[r] \in Seq(PlainCommands)

\* The threads that work for a stream without its mutex, and what for.
Workers  == {"port", "queueTimer", "timer"}
Requests == {"Lock", "Write", "Read", "Disconnect"}
Flags    == BusPending \cup {"BusOwner", "AcceptInput", "AcceptEvent", "InitRun"}

PlainProto(s) ==
  /\ proto[s].commands \in Seq(PlainCommands) /\ proto[s].onInit \in Seq(PlainCommands)
  /\ \A r \in Handled : proto[s].handlers[r] \in Seq(PlainCommands)

CoreType == [flags : SUBSET Flags, activeCommand : PlainCommands \cup {"end"}, commandIndex : Seq(PlainCommands),
             runningHandler : Results, unparsedInput : BOOLEAN,
             lastInputStatus : {"Success", "Timeout", "NoReply", "Fault"}, pact : BOOLEAN, refused : BOOLEAN]
MutexType == [by : {None, "client", "callback", "driver"} \cup Workers,
              next : {"none", "eval", "finish", "busFinish"}, status : Results, ret : {"open", "ok", "failed"}]
BusType == [ioAction : Requests \cup {"None"}, timer : {FALSE}, eventMask : {FALSE}, receivedEvent : BOOLEAN,
            queued : {"no", "low", "connect"}, queueTimer : BOOLEAN]
AtType == [s : Streams \cup {None}, act : {"None", "take", "wait", "connect"} \cup Requests]

Types ==
  /\ \A s \in Streams : PlainProto(s)
  /\ core \in [Streams -> CoreType] /\ mutex \in [Streams -> MutexType] /\ bus \in [Streams -> BusType]
  /\ waiting \in [Streams -> BOOLEAN] /\ execs \in [Streams -> BOOLEAN]
  /\ results \in [Streams -> {0, 1}] /\ blocks \in [Streams -> {0, 1}]
  /\ at \in [Threads -> AtType] /\ at["client"] = Idle /\ at["callback"] = Idle
  /\ holder \in Streams \cup {None}

\* The carriers of a protocol.
Held(s) == mutex[s].by # None
At(s, t) == at[t].s = s
Pend(s) == core[s].flags \cap BusPending

\* No protocol has two carriers.
Alone(s) ==
  /\ Held(s) => /\ bus[s].queued = "no" /\ ~waiting[s] /\ ~execs[s]
                /\ \A t \in Workers : At(s, t) => mutex[s].by = t
  /\ mutex[s].by \in Workers \cup {"driver"} => At(s, mutex[s].by)
  /\ bus[s].queued # "no" => ~waiting[s] /\ ~execs[s] /\ \A t \in Workers : ~At(s, t)
  /\ waiting[s] => ~execs[s] /\ \A t \in Workers : ~At(s, t)
  /\ execs[s] => \A t \in Workers : ~At(s, t)
  /\ \A t, u \in Workers : At(s, t) /\ At(s, u) => t = u
  /\ bus[s].queueTimer => bus[s].queued = "low"

\* What the flags and the active command say while a request is on its way.
WaitsFor(flags, command, a) ==
  /\ a \in Requests
  /\ a = "Lock" => flags \cap BusPending = {"LockPending"} /\ "BusOwner" \notin flags /\ command = "out"
  /\ a = "Write" => flags \cap BusPending = {"WritePending"} /\ "BusOwner" \in flags /\ command = "out"
  /\ a = "Read" => flags \cap BusPending = {} /\ "AcceptInput" \in flags /\ command = "in"
  /\ a = "Disconnect" => flags \cap BusPending = {} /\ command = "disconnect"
Waits(s, a) == WaitsFor(core[s].flags, core[s].activeCommand, a)

\* What the port thread does, or is about to do.
PortAct(s) == IF at["port"].act = "take" THEN bus[s].ioAction ELSE at["port"].act

\* Every carrier is expected by the flags and the command.
Expected(s) ==
  /\ bus[s].queued # "no" => Waits(s, bus[s].ioAction) /\ (bus[s].queued = "connect" <=> bus[s].ioAction = "Disconnect")
  /\ At(s, "port") => IF Held(s) THEN at["port"].act # "take" ELSE Waits(s, PortAct(s))
  /\ At(s, "queueTimer") => at["queueTimer"].act # "Disconnect" /\ (~Held(s) => Waits(s, at["queueTimer"].act))
  /\ At(s, "timer") => at["timer"].act = "wait"
  /\ waiting[s] \/ (At(s, "timer") /\ ~Held(s)) => Pend(s) = {"WaitPending"} /\ core[s].activeCommand = "wait"
  /\ execs[s] => Pend(s) = {} /\ core[s].activeCommand = "exec" /\ ~Has(s, "BusOwner")

\* What the holder of the mutex may do next; a client has no device yet.
Running(s) ==
  /\ ~Held(s) => mutex[s] = Free
  /\ Held(s) => mutex[s].next # "none"
  /\ mutex[s].next = "eval" => Pend(s) = {}
  /\ mutex[s].next = "finish" /\ mutex[s].status # "Fault" => Pend(s) = {}
  /\ mutex[s].next = "busFinish" => core[s].activeCommand = "end" /\ ~Has(s, "BusOwner")
  /\ mutex[s].by = "client" => ~core[s].pact /\ ~Has(s, "InitRun") /\ ~Has(s, "BusOwner")
  /\ mutex[s].by = "client" /\ mutex[s].ret = "failed" =>
       mutex[s].next # "eval" /\ (mutex[s].next = "finish" => mutex[s].status \notin Handled)

Carried(s) == Held(s) \/ bus[s].queued # "no" \/ waiting[s] \/ execs[s] \/ \E t \in Workers : At(s, t)

\* The record is active while its protocol is carried, until it takes the one result.
Active(s) ==
  /\ Carried(s) /\ mutex[s].by # "client" /\ ~Has(s, "InitRun") => core[s].pact
  /\ Has(s, "BusOwner") /\ ~Has(s, "InitRun") => core[s].pact
  /\ results[s] > 0 => core[s].pact /\ (Has(s, "InitRun") \/ (core[s].activeCommand = "end" /\ ~Carried(s)))

\* The owner of the bus blocks the device once, and is its holder when the port thread returns.
Owner(s) ==
  /\ blocks[s] = IF Has(s, "BusOwner") THEN 1 ELSE 0
  /\ ~Held(s) /\ Has(s, "BusOwner") => core[s].activeCommand # "end"
  /\ Has(s, "BusOwner") => holder = s \/ (mutex[s].by = "port" /\ holder = None)
  /\ At(s, "port") /\ PortAct(s) # "Disconnect" => holder \in {None, s}
  /\ holder = s => Has(s, "BusOwner")

Local(s) == Alone(s) /\ Expected(s) /\ Running(s) /\ Active(s) /\ Owner(s)

IInv == Types /\ \A s \in Streams : Local(s)

\* What a step of a stream leaves as it is.
Frame(s) ==
  /\ \A u \in Streams \ {s} :
       /\ core'[u] = core[u] /\ mutex'[u] = mutex[u] /\ bus'[u] = bus[u]
       /\ waiting'[u] = waiting[u] /\ execs'[u] = execs[u] /\ results'[u] = results[u] /\ blocks'[u] = blocks[u]
  /\ \A t \in Threads : at'[t] = at[t] \/ (at[t].s \in {None, s} /\ at'[t].s \in {None, s})
  /\ holder' = holder \/ (holder \in {None, s} /\ (holder' = None \/ (holder' = s /\ At(s, "port"))))

\* What holds for a stream is left alone by a step of another one.
LEMMA OthersStay ==
  ASSUME IInv, NEW s \in Streams, Frame(s), Types', Local(s)'
  PROVE  IInv'
<1> SUFFICES ASSUME NEW u \in Streams \ {s} PROVE Local(u)'
  BY DEF IInv
<1>1. Local(u) /\ u # None /\ s # None /\ Types
  BY StreamsAssumption DEF IInv
<1>2. /\ core'[u] = core[u] /\ mutex'[u] = mutex[u] /\ bus'[u] = bus[u]
      /\ waiting'[u] = waiting[u] /\ execs'[u] = execs[u] /\ results'[u] = results[u] /\ blocks'[u] = blocks[u]
  BY DEF Frame
<1>3. \A t \in Threads : /\ At(u, t)' = At(u, t)
                         /\ At(u, t) => at'[t] = at[t]
  BY <1>1 DEF Frame, At
<1>4. \A t \in Workers \cup {"driver"} : t \in Threads
  BY DEF Workers, Threads
<1>5. Alone(u)'
  BY <1>1, <1>2, <1>3, <1>4 DEF Local, Alone, Held, Types, MutexType
<1>6. Expected(u)'
  <2>1. At(u, "port") => PortAct(u)' = PortAct(u)
    BY <1>2, <1>3, <1>4 DEF PortAct, Workers
  <2> QED BY <1>1, <1>2, <1>3, <1>4, <2>1 DEF Local, Expected, Waits, WaitsFor, Pend, Has, Held, Workers
<1>7. Running(u)'
  BY <1>1, <1>2 DEF Local, Running, Pend, Has, Held
<1>8. Active(u)'
  BY <1>1, <1>2, <1>3, <1>4 DEF Local, Active, Carried, Held, Has
<1>9. Owner(u)'
  <2>1. At(u, "port") => PortAct(u)' = PortAct(u)
    BY <1>2, <1>3, <1>4 DEF PortAct, Workers
  <2>2. ~(At(u, "port") /\ At(s, "port"))
    BY DEF At
  <2>3. mutex[u].by = "port" => At(u, "port")
    BY <1>1 DEF Local, Alone, Workers
  <2>4. holder' = holder \/ (holder \in {None, s} /\ (holder' = None \/ (holder' = s /\ At(s, "port"))))
    BY DEF Frame
  <2> QED BY <1>1, <1>2, <1>3, <1>4, <2>1, <2>2, <2>3, <2>4 DEF Local, Owner, Has, Held, Workers
<1> QED BY <1>5, <1>6, <1>7, <1>8, <1>9 DEF Local

-----------------------------------------------------------------------------
(* The mutex: a step goes on, leaves, or takes it. *)

\* The holder of the mutex goes on.
LEMMA ContinueStep ==
  ASSUME IInv, NEW s \in Streams, Held(s), NEW c \in CoreType,
         NEW next \in {"eval", "finish"}, NEW status \in Results, NEW v \in {"open", "ok", "failed"},
         Continue(s, c, next, status, v), UNCHANGED <<proto, timerVars, results, blocks>>,
         bus' = bus \/ bus' = [bus EXCEPT ![s].ioAction = "None"],
         "BusOwner" \in c.flags <=> Has(s, "BusOwner"), "InitRun" \in c.flags <=> Has(s, "InitRun"),
         c.pact = core[s].pact,
         c.flags \cap BusPending = {},
         mutex[s].by = "client" /\ v = "failed" => next # "eval" /\ status \notin Handled
  PROVE  Types' /\ Frame(s) /\ Local(s)'
<1>1. Types /\ Local(s) /\ s # None
  BY StreamsAssumption DEF IInv
<1>2. /\ core' = [core EXCEPT ![s] = c]
      /\ mutex' = [mutex EXCEPT ![s].next = next, ![s].status = status, ![s].ret = v]
      /\ at' = at /\ holder' = holder /\ waiting' = waiting /\ execs' = execs
      /\ proto' = proto /\ results' = results /\ blocks' = blocks
  BY DEF Continue, timerVars
<1>3. /\ core'[s] = c /\ mutex'[s].by = mutex[s].by /\ mutex'[s].next = next /\ mutex'[s].status = status
      /\ mutex'[s].ret = v /\ mutex' \in [Streams -> MutexType]
  <2> DEFINE m == [mutex[s] EXCEPT !.next = next, !.status = status, !.ret = v]
  <2>1. mutex' = [mutex EXCEPT ![s] = m] /\ mutex[s] \in MutexType /\ mutex \in [Streams -> MutexType]
    BY <1>1, <1>2 DEF Types
  <2>2. m.by = mutex[s].by /\ m.next = next /\ m.status = status /\ m.ret = v /\ m \in MutexType
    BY <2>1 DEF MutexType
  <2>3. core'[s] = c
    BY <1>1, <1>2 DEF Types
  <2> HIDE DEF m
  <2> QED BY <2>1, <2>2, <2>3
<1>4. /\ bus'[s].queued = bus[s].queued /\ bus'[s].queueTimer = bus[s].queueTimer
      /\ bus' \in [Streams -> BusType] /\ \A u \in Streams \ {s} : bus'[u] = bus[u]
  <2>1. CASE bus' = bus
    BY <1>1, <2>1 DEF Types
  <2>2. CASE bus' = [bus EXCEPT ![s].ioAction = "None"]
    <3> DEFINE b == [bus[s] EXCEPT !.ioAction = "None"]
    <3>1. bus' = [bus EXCEPT ![s] = b] /\ bus[s] \in BusType /\ bus \in [Streams -> BusType]
      BY <1>1, <2>2 DEF Types
    <3>2. b.queued = bus[s].queued /\ b.queueTimer = bus[s].queueTimer /\ b \in BusType
      BY <3>1 DEF BusType
    <3> HIDE DEF b
    <3> QED BY <3>1, <3>2
  <2> QED BY <2>1, <2>2
<1>14. Types'
  BY <1>1, <1>2, <1>3, <1>4 DEF Types, PlainProto
<1>5. Frame(s)
  BY <1>1, <1>2, <1>4 DEF Types, Frame
<1>6. \A t : At(s, t)' = At(s, t)
  BY <1>2 DEF At
<1>7. Held(s)' /\ mutex'[s] # Free
  BY <1>3 DEF Held, Free
<1>8. bus[s].queued = "no" /\ ~waiting[s] /\ ~execs[s] /\ \A t \in Workers : At(s, t) => mutex[s].by = t
  BY <1>1 DEF Local, Alone
<1>9. Alone(s)'
  BY <1>1, <1>2, <1>3, <1>4, <1>6, <1>7, <1>8 DEF Local, Alone, Workers
<1>10. Expected(s)'
  BY <1>1, <1>2, <1>3, <1>4, <1>6, <1>7, <1>8 DEF Local, Expected
<1>11. Running(s)'
  BY <1>1, <1>2, <1>3, <1>7 DEF Local, Running, Pend, Has
<1>12. Active(s)'
  BY <1>1, <1>2, <1>3, <1>4, <1>6, <1>7 DEF Local, Active, Carried, Has
<1>13. Owner(s)'
  <2>1. At(s, "port") => at["port"].act # "take"
    BY <1>1 DEF Local, Expected
  <2> QED BY <1>1, <1>2, <1>3, <1>4, <1>6, <1>7, <2>1 DEF Local, Owner, Has, PortAct
<1> QED BY <1>14, <1>5, <1>9, <1>10, <1>11, <1>12, <1>13 DEF Local

\* The holder of the mutex leaves, with the next request or timer on its way or none.
LEMMA LeaveStep ==
  ASSUME IInv, NEW s \in Streams, Held(s), NEW c \in CoreType, NEW v \in {"ok", "failed"}, Leave(s, c, v),
         UNCHANGED <<proto, execs, blocks>>,
         \/ results' = results
         \/ /\ results' = [results EXCEPT ![s] = @ + 1] /\ core[s].pact /\ ~Has(s, "InitRun")
            /\ c.activeCommand = "end" /\ bus'[s].queued = "no" /\ ~waiting'[s],
         bus' \in [Streams -> BusType], \A u \in Streams \ {s} : bus'[u] = bus[u],
         waiting' \in [Streams -> BOOLEAN], \A u \in Streams \ {s} : waiting'[u] = waiting[u],
         "BusOwner" \in c.flags <=> Has(s, "BusOwner"), "InitRun" \in c.flags <=> Has(s, "InitRun"),
         c.pact = core[s].pact, "BusOwner" \in c.flags => c.activeCommand # "end",
         bus'[s].queueTimer => bus'[s].queued = "low",
         bus'[s].queued # "no" =>
           /\ ~waiting'[s] /\ WaitsFor(c.flags, c.activeCommand, bus'[s].ioAction)
           /\ bus'[s].queued = "connect" <=> bus'[s].ioAction = "Disconnect",
         waiting'[s] => c.flags \cap BusPending = {"WaitPending"} /\ c.activeCommand = "wait",
         mutex[s].by = "client" /\ (bus'[s].queued # "no" \/ waiting'[s]) => v = "ok" /\ mutex[s].ret # "failed"
  PROVE  Types' /\ Frame(s) /\ Local(s)'
<1>1. Types /\ Local(s) /\ s # None
  BY StreamsAssumption DEF IInv
<1> DEFINE t == mutex[s].by
           p == Decide(s, v) = "ok"
           d == IF t = "client" THEN [c EXCEPT !.pact = p] ELSE c
<1>2. /\ core' = [core EXCEPT ![s] = d] /\ mutex' = [mutex EXCEPT ![s] = Free] /\ at' = [at EXCEPT ![t] = Idle]
      /\ holder' = HolderAfter(s, t)
  BY Zenon DEF Leave
<1>3. t \in Threads /\ t # None
  BY <1>1 DEF Types, MutexType, Held, Threads, Workers
<1>20. p \in BOOLEAN /\ (p <=> Decide(s, v) = "ok")
  OBVIOUS
<1> HIDE DEF p
<1>4. d \in CoreType /\ d.flags = c.flags /\ d.activeCommand = c.activeCommand
      /\ d.pact = IF t = "client" THEN p ELSE core[s].pact
  BY <1>20 DEF CoreType
<1> HIDE DEF d
<1>5. Free \in MutexType /\ Idle \in AtType
  BY DEF Free, MutexType, Results, Handled, Idle, AtType
<1>6. core'[s] = d /\ mutex'[s] = Free /\ ~Held(s)' /\ core' \in [Streams -> CoreType]
      /\ mutex' \in [Streams -> MutexType]
  BY <1>1, <1>2, <1>4, <1>5 DEF Types, Held, Free
<1>7. at' \in [Threads -> AtType] /\ \A w \in Threads : at'[w] = IF w = t THEN Idle ELSE at[w]
  BY <1>1, <1>2, <1>3, <1>5 DEF Types
<1>8. /\ holder' \in Streams \cup {None}
      /\ holder' = IF t = "port" /\ Has(s, "BusOwner") THEN s ELSE holder
  BY <1>1, <1>2 DEF Types, HolderAfter, Local, Owner
<1>9. results' \in [Streams -> {0, 1}] /\ \A u \in Streams \ {s} : results'[u] = results[u]
  BY <1>1 DEF Types, Local, Active, Carried
<1>10. Types'
  BY <1>1, <1>6, <1>7, <1>8, <1>9, <1>3 DEF Types, PlainProto, Threads
<1>11. /\ t \in Workers \cup {"driver"} => At(s, t)
       /\ \A w \in Workers : At(s, w) => w = t
  BY <1>1 DEF Local, Alone, Held
<1>12. \A w \in Workers : ~At(s, w)'
  BY <1>1, <1>7, <1>11 DEF At, Idle, Workers, Threads
<1>13. Frame(s)
  <2>1. at[t].s \in {None, s}
    BY <1>1, <1>3, <1>11 DEF Types, At, Idle, Threads, Workers, MutexType
  <2>2. t = "port" => At(s, "port")
    BY <1>11 DEF Workers
  <2>3. holder' # holder => holder = None
    BY <1>1, <1>8 DEF Local, Owner
  <2> QED BY <1>1, <1>2, <1>7, <1>8, <1>9, <2>1, <2>2, <2>3 DEF Frame, Types, Idle
<1>14. ~execs'[s] /\ blocks'[s] = blocks[s]
  BY <1>1 DEF Local, Alone
<1>15. Alone(s)'
  BY <1>6, <1>12, <1>14, StreamsAssumption DEF Alone, Free, Workers, Threads
<1>16. Expected(s)'
  <2>1. core'[s].flags = c.flags /\ core'[s].activeCommand = c.activeCommand
    BY <1>4, <1>6
  <2>2. ~At(s, "port")' /\ ~At(s, "queueTimer")' /\ ~At(s, "timer")'
    BY <1>12 DEF Workers
  <2> QED BY <1>14, <2>1, <2>2 DEF Expected, Waits, Pend
<1>17. Running(s)'
  BY <1>6, StreamsAssumption DEF Running, Free, Held, Threads
<1>18. Active(s)'
  <2>1. Carried(s)' <=> bus'[s].queued # "no" \/ waiting'[s]
    BY <1>6, <1>12, <1>14 DEF Carried
  <2>2. Has(s, "InitRun")' = Has(s, "InitRun") /\ Has(s, "BusOwner")' = Has(s, "BusOwner")
    BY <1>4, <1>6 DEF Has
  <2>3. Carried(s)
    BY DEF Carried
  <2>4. t # "client" => core'[s].pact = core[s].pact /\ (Has(s, "InitRun") \/ core[s].pact)
    BY <1>1, <1>4, <1>6, <2>3 DEF Local, Active
  <2>5. t = "client" => ~Has(s, "InitRun") /\ ~Has(s, "BusOwner") /\ ~core[s].pact
    BY <1>1 DEF Local, Running
  <2>6. t = "client" /\ (bus'[s].queued # "no" \/ waiting'[s]) => core'[s].pact
    BY <1>1, <1>4, <1>6, <1>20 DEF Decide, Types, MutexType
  <2>7. results[s] > 0 => core[s].pact /\ Has(s, "InitRun")
    BY <1>1, <2>3 DEF Local, Active
  <2>8. results'[s] > 0 => t # "client" /\ core[s].pact
                           /\ (Has(s, "InitRun") \/ (core'[s].activeCommand = "end" /\ ~Carried(s)'))
    BY <1>1, <1>4, <1>6, <2>1, <2>5, <2>7 DEF Types
  <2> QED BY <2>1, <2>2, <2>4, <2>5, <2>6, <2>8 DEF Active
<1>19. Owner(s)'
  BY <1>1, <1>4, <1>6, <1>8, <1>12, <1>14, <1>11 DEF Owner, Local, Has, Workers
<1> QED BY <1>10, <1>13, <1>15, <1>16, <1>17, <1>18, <1>19 DEF Local

\* A callback that the stream waits for takes the mutex.
LEMMA EnterStep ==
  ASSUME IInv, NEW s \in Streams, ~Held(s), NEW t \in Workers \cup {"client", "callback", "driver"},
         NEW c \in CoreType, NEW next \in {"eval", "finish"}, NEW status \in Results,
         Enter(s, t, c, next, status), proto' = proto, waiting' = waiting, results' = results,
         t \in Workers \cup {"driver"} => At(s, t),
         \A w \in Workers : At(s, w) => w = t,
         t = "port" => at["port"].act # "take",
         bus' \in [Streams -> BusType], \A u \in Streams \ {s} : bus'[u] = bus[u],
         execs' \in [Streams -> BOOLEAN], \A u \in Streams \ {s} : execs'[u] = execs[u],
         blocks' \in [Streams -> {0, 1}], \A u \in Streams \ {s} : blocks'[u] = blocks[u],
         bus'[s].queued = "no", ~bus'[s].queueTimer, ~waiting[s], ~execs'[s],
         next = "eval" \/ status # "Fault" => c.flags \cap BusPending = {},
         t = "client" => ~c.pact /\ "InitRun" \notin c.flags /\ "BusOwner" \notin c.flags,
         t # "client" /\ "InitRun" \notin c.flags => c.pact,
         results[s] > 0 => c.pact /\ "InitRun" \in c.flags,
         blocks'[s] = IF "BusOwner" \in c.flags THEN 1 ELSE 0,
         "BusOwner" \in c.flags => holder = s \/ (t = "port" /\ holder = None),
         holder = s => "BusOwner" \in c.flags
  PROVE  Types' /\ Frame(s) /\ Local(s)'
<1>1. Types /\ Local(s) /\ s # None
  BY StreamsAssumption DEF IInv
<1> DEFINE m == [by |-> t, next |-> next, status |-> status, ret |-> "open"]
<1>2. core' = [core EXCEPT ![s] = c] /\ mutex' = [mutex EXCEPT ![s] = m] /\ at' = at /\ holder' = holder
  BY DEF Enter
<1>3. m \in MutexType /\ m.by = t /\ m.next = next /\ m.status = status /\ m.ret = "open"
  BY DEF MutexType
<1>4. t # None
  BY StreamsAssumption DEF Threads, Workers
<1> HIDE DEF m
<1>5. core'[s] = c /\ mutex'[s] = m /\ core' \in [Streams -> CoreType] /\ mutex' \in [Streams -> MutexType]
  BY <1>1, <1>2, <1>3 DEF Types
<1>6. bus'[s] \in BusType /\ Held(s)' /\ mutex'[s] # Free /\ \A w : At(s, w)' = At(s, w)
  BY <1>2, <1>3, <1>4, <1>5 DEF Held, At, Free
<1>7. Types'
  BY <1>1, <1>2, <1>5 DEF Types, PlainProto
<1>8. Frame(s)
  BY <1>1, <1>2, <1>5 DEF Frame, Types
<1>9. Alone(s)'
  BY <1>3, <1>5, <1>6 DEF Alone, Workers
<1>10. Expected(s)'
  <2>1. /\ At(s, "queueTimer") => at["queueTimer"].act # "Disconnect"
        /\ At(s, "timer") => at["timer"].act = "wait"
    BY <1>1 DEF Local, Expected
  <2>2. At(s, "port") => t = "port"
    BY DEF Workers
  <2> QED BY <1>2, <1>6, <2>1, <2>2 DEF Expected
<1>11. Running(s)'
  BY <1>3, <1>5, <1>6 DEF Running, Pend, Has
<1>12. Active(s)'
  BY <1>2, <1>3, <1>5 DEF Active, Has
<1>13. Owner(s)'
  <2>1. At(s, "port") => t = "port" /\ PortAct(s)' = PortAct(s)
    BY <1>2 DEF Workers, PortAct
  <2>2. At(s, "port") /\ PortAct(s) # "Disconnect" => holder \in {None, s}
    BY <1>1 DEF Local, Owner
  <2> QED BY <1>2, <1>3, <1>5, <1>6, <2>1, <2>2 DEF Owner, Has
<1> QED BY <1>7, <1>8, <1>9, <1>10, <1>11, <1>12, <1>13 DEF Local

-----------------------------------------------------------------------------
(* evalCommand *)

\* evalCommand takes the next command.
LEMMA EvalStart ==
  ASSUME IInv, NEW s \in Streams, mutex[s].next = "eval"
  PROVE  /\ Types /\ Local(s) /\ Held(s) /\ Pend(s) = {} /\ core[s] \in CoreType
         /\ mutex[s].by = "client" => mutex[s].ret # "failed"
<1>1. Types /\ Local(s)
  BY DEF IInv
<1>2. Held(s)
  BY <1>1 DEF Local, Running, Free
<1> QED BY <1>1, <1>2 DEF Local, Running, Types

\* evalCommand takes the command and leaves the rest.
LEMMA EvalCommandTaken ==
  ASSUME IInv, NEW s \in Streams, NEW cmd \in PlainCommands, Eval(s, cmd)
  PROVE  /\ Evaluated(s) \in CoreType /\ Evaluated(s).activeCommand = cmd
         /\ Evaluated(s).flags = core[s].flags /\ Evaluated(s).pact = core[s].pact
         /\ Evaluated(s).refused = core[s].refused
<1>1. core[s] \in CoreType /\ Command(s) = cmd /\ cmd # "end"
  BY EvalStart DEF Eval, PlainCommands
<1>2. core[s].commandIndex \in Seq(PlainCommands) /\ core[s].commandIndex # << >>
  BY <1>1 DEF CoreType, Command
<1>3. Tail(core[s].commandIndex) \in Seq(PlainCommands)
  BY <1>2, HeadTailProperties
<1> QED BY <1>1, <1>3 DEF Evaluated, CoreType

\* What is evaluated is a command of the protocol, or its end.
LEMMA PlainCommandIs ==
  ASSUME IInv, NEW s \in Streams, mutex[s].next = "eval"
  PROVE  Command(s) \in PlainCommands \cup {"end"}
<1>1. core[s].commandIndex \in Seq(PlainCommands)
  BY EvalStart DEF CoreType
<1> QED BY <1>1, HeadTailProperties DEF Command

\* A request is queued, or refused.
LEMMA RequestStep ==
  ASSUME IInv, NEW s \in Streams, mutex[s].next = "eval", NEW c \in CoreType, NEW act \in {"Write", "Read"},
         Request(s, c, act, "low"),
         UNCHANGED <<proto, timerVars, results, blocks>>,
         "BusOwner" \in c.flags <=> Has(s, "BusOwner"), "InitRun" \in c.flags <=> Has(s, "InitRun"),
         c.pact = core[s].pact, WaitsFor(c.flags, c.activeCommand, act)
  PROVE  Types' /\ Frame(s) /\ Local(s)'
<1> DEFINE refusal == [c EXCEPT !.refused = TRUE]
           b == [bus[s] EXCEPT !.ioAction = act, !.queued = "low", !.queueTimer = TRUE]
           b2 == [bus[s] EXCEPT !.ioAction = act]
<1>1. /\ Types /\ Local(s) /\ Held(s) /\ bus[s] \in BusType /\ bus[s].queued = "no" /\ ~bus[s].queueTimer
      /\ ~waiting[s] /\ (mutex[s].by = "client" => mutex[s].ret # "failed")
  BY EvalStart DEF Types, Local, Alone
<1>2. waiting' = waiting /\ execs' = execs /\ UNCHANGED <<proto, execs, blocks>> /\ results' = results
  BY DEF timerVars
<1>3. "BusOwner" \in c.flags => c.activeCommand # "end"
  BY DEF WaitsFor, Requests
<1>4. CASE Queueable(s, "low")
  <2>1. bus' = [bus EXCEPT ![s] = b] /\ Leave(s, c, "ok")
    BY <1>4 DEF Request, Queue
  <2>2. b \in BusType /\ b.queued = "low" /\ b.ioAction = act
    BY <1>1 DEF BusType, Requests
  <2> HIDE DEF b
  <2>3. bus' \in [Streams -> BusType] /\ bus'[s] = b /\ \A u \in Streams \ {s} : bus'[u] = bus[u]
    BY <1>1, <2>1, <2>2 DEF Types
  <2> QED BY <1>1, <1>2, <1>3, <2>1, <2>2, <2>3, LeaveStep DEF Types
<1>5. CASE ~Queueable(s, "low")
  <2>1. bus' = [bus EXCEPT ![s] = b2] /\ Leave(s, refusal, "failed")
    BY <1>5 DEF Request
  <2>2. b2 \in BusType /\ b2.queued = "no" /\ ~b2.queueTimer
    BY <1>1 DEF BusType, Requests
  <2>3. refusal \in CoreType /\ refusal.flags = c.flags /\ refusal.pact = c.pact
        /\ refusal.activeCommand = c.activeCommand
    BY DEF CoreType
  <2> HIDE DEF b2, refusal
  <2>4. bus' \in [Streams -> BusType] /\ bus'[s] = b2 /\ \A u \in Streams \ {s} : bus'[u] = bus[u]
    BY <1>1, <2>1, <2>2 DEF Types
  <2> QED BY <1>1, <1>2, <1>3, <2>1, <2>2, <2>3, <2>4, LeaveStep DEF Types
<1> QED BY <1>4, <1>5

\* The client learns of a failure only if the first command fails.
LEMMA DecideValue ==
  ASSUME IInv, NEW s \in Streams, mutex[s].next = "eval", NEW v \in {"ok", "failed"}
  PROVE  /\ Decide(s, v) \in {"open", "ok", "failed"}
         /\ mutex[s].by = "client" /\ v = "ok" => Decide(s, v) # "failed"
  BY EvalStart DEF Decide, Types, MutexType

\* evalCommand: the end of the protocol.
LEMMA EvalEndStep ==
  ASSUME IInv, NEW s \in Streams, EvalEnd(s)
  PROVE  Types' /\ Frame(s) /\ Local(s)'
<1> DEFINE c == [core[s] EXCEPT !.activeCommand = "end"]
<1>1. mutex[s].next = "eval" /\ Continue(s, c, "finish", "Success", Decide(s, "ok"))
      /\ UNCHANGED <<proto, timerVars, results, blocks>> /\ bus' = bus
  BY DEF EvalEnd, Eval
<1>2. Held(s) /\ Pend(s) = {} /\ core[s] \in CoreType
  BY <1>1, EvalStart
<1>3. c \in CoreType /\ c.flags = core[s].flags /\ c.pact = core[s].pact
  BY <1>2 DEF CoreType
<1> HIDE DEF c
<1>4. "Success" \in Results /\ "Success" \notin Handled
  BY DEF Results, Handled
<1> QED BY <1>1, <1>2, <1>3, <1>4, DecideValue, ContinueStep DEF Has, Pend

\* evalCommand: out asks for the device, or for a write when it owns it.
LEMMA EvalOutStep ==
  ASSUME IInv, NEW s \in Streams, EvalOut(s)
  PROVE  Types' /\ Frame(s) /\ Local(s)'
<1> DEFINE c == [Evaluated(s) EXCEPT !.unparsedInput = FALSE, !.flags = @ \cup Early(s)]
           w == [c EXCEPT !.flags = @ \cup {"WritePending"}]
           k == [c EXCEPT !.flags = @ \cup {"LockPending"}]
<1>1. mutex[s].next = "eval" /\ Eval(s, "out") /\ "out" \in PlainCommands
      /\ UNCHANGED <<proto, timerVars, results, blocks>>
  BY DEF EvalOut, Eval, PlainCommands
<1>2. /\ Types /\ Local(s) /\ Held(s) /\ Pend(s) = {} /\ core[s] \in CoreType
      /\ mutex[s].by = "client" => mutex[s].ret # "failed"
  BY <1>1, EvalStart
<1>3. Early(s) \subseteq {"AcceptInput", "AcceptEvent"}
  BY DEF Early
<1>4. /\ c \in CoreType /\ c.flags = core[s].flags \cup Early(s) /\ c.pact = core[s].pact /\ c.activeCommand = "out"
  <2> DEFINE e == Evaluated(s)
             f == core[s].flags \cup Early(s)
  <2>1. /\ e \in CoreType /\ e.activeCommand = "out" /\ e.flags = core[s].flags /\ e.pact = core[s].pact
    BY <1>1, EvalCommandTaken
  <2>2. f \in SUBSET Flags
    BY <1>2, <1>3 DEF CoreType, Flags
  <2>3. c = [e EXCEPT !.unparsedInput = FALSE, !.flags = f]
    BY <2>1
  <2> HIDE DEF e, f, c
  <2>4. c \in CoreType /\ c.flags = f /\ c.pact = e.pact /\ c.activeCommand = e.activeCommand
    BY <2>1, <2>2, <2>3 DEF CoreType
  <2> QED BY <2>1, <2>4 DEF f
<1>5. c.flags \cap BusPending = {} /\ ("BusOwner" \in c.flags <=> Has(s, "BusOwner"))
      /\ ("InitRun" \in c.flags <=> Has(s, "InitRun"))
  BY <1>2, <1>3, <1>4 DEF Pend, Has, BusPending
<1>6. \/ Has(s, "BusOwner") /\ Request(s, w, "Write", "low")
      \/ ~Has(s, "BusOwner") /\ Queue(s, "Lock", "low", ~Has(s, "InitRun")) /\ Leave(s, k, "ok")
      \/ bus' = [bus EXCEPT ![s].ioAction = "None"] /\ Continue(s, c, "finish", "Offline", Decide(s, "failed"))
  <2>1. CASE Has(s, "BusOwner")
    BY <2>1 DEF EvalOut
  <2>2. CASE ~Has(s, "BusOwner") /\ Queueable(s, "low")
    BY <2>2 DEF EvalOut
  <2>3. CASE ~Has(s, "BusOwner") /\ ~Queueable(s, "low")
    BY <2>3 DEF EvalOut
  <2> QED BY <2>1, <2>2, <2>3
<1> HIDE DEF c
<1>7. w \in CoreType /\ w.flags = c.flags \cup {"WritePending"} /\ w.pact = core[s].pact /\ w.activeCommand = "out"
  BY <1>4 DEF CoreType, Flags, BusPending
<1>8. k \in CoreType /\ k.flags = c.flags \cup {"LockPending"} /\ k.pact = core[s].pact /\ k.activeCommand = "out"
  BY <1>4 DEF CoreType, Flags, BusPending
<1> HIDE DEF w, k
<1>9. CASE Has(s, "BusOwner") /\ Request(s, w, "Write", "low")
  <2>1. WaitsFor(w.flags, w.activeCommand, "Write")
    BY <1>5, <1>7, <1>9 DEF WaitsFor, Requests, BusPending
  <2>2. ("BusOwner" \in w.flags <=> Has(s, "BusOwner")) /\ ("InitRun" \in w.flags <=> Has(s, "InitRun"))
    BY <1>5, <1>7
  <2> QED BY <1>1, <1>7, <1>9, <2>1, <2>2, RequestStep
<1>10. CASE ~Has(s, "BusOwner") /\ Queue(s, "Lock", "low", ~Has(s, "InitRun")) /\ Leave(s, k, "ok")
  <2> DEFINE timed == ~Has(s, "InitRun")
             b == [bus[s] EXCEPT !.ioAction = "Lock", !.queued = "low", !.queueTimer = timed]
  <2>1. bus' = [bus EXCEPT ![s] = b] /\ bus[s] \in BusType /\ timed \in BOOLEAN
    BY <1>2, <1>10 DEF Queue, Types
  <2> HIDE DEF timed
  <2>2. b \in BusType /\ b.queued = "low" /\ b.ioAction = "Lock"
    BY <2>1 DEF BusType, Requests
  <2> HIDE DEF b
  <2>3. bus' \in [Streams -> BusType] /\ bus'[s] = b /\ \A u \in Streams \ {s} : bus'[u] = bus[u]
    BY <1>2, <2>1, <2>2 DEF Types
  <2>4. WaitsFor(k.flags, k.activeCommand, "Lock")
    BY <1>5, <1>8, <1>10 DEF WaitsFor, Requests, BusPending
  <2>5. ("BusOwner" \in k.flags <=> Has(s, "BusOwner")) /\ ("InitRun" \in k.flags <=> Has(s, "InitRun"))
        /\ "BusOwner" \notin k.flags
    BY <1>5, <1>8, <1>10
  <2>6. ~waiting[s] /\ waiting' = waiting /\ execs' = execs /\ waiting \in [Streams -> BOOLEAN]
    BY <1>1, <1>2 DEF Local, Alone, timerVars, Types
  <2> QED BY <1>1, <1>2, <1>8, <1>10, <2>2, <2>3, <2>4, <2>5, <2>6, LeaveStep
<1>11. CASE bus' = [bus EXCEPT ![s].ioAction = "None"] /\ Continue(s, c, "finish", "Offline", Decide(s, "failed"))
  <2>1. "Offline" \in Results /\ "Offline" \notin Handled
    BY DEF Results, Handled
  <2> QED BY <1>1, <1>2, <1>4, <1>5, <1>11, <2>1, DecideValue, ContinueStep
<1> QED BY <1>6, <1>9, <1>10, <1>11

\* evalCommand: a command that cannot be formatted finishes the protocol.
LEMMA FormatFailsStep ==
  ASSUME IInv, NEW s \in Streams, FormatFails(s)
  PROVE  Types' /\ Frame(s) /\ Local(s)'
<1> DEFINE u == core[s].unparsedInput /\ Command(s) = "exec"
           e == Evaluated(s)
           c == [e EXCEPT !.unparsedInput = u]
<1>1. PICK cmd \in {"out", "exec"} : Eval(s, cmd)
  BY DEF FormatFails
<1>2. /\ mutex[s].next = "eval" /\ cmd \in PlainCommands
      /\ UNCHANGED <<proto, timerVars, results, blocks>> /\ bus' = bus
  BY <1>1 DEF FormatFails, Eval, PlainCommands
<1>3. /\ e \in CoreType /\ e.flags = core[s].flags /\ e.pact = core[s].pact
      /\ e.unparsedInput = core[s].unparsedInput
  BY <1>1, <1>2, EvalCommandTaken, EvalStart DEF Evaluated, CoreType
<1>4. Continue(s, [e EXCEPT !.unparsedInput = @ /\ Command(s) = "exec"], "finish", "FormatError", Decide(s, "failed"))
  BY DEF FormatFails
<1>5. Continue(s, c, "finish", "FormatError", Decide(s, "failed"))
  <2> HIDE DEF e
  <2> QED BY <1>3, <1>4
<1>6. u \in BOOLEAN
  OBVIOUS
<1> HIDE DEF u, e
<1>7. c \in CoreType /\ c.flags = core[s].flags /\ c.pact = core[s].pact
  BY <1>3, <1>6 DEF CoreType
<1> HIDE DEF c
<1>8. "FormatError" \in Results /\ "FormatError" \notin Handled /\ Held(s) /\ Pend(s) = {}
  BY <1>2, EvalStart DEF Results, Handled
<1> QED BY <1>2, <1>5, <1>7, <1>8, DecideValue, ContinueStep DEF Has, Pend

\* What readCallback makes of its input is a result.
LEMMA ParsedStatus ==
  ASSUME NEW io \in {"Success", "Timeout", "NoReply", "Fault"}, NEW r \in Parse(io) \ {"more"}
  PROVE  Then(r) \in {"eval", "finish"} /\ Status(r) \in Results
  BY DEF Parse, Then, Status, Results, Handled

\* evalCommand: in asks for a read, or parses what is left.
LEMMA EvalInStep ==
  ASSUME IInv, NEW s \in Streams, EvalIn(s)
  PROVE  Types' /\ Frame(s) /\ Local(s)'
<1> DEFINE e == Evaluated(s)
           c == [Evaluated(s) EXCEPT !.flags = @ \cup {"AcceptInput"}]
<1>1. Eval(s, "in") /\ mutex[s].next = "eval" /\ "in" \in PlainCommands /\ UNCHANGED <<proto, timerVars, results, blocks>>
  BY DEF EvalIn, Eval, PlainCommands
<1>2. /\ Types /\ Local(s) /\ Held(s) /\ Pend(s) = {}
      /\ mutex[s].by = "client" => mutex[s].ret # "failed"
  BY <1>1, EvalStart
<1>3. /\ e \in CoreType /\ e.activeCommand = "in" /\ e.flags = core[s].flags /\ e.pact = core[s].pact
  BY <1>1, EvalCommandTaken
<1>4. c \in CoreType /\ c.flags = core[s].flags \cup {"AcceptInput"} /\ c.pact = core[s].pact /\ c.activeCommand = "in"
  <2> HIDE DEF e
  <2> QED BY <1>3 DEF CoreType, Flags, e
<1>5. c.flags \cap BusPending = {} /\ ("BusOwner" \in c.flags <=> Has(s, "BusOwner"))
      /\ ("InitRun" \in c.flags <=> Has(s, "InitRun"))
  BY <1>2, <1>4 DEF Pend, Has, BusPending
<1>6. \/ Request(s, c, "Read", "low")
      \/ /\ UNCHANGED bus
         /\ \E r \in Parse(c.lastInputStatus) \ {"more"} : \E left \in LeftBy(s, r) :
              Continue(s, [c EXCEPT !.unparsedInput = left], Then(r), Status(r), Decide(s, "ok"))
  BY Zenon DEF EvalIn
<1> HIDE DEF c
<1>7. CASE Request(s, c, "Read", "low")
  <2>1. WaitsFor(c.flags, c.activeCommand, "Read")
    BY <1>4, <1>5 DEF WaitsFor, Requests, BusPending
  <2> QED BY <1>1, <1>4, <1>5, <1>7, <2>1, RequestStep
<1>8. ASSUME bus' = bus, NEW r \in Parse(c.lastInputStatus) \ {"more"}, NEW left \in LeftBy(s, r),
             Continue(s, [c EXCEPT !.unparsedInput = left], Then(r), Status(r), Decide(s, "ok"))
      PROVE  Types' /\ Frame(s) /\ Local(s)'
  <2> DEFINE d == [c EXCEPT !.unparsedInput = left]
  <2>1. left \in BOOLEAN
    BY <1>2 DEF LeftBy, Types, CoreType
  <2>2. d \in CoreType /\ d.flags = c.flags /\ d.pact = c.pact
    BY <1>4, <2>1 DEF CoreType
  <2>3. Then(r) \in {"eval", "finish"} /\ Status(r) \in Results
    BY <1>4, <1>8, ParsedStatus DEF CoreType
  <2> HIDE DEF d
  <2>4. Continue(s, d, Then(r), Status(r), Decide(s, "ok"))
    BY <1>8 DEF d
  <2> QED BY <1>1, <1>2, <1>4, <1>5, <1>8, <2>2, <2>3, <2>4, DecideValue, ContinueStep
<1> QED BY <1>6, <1>7, <1>8

\* evalCommand: wait starts the timer.
LEMMA EvalWaitStep ==
  ASSUME IInv, NEW s \in Streams, EvalWait(s)
  PROVE  Types' /\ Frame(s) /\ Local(s)'
<1> DEFINE e == Evaluated(s)
           c == [Evaluated(s) EXCEPT !.flags = @ \cup {"WaitPending"}]
<1>1. /\ Eval(s, "wait") /\ mutex[s].next = "eval" /\ "wait" \in PlainCommands
      /\ waiting' = [waiting EXCEPT ![s] = TRUE] /\ Leave(s, c, "ok")
      /\ UNCHANGED <<proto, bus, execs, results, blocks>>
  BY DEF EvalWait, Eval, PlainCommands
<1>2. /\ Types /\ Local(s) /\ Held(s) /\ Pend(s) = {}
      /\ mutex[s].by = "client" => mutex[s].ret # "failed"
  BY <1>1, EvalStart
<1>3. /\ e \in CoreType /\ e.activeCommand = "wait" /\ e.flags = core[s].flags /\ e.pact = core[s].pact
  BY <1>1, EvalCommandTaken
<1>4. c \in CoreType /\ c.flags = core[s].flags \cup {"WaitPending"} /\ c.pact = core[s].pact /\ c.activeCommand = "wait"
  <2> HIDE DEF e
  <2> QED BY <1>3 DEF CoreType, Flags, BusPending, e
<1> HIDE DEF c
<1>5. c.flags \cap BusPending = {"WaitPending"} /\ ("BusOwner" \in c.flags <=> Has(s, "BusOwner"))
      /\ ("InitRun" \in c.flags <=> Has(s, "InitRun"))
  BY <1>2, <1>4 DEF Pend, Has, BusPending
<1>6. /\ waiting' \in [Streams -> BOOLEAN] /\ \A u \in Streams \ {s} : waiting'[u] = waiting[u]
      /\ bus' = bus /\ bus \in [Streams -> BusType] /\ bus[s].queued = "no" /\ ~bus[s].queueTimer
  BY <1>1, <1>2 DEF Types, Local, Alone
<1> QED BY <1>1, <1>2, <1>4, <1>5, <1>6, LeaveStep

\* evalCommand: disconnect asks for the port, connected or not, or finishes the protocol.
LEMMA EvalDisconnectStep ==
  ASSUME IInv, NEW s \in Streams, EvalDisconnect(s)
  PROVE  Types' /\ Frame(s) /\ Local(s)'
<1> DEFINE c == Evaluated(s)
           b == [bus[s] EXCEPT !.ioAction = "Disconnect", !.queued = "connect", !.queueTimer = FALSE]
<1>1. /\ Eval(s, "disconnect") /\ mutex[s].next = "eval" /\ "disconnect" \in PlainCommands
      /\ UNCHANGED <<proto, timerVars, results, blocks>>
  BY DEF EvalDisconnect, Eval, PlainCommands
<1>2. /\ Types /\ Local(s) /\ Held(s) /\ Pend(s) = {} /\ bus[s] \in BusType /\ bus[s].queued = "no" /\ ~waiting[s]
      /\ mutex[s].by = "client" => mutex[s].ret # "failed"
  BY <1>1, EvalStart DEF Types, Local, Alone
<1>3. c \in CoreType /\ c.activeCommand = "disconnect" /\ c.flags = core[s].flags /\ c.pact = core[s].pact
  BY <1>1, EvalCommandTaken
<1>4. \/ bus' = [bus EXCEPT ![s] = b] /\ Leave(s, c, "ok")
      \/ /\ Queueable(s, "connect") = FALSE
         /\ Continue(s, c, "finish", "Fault", Decide(s, "failed"))
  BY DEF EvalDisconnect, Queue, Queueable
<1>5. CASE bus' = [bus EXCEPT ![s] = b] /\ Leave(s, c, "ok")
  <2>1. b \in BusType /\ b.queued = "connect" /\ b.ioAction = "Disconnect" /\ ~b.queueTimer
    BY <1>2 DEF BusType, Requests
  <2> HIDE DEF b, c
  <2>2. bus' \in [Streams -> BusType] /\ bus'[s] = b /\ \A u \in Streams \ {s} : bus'[u] = bus[u]
    BY <1>2, <1>5, <2>1 DEF Types
  <2>3. WaitsFor(c.flags, c.activeCommand, "Disconnect")
    BY <1>2, <1>3 DEF WaitsFor, Requests, Pend
  <2>4. waiting' = waiting /\ execs' = execs /\ results' = results /\ blocks' = blocks /\ proto' = proto
    BY <1>1 DEF timerVars
  <2> QED BY <1>2, <1>3, <1>5, <2>1, <2>2, <2>3, <2>4, LeaveStep DEF Has, Types
<1>6. CASE Queueable(s, "connect") = FALSE
  <2>1. FALSE
    BY <1>2, <1>6 DEF Queueable
  <2> QED BY <2>1
<1> QED BY <1>4, <1>5, <1>6

\* exec gives the device up and leaves; the command runs in a thread of its own.
LEMMA EvalExecStep ==
  ASSUME IInv, NEW s \in Streams, EvalExec(s)
  PROVE  Types' /\ Frame(s) /\ Local(s)'
<1> DEFINE e == Evaluated(s)
           t == mutex[s].by
           p == IF t = "client" THEN Decide(s, "ok") = "ok" ELSE core[s].pact
           c == [Evaluated(s) EXCEPT !.flags = @ \ {"BusOwner"},
                    !.pact = IF mutex[s].by = "client" THEN Decide(s, "ok") = "ok" ELSE @]
           f == core[s].flags \ {"BusOwner"}
<1>1. /\ Eval(s, "exec") /\ mutex[s].next = "eval" /\ "exec" \in PlainCommands
      /\ execs' = [execs EXCEPT ![s] = TRUE]
      /\ IF Has(s, "BusOwner") THEN Unblock(s) ELSE UNCHANGED blocks
      /\ core' = [core EXCEPT ![s] = c] /\ mutex' = [mutex EXCEPT ![s] = Free] /\ at' = [at EXCEPT ![t] = Idle]
      /\ holder' = Unblocked(s)
      /\ UNCHANGED <<proto, bus, waiting, results>>
  BY DEF EvalExec, Eval, PlainCommands
<1>2. /\ Types /\ Local(s) /\ Held(s) /\ Pend(s) = {} /\ s # None
      /\ mutex[s].by = "client" => mutex[s].ret # "failed"
  BY <1>1, EvalStart, StreamsAssumption
<1>3. /\ e \in CoreType /\ e.activeCommand = "exec" /\ e.flags = core[s].flags /\ e.pact = core[s].pact
  BY <1>1, EvalCommandTaken
<1>4. p \in BOOLEAN /\ (t = "client" => p)
  <2>1. core[s].pact \in BOOLEAN
    BY <1>2 DEF Types, CoreType
  <2>2. t = "client" => Decide(s, "ok") = "ok"
    BY <1>2 DEF Types, MutexType, Decide
  <2>3. CASE t = "client"
    BY <2>2, <2>3
  <2>4. CASE t # "client"
    BY <2>1, <2>4
  <2> QED BY <2>3, <2>4
<1>5. c = [e EXCEPT !.flags = f, !.pact = p]
  <2> HIDE DEF e
  <2>1. c = [e EXCEPT !.flags = @ \ {"BusOwner"}, !.pact = IF mutex[s].by = "client" THEN Decide(s, "ok") = "ok" ELSE @]
    BY DEF e
  <2> QED BY <1>3, <2>1
<1> HIDE DEF e, p, c
<1>6. c \in CoreType /\ c.flags = f /\ c.pact = p /\ c.activeCommand = "exec"
  BY <1>3, <1>4, <1>5 DEF CoreType
<1>7. blocks' = [blocks EXCEPT ![s] = 0]
  <2>1. bus[s].queued = "no" /\ blocks[s] = IF Has(s, "BusOwner") THEN 1 ELSE 0
    BY <1>2 DEF Local, Alone, Owner
  <2> QED BY <1>1, <1>2, <2>1 DEF Unblock, Types
<1>8. t \in Threads /\ t # None
  BY <1>2 DEF Types, MutexType, Held, Threads, Workers
<1>9. core'[s] = c /\ mutex'[s] = Free /\ ~Held(s)' /\ core' \in [Streams -> CoreType]
      /\ mutex' \in [Streams -> MutexType]
  <2>1. Free \in MutexType
    BY DEF Free, MutexType, Results, Handled
  <2> QED BY <1>1, <1>2, <1>6, <2>1 DEF Types, Held, Free
<1>10. at' \in [Threads -> AtType] /\ \A w \in Threads : at'[w] = IF w = t THEN Idle ELSE at[w]
  BY <1>1, <1>2, <1>8 DEF Types, Idle, AtType
<1>11. holder' = IF holder = s THEN None ELSE holder
  BY <1>1, <1>2, <1>7 DEF Unblocked, Types
<1>12. Types'
  BY <1>1, <1>2, <1>7, <1>9, <1>10, <1>11, <1>8 DEF Types, PlainProto, Threads
<1>13. /\ t \in Workers \cup {"driver"} => At(s, t)
       /\ \A w \in Workers : At(s, w) => w = t
       /\ ~waiting[s] /\ bus[s].queued = "no" /\ ~bus[s].queueTimer
  BY <1>2 DEF Local, Alone, Held
<1>14. \A w \in Workers : ~At(s, w)'
  BY <1>2, <1>10, <1>13 DEF At, Idle, Workers, Threads
<1>15. Frame(s)
  <2>1. at[t].s \in {None, s}
    BY <1>2, <1>8, <1>13 DEF Types, At, Idle, Threads, Workers, MutexType
  <2> QED BY <1>1, <1>2, <1>7, <1>10, <1>11, <2>1 DEF Frame, Types, Idle
<1>16. execs'[s] /\ ~waiting'[s] /\ bus' = bus
  BY <1>1, <1>2, <1>13 DEF Types
<1>17. Alone(s)'
  BY <1>9, <1>13, <1>14, <1>16, StreamsAssumption DEF Alone, Free, Workers, Threads
<1>18. Expected(s)'
  <2>1. Pend(s)' = {} /\ ~Has(s, "BusOwner")' /\ core'[s].activeCommand = "exec"
    BY <1>2, <1>6, <1>9 DEF Pend, Has, BusPending
  <2>2. ~At(s, "port")' /\ ~At(s, "queueTimer")' /\ ~At(s, "timer")'
    BY <1>14 DEF Workers
  <2> QED BY <1>13, <1>16, <2>1, <2>2 DEF Expected
<1>19. Running(s)'
  BY <1>9, StreamsAssumption DEF Running, Free, Held, Threads
<1>20. Active(s)'
  <2>1. Has(s, "InitRun")' = Has(s, "InitRun") /\ ~Has(s, "BusOwner")'
    BY <1>6, <1>9 DEF Has
  <2>2. Carried(s)
    BY <1>2 DEF Carried
  <2>3. core'[s].pact = IF t = "client" THEN TRUE ELSE core[s].pact
    BY <1>4, <1>6, <1>9 DEF p
  <2>4. results'[s] > 0 => core[s].pact /\ Has(s, "InitRun")
    BY <1>1, <1>2, <2>2 DEF Local, Active
  <2>5. t # "client" /\ ~Has(s, "InitRun") => core[s].pact
    BY <1>2, <2>2 DEF Local, Active
  <2> QED BY <2>1, <2>3, <2>4, <2>5 DEF Active
<1>21. Owner(s)'
  BY <1>2, <1>6, <1>7, <1>9, <1>11, <1>14 DEF Owner, Has, Workers, Types
<1> QED BY <1>12, <1>15, <1>17, <1>18, <1>19, <1>20, <1>21 DEF Local

\* All of evalCommand.
LEMMA EvalCommandStep ==
  ASSUME IInv, NEW s \in Streams, EvalCommand(s)
  PROVE  Types' /\ Frame(s) /\ Local(s)'
<1>1. ~EvalStillWaiting(s)
  BY EvalStart DEF EvalStillWaiting, Pend
<1>2. ~EvalEvent(s) /\ ~EvalConnect(s)
  BY PlainCommandIs DEF EvalEvent, EvalConnect, Eval, PlainCommands
<1> QED BY <1>1, <1>2, EvalEndStep, EvalOutStep, FormatFailsStep, EvalInStep, EvalWaitStep, EvalExecStep, EvalDisconnectStep
     DEF EvalCommand

-----------------------------------------------------------------------------
(* finishProtocol and the callbacks *)

\* The first error goes on with its handler.
LEMMA FinishHandlerStep ==
  ASSUME IInv, NEW s \in Streams, FinishHandler(s)
  PROVE  Types' /\ Frame(s) /\ Local(s)'
<1> DEFINE h == Handler(s)
           i == IF Reparses(s) THEN Tail(h) ELSE h
           c == [core[s] EXCEPT !.activeCommand = "end", !.runningHandler = mutex[s].status, !.commandIndex = i]
<1>1. /\ mutex[s].next = "finish" /\ Handles(s) /\ mutex[s].status \in Handled
      /\ UNCHANGED <<proto, timerVars, results, blocks>> /\ bus' = bus
  BY DEF FinishHandler, Handles
<1>2. Types /\ Local(s) /\ core[s] \in CoreType /\ mutex[s] \in MutexType
  BY DEF IInv, Types
<1>3. Held(s) /\ Pend(s) = {}
  BY <1>1, <1>2 DEF Local, Running, Free, Handled
<1>4. h \in Seq(PlainCommands)
  BY <1>1, <1>2 DEF Types, PlainProto, Handler
<1>5. i \in Seq(PlainCommands)
  BY <1>4, HeadTailProperties DEF Reparses
<1>6. Continue(s, c, "eval", "Success", mutex[s].ret)
  BY <1>2 DEF FinishHandler, CoreType
<1> HIDE DEF i
<1>7. c \in CoreType /\ c.flags = core[s].flags /\ c.pact = core[s].pact
  BY <1>2, <1>5 DEF CoreType, MutexType
<1> HIDE DEF c
<1>8. ~(mutex[s].by = "client" /\ mutex[s].ret = "failed")
  BY <1>1, <1>2 DEF Local, Running
<1>9. "Success" \in Results /\ mutex[s].ret \in {"open", "ok", "failed"}
  BY <1>2 DEF Results, MutexType
<1> QED BY <1>1, <1>3, <1>6, <1>7, <1>8, <1>9, ContinueStep DEF Has, Pend

\* finishProtocol gives the device up.
LEMMA FinishUnlockStep ==
  ASSUME IInv, NEW s \in Streams, FinishUnlock(s)
  PROVE  Types' /\ Frame(s) /\ Local(s)'
<1> DEFINE f == core[s].flags \ {"BusOwner"}
           r == IF core[s].runningHandler = "Success" /\ ~Has(s, "InitRun") THEN mutex[s].status ELSE core[s].runningHandler
           u == core[s].unparsedInput /\ (mutex[s].status \in Handled \cup {"Success"} \/ core[s].runningHandler # "Success"
                                          \/ Has(s, "InitRun"))
           c == [core[s] EXCEPT !.activeCommand = "end", !.flags = f, !.runningHandler = r, !.unparsedInput = u]
           e == Result(s)
           m == [mutex[s] EXCEPT !.next = "busFinish", !.status = e]
<1>1. /\ mutex[s].next = "finish" /\ IF Has(s, "BusOwner") THEN Unblock(s) /\ holder' = Unblocked(s) ELSE UNCHANGED <<blocks, holder>>
      /\ proto' = proto /\ bus' = bus /\ at' = at /\ waiting' = waiting /\ execs' = execs /\ results' = results
  BY DEF FinishUnlock, timerVars
<1>2. Types /\ Local(s) /\ core[s] \in CoreType /\ mutex[s] \in MutexType /\ s # None
  BY StreamsAssumption DEF IInv, Types
<1>3. Held(s)
  BY <1>1, <1>2 DEF Local, Running, Free
<1>4. core' = [core EXCEPT ![s] = c]
  BY <1>2 DEF FinishUnlock, CoreType
<1>5. mutex' = [mutex EXCEPT ![s] = m]
  BY <1>2 DEF FinishUnlock, MutexType, Types
<1>6. r \in Results /\ u \in BOOLEAN /\ e \in Results
  BY <1>2 DEF CoreType, MutexType, Result
<1> HIDE DEF r, u, e
<1>7. c \in CoreType /\ c.flags = f /\ c.pact = core[s].pact /\ c.activeCommand = "end"
  BY <1>2, <1>6 DEF CoreType
<1>8. m \in MutexType /\ m.by = mutex[s].by /\ m.next = "busFinish" /\ m.ret = mutex[s].ret
  BY <1>2, <1>6 DEF MutexType
<1> HIDE DEF c, m
<1>9. /\ core'[s] = c /\ core' \in [Streams -> CoreType] /\ mutex'[s] = m /\ mutex' \in [Streams -> MutexType]
  BY <1>2, <1>4, <1>5, <1>7, <1>8 DEF Types
<1>10. bus[s].queued = "no" /\ ~waiting[s] /\ ~execs[s] /\ \A t \in Workers : At(s, t) => mutex[s].by = t
  BY <1>2, <1>3 DEF Local, Alone
<1>11. blocks[s] = (IF Has(s, "BusOwner") THEN 1 ELSE 0) /\ (holder = s => Has(s, "BusOwner"))
  BY <1>2 DEF Local, Owner
<1>12. blocks' = [blocks EXCEPT ![s] = 0] /\ holder' = IF holder = s THEN None ELSE holder
  BY <1>1, <1>2, <1>10, <1>11 DEF Unblock, Unblocked, Types
<1>13. Types'
  BY <1>1, <1>2, <1>9, <1>12 DEF Types, PlainProto
<1>14. Frame(s)
  BY <1>1, <1>2, <1>4, <1>5, <1>12 DEF Types, Frame
<1>15. Held(s)' /\ mutex'[s] # Free /\ \A t : At(s, t)' = At(s, t)
  BY <1>1, <1>3, <1>8, <1>9 DEF Held, Free, At
<1>16. Alone(s)'
  BY <1>1, <1>2, <1>8, <1>9, <1>10, <1>15 DEF Local, Alone, Workers
<1>17. Expected(s)'
  BY <1>1, <1>2, <1>3, <1>9, <1>10, <1>15 DEF Local, Expected
<1>18. Running(s)'
  BY <1>2, <1>7, <1>8, <1>9, <1>15 DEF Local, Running, Has
<1>19. Active(s)'
  BY <1>1, <1>2, <1>3, <1>7, <1>8, <1>9, <1>15 DEF Local, Active, Carried, Has
<1>20. Owner(s)'
  <2>1. At(s, "port") => at["port"].act # "take"
    BY <1>2, <1>3 DEF Local, Expected
  <2>2. At(s, "port") /\ PortAct(s) # "Disconnect" => holder \in {None, s}
    BY <1>2 DEF Local, Owner
  <2> QED BY <1>1, <1>2, <1>7, <1>9, <1>12, <1>15, <2>1, <2>2 DEF Owner, Has, PortAct, Types
<1> QED BY <1>13, <1>14, <1>16, <1>17, <1>18, <1>19, <1>20 DEF Local

\* busFinish and protocolFinishHook ask for the callback of the record.
LEMMA BusFinishStep ==
  ASSUME IInv, NEW s \in Streams, BusFinish(s)
  PROVE  Types' /\ Frame(s) /\ Local(s)'
<1> DEFINE c == Drop(s, {"AcceptInput", "AcceptEvent"})
           b == [bus[s] EXCEPT !.timer = FALSE, !.ioAction = "None"]
<1>1. /\ mutex[s].next = "busFinish" /\ UNCHANGED <<proto, execs, blocks>> /\ waiting' = waiting
      /\ Leave(s, c, "ok")
      /\ results' = [results EXCEPT ![s] = IF core[s].pact /\ ~Has(s, "InitRun") THEN @ + 1 ELSE @]
      /\ bus' = [bus EXCEPT ![s].timer = FALSE, ![s].ioAction = "None"]
  BY DEF BusFinish, timerVars
<1>2. Types /\ Local(s) /\ core[s] \in CoreType /\ bus[s] \in BusType
  BY DEF IInv, Types
<1>3. Held(s) /\ core[s].activeCommand = "end" /\ ~Has(s, "BusOwner")
  BY <1>1, <1>2 DEF Local, Running, Free
<1>4. c \in CoreType /\ c.flags = core[s].flags \ {"AcceptInput", "AcceptEvent"} /\ c.pact = core[s].pact
      /\ c.activeCommand = "end"
  BY <1>2, <1>3 DEF CoreType, Drop
<1>5. bus' = [bus EXCEPT ![s] = b]
  BY <1>1, <1>2 DEF Types
<1>6. b \in BusType /\ b.queued = bus[s].queued /\ b.queueTimer = bus[s].queueTimer
  BY <1>2 DEF BusType
<1>7. bus[s].queued = "no" /\ ~bus[s].queueTimer /\ ~waiting[s]
  BY <1>2, <1>3 DEF Local, Alone
<1> HIDE DEF b, c
<1>8. /\ bus' \in [Streams -> BusType] /\ \A u \in Streams \ {s} : bus'[u] = bus[u]
      /\ bus'[s].queued = "no" /\ ~bus'[s].queueTimer
  BY <1>2, <1>5, <1>6, <1>7 DEF Types
<1>9. /\ waiting' \in [Streams -> BOOLEAN] /\ \A u \in Streams \ {s} : waiting'[u] = waiting[u]
      /\ ~waiting'[s]
  BY <1>1, <1>2, <1>7 DEF Types
<1>10. \/ results' = results
       \/ results' = [results EXCEPT ![s] = @ + 1] /\ core[s].pact /\ ~Has(s, "InitRun")
  BY <1>1, <1>2 DEF Types
<1>11. /\ "BusOwner" \in c.flags <=> Has(s, "BusOwner")
       /\ "InitRun" \in c.flags <=> Has(s, "InitRun")
  BY <1>4 DEF Has
<1> QED BY <1>1, <1>3, <1>4, <1>8, <1>9, <1>10, <1>11, LeaveStep

\* A callback that takes the mutex, and ends what is pending.
LEMMA CallbackStep ==
  ASSUME IInv, NEW s \in Streams, mutex[s] = Free, NEW t \in Workers \cup {"callback"}, NEW c \in CoreType,
         NEW next \in {"eval", "finish"}, NEW status \in Results, Enter(s, t, c, next, status),
         UNCHANGED <<proto, waiting, results, blocks>>,
         t \in Workers => At(s, t) /\ execs' = execs, t = "port" => at["port"].act # "take",
         t = "callback" => execs[s] /\ execs' = [execs EXCEPT ![s] = FALSE],
         bus' = bus \/ bus' = [bus EXCEPT ![s].receivedEvent = FALSE],
         "BusOwner" \in c.flags <=> Has(s, "BusOwner"), "InitRun" \in c.flags <=> Has(s, "InitRun"),
         c.pact = core[s].pact, c.flags \cap BusPending = {}
  PROVE  Types' /\ Frame(s) /\ Local(s)'
<1>1. Types /\ Local(s) /\ ~Held(s) /\ mutex[s].by = None
  BY DEF IInv, Held, Free
<1>2. /\ bus[s].queued = "no" /\ ~bus[s].queueTimer /\ ~waiting[s] /\ (t \in Workers => ~execs[s])
      /\ \A w \in Workers : At(s, w) => w = t
  BY <1>1 DEF Local, Alone
<1>3. bus' \in [Streams -> BusType] /\ bus'[s].queued = "no" /\ ~bus'[s].queueTimer
      /\ \A u \in Streams \ {s} : bus'[u] = bus[u]
  <2>1. CASE bus' = bus
    BY <1>1, <1>2, <2>1 DEF Types
  <2>2. CASE bus' = [bus EXCEPT ![s].receivedEvent = FALSE]
    <3> DEFINE b == [bus[s] EXCEPT !.receivedEvent = FALSE]
    <3>1. bus' = [bus EXCEPT ![s] = b] /\ bus[s] \in BusType /\ bus \in [Streams -> BusType]
      BY <1>1, <2>2 DEF Types
    <3>2. b.queued = bus[s].queued /\ b.queueTimer = bus[s].queueTimer /\ b \in BusType
      BY <3>1 DEF BusType
    <3> HIDE DEF b
    <3> QED BY <1>2, <3>1, <3>2
  <2> QED BY <2>1, <2>2
<1>4. /\ execs' \in [Streams -> BOOLEAN] /\ ~execs'[s] /\ \A u \in Streams \ {s} : execs'[u] = execs[u]
  BY <1>1, <1>2 DEF Types
<1>5. blocks' \in [Streams -> {0, 1}] /\ blocks' = blocks
  BY <1>1 DEF Types
<1>6. Carried(s)
  BY DEF Carried
<1>7. (~Has(s, "InitRun") => core[s].pact) /\ (results[s] > 0 => core[s].pact /\ Has(s, "InitRun"))
  BY <1>1, <1>6, StreamsAssumption DEF Local, Active, Threads
<1>8. /\ blocks[s] = (IF Has(s, "BusOwner") THEN 1 ELSE 0) /\ (holder = s => Has(s, "BusOwner"))
      /\ Has(s, "BusOwner") => holder = s
  BY <1>1, StreamsAssumption DEF Local, Owner, Threads
<1>9. t # "client" /\ t # "driver"
  BY DEF Workers
<1> QED BY <1>1, <1>2, <1>3, <1>4, <1>5, <1>7, <1>8, <1>9, EnterStep

\* A stream whose mutex is free; once its protocol has ended, nothing carries it.
LEMMA FreeStream ==
  ASSUME IInv, NEW s \in Streams, mutex[s] = Free
  PROVE  /\ Types /\ Local(s) /\ ~Held(s) /\ mutex[s].by = None /\ s # None
         /\ core[s] \in CoreType /\ bus[s] \in BusType
         /\ core[s].activeCommand = "end" => ~Carried(s)
<1>1. Types /\ Local(s) /\ ~Held(s) /\ mutex[s].by = None /\ s # None /\ core[s] \in CoreType /\ bus[s] \in BusType
  BY StreamsAssumption DEF IInv, Held, Free, Types
<1>2. ASSUME core[s].activeCommand = "end" PROVE ~Carried(s)
  <2>1. \A a : ~Waits(s, a)
    BY <1>2 DEF Waits, WaitsFor, Requests
  <2>2. bus[s].queued = "no" /\ ~At(s, "port") /\ ~At(s, "queueTimer") /\ ~waiting[s] /\ ~At(s, "timer") /\ ~execs[s]
    BY <1>1, <1>2, <2>1 DEF Local, Expected
  <2> QED BY <1>1, <2>2 DEF Carried, Workers
<1> QED BY <1>1, <1>2

\* One stream of core changes.
LEMMA CoreBecomes ==
  ASSUME Types, NEW s \in Streams, NEW c \in CoreType, core' = [core EXCEPT ![s] = c]
  PROVE  core' \in [Streams -> CoreType] /\ core'[s] = c /\ \A u \in Streams \ {s} : core'[u] = core[u]
  BY DEF Types

\* One stream of bus changes.
LEMMA BusBecomes ==
  ASSUME Types, NEW s \in Streams, NEW b \in BusType, bus' = [bus EXCEPT ![s] = b]
  PROVE  bus' \in [Streams -> BusType] /\ bus'[s] = b /\ \A u \in Streams \ {s} : bus'[u] = bus[u]
  BY DEF Types

\* One thread goes to a stream, or comes back.
LEMMA AtBecomes ==
  ASSUME Types, NEW t \in Threads, NEW a \in AtType, at' = [at EXCEPT ![t] = a]
  PROVE  at' \in [Threads -> AtType] /\ at'[t] = a /\ \A u \in Threads \ {t} : at'[u] = at[u]
  BY DEF Types

\* The client starts the protocol.
LEMMA ProcessStep ==
  ASSUME IInv, NEW s \in Streams, Process(s), ~interfered'
  PROVE  Types' /\ Frame(s) /\ Local(s)'
<1> DEFINE c == Started(s, proto[s].commands, {})
<1>1. /\ ~core[s].pact /\ mutex[s] = Free /\ (~Has(s, "InitRun") \/ core[s].activeCommand = "end")
      /\ Enter(s, "client", c, "eval", "Success")
      /\ proto' = proto /\ bus' = bus /\ waiting' = waiting /\ execs' = execs /\ results' = results /\ blocks' = blocks
  BY DEF Process, InitRuns, timerVars
<1>2. Types /\ Local(s) /\ ~Held(s) /\ mutex[s].by = None /\ core[s] \in CoreType
  BY <1>1, FreeStream
<1>3. ~Carried(s)
  BY <1>1, <1>2, FreeStream, StreamsAssumption DEF Local, Active, Threads
<1>4. bus[s].queued = "no" /\ ~bus[s].queueTimer /\ ~waiting[s] /\ ~execs[s] /\ \A t \in Workers : ~At(s, t)
  BY <1>2, <1>3 DEF Carried, Local, Alone
<1>5. ~Has(s, "BusOwner") /\ results[s] = 0
  BY <1>1, <1>2 DEF Local, Owner, Active, Types
<1>6. blocks[s] = 0 /\ holder # s
  BY <1>2, <1>5 DEF Local, Owner
<1>7. c \in CoreType /\ c.flags = {} /\ c.pact = FALSE
  <2>1. proto[s].commands \in Seq(PlainCommands)
    BY <1>2 DEF Types, PlainProto
  <2> QED BY <1>1, <1>2, <2>1 DEF CoreType, Started, Results
<1> HIDE DEF c
<1>8. "Success" \in Results /\ "client" \notin Workers
  BY DEF Results, Workers
<1> QED BY <1>1, <1>2, <1>4, <1>5, <1>6, <1>7, <1>8, EnterStep DEF Types

\* The record takes its result.
LEMMA RecordProcessStep ==
  ASSUME IInv, NEW s \in Streams, RecordProcess(s)
  PROVE  Types' /\ Frame(s) /\ Local(s)'
<1> DEFINE c == [core[s] EXCEPT !.pact = FALSE]
<1>1. /\ results[s] > 0 /\ mutex[s] = Free /\ core[s].pact
      /\ results' = [results EXCEPT ![s] = @ - 1]
      /\ core' = [core EXCEPT ![s].pact = FALSE]
      /\ proto' = proto /\ mutex' = mutex /\ bus' = bus /\ waiting' = waiting /\ execs' = execs /\ at' = at
      /\ blocks' = blocks /\ holder' = holder
  BY DEF RecordProcess, timerVars
<1>2. Types /\ Local(s) /\ ~Held(s) /\ core[s] \in CoreType
  BY <1>1, FreeStream
<1>3. core' = [core EXCEPT ![s] = c]
  BY <1>1, <1>2 DEF Types
<1>4. c \in CoreType /\ c.flags = core[s].flags /\ c.activeCommand = core[s].activeCommand
  BY <1>2 DEF CoreType
<1> HIDE DEF c
<1>5. core'[s] = c /\ core' \in [Streams -> CoreType] /\ results' \in [Streams -> {0, 1}] /\ results'[s] = 0
  <2>1. results[s] = 1 /\ results' = [results EXCEPT ![s] = results[s] - 1]
    BY <1>1, <1>2 DEF Types
  <2> QED BY <1>2, <1>3, <1>4, <2>1, CoreBecomes DEF Types
<1>6. Types'
  BY <1>1, <1>2, <1>5 DEF Types, PlainProto
<1>7. Frame(s)
  BY <1>1, <1>2, <1>3 DEF Types, Frame
<1>8. Alone(s)'
  BY <1>1, <1>2 DEF Local, Alone, Held, At
<1>9. Expected(s)'
  BY <1>1, <1>2, <1>4, <1>5 DEF Local, Expected, Held, At, Waits, Pend, Has, PortAct
<1>10. Running(s)'
  BY <1>1, <1>2, <1>4, <1>5, FreeStream, StreamsAssumption DEF Running, Held, Free, Threads
<1>11. Active(s)'
  BY <1>1, <1>2, <1>4, <1>5 DEF Local, Active, Carried, Held, At, Has, Owner
<1>12. Owner(s)'
  BY <1>1, <1>2, <1>4, <1>5 DEF Local, Owner, Held, At, Has, PortAct
<1> QED BY <1>6, <1>7, <1>8, <1>9, <1>10, <1>11, <1>12 DEF Local

\* The port thread takes a request from the queue.
LEMMA PortTakeStep ==
  ASSUME IInv, NEW s \in Streams, PortTake(s)
  PROVE  Types' /\ Frame(s) /\ Local(s)'
<1> DEFINE b == [bus[s] EXCEPT !.queued = "no", !.queueTimer = FALSE]
           a == [s |-> s, act |-> "take"]
<1>1. /\ at["port"] = Idle /\ bus[s].queued # "no" /\ (bus[s].queued # "connect" => holder \in {None, s})
      /\ bus' = [bus EXCEPT ![s].queued = "no", ![s].queueTimer = FALSE] /\ at' = [at EXCEPT !["port"] = a]
      /\ proto' = proto /\ core' = core /\ mutex' = mutex /\ waiting' = waiting /\ execs' = execs
      /\ results' = results /\ blocks' = blocks /\ holder' = holder
  BY DEF PortTake, NotBlocked, timerVars
<1>2. Types /\ Local(s) /\ bus[s] \in BusType /\ s # None
  BY StreamsAssumption DEF IInv, Types
<1>3. ~Held(s) /\ ~waiting[s] /\ ~execs[s] /\ \A t \in Workers : ~At(s, t)
  BY <1>1, <1>2 DEF Local, Alone
<1>4. Waits(s, bus[s].ioAction) /\ (bus[s].queued = "connect" <=> bus[s].ioAction = "Disconnect")
  BY <1>1, <1>2 DEF Local, Expected
<1>5. bus' = [bus EXCEPT ![s] = b]
  BY <1>1, <1>2 DEF Types
<1>6. b \in BusType /\ b.queued = "no" /\ ~b.queueTimer /\ b.ioAction = bus[s].ioAction
  BY <1>2 DEF BusType
<1>7. a \in AtType /\ a.s = s /\ a.act = "take"
  BY DEF AtType
<1> HIDE DEF b, a
<1>8. /\ bus'[s] = b /\ bus' \in [Streams -> BusType] /\ at' \in [Threads -> AtType] /\ at'["port"] = a
      /\ \A t \in Threads \ {"port"} : at'[t] = at[t]
  <2>1. "port" \in Threads
    BY DEF Threads
  <2>2. at' = [at EXCEPT !["port"] = a]
    BY <1>1
  <2> QED BY <1>2, <1>5, <1>6, <1>7, <2>1, <2>2, BusBecomes, AtBecomes
<1>9. Types'
  BY <1>1, <1>2, <1>8 DEF Types, PlainProto, Threads
<1>10. Frame(s)
  BY <1>1, <1>2, <1>5, <1>7, <1>8 DEF Types, Frame, Idle
<1>11. At(s, "port")' /\ \A t \in Workers \ {"port"} : ~At(s, t)'
  BY <1>3, <1>7, <1>8 DEF At, Workers, Threads
<1>12. ~Held(s)' /\ mutex[s].by = None
  BY <1>1, <1>3 DEF Held
<1>13. Alone(s)'
  BY <1>1, <1>3, <1>6, <1>8, <1>11, <1>12, StreamsAssumption DEF Alone, Threads, Workers
<1>14. PortAct(s)' = bus[s].ioAction
  BY <1>6, <1>7, <1>8 DEF PortAct
<1>15. Expected(s)'
  BY <1>1, <1>3, <1>4, <1>6, <1>8, <1>11, <1>12, <1>14 DEF Expected, Waits, Pend, Has, Workers
<1>16. Running(s)'
  BY <1>1, <1>2, <1>3, <1>12, StreamsAssumption DEF Local, Running, Free, Threads
<1>17. Active(s)'
  <2>1. Carried(s)
    BY <1>1 DEF Carried
  <2> QED BY <1>1, <1>2, <2>1 DEF Local, Active, Has
<1>18. Owner(s)'
  BY <1>1, <1>2, <1>3, <1>4, <1>12, <1>14, StreamsAssumption DEF Local, Owner, Has, Threads
<1> QED BY <1>9, <1>10, <1>13, <1>15, <1>16, <1>17, <1>18 DEF Local

\* The port thread looks at ioAction.
LEMMA HandleRequestStep ==
  ASSUME IInv, NEW s \in Streams, HandleRequest(s)
  PROVE  Types' /\ Frame(s) /\ Local(s)'
<1> DEFINE b == [bus[s] EXCEPT !.timer = FALSE]
           a == [s |-> s, act |-> bus[s].ioAction]
<1>1. /\ at["port"] = [s |-> s, act |-> "take"]
      /\ bus' = [bus EXCEPT ![s].timer = FALSE]
      /\ proto' = proto /\ core' = core /\ mutex' = mutex /\ waiting' = waiting /\ execs' = execs
      /\ results' = results /\ blocks' = blocks
  BY DEF HandleRequest, timerVars
<1>2. Types /\ Local(s) /\ bus[s] \in BusType /\ s # None
  BY StreamsAssumption DEF IInv, Types
<1>3. At(s, "port") /\ ~Held(s) /\ Waits(s, bus[s].ioAction) /\ PortAct(s) = bus[s].ioAction
  BY <1>1, <1>2 DEF At, Local, Expected, PortAct
<1>4. bus[s].ioAction \in Requests
  BY <1>3 DEF Waits, WaitsFor
<1>5. at' = [at EXCEPT !["port"] = a] /\ holder' = holder
  BY <1>4 DEF HandleRequest, Requests
<1>6. bus' = [bus EXCEPT ![s] = b]
  BY <1>1, <1>2 DEF Types
<1>7. b \in BusType /\ b.queued = bus[s].queued /\ b.queueTimer = bus[s].queueTimer /\ b.ioAction = bus[s].ioAction
  BY <1>2 DEF BusType
<1>8. a \in AtType /\ a.s = s /\ a.act = bus[s].ioAction /\ a.act # "take"
  BY <1>4 DEF AtType, Requests
<1> HIDE DEF b, a
<1>9. /\ bus'[s] = b /\ bus' \in [Streams -> BusType] /\ at' \in [Threads -> AtType] /\ at'["port"] = a
      /\ \A t \in Threads \ {"port"} : at'[t] = at[t]
  BY <1>2, <1>5, <1>6, <1>7, <1>8, BusBecomes, AtBecomes DEF Threads
<1>10. Types'
  BY <1>1, <1>2, <1>5, <1>9 DEF Types, PlainProto, Threads
<1>11. Frame(s)
  BY <1>1, <1>2, <1>5, <1>6, <1>8, <1>9 DEF Types, Frame
<1>12. \A t \in Threads : At(s, t)' = At(s, t)
  BY <1>1, <1>8, <1>9 DEF At
<1>13. PortAct(s)' = PortAct(s)
  BY <1>3, <1>8, <1>9 DEF PortAct
<1>14. Workers \cup {"driver"} \subseteq Threads
  BY DEF Workers, Threads
<1>15. Alone(s)'
  BY <1>1, <1>2, <1>3, <1>7, <1>9, <1>12, <1>14 DEF Local, Alone, Held
<1>16. Expected(s)'
  BY <1>1, <1>2, <1>3, <1>7, <1>9, <1>12, <1>13, <1>14 DEF Local, Expected, Held, Waits, Pend, Has, Workers, Threads
<1>17. Running(s)' /\ Active(s)'
  BY <1>1, <1>2, <1>7, <1>9, <1>12, <1>14 DEF Local, Running, Active, Carried, Held, Pend, Has
<1>18. Owner(s)'
  BY <1>1, <1>2, <1>5, <1>12, <1>13, <1>14 DEF Local, Owner, Held, Has, Workers
<1> QED BY <1>10, <1>11, <1>15, <1>16, <1>17, <1>18 DEF Local

\* The port thread serves an ioAction for a stream that waits for it.
LEMMA PortServes ==
  ASSUME IInv, NEW s \in Streams, NEW act, act # "take", Serves(s, act)
  PROVE  /\ Types /\ Local(s) /\ mutex[s] = Free /\ ~Held(s) /\ At(s, "port") /\ at["port"].act = act /\ s # None
         /\ core[s] \in CoreType /\ bus[s] \in BusType /\ Waits(s, act)
         /\ bus[s].queued = "no" /\ ~bus[s].queueTimer /\ ~waiting[s] /\ ~execs[s]
         /\ \A w \in Workers : At(s, w) => w = "port"
         /\ "port" \in Workers
<1>1. mutex[s] = Free /\ At(s, "port") /\ at["port"].act = act /\ "port" \in Workers
  BY DEF Serves, At, Workers
<1>2. Types /\ Local(s) /\ ~Held(s) /\ s # None /\ core[s] \in CoreType /\ bus[s] \in BusType
  BY <1>1, FreeStream
<1>3. Waits(s, act)
  BY <1>1, <1>2 DEF Local, Expected, PortAct
<1> QED BY <1>1, <1>2, <1>3 DEF Local, Alone

\* What Drop leaves.
LEMMA DropKeeps ==
  ASSUME NEW s \in Streams, core[s] \in CoreType, NEW fs, fs \subseteq BusPending \cup {"AcceptInput", "AcceptEvent"}
  PROVE  /\ Drop(s, fs) \in CoreType /\ Drop(s, fs).flags = core[s].flags \ fs
         /\ Drop(s, fs).pact = core[s].pact /\ Drop(s, fs).activeCommand = core[s].activeCommand
         /\ "BusOwner" \in Drop(s, fs).flags <=> Has(s, "BusOwner")
         /\ "InitRun" \in Drop(s, fs).flags <=> Has(s, "InitRun")
<1> DEFINE f == core[s].flags \ fs
           d == Drop(s, fs)
<1>1. d = [core[s] EXCEPT !.flags = f]
  BY DEF Drop, CoreType
<1>2. f \in SUBSET Flags /\ ("BusOwner" \in f <=> Has(s, "BusOwner")) /\ ("InitRun" \in f <=> Has(s, "InitRun"))
  BY DEF CoreType, Has, BusPending
<1> HIDE DEF f, d
<1>3. d \in CoreType /\ d.flags = f /\ d.pact = core[s].pact /\ d.activeCommand = core[s].activeCommand
  BY <1>1, <1>2 DEF CoreType
<1> QED BY <1>2, <1>3 DEF d, f

\* lockHandler blocks the device and asks for a write, which may be refused.
LEMMA LockHandlerStep ==
  ASSUME IInv, NEW s \in Streams, LockHandler(s)
  PROVE  Types' /\ Frame(s) /\ Local(s)'
<1> DEFINE d == Drop(s, {"LockPending"})
           c == [d EXCEPT !.flags = @ \cup {"BusOwner", "WritePending"}]
           f == (core[s].flags \ {"LockPending"}) \cup {"BusOwner", "WritePending"}
<1>1. /\ Serves(s, "Lock") /\ blocks' = [blocks EXCEPT ![s] = @ + 1]
      /\ proto' = proto /\ waiting' = waiting /\ execs' = execs /\ results' = results
  BY DEF LockHandler, timerVars
<1>2. /\ Types /\ Local(s) /\ mutex[s] = Free /\ ~Held(s) /\ At(s, "port") /\ at["port"].act = "Lock" /\ s # None
      /\ core[s] \in CoreType /\ bus[s] \in BusType /\ Waits(s, "Lock")
      /\ bus[s].queued = "no" /\ ~bus[s].queueTimer /\ ~waiting[s] /\ ~execs[s]
      /\ \A w \in Workers : At(s, w) => w = "port"
      /\ "port" \in Workers
  BY <1>1, PortServes
<1>3. /\ Pend(s) = {"LockPending"} /\ ~Has(s, "BusOwner") /\ core[s].activeCommand = "out"
  BY <1>2 DEF Waits, WaitsFor, Pend, Has
<1>4. Has(s, "LockPending") /\ blocks[s] = 0 /\ holder # s /\ holder \in {None, s}
  BY <1>2, <1>3 DEF Pend, Has, Local, Owner, PortAct
<1>5. blocks' = [blocks EXCEPT ![s] = 1]
  BY <1>1, <1>2, <1>4 DEF Types
<1>6. {"LockPending"} \subseteq BusPending \cup {"AcceptInput", "AcceptEvent"}
  BY DEF BusPending
<1>7. d \in CoreType /\ d.flags = core[s].flags \ {"LockPending"} /\ d.pact = core[s].pact /\ d.activeCommand = core[s].activeCommand
  BY <1>2, <1>6, DropKeeps
<1>8. c = [d EXCEPT !.flags = f]
  BY <1>7
<1>9. f \in SUBSET Flags /\ f \cap BusPending = {"WritePending"} /\ "BusOwner" \in f
      /\ ("InitRun" \in f <=> Has(s, "InitRun"))
  BY <1>2, <1>3 DEF CoreType, Flags, BusPending, Pend, Has
<1> HIDE DEF d, f
<1>10. c \in CoreType /\ c.flags = f /\ c.pact = core[s].pact /\ c.activeCommand = "out"
  BY <1>3, <1>7, <1>8, <1>9 DEF CoreType
<1>11. \/ /\ Queue(s, "Write", "low", TRUE) /\ core' = [core EXCEPT ![s] = c] /\ at' = [at EXCEPT !["port"] = Idle]
          /\ holder' = s /\ mutex' = mutex
       \/ bus' = [bus EXCEPT ![s].ioAction = "Write"] /\ Enter(s, "port", c, "finish", "Fault")
  <2>1. c = [Drop(s, {"LockPending"}) EXCEPT !.flags = @ \cup {"BusOwner", "WritePending"}]
    BY DEF d
  <2> HIDE DEF c
  <2> QED BY <1>4, <2>1 DEF LockHandler
<1> HIDE DEF c
<1>12. Carried(s)
  BY <1>2 DEF Carried
<1>13. (~Has(s, "InitRun") => core[s].pact) /\ (results[s] > 0 => core[s].pact /\ Has(s, "InitRun"))
  BY <1>2, <1>12, StreamsAssumption DEF Local, Active, Threads, Free
<1>14. blocks' \in [Streams -> {0, 1}] /\ blocks'[s] = 1 /\ \A u \in Streams \ {s} : blocks'[u] = blocks[u]
  BY <1>2, <1>5 DEF Types
<1>15. ASSUME Queue(s, "Write", "low", TRUE), core' = [core EXCEPT ![s] = c], at' = [at EXCEPT !["port"] = Idle],
              holder' = s, mutex' = mutex
       PROVE  Types' /\ Frame(s) /\ Local(s)'
  <2> DEFINE b == [bus[s] EXCEPT !.ioAction = "Write", !.queued = "low", !.queueTimer = TRUE]
  <2>1. bus' = [bus EXCEPT ![s] = b]
    BY <1>2, <1>15 DEF Queue, Types
  <2>2. b \in BusType /\ b.queued = "low" /\ b.ioAction = "Write"
    BY <1>2 DEF BusType, Requests
  <2> HIDE DEF b
  <2>3. bus' \in [Streams -> BusType] /\ bus'[s] = b /\ \A u \in Streams \ {s} : bus'[u] = bus[u]
    BY <1>2, <2>1, <2>2, BusBecomes
  <2>4. core' \in [Streams -> CoreType] /\ core'[s] = c /\ \A u \in Streams \ {s} : core'[u] = core[u]
    BY <1>2, <1>10, <1>15, CoreBecomes
  <2>5. at' \in [Threads -> AtType] /\ at'["port"] = Idle /\ \A u \in Threads \ {"port"} : at'[u] = at[u]
    <3>1. Idle \in AtType /\ "port" \in Threads
      BY DEF Idle, AtType, Threads
    <3> QED BY <1>2, <1>15, <3>1, AtBecomes
  <2>6. Types'
    BY <1>1, <1>2, <1>14, <1>15, <2>3, <2>4, <2>5 DEF Types, PlainProto, Threads
  <2>7. Frame(s)
    BY <1>1, <1>2, <1>4, <1>14, <1>15, <2>3, <2>4, <2>5 DEF Types, Frame, At, Idle
  <2>8. \A t \in Workers : ~At(s, t)'
    BY <1>2, <2>5 DEF At, Idle, Workers, Threads
  <2>9. ~Held(s)' /\ mutex'[s] = Free /\ mutex'[s].by = None
    BY <1>2, <1>15 DEF Held, Free
  <2>10. Alone(s)'
    BY <1>1, <1>2, <2>2, <2>3, <2>8, <2>9, StreamsAssumption DEF Alone, Threads, Workers
  <2>11. Waits(s, "Write")'
    BY <1>9, <1>10, <2>4 DEF Waits, WaitsFor, Requests
  <2>12. Expected(s)'
    BY <1>1, <1>2, <2>2, <2>3, <2>8, <2>9, <2>11 DEF Expected, Waits, Workers
  <2>13. Running(s)'
    BY <2>9, StreamsAssumption DEF Running, Free, Held, Threads
  <2>14. Active(s)'
    BY <1>1, <1>9, <1>10, <1>13, <2>4 DEF Active, Has
  <2>15. Owner(s)'
    BY <1>2, <1>9, <1>10, <1>14, <1>15, <2>4, <2>8 DEF Owner, Has
  <2> QED BY <2>6, <2>7, <2>10, <2>12, <2>13, <2>14, <2>15 DEF Local
<1>16. ASSUME bus' = [bus EXCEPT ![s].ioAction = "Write"], Enter(s, "port", c, "finish", "Fault")
       PROVE  Types' /\ Frame(s) /\ Local(s)'
  <2> DEFINE b == [bus[s] EXCEPT !.ioAction = "Write"]
  <2>1. bus' = [bus EXCEPT ![s] = b]
    BY <1>2, <1>16 DEF Types
  <2>2. b \in BusType /\ b.queued = "no" /\ ~b.queueTimer
    BY <1>2 DEF BusType, Requests
  <2> HIDE DEF b
  <2>3. bus' \in [Streams -> BusType] /\ bus'[s] = b /\ \A u \in Streams \ {s} : bus'[u] = bus[u]
    BY <1>2, <2>1, <2>2, BusBecomes
  <2>4. "Fault" \in Results /\ "port" # "client"
    BY DEF Results
  <2>5. execs' \in [Streams -> BOOLEAN] /\ execs' = execs
    BY <1>1, <1>2 DEF Types
  <2> QED BY <1>1, <1>2, <1>4, <1>9, <1>10, <1>13, <1>14, <1>16, <2>2, <2>3, <2>4, <2>5, EnterStep
<1> QED BY <1>11, <1>15, <1>16

\* The results that callbacks report.
LEMMA CallbackResults ==
  /\ "Success" \in Results /\ "Offline" \in Results /\ "WriteTimeout" \in Results /\ "LockTimeout" \in Results
  /\ "Fault" \in Results
  BY DEF Results

\* A device that has gone ends the protocol.
LEMMA DisconnectedStep ==
  ASSUME IInv, NEW s \in Streams, NEW act \in Requests, Serves(s, act), Disconnected(s),
         UNCHANGED <<proto, waiting, execs, results, blocks>>,
         bus' = bus \/ bus' = [bus EXCEPT ![s].receivedEvent = FALSE]
  PROVE  Types' /\ Frame(s) /\ Local(s)'
<1> DEFINE c == Drop(s, BusPending)
<1>1. act # "take"
  BY DEF Requests
<1>2. /\ mutex[s] = Free /\ At(s, "port") /\ at["port"].act = act /\ core[s] \in CoreType /\ "port" \in Workers
  BY <1>1, PortServes
<1>3. Enter(s, "port", c, "finish", "Offline")
  BY DEF Disconnected
<1>4. /\ c \in CoreType /\ c.flags \cap BusPending = {} /\ c.pact = core[s].pact
      /\ "BusOwner" \in c.flags <=> Has(s, "BusOwner")
      /\ "InitRun" \in c.flags <=> Has(s, "InitRun")
  BY <1>2, DropKeeps
<1> HIDE DEF c
<1>5. "port" # "callback" /\ UNCHANGED <<proto, waiting, results, blocks>> /\ execs' = execs
  OBVIOUS
<1> QED BY <1>1, <1>2, <1>3, <1>4, <1>5, CallbackResults, CallbackStep

\* writeHandler writes, times out, or finds the device gone.
LEMMA WriteHandlerStep ==
  ASSUME IInv, NEW s \in Streams, WriteHandler(s)
  PROVE  Types' /\ Frame(s) /\ Local(s)'
<1> DEFINE c == Drop(s, {"WritePending"})
<1>1. /\ Serves(s, "Write") /\ bus' = [bus EXCEPT ![s].receivedEvent = FALSE]
      /\ UNCHANGED <<proto, waiting, execs, results, blocks>> /\ execs' = execs
  BY DEF WriteHandler, timerVars
<1>2. /\ mutex[s] = Free /\ At(s, "port") /\ at["port"].act = "Write" /\ core[s] \in CoreType /\ "port" \in Workers
      /\ Waits(s, "Write")
  BY <1>1, PortServes
<1>3. Pend(s) = {"WritePending"} /\ Has(s, "WritePending")
  BY <1>2 DEF Waits, WaitsFor, Pend, Has
<1>4. {"WritePending"} \subseteq BusPending \cup {"AcceptInput", "AcceptEvent"}
  BY DEF BusPending
<1>5. /\ c \in CoreType /\ c.flags = core[s].flags \ {"WritePending"} /\ c.pact = core[s].pact
      /\ "BusOwner" \in c.flags <=> Has(s, "BusOwner")
      /\ "InitRun" \in c.flags <=> Has(s, "InitRun")
  BY <1>2, <1>4, DropKeeps
<1>6. \/ Disconnected(s)
      \/ Enter(s, "port", c, "eval", "Success")
      \/ Enter(s, "port", c, "finish", "WriteTimeout")
  BY <1>3 DEF WriteHandler
<1> HIDE DEF c
<1>7. c.flags \cap BusPending = {}
  BY <1>3, <1>5 DEF Pend
<1>8. "Write" \in Requests /\ "port" # "callback" /\ UNCHANGED <<proto, waiting, results, blocks>>
  BY <1>1 DEF Requests
<1>9. CASE Disconnected(s)
  BY <1>1, <1>8, <1>9, DisconnectedStep
<1>10. CASE Enter(s, "port", c, "eval", "Success")
  BY <1>1, <1>2, <1>5, <1>7, <1>8, <1>10, CallbackResults, CallbackStep
<1>11. CASE Enter(s, "port", c, "finish", "WriteTimeout")
  BY <1>1, <1>2, <1>5, <1>7, <1>8, <1>11, CallbackResults, CallbackStep
<1> QED BY <1>6, <1>9, <1>10, <1>11

\* readHandler has its input, or finds the device gone.
LEMMA ReadHandlerStep ==
  ASSUME IInv, NEW s \in Streams, ReadHandler(s)
  PROVE  Types' /\ Frame(s) /\ Local(s)'
<1>1. /\ Serves(s, "Read") /\ bus' = bus
      /\ UNCHANGED <<proto, waiting, execs, results, blocks>> /\ execs' = execs
  BY DEF ReadHandler, timerVars
<1>2. /\ mutex[s] = Free /\ At(s, "port") /\ at["port"].act = "Read" /\ core[s] \in CoreType /\ "port" \in Workers
      /\ Waits(s, "Read")
  BY <1>1, PortServes
<1>3. Pend(s) = {} /\ Has(s, "AcceptInput")
  BY <1>2 DEF Waits, WaitsFor, Pend, Has
<1>4. \/ Disconnected(s)
      \/ \E io \in {"Success", "Timeout", "NoReply", "Fault"} :
         \E r \in Parse(io) \ {"more"} : \E left \in LeftBy(s, r) :
              Enter(s, "port", [core[s] EXCEPT !.lastInputStatus = io, !.unparsedInput = left], Then(r), Status(r))
  BY <1>3, Zenon DEF ReadHandler
<1>5. "Read" \in Requests /\ "port" # "callback" /\ UNCHANGED <<proto, waiting, results, blocks>>
  BY <1>1 DEF Requests
<1>6. CASE Disconnected(s)
  BY <1>1, <1>5, <1>6, DisconnectedStep
<1>7. ASSUME NEW io \in {"Success", "Timeout", "NoReply", "Fault"}, NEW r \in Parse(io) \ {"more"}, NEW left \in LeftBy(s, r),
             Enter(s, "port", [core[s] EXCEPT !.lastInputStatus = io, !.unparsedInput = left], Then(r), Status(r))
      PROVE  Types' /\ Frame(s) /\ Local(s)'
  <2> DEFINE c == [core[s] EXCEPT !.lastInputStatus = io, !.unparsedInput = left]
  <2>1. left \in BOOLEAN
    BY <1>2 DEF LeftBy, CoreType
  <2>2. c \in CoreType /\ c.flags = core[s].flags /\ c.pact = core[s].pact
    BY <1>2, <2>1 DEF CoreType
  <2>3. Enter(s, "port", c, Then(r), Status(r))
    BY <1>7
  <2> HIDE DEF c
  <2>4. c.flags \cap BusPending = {}
        /\ ("BusOwner" \in c.flags <=> Has(s, "BusOwner")) /\ ("InitRun" \in c.flags <=> Has(s, "InitRun"))
    BY <1>3, <2>2 DEF Pend, Has
  <2> QED BY <1>1, <1>2, <1>5, <2>2, <2>3, <2>4, ParsedStatus, CallbackStep
<1> QED BY <1>4, <1>6, <1>7

\* disconnectHandler goes on with the protocol.
LEMMA DisconnectHandlerStep ==
  ASSUME IInv, NEW s \in Streams, DisconnectHandler(s)
  PROVE  Types' /\ Frame(s) /\ Local(s)'
<1>1. /\ Serves(s, "Disconnect") /\ bus' = bus
      /\ UNCHANGED <<proto, waiting, results, blocks>> /\ execs' = execs
  BY DEF DisconnectHandler, timerVars
<1>2. /\ mutex[s] = Free /\ At(s, "port") /\ at["port"].act = "Disconnect" /\ core[s] \in CoreType /\ "port" \in Workers
      /\ Waits(s, "Disconnect")
  BY <1>1, PortServes
<1>3. Pend(s) = {} /\ core[s].activeCommand = "disconnect"
  BY <1>2 DEF Waits, WaitsFor, Pend
<1>4. Enter(s, "port", core[s], "eval", "Success")
  BY <1>3 DEF DisconnectHandler
<1> QED BY <1>1, <1>2, <1>3, <1>4, CallbackResults, CallbackStep DEF Pend, Has

\* All of handleRequest.
LEMMA HandleIOStep ==
  ASSUME IInv, NEW s \in Streams, HandleIO(s)
  PROVE  Types' /\ Frame(s) /\ Local(s)'
<1>1. ~ConnectHandler(s)
  <2>1. ~Waits(s, "Connect")
    BY DEF Waits, WaitsFor, Requests
  <2> QED BY <2>1, PortServes DEF ConnectHandler
<1> QED BY <1>1, HandleRequestStep, LockHandlerStep, WriteHandlerStep, ReadHandlerStep, DisconnectHandlerStep DEF HandleIO

\* The queue timeout takes a request from the queue.
LEMMA QueueTimeoutStep ==
  ASSUME IInv, NEW s \in Streams, QueueTimeout(s)
  PROVE  Types' /\ Frame(s) /\ Local(s)'
<1> DEFINE b == [bus[s] EXCEPT !.queued = "no", !.queueTimer = FALSE]
           a == [s |-> s, act |-> bus[s].ioAction]
<1>1. /\ at["queueTimer"] = Idle /\ bus[s].queueTimer
      /\ bus' = [bus EXCEPT ![s].queued = "no", ![s].queueTimer = FALSE] /\ at' = [at EXCEPT !["queueTimer"] = a]
      /\ proto' = proto /\ core' = core /\ mutex' = mutex /\ waiting' = waiting /\ execs' = execs
      /\ results' = results /\ blocks' = blocks /\ holder' = holder
  BY DEF QueueTimeout, timerVars
<1>2. Types /\ Local(s) /\ bus[s] \in BusType /\ s # None
  BY StreamsAssumption DEF IInv, Types
<1>3. bus[s].queued = "low" /\ ~Held(s) /\ ~waiting[s] /\ ~execs[s] /\ \A t \in Workers : ~At(s, t)
  BY <1>1, <1>2 DEF Local, Alone
<1>4. Waits(s, bus[s].ioAction) /\ bus[s].ioAction # "Disconnect"
  BY <1>2, <1>3 DEF Local, Expected
<1>5. bus' = [bus EXCEPT ![s] = b]
  BY <1>1, <1>2 DEF Types
<1>6. b \in BusType /\ b.queued = "no" /\ ~b.queueTimer
  BY <1>2 DEF BusType
<1>7. a \in AtType /\ a.s = s /\ a.act = bus[s].ioAction
  BY <1>4 DEF AtType, Waits, WaitsFor
<1> HIDE DEF b, a
<1>8. /\ bus'[s] = b /\ bus' \in [Streams -> BusType] /\ at' \in [Threads -> AtType] /\ at'["queueTimer"] = a
      /\ \A t \in Threads \ {"queueTimer"} : at'[t] = at[t]
  <2>1. "queueTimer" \in Threads
    BY DEF Threads
  <2>2. at' = [at EXCEPT !["queueTimer"] = a]
    BY <1>1
  <2> QED BY <1>2, <1>5, <1>6, <1>7, <2>1, <2>2, BusBecomes, AtBecomes
<1>9. Types'
  BY <1>1, <1>2, <1>8 DEF Types, PlainProto, Threads
<1>10. Frame(s)
  BY <1>1, <1>2, <1>5, <1>7, <1>8 DEF Types, Frame, Idle
<1>11. At(s, "queueTimer")' /\ \A t \in Workers \ {"queueTimer"} : ~At(s, t)'
  BY <1>3, <1>7, <1>8 DEF At, Workers, Threads
<1>12. ~Held(s)' /\ mutex[s].by = None
  BY <1>1, <1>3 DEF Held
<1>13. Alone(s)'
  BY <1>1, <1>3, <1>6, <1>8, <1>11, <1>12, StreamsAssumption DEF Alone, Threads, Workers
<1>14. Expected(s)'
  BY <1>1, <1>3, <1>4, <1>6, <1>7, <1>8, <1>11, <1>12 DEF Expected, Waits, Workers
<1>15. Running(s)'
  BY <1>1, <1>2, <1>3, <1>12, StreamsAssumption DEF Local, Running, Free, Threads
<1>16. Active(s)'
  <2>1. Carried(s)
    BY <1>3 DEF Carried
  <2> QED BY <1>1, <1>2, <2>1 DEF Local, Active, Has
<1>17. Owner(s)'
  BY <1>1, <1>2, <1>3, <1>11, <1>12, StreamsAssumption DEF Local, Owner, Has, Threads, Workers
<1> QED BY <1>9, <1>10, <1>13, <1>14, <1>15, <1>16, <1>17 DEF Local

\* Its callback finishes the protocol.
LEMMA HandleTimeoutStep ==
  ASSUME IInv, NEW s \in Streams, HandleTimeout(s)
  PROVE  Types' /\ Frame(s) /\ Local(s)'
<1> DEFINE act == at["queueTimer"].act
           fs == Pending(act)
           st == IF act = "Read" THEN "Fault" ELSE core[s].lastInputStatus
           d == Drop(s, fs)
           c == [d EXCEPT !.lastInputStatus = st]
<1>1. /\ At(s, "queueTimer") /\ mutex[s] = Free /\ "queueTimer" \in Workers
      /\ UNCHANGED <<proto, waiting, results, blocks>> /\ bus' = bus /\ execs' = execs
  BY DEF HandleTimeout, timerVars, At, Workers
<1>2. Types /\ Local(s) /\ ~Held(s) /\ core[s] \in CoreType
  BY <1>1, FreeStream
<1>3. Waits(s, act) /\ act \in {"Lock", "Write", "Read"}
  BY <1>1, <1>2 DEF Local, Expected, Waits, WaitsFor, Requests
<1>4. Pend(s) = fs /\ Awaited(s, act) /\ TimeoutResult(act) \in Results
  BY <1>3, CallbackResults DEF Waits, WaitsFor, Pend, Pending, Awaited, Has, TimeoutResult
<1>5. fs \subseteq BusPending \cup {"AcceptInput", "AcceptEvent"}
  BY <1>3 DEF Pending, BusPending
<1>6. /\ d \in CoreType /\ d.flags = core[s].flags \ fs /\ d.pact = core[s].pact /\ d.lastInputStatus = core[s].lastInputStatus
      /\ "BusOwner" \in d.flags <=> Has(s, "BusOwner")
      /\ "InitRun" \in d.flags <=> Has(s, "InitRun")
  BY <1>2, <1>5, DropKeeps DEF Drop, CoreType
<1>7. Enter(s, "queueTimer", c, "finish", TimeoutResult(act))
  <2>1. Enter(s, "queueTimer", [d EXCEPT !.lastInputStatus = IF act = "Read" THEN "Fault" ELSE @], "finish", TimeoutResult(act))
    BY <1>4 DEF HandleTimeout
  <2> HIDE DEF d, act
  <2> QED BY <1>6, <2>1
<1>8. st \in {"Success", "Timeout", "NoReply", "Fault"}
  BY <1>2 DEF CoreType
<1> HIDE DEF d, st
<1>9. c \in CoreType /\ c.flags = d.flags /\ c.pact = d.pact
  BY <1>6, <1>8 DEF CoreType
<1> HIDE DEF c, fs, act
<1>10. c.flags \cap BusPending = {}
  BY <1>4, <1>6, <1>9 DEF Pend
<1>11. "queueTimer" # "callback" /\ "queueTimer" # "port"
  OBVIOUS
<1> QED BY <1>1, <1>4, <1>6, <1>7, <1>9, <1>10, <1>11, CallbackStep

\* The timer of a wait expires, in the thread of the timers.
LEMMA WaitExpiresStep ==
  ASSUME IInv, NEW s \in Streams, WaitExpires(s)
  PROVE  Types' /\ Frame(s) /\ Local(s)'
<1> DEFINE a == [s |-> s, act |-> "wait"]
<1>1. /\ at["timer"] = Idle /\ waiting[s]
      /\ waiting' = [waiting EXCEPT ![s] = FALSE] /\ at' = [at EXCEPT !["timer"] = a]
      /\ proto' = proto /\ core' = core /\ mutex' = mutex /\ bus' = bus /\ execs' = execs
      /\ results' = results /\ blocks' = blocks /\ holder' = holder
  BY DEF WaitExpires
<1>2. Types /\ Local(s) /\ s # None
  BY StreamsAssumption DEF IInv
<1>3. bus[s].queued = "no" /\ ~bus[s].queueTimer /\ ~Held(s) /\ ~execs[s] /\ \A t \in Workers : ~At(s, t)
  BY <1>1, <1>2 DEF Local, Alone
<1>4. Pend(s) = {"WaitPending"} /\ core[s].activeCommand = "wait"
  BY <1>1, <1>2 DEF Local, Expected
<1>5. a \in AtType /\ a.s = s /\ a.act = "wait"
  BY DEF AtType
<1> HIDE DEF a
<1>6. at' \in [Threads -> AtType] /\ at'["timer"] = a /\ \A t \in Threads \ {"timer"} : at'[t] = at[t]
  <2>1. "timer" \in Threads
    BY DEF Threads
  <2> QED BY <1>1, <1>2, <1>5, <2>1, AtBecomes
<1>7. waiting' \in [Streams -> BOOLEAN] /\ ~waiting'[s] /\ \A u \in Streams \ {s} : waiting'[u] = waiting[u]
  BY <1>1, <1>2 DEF Types
<1>8. Types'
  BY <1>1, <1>2, <1>6, <1>7 DEF Types, PlainProto, Threads
<1>9. Frame(s)
  BY <1>1, <1>5, <1>6, <1>7 DEF Frame, Idle
<1>10. At(s, "timer")' /\ \A t \in Workers \ {"timer"} : ~At(s, t)'
  BY <1>3, <1>5, <1>6 DEF At, Workers, Threads
<1>11. ~Held(s)' /\ mutex[s].by = None
  BY <1>1, <1>3 DEF Held
<1>12. Alone(s)'
  BY <1>1, <1>3, <1>7, <1>10, <1>11, StreamsAssumption DEF Alone, Threads, Workers
<1>13. Expected(s)'
  BY <1>1, <1>3, <1>4, <1>5, <1>6, <1>7, <1>10, <1>11 DEF Expected, Pend, Workers
<1>14. Running(s)'
  BY <1>1, <1>2, <1>3, <1>11, StreamsAssumption DEF Local, Running, Free, Threads
<1>15. Active(s)'
  <2>1. Carried(s)
    BY <1>1 DEF Carried
  <2> QED BY <1>1, <1>2, <2>1 DEF Local, Active, Has
<1>16. Owner(s)'
  BY <1>1, <1>2, <1>3, <1>10, <1>11, StreamsAssumption DEF Local, Owner, Has, Threads, Workers
<1> QED BY <1>8, <1>9, <1>12, <1>13, <1>14, <1>15, <1>16 DEF Local

\* timerCallback goes on after a wait.
LEMMA TimerCallbackStep ==
  ASSUME IInv, NEW s \in Streams, TimerCallback(s)
  PROVE  Types' /\ Frame(s) /\ Local(s)'
<1> DEFINE c == Drop(s, {"WaitPending"})
<1>1. /\ At(s, "timer") /\ mutex[s] = Free /\ "timer" \in Workers
      /\ UNCHANGED <<proto, waiting, results, blocks>> /\ bus' = bus /\ execs' = execs
  BY DEF TimerCallback, timerVars, At, Workers
<1>2. Types /\ Local(s) /\ ~Held(s) /\ core[s] \in CoreType
  BY <1>1, FreeStream
<1>3. Pend(s) = {"WaitPending"}
  BY <1>1, <1>2 DEF Local, Expected
<1>4. {"WaitPending"} \subseteq BusPending \cup {"AcceptInput", "AcceptEvent"} /\ Has(s, "WaitPending")
  BY <1>3 DEF BusPending, Pend, Has
<1>5. Enter(s, "timer", c, "eval", "Success")
  BY <1>4 DEF TimerCallback
<1>6. /\ c \in CoreType /\ c.flags = core[s].flags \ {"WaitPending"} /\ c.pact = core[s].pact
      /\ "BusOwner" \in c.flags <=> Has(s, "BusOwner")
      /\ "InitRun" \in c.flags <=> Has(s, "InitRun")
  BY <1>2, <1>4, DropKeeps
<1> HIDE DEF c
<1>7. c.flags \cap BusPending = {} /\ "timer" # "callback" /\ "timer" # "port"
  BY <1>3, <1>6 DEF Pend
<1> QED BY <1>1, <1>5, <1>6, <1>7, CallbackResults, CallbackStep

\* execCallback goes on after the command, or fails.
LEMMA ExecCallbackStep ==
  ASSUME IInv, NEW s \in Streams, ExecCallback(s)
  PROVE  Types' /\ Frame(s) /\ Local(s)'
<1>1. /\ execs[s] /\ execs' = [execs EXCEPT ![s] = FALSE] /\ mutex[s] = Free
      /\ UNCHANGED <<proto, waiting, results, blocks>> /\ bus' = bus
  BY DEF ExecCallback
<1>2. Types /\ Local(s) /\ core[s] \in CoreType
  BY <1>1, FreeStream
<1>3. Pend(s) = {} /\ core[s].activeCommand = "exec"
  BY <1>1, <1>2 DEF Local, Expected
<1>4. Enter(s, "callback", core[s], "eval", "Success") \/ Enter(s, "callback", core[s], "finish", "Fault")
  BY <1>3 DEF ExecCallback
<1>5. "callback" \notin Workers /\ core[s].flags \cap BusPending = {}
  BY <1>3 DEF Workers, Pend
<1>6. CASE Enter(s, "callback", core[s], "eval", "Success")
  BY <1>1, <1>2, <1>5, <1>6, CallbackResults, CallbackStep DEF Has
<1>7. CASE Enter(s, "callback", core[s], "finish", "Fault")
  BY <1>1, <1>2, <1>5, <1>7, CallbackResults, CallbackStep DEF Has
<1> QED BY <1>4, <1>6, <1>7

\* The driver goes to a stream, or returns from it, and changes flags at most when it is at rest.
LEMMA DriverStep ==
  ASSUME IInv, NEW s \in Streams, NEW a \in AtType, at["driver"].s \in {None, s}, a.s \in {None, s},
         at' = [at EXCEPT !["driver"] = a], mutex[s].by # "driver",
         core' = core \/ (core' = [core EXCEPT ![s].flags = {}] /\ mutex[s] = Free /\ core[s].activeCommand = "end"),
         UNCHANGED <<proto, mutex, bus, waiting, execs, results, blocks, holder>>
  PROVE  Types' /\ Frame(s) /\ Local(s)'
<1>1. Types /\ Local(s) /\ s # None /\ core[s] \in CoreType
  BY StreamsAssumption DEF IInv, Types
<1>2. at' \in [Threads -> AtType] /\ at'["driver"] = a /\ \A t \in Threads \ {"driver"} : at'[t] = at[t]
  <2>1. "driver" \in Threads
    BY DEF Threads
  <2> QED BY <1>1, <2>1, AtBecomes
<1>3. \A t \in Workers : at'[t] = at[t] /\ At(s, t)' = At(s, t)
  BY <1>2 DEF At, Workers, Threads
<1>4. /\ core'[s] \in CoreType /\ core' \in [Streams -> CoreType] /\ \A u \in Streams \ {s} : core'[u] = core[u]
      /\ core'[s].pact = core[s].pact /\ core'[s].activeCommand = core[s].activeCommand
      /\ \/ core'[s] = core[s]
         \/ core'[s].flags = {} /\ mutex[s] = Free /\ core[s].activeCommand = "end"
  <2>1. CASE core' = core
    BY <1>1, <2>1 DEF Types
  <2>2. CASE core' = [core EXCEPT ![s].flags = {}] /\ mutex[s] = Free /\ core[s].activeCommand = "end"
    <3> DEFINE c == [core[s] EXCEPT !.flags = {}]
    <3>1. core' = [core EXCEPT ![s] = c]
      BY <1>1, <2>2 DEF Types
    <3>2. c \in CoreType /\ c.flags = {} /\ c.pact = core[s].pact /\ c.activeCommand = core[s].activeCommand
      BY <1>1 DEF CoreType
    <3> HIDE DEF c
    <3> QED BY <1>1, <2>2, <3>1, <3>2, CoreBecomes
  <2> QED BY <2>1, <2>2
<1>5. Types'
  BY <1>1, <1>2, <1>4 DEF Types, PlainProto, Threads
<1>6. Frame(s)
  BY <1>2, <1>4 DEF Frame
<1>7. Alone(s)'
  BY <1>1, <1>3 DEF Local, Alone, Held, At
<1>8. CASE core'[s] = core[s]
  <2>1. Expected(s)'
    BY <1>1, <1>3, <1>8 DEF Local, Expected, Held, Waits, Pend, Has, PortAct, Workers
  <2>2. Running(s)' /\ Active(s)'
    BY <1>1, <1>3, <1>8 DEF Local, Running, Active, Carried, Held, Pend, Has
  <2>3. Owner(s)'
    BY <1>1, <1>3, <1>8 DEF Local, Owner, Held, Has, PortAct, Workers
  <2> QED BY <1>5, <1>6, <1>7, <2>1, <2>2, <2>3 DEF Local
<1>9. CASE core'[s].flags = {} /\ mutex[s] = Free /\ core[s].activeCommand = "end"
  <2>1. ~Carried(s) /\ ~Held(s)
    BY <1>9, FreeStream
  <2>2. ~Carried(s)' /\ ~Held(s)' /\ mutex'[s] = Free
    BY <1>3, <1>9, <2>1 DEF Carried, Held
  <2>3. Expected(s)'
    BY <2>2 DEF Expected, Carried, Workers
  <2>4. Running(s)'
    BY <2>2, StreamsAssumption DEF Running, Held, Free, Threads
  <2>5. Active(s)'
    BY <1>1, <1>4, <1>9, <2>1, <2>2 DEF Local, Active, Has
  <2>6. Owner(s)'
    BY <1>1, <1>4, <1>9, <2>1, <2>2 DEF Local, Owner, Has, Carried, Workers
  <2> QED BY <1>5, <1>6, <1>7, <2>3, <2>4, <2>5, <2>6 DEF Local
<1> QED BY <1>4, <1>8, <1>9

\* exceptionHandler looks at the stream, or goes by.
LEMMA ExceptionHandlerStep ==
  ASSUME IInv, NEW s \in Streams, ExceptionHandler(s)
  PROVE  Types' /\ Frame(s) /\ Local(s)'
<1> DEFINE a == IF portConnected /\ bus[s].ioAction = "None" THEN [s |-> s, act |-> "connect"] ELSE Idle
<1>1. /\ at["driver"] = Idle /\ core' = core
      /\ UNCHANGED <<proto, mutex, bus, waiting, execs, results, blocks, holder>>
  BY DEF ExceptionHandler, timerVars
<1>2. Types /\ Local(s) /\ s # None
  BY StreamsAssumption DEF IInv
<1>3. at' = [at EXCEPT !["driver"] = a]
  BY <1>1, <1>2 DEF ExceptionHandler, Types, Threads
<1>4. a \in AtType /\ a.s \in {None, s} /\ at["driver"].s \in {None, s}
  BY <1>1 DEF AtType, Idle
<1>5. mutex[s].by # "driver"
  BY <1>1, <1>2 DEF Local, Alone, At, Idle
<1> HIDE DEF a
<1> QED BY <1>1, <1>3, <1>4, <1>5, DriverStep

\* connectCallback starts @init when the stream is at rest.
LEMMA ConnectCallbackStep ==
  ASSUME IInv, NEW s \in Streams, ConnectCallback(s)
  PROVE  Types' /\ Frame(s) /\ Local(s)'
<1> DEFINE c == Started(s, proto[s].onInit, {"InitRun"})
<1>1. /\ at["driver"] = [s |-> s, act |-> "connect"] /\ mutex[s] = Free
      /\ proto' = proto /\ bus' = bus /\ waiting' = waiting /\ execs' = execs /\ results' = results /\ blocks' = blocks
  BY DEF ConnectCallback, timerVars
<1>2. /\ Types /\ Local(s) /\ ~Held(s) /\ mutex[s].by = None /\ s # None /\ core[s] \in CoreType
      /\ core[s].activeCommand = "end" => ~Carried(s)
  BY <1>1, FreeStream
<1>3. mutex[s].by # "driver" /\ at["driver"].s = s /\ At(s, "driver") /\ core[s].activeCommand # "connect"
  BY <1>1, <1>2, StreamsAssumption DEF At, Threads, CoreType, PlainCommands
<1>4. Idle \in AtType /\ Idle.s = None
  BY DEF Idle, AtType
<1>5. \/ core[s].activeCommand = "end" /\ Enter(s, "driver", c, "eval", "Success")
      \/ /\ core[s].activeCommand = "end" /\ core' = [core EXCEPT ![s].flags = {}]
         /\ at' = [at EXCEPT !["driver"] = Idle] /\ mutex' = mutex /\ holder' = holder
      \/ at' = [at EXCEPT !["driver"] = Idle] /\ core' = core /\ mutex' = mutex /\ holder' = holder
  <2>1. CASE core[s].activeCommand = "end" /\ proto[s].onInit # << >>
    BY <2>1 DEF ConnectCallback
  <2>2. CASE core[s].activeCommand = "end" /\ proto[s].onInit = << >>
    BY <2>2 DEF ConnectCallback
  <2>3. CASE core[s].activeCommand # "end"
    <3>1. NotExpected(s, "driver")
      BY <1>3, <2>3 DEF ConnectCallback
    <3> QED BY <3>1 DEF NotExpected, HolderAfter
  <2> QED BY <2>1, <2>2, <2>3
<1>6. CASE core[s].activeCommand = "end" /\ Enter(s, "driver", c, "eval", "Success")
  <2>1. bus[s].queued = "no" /\ ~bus[s].queueTimer /\ ~waiting[s] /\ ~execs[s] /\ \A t \in Workers : ~At(s, t)
    BY <1>2, <1>6 DEF Carried, Local, Alone
  <2>2. ~Has(s, "BusOwner") /\ (results[s] > 0 => core[s].pact)
    BY <1>2, <1>6 DEF Local, Owner, Active
  <2>3. blocks[s] = 0 /\ holder # s
    BY <1>2, <2>2 DEF Local, Owner
  <2>4. c \in CoreType /\ c.flags = {"InitRun"} /\ c.pact = core[s].pact
    <3>1. proto[s].onInit \in Seq(PlainCommands)
      BY <1>2 DEF Types, PlainProto
    <3>2. {"InitRun"} \subseteq Flags
      BY DEF Flags
    <3> QED BY <1>2, <3>1, <3>2 DEF CoreType, Started, Results
  <2> HIDE DEF c
  <2>5. {"InitRun"} \cap BusPending = {} /\ "driver" \notin Workers
    BY DEF BusPending, Workers
  <2> QED BY <1>1, <1>2, <1>3, <1>6, <2>1, <2>2, <2>3, <2>4, <2>5, CallbackResults, EnterStep DEF Types
<1>7. CASE /\ core[s].activeCommand = "end" /\ core' = [core EXCEPT ![s].flags = {}]
           /\ at' = [at EXCEPT !["driver"] = Idle] /\ mutex' = mutex /\ holder' = holder
  BY <1>1, <1>3, <1>4, <1>7, DriverStep
<1>8. CASE at' = [at EXCEPT !["driver"] = Idle] /\ core' = core /\ mutex' = mutex /\ holder' = holder
  BY <1>1, <1>3, <1>4, <1>8, DriverStep
<1> QED BY <1>5, <1>6, <1>7, <1>8

-----------------------------------------------------------------------------
(* The invariant, and what follows from it *)

\* Plain protocols wait for no event.
LEMMA NoEvents ==
  ASSUME IInv, NEW s \in Streams
  PROVE  ~Interrupt(s) /\ ~TimerExpires(s) /\ ~TimerResets(s) /\ ~EventCallback(s, "timer") /\ ~EventCallback(s, "driver")
<1>1. Types
  BY DEF IInv
<1>2. ~TimerExpires(s)
  BY <1>1 DEF Types, BusType, TimerExpires
<1>3. ~TimerResets(s) /\ ~EventCallback(s, "timer") /\ ~EventCallback(s, "driver")
  <2>1. \A t \in Threads : at[t].act \notin {"expired", "event"}
    BY <1>1 DEF Types, AtType, Requests
  <2>2. "timer" \in Threads /\ "driver" \in Threads
    BY DEF Threads
  <2> QED BY <2>1, <2>2 DEF TimerResets, EventCallback
<1>4. ~Interrupt(s)
  <2>1. proto[s].commands \in Seq(PlainCommands)
    BY <1>1 DEF Types, PlainProto
  <2>2. ~HasEvent(s)
    BY <2>1 DEF HasEvent, PlainCommands
  <2> QED BY <2>2 DEF Interrupt
<1> QED BY <1>2, <1>3, <1>4

\* All steps of a stream.
LEMMA StreamStep ==
  ASSUME IInv, NEW s \in Streams, Process(s) \/ Interrupt(s) \/ Step(s), ~interfered'
  PROVE  Types' /\ Frame(s) /\ Local(s)'
<1>5. CASE Process(s)
  BY <1>5, ProcessStep
<1>6. CASE EvalCommand(s)
  BY <1>6, EvalCommandStep
<1>7. CASE FinishProtocol(s)
  BY <1>7, FinishHandlerStep, FinishUnlockStep, BusFinishStep DEF FinishProtocol
<1>8. CASE RecordProcess(s) \/ PortTake(s) \/ HandleIO(s)
  BY <1>8, RecordProcessStep, PortTakeStep, HandleIOStep
<1>9. CASE QueueTimeout(s) \/ HandleTimeout(s)
  BY <1>9, QueueTimeoutStep, HandleTimeoutStep
<1>10. CASE Timers(s)
  BY NoEvents, <1>10, WaitExpiresStep, TimerCallbackStep DEF Timers
<1>11. CASE Driver(s)
  BY NoEvents, <1>11, ExceptionHandlerStep, ConnectCallbackStep DEF Driver
<1>12. CASE ExecCallback(s)
  BY <1>12, ExecCallbackStep
<1> QED BY NoEvents, <1>5, <1>6, <1>7, <1>8, <1>9, <1>10, <1>11, <1>12 DEF Step

\* What the port does when it loses or gets back its connection.
LEMMA Rest ==
  ASSUME IInv, UNCHANGED <<proto, core, mutex, bus, timerVars, results, at, blocks, holder>>
  PROVE  IInv'
<1>1. /\ proto' = proto /\ core' = core /\ mutex' = mutex /\ bus' = bus /\ waiting' = waiting /\ execs' = execs
      /\ results' = results /\ at' = at /\ blocks' = blocks /\ holder' = holder
  BY DEF timerVars
<1>2. Types'
  BY <1>1 DEF IInv, Types, PlainProto
<1>3. ASSUME NEW s \in Streams PROVE Local(s)'
  <2>1. Local(s)
    BY DEF IInv
  <2>2. Alone(s)' /\ Running(s)'
    BY <1>1, <2>1 DEF Local, Alone, Running, Held, At, Pend, Has
  <2>3. Expected(s)'
    BY <1>1, <2>1 DEF Local, Expected, Held, At, Waits, PortAct, Pend, Has
  <2>4. Active(s)' /\ Owner(s)'
    BY <1>1, <2>1 DEF Local, Active, Carried, Owner, Held, At, PortAct, Has
  <2> QED BY <2>2, <2>3, <2>4 DEF Local
<1> QED BY <1>2, <1>3 DEF IInv

\* The records are passive at the start.
LEMMA InitInvariant == ASSUME Plain, Init PROVE IInv
<1>1. Types
  <2>1. \A s \in Streams : PlainProto(s)
    BY DEF Init, Plain, PlainProto
  <2>2. core \in [Streams -> CoreType]
    <3>1. << >> \in Seq(PlainCommands)
      OBVIOUS
    <3> QED BY <3>1 DEF Init, CoreType, Results
  <2>3. mutex \in [Streams -> MutexType]
    BY DEF Init, MutexType, Free, Results
  <2>4. bus \in [Streams -> BusType]
    BY DEF Init, BusType
  <2>5. at \in [Threads -> AtType] /\ at["client"] = Idle /\ at["callback"] = Idle
    BY DEF Init, AtType, Idle, Threads
  <2> QED BY <2>1, <2>2, <2>3, <2>4, <2>5 DEF Init, Types
<1>2. ASSUME NEW s \in Streams PROVE Local(s)
  <2>1. s # None /\ \A t \in Threads : at[t] = Idle /\ ~At(s, t) /\ t # None
    BY StreamsAssumption DEF Init, At, Idle
  <2>2. /\ mutex[s] = Free /\ ~Held(s) /\ mutex[s].by = None /\ mutex[s].next = "none"
        /\ bus[s].queued = "no" /\ ~bus[s].queueTimer
    BY DEF Init, Held, Free
  <2>3. core[s].flags = {} /\ core[s].pact = FALSE /\ ~waiting[s] /\ ~execs[s] /\ results[s] = 0 /\ blocks[s] = 0 /\ holder = None
    BY DEF Init
  <2>4. Workers \cup {"driver", "client"} \subseteq Threads
    BY DEF Workers, Threads
  <2>5. Alone(s)
    BY <2>1, <2>2, <2>3, <2>4 DEF Alone
  <2>6. Expected(s)
    BY <2>1, <2>2, <2>3, <2>4 DEF Expected, Workers
  <2>7. Running(s)
    BY <2>1, <2>2, <2>4 DEF Running
  <2>8. Active(s)
    BY <2>1, <2>2, <2>3, <2>4 DEF Active, Carried, Has
  <2>9. Owner(s)
    BY <2>1, <2>2, <2>3, <2>4 DEF Owner, Has, Workers
  <2> QED BY <2>5, <2>6, <2>7, <2>8, <2>9 DEF Local
<1> QED BY <1>1, <1>2 DEF IInv

\* What has happened is not forgotten.
LEMMA InterferedStays == ASSUME [Next]_vars, interfered PROVE interfered'
<1>1. CASE \E s \in Streams : Process(s)
  BY <1>1 DEF Process
<1>2. CASE \E s \in Streams : Interrupt(s)
  BY <1>2 DEF Interrupt
<1>3. CASE \E s \in Streams : Step(s)
  <2> SUFFICES ASSUME NEW s \in Streams, Step(s) PROVE interfered' = interfered
    BY <1>3
  <2>1. CASE EvalCommand(s)
    BY <2>1 DEF EvalCommand, EvalStillWaiting, EvalEnd, EvalOut, FormatFails, EvalIn, EvalWait, EvalEvent, EvalExec,
       EvalConnect, EvalDisconnect
  <2>2. CASE FinishProtocol(s) \/ RecordProcess(s) \/ PortTake(s)
    BY <2>2 DEF FinishProtocol, FinishHandler, FinishUnlock, BusFinish, RecordProcess, PortTake
  <2>3. CASE HandleIO(s)
    BY <2>3 DEF HandleIO, HandleRequest, LockHandler, WriteHandler, ReadHandler, ConnectHandler, DisconnectHandler
  <2>4. CASE QueueTimeout(s) \/ HandleTimeout(s) \/ Timers(s) \/ Driver(s) \/ ExecCallback(s)
    BY <2>4 DEF QueueTimeout, HandleTimeout, Timers, TimerExpires, TimerResets, WaitExpires, TimerCallback, EventCallback,
       Driver, ExceptionHandler, ConnectCallback, ExecCallback
  <2> QED BY <2>1, <2>2, <2>3, <2>4 DEF Step
<1>4. CASE ConnectionLost \/ ConnectionBack \/ UNCHANGED vars
  BY <1>4 DEF ConnectionLost, ConnectionBack, vars
<1> QED BY <1>1, <1>2, <1>3, <1>4 DEF Next

\* The invariant holds, for any streams, any plain protocols, and any number of lost connections,
\* until a record is processed while its @init runs.
THEOREM StreamInvariant == ASSUME Plain PROVE Spec => [](interfered \/ IInv)
<1>1. Init => IInv
  BY InitInvariant
<1>2. (interfered \/ IInv) /\ [Next]_vars => (interfered \/ IInv)'
  <2> SUFFICES ASSUME interfered \/ IInv, [Next]_vars, ~interfered' PROVE IInv'
    OBVIOUS
  <2>4. IInv
    BY InterferedStays
  <2>1. ASSUME NEW s \in Streams, Process(s) \/ Interrupt(s) \/ Step(s) PROVE IInv'
    BY <2>1, <2>4, StreamStep, OthersStay
  <2>2. CASE ConnectionLost \/ ConnectionBack
    BY <2>2, <2>4, Rest DEF ConnectionLost, ConnectionBack
  <2>3. CASE UNCHANGED vars
    BY <2>3, <2>4, Rest DEF vars, timerVars
  <2> QED BY <2>1, <2>2, <2>3 DEF Next
<1> QED BY <1>1, <1>2, PTL DEF Spec

\* "The device is unlocked when the protocol terminates" (processing.html): lockHandler blocks once,
\* finishProtocol and exec unblock once, whatever fails between.
THEOREM OwnerBlocksDevice == ASSUME Plain PROVE Spec => []OwnerBlocks
<1>1. interfered \/ IInv => OwnerBlocks
  <2> SUFFICES ASSUME IInv, NEW s \in Streams, Quiet(s)
               PROVE  /\ blocks[s] = IF Has(s, "BusOwner") THEN 1 ELSE 0
                      /\ Has(s, "BusOwner") => holder = s /\ core[s].activeCommand # "end"
    BY DEF OwnerBlocks
  <2>1. Local(s) /\ ~Held(s) /\ mutex[s].by = None
    BY FreeStream DEF Quiet
  <2> QED BY <2>1, StreamsAssumption DEF Local, Owner, Threads
<1> QED BY <1>1, StreamInvariant, PTL

\* portThread locks, writes and reads for no other stream while one owns the device: a reply is read
\* by the stream that has sent the request.
THEOREM ReplyReachesOwner == ASSUME Plain PROVE Spec => []ExclusiveAccess
<1>1. interfered \/ IInv => ExclusiveAccess
  <2> SUFFICES ASSUME IInv, NEW s \in Streams, NEW t \in Streams, s # t, Has(s, "BusOwner"), mutex[t] = Free
               PROVE  /\ ~Has(t, "BusOwner")
                      /\ ~(at["port"].s = t /\ at["port"].act \in {"Lock", "Write", "Read"})
    BY DEF ExclusiveAccess
  <2>1. Local(s) /\ Local(t) /\ mutex[t].by = None /\ s # None /\ t # None
    BY FreeStream, StreamsAssumption DEF IInv
  <2>2. holder = s \/ (holder = None /\ At(s, "port"))
    BY <2>1 DEF Local, Owner, Alone, Workers
  <2>3. ~Has(t, "BusOwner")
    BY <2>1, <2>2, StreamsAssumption DEF Local, Owner, Threads
  <2>4. ASSUME at["port"].s = t, at["port"].act \in {"Lock", "Write", "Read"} PROVE FALSE
    <3>1. At(t, "port") /\ PortAct(t) # "Disconnect"
      BY <2>4 DEF At, PortAct
    <3>2. holder \in {None, t}
      BY <2>1, <3>1 DEF Local, Owner
    <3> QED BY <2>1, <2>2, <2>4, <3>2 DEF At
  <2> QED BY <2>3, <2>4
<1> QED BY <1>1, StreamInvariant, PTL

\* protocolFinishHook asks once for the callback of the record, however a protocol ends: by its last
\* command, in a handler, by a timeout of the queue or because the device has gone.
THEOREM EveryResultOnce == ASSUME Plain PROVE Spec => []OneResult
<1>1. interfered \/ IInv => OneResult
  BY DEF IInv, Types, Local, Active, OneResult
<1> QED BY <1>1, StreamInvariant, PTL

-----------------------------------------------------------------------------
(* Something drives every active record *)

\* startProtocol returns before the protocol is finished.
Prompt == \A s \in Streams : \A p \in Protocols[s] : p.commands # << >> /\ Head(p.commands) # "in"

PromptProto(s) == proto[s].commands # << >> /\ Head(proto[s].commands) # "in"

\* What the client returns, and that an active record waits for what carries the protocol.
Drives(s) ==
  /\ mutex[s].by = "client" =>
       \/ mutex[s].next = "eval" /\ mutex[s].ret = "open" /\ core[s].commandIndex = proto[s].commands
       \/ mutex[s].next # "eval" /\ mutex[s].ret = "failed"
  /\ core[s].refused => ~Carried(s) /\ core[s].activeCommand # "end"
  /\ core[s].pact /\ ~core[s].refused /\ (~Carried(s) \/ Has(s, "InitRun")) => results[s] > 0

DInv == IInv /\ \A s \in Streams : PromptProto(s) /\ Drives(s)

\* What drives a record is left alone by a step of another stream.
LEMMA OthersDrive ==
  ASSUME DInv, NEW s \in Streams, Frame(s), Types', proto' = proto, Drives(s)'
  PROVE  \A u \in Streams : PromptProto(u)' /\ Drives(u)'
<1> SUFFICES ASSUME NEW u \in Streams \ {s} PROVE Drives(u)'
  BY DEF DInv, PromptProto
<1>1. Drives(u) /\ u # None
  BY StreamsAssumption DEF DInv
<1>2. /\ core'[u] = core[u] /\ mutex'[u] = mutex[u] /\ bus'[u] = bus[u]
      /\ waiting'[u] = waiting[u] /\ execs'[u] = execs[u] /\ results'[u] = results[u]
  BY DEF Frame
<1>3. \A t \in Workers : At(u, t)' = At(u, t)
  BY <1>1 DEF Frame, At, Workers, Threads
<1> QED BY <1>1, <1>2, <1>3 DEF Drives, Carried, Held, Has

\* A protocol that is carried on.
LEMMA CarriedOn ==
  ASSUME NEW s \in Streams, Drives(s), Carried(s), Carried(s)', core'[s].refused = core[s].refused,
         core'[s].pact /\ Has(s, "InitRun")' => core[s].pact /\ Has(s, "InitRun"), results'[s] = results[s],
         mutex'[s].by = "client" => mutex'[s].next # "eval" /\ mutex'[s].ret = "failed"
  PROVE  Drives(s)'
  BY DEF Drives

\* The holder of the mutex goes on; the client goes on only with a failure.
LEMMA ContinueDrives ==
  ASSUME DInv, NEW s \in Streams, Held(s), NEW c, NEW next, NEW status, NEW v, Continue(s, c, next, status, v),
         c.refused = core[s].refused, "InitRun" \in c.flags <=> Has(s, "InitRun"), c.pact = core[s].pact,
         results' = results, mutex[s].by = "client" => next # "eval" /\ v = "failed"
  PROVE  Drives(s)'
<1>1. Drives(s) /\ Types /\ Carried(s) /\ mutex[s] \in MutexType
  BY DEF DInv, IInv, Types, Carried
<1> DEFINE m == [mutex[s] EXCEPT !.next = next, !.status = status, !.ret = v]
<1>2. core' = [core EXCEPT ![s] = c] /\ mutex' = [mutex EXCEPT ![s] = m]
  BY <1>1 DEF Continue, Types
<1>3. m.by = mutex[s].by /\ m.next = next /\ m.ret = v
  BY <1>1 DEF MutexType
<1> HIDE DEF m
<1>4. core'[s] = c /\ mutex'[s] = m
  BY <1>1, <1>2 DEF Types
<1>5. Carried(s)'
  BY <1>3, <1>4 DEF Carried, Held
<1> QED BY <1>1, <1>3, <1>4, <1>5, CarriedOn DEF Has

\* What Leave leaves behind.
LEMMA LeaveTo ==
  ASSUME IInv, NEW s \in Streams, Held(s), NEW c \in CoreType, NEW v, Leave(s, c, v)
  PROVE  /\ core'[s].refused = c.refused /\ core'[s].flags = c.flags /\ core'[s].activeCommand = c.activeCommand
         /\ mutex[s].by # "client" => core'[s].pact = c.pact
         /\ mutex[s].by = "client" => core'[s].pact = (Decide(s, v) = "ok")
         /\ mutex'[s] = Free /\ mutex'[s].by = None /\ ~Held(s)' /\ \A t \in Workers : ~At(s, t)'
<1>1. Types /\ Local(s) /\ s # None /\ mutex[s].by \in Threads
  BY StreamsAssumption DEF IInv, Types, MutexType, Held, Workers, Threads
<1> DEFINE t == mutex[s].by
           p == Decide(s, v) = "ok"
           d == IF t = "client" THEN [c EXCEPT !.pact = p] ELSE c
<1>2. core' = [core EXCEPT ![s] = d] /\ mutex' = [mutex EXCEPT ![s] = Free] /\ at' = [at EXCEPT ![t] = Idle]
  BY Zenon DEF Leave
<1>3. p \in BOOLEAN /\ (p <=> Decide(s, v) = "ok")
  OBVIOUS
<1> HIDE DEF p
<1>4. /\ d.refused = c.refused /\ d.flags = c.flags /\ d.activeCommand = c.activeCommand
      /\ t # "client" => d.pact = c.pact
      /\ t = "client" => d.pact = p
  BY DEF CoreType
<1> HIDE DEF d
<1>5. core'[s] = d /\ mutex'[s] = Free
  BY <1>1, <1>2 DEF Types
<1>6. \A w \in Workers : ~At(s, w)'
  <2> SUFFICES ASSUME NEW w \in Workers, At(s, w)' PROVE FALSE
    OBVIOUS
  <2>1. w \in Threads
    BY DEF Workers, Threads
  <2>2. at'[w] = IF w = t THEN Idle ELSE at[w]
    BY <1>1, <1>2, <2>1 DEF Types
  <2>3. At(s, w) => w = t
    BY <1>1 DEF Local, Alone
  <2> QED BY <1>1, <2>2, <2>3 DEF At, Idle
<1> QED BY <1>3, <1>4, <1>5, <1>6 DEF Held, Free, p

\* The client returns as the first command does; the others leave the record as it is.
LEMMA LeaveDrives ==
  ASSUME DInv, NEW s \in Streams, Held(s), NEW c \in CoreType, NEW v, Leave(s, c, v), ~c.refused,
         "InitRun" \in c.flags <=> Has(s, "InitRun"), c.pact = core[s].pact, results' = results,
         bus'[s].queued # "no" \/ waiting'[s]
  PROVE  Drives(s)'
<1>1. Drives(s) /\ Local(s) /\ IInv /\ Carried(s)
  BY DEF DInv, IInv, Carried
<1>2. /\ core'[s].refused = c.refused /\ core'[s].flags = c.flags
      /\ mutex[s].by # "client" => core'[s].pact = c.pact
      /\ mutex'[s].by = None
  BY <1>1, LeaveTo
<1>3. Carried(s)'
  BY DEF Carried
<1>4. ~core[s].refused /\ (mutex[s].by = "client" => ~Has(s, "InitRun"))
  BY <1>1 DEF Drives, Local, Running
<1> QED BY <1>1, <1>2, <1>3, <1>4, StreamsAssumption DEF Drives, Has, Threads

\* A request is queued and carries the protocol, or refused.
LEMMA RequestDrives ==
  ASSUME DInv, NEW s \in Streams, Held(s), NEW c \in CoreType, NEW act, Request(s, c, act, "low"), ~c.refused, c.activeCommand # "end",
         "InitRun" \in c.flags <=> Has(s, "InitRun"), c.pact = core[s].pact,
         results' = results, waiting' = waiting, execs' = execs
  PROVE  Drives(s)'
<1>1. Types /\ Local(s) /\ IInv /\ bus[s] \in BusType
  BY DEF DInv, IInv, Types
<1>2. CASE Queueable(s, "low")
  <2>1. Queue(s, act, "low", TRUE) /\ Leave(s, c, "ok")
    BY <1>2 DEF Request
  <2>2. bus'[s].queued = "low"
    BY <1>1, <2>1 DEF Queue, Types, BusType
  <2> QED BY <2>1, <2>2, LeaveDrives
<1>3. CASE ~Queueable(s, "low")
  <2> DEFINE d == [c EXCEPT !.refused = TRUE]
  <2>1. bus' = [bus EXCEPT ![s].ioAction = act] /\ Leave(s, d, "failed")
    BY <1>3 DEF Request
  <2>2. d \in CoreType /\ d.refused /\ d.activeCommand # "end"
    BY DEF CoreType
  <2> HIDE DEF d
  <2>3. bus'[s].queued = bus[s].queued
    BY <1>1, <2>1 DEF Types, BusType
  <2>4. bus[s].queued = "no" /\ ~waiting[s] /\ ~execs[s]
    BY <1>1 DEF Local, Alone
  <2>5. /\ core'[s].refused = d.refused /\ core'[s].activeCommand = d.activeCommand
        /\ mutex'[s].by = None /\ ~Held(s)' /\ \A t \in Workers : ~At(s, t)'
    BY <1>1, <2>1, <2>2, LeaveTo
  <2> QED BY <2>2, <2>3, <2>4, <2>5, StreamsAssumption DEF Drives, Carried, Threads
<1> QED BY <1>2, <1>3

\* evalCommand leaves something that carries the protocol, or goes on.
LEMMA EvalDrives ==
  ASSUME DInv, NEW s \in Streams, EvalCommand(s)
  PROVE  Drives(s)'
<1> DEFINE e == Evaluated(s)
<1>1. IInv /\ Types /\ Drives(s) /\ PromptProto(s)
  BY DEF DInv, IInv
<1>2. mutex[s].next = "eval" /\ results' = results
  BY DEF EvalCommand, EvalStillWaiting, EvalEnd, EvalOut, FormatFails, EvalIn, EvalWait, EvalEvent, EvalExec,
     EvalConnect, EvalDisconnect, Eval
<1>3. /\ Local(s) /\ Held(s) /\ Pend(s) = {} /\ core[s] \in CoreType
  BY <1>1, <1>2, EvalStart
<1>4. Carried(s) /\ ~core[s].refused
  BY <1>1, <1>3 DEF Drives, Carried
<1>5. mutex[s].by = "client" => mutex[s].ret = "open" /\ Command(s) \notin {"in", "end"} /\ ~Has(s, "InitRun")
  <2> SUFFICES ASSUME mutex[s].by = "client"
               PROVE  mutex[s].ret = "open" /\ Command(s) \notin {"in", "end"} /\ ~Has(s, "InitRun")
    OBVIOUS
  <2>1. mutex[s].ret = "open" /\ core[s].commandIndex = proto[s].commands
    BY <1>1, <1>2 DEF Drives
  <2>2. Command(s) = Head(proto[s].commands) /\ Command(s) # "in"
    BY <1>1, <2>1 DEF Command, PromptProto
  <2>3. Head(proto[s].commands) \in PlainCommands
    BY <1>1, HeadTailProperties DEF Types, PlainProto, PromptProto
  <2>4. ~Has(s, "InitRun")
    BY <1>3 DEF Local, Running
  <2> QED BY <2>1, <2>2, <2>3, <2>4 DEF PlainCommands
<1>6. ASSUME NEW cmd \in PlainCommands, Eval(s, cmd)
      PROVE  /\ e \in CoreType /\ e.activeCommand = cmd /\ cmd # "end"
             /\ e.flags = core[s].flags /\ e.pact = core[s].pact /\ e.refused = core[s].refused
             /\ Command(s) = cmd
  BY <1>1, <1>6, EvalCommandTaken DEF PlainCommands, Eval
<1>7. mutex[s].by = "client" => Decide(s, "failed") = "failed"
  BY <1>5 DEF Decide
<1> HIDE DEF e
<1>8. ~EvalStillWaiting(s) /\ ~EvalEvent(s)
  BY <1>1, <1>2, <1>3, PlainCommandIs DEF EvalStillWaiting, EvalEvent, Eval, Pend, PlainCommands
<1>9. CASE EvalEnd(s)
  <2> DEFINE c == [core[s] EXCEPT !.activeCommand = "end"]
  <2>1. Continue(s, c, "finish", "Success", Decide(s, "ok")) /\ Command(s) = "end"
    BY <1>9 DEF EvalEnd, Eval
  <2>2. c.refused = core[s].refused /\ c.flags = core[s].flags /\ c.pact = core[s].pact
    BY <1>3 DEF CoreType
  <2> HIDE DEF c
  <2> QED BY <1>2, <1>3, <1>5, <2>1, <2>2, ContinueDrives DEF Has
<1>10. CASE FormatFails(s)
  <2> DEFINE c == [e EXCEPT !.unparsedInput = @ /\ Command(s) = "exec"]
  <2>1. Continue(s, c, "finish", "FormatError", Decide(s, "failed")) /\ (Eval(s, "out") \/ Eval(s, "exec"))
    BY <1>10 DEF FormatFails, e
  <2>2. e \in CoreType /\ e.flags = core[s].flags /\ e.pact = core[s].pact /\ e.refused = core[s].refused
    BY <1>6, <2>1 DEF PlainCommands
  <2>3. c.refused = core[s].refused /\ c.flags = core[s].flags /\ c.pact = core[s].pact
    BY <2>2 DEF CoreType
  <2> HIDE DEF c
  <2> QED BY <1>2, <1>3, <1>7, <2>1, <2>3, ContinueDrives DEF Has
<1>11. CASE EvalOut(s)
  <2> DEFINE c == [Evaluated(s) EXCEPT !.unparsedInput = FALSE, !.flags = @ \cup Early(s)]
             f == e.flags \cup Early(s)
             w == [c EXCEPT !.flags = @ \cup {"WritePending"}]
             k == [c EXCEPT !.flags = @ \cup {"LockPending"}]
  <2>1. Eval(s, "out") /\ waiting' = waiting /\ execs' = execs
    BY <1>11 DEF EvalOut, timerVars
  <2>2. \/ Request(s, w, "Write", "low")
        \/ Queue(s, "Lock", "low", ~Has(s, "InitRun")) /\ Leave(s, k, "ok")
        \/ Continue(s, c, "finish", "Offline", Decide(s, "failed"))
    <3>1. CASE Has(s, "BusOwner")
      BY <1>11, <3>1 DEF EvalOut
    <3>2. CASE ~Has(s, "BusOwner") /\ Queueable(s, "low")
      BY <1>11, <3>2 DEF EvalOut
    <3>3. CASE ~Has(s, "BusOwner") /\ ~Queueable(s, "low")
      BY <1>11, <3>3 DEF EvalOut
    <3> QED BY <3>1, <3>2, <3>3
  <2>3. /\ e \in CoreType /\ e.activeCommand = "out" /\ e.flags = core[s].flags /\ e.pact = core[s].pact
        /\ e.refused = core[s].refused
    BY <1>6, <2>1 DEF PlainCommands
  <2>4. Early(s) \subseteq {"AcceptInput", "AcceptEvent"}
    BY DEF Early
  <2>5. c = [e EXCEPT !.unparsedInput = FALSE, !.flags = f]
    BY <2>3 DEF e
  <2>6. f \in SUBSET Flags /\ ("InitRun" \in f <=> Has(s, "InitRun"))
    BY <2>3, <2>4 DEF CoreType, Flags, Has
  <2> HIDE DEF f, c
  <2>7. c \in CoreType /\ c.flags = f /\ c.pact = core[s].pact /\ c.refused = core[s].refused /\ c.activeCommand = "out"
    BY <2>3, <2>5, <2>6 DEF CoreType
  <2>8. /\ w \in CoreType /\ w.flags = f \cup {"WritePending"} /\ w.pact = core[s].pact /\ w.refused = core[s].refused
        /\ w.activeCommand = "out"
    BY <2>7 DEF CoreType, Flags, BusPending
  <2>9. /\ k \in CoreType /\ k.flags = f \cup {"LockPending"} /\ k.pact = core[s].pact /\ k.refused = core[s].refused
    BY <2>7 DEF CoreType, Flags, BusPending
  <2> HIDE DEF w, k
  <2>10. CASE Request(s, w, "Write", "low")
    BY <1>2, <1>3, <1>4, <2>1, <2>6, <2>8, <2>10, RequestDrives
  <2>11. CASE Queue(s, "Lock", "low", ~Has(s, "InitRun")) /\ Leave(s, k, "ok")
    <3>1. bus'[s].queued = "low"
      BY <1>1, <2>11 DEF Queue, Types, BusType
    <3> QED BY <1>2, <1>3, <1>4, <2>6, <2>9, <2>11, <3>1, LeaveDrives
  <2>12. CASE Continue(s, c, "finish", "Offline", Decide(s, "failed"))
    BY <1>2, <1>3, <1>7, <2>6, <2>7, <2>12, ContinueDrives
  <2> QED BY <2>2, <2>10, <2>11, <2>12
<1>12. CASE EvalIn(s)
  <2> DEFINE c == [Evaluated(s) EXCEPT !.flags = @ \cup {"AcceptInput"}]
  <2>1. Eval(s, "in") /\ waiting' = waiting /\ execs' = execs
    BY <1>12 DEF EvalIn, timerVars
  <2>2. /\ e \in CoreType /\ e.activeCommand = "in" /\ e.flags = core[s].flags /\ e.pact = core[s].pact
        /\ e.refused = core[s].refused /\ mutex[s].by # "client"
    BY <1>5, <1>6, <2>1 DEF PlainCommands
  <2>3. c = [e EXCEPT !.flags = @ \cup {"AcceptInput"}]
    BY DEF e
  <2>4. \/ Request(s, c, "Read", "low")
        \/ \E r \in Parse(c.lastInputStatus) \ {"more"} : \E left \in LeftBy(s, r) :
             Continue(s, [c EXCEPT !.unparsedInput = left], Then(r), Status(r), Decide(s, "ok"))
    BY <1>12, Zenon DEF EvalIn
  <2> HIDE DEF c
  <2>5. /\ c \in CoreType /\ c.flags = core[s].flags \cup {"AcceptInput"} /\ c.pact = core[s].pact
        /\ c.refused = core[s].refused /\ c.activeCommand = "in" /\ ("InitRun" \in c.flags <=> Has(s, "InitRun"))
    BY <2>2, <2>3 DEF CoreType, Flags, Has
  <2>6. CASE Request(s, c, "Read", "low")
    BY <1>2, <1>3, <1>4, <2>1, <2>5, <2>6, RequestDrives
  <2>7. ASSUME NEW r, NEW left, Continue(s, [c EXCEPT !.unparsedInput = left], Then(r), Status(r), Decide(s, "ok"))
        PROVE  Drives(s)'
    <3> DEFINE d == [c EXCEPT !.unparsedInput = left]
    <3>1. d.refused = c.refused /\ d.flags = c.flags /\ d.pact = c.pact
      BY <2>5 DEF CoreType
    <3>2. Continue(s, d, Then(r), Status(r), Decide(s, "ok"))
      BY <2>7
    <3> HIDE DEF d
    <3> QED BY <1>2, <1>3, <2>2, <2>5, <3>1, <3>2, ContinueDrives
  <2> QED BY <2>4, <2>6, <2>7
<1>13. CASE EvalWait(s)
  <2> DEFINE c == [Evaluated(s) EXCEPT !.flags = @ \cup {"WaitPending"}]
  <2>1. Eval(s, "wait") /\ waiting' = [waiting EXCEPT ![s] = TRUE] /\ Leave(s, c, "ok")
    BY <1>13 DEF EvalWait
  <2>2. /\ e \in CoreType /\ e.flags = core[s].flags /\ e.pact = core[s].pact /\ e.refused = core[s].refused
    BY <1>6, <2>1 DEF PlainCommands
  <2>3. c = [e EXCEPT !.flags = @ \cup {"WaitPending"}]
    BY DEF e
  <2> HIDE DEF c
  <2>4. /\ c \in CoreType /\ c.flags = core[s].flags \cup {"WaitPending"} /\ c.pact = core[s].pact
        /\ c.refused = core[s].refused /\ ("InitRun" \in c.flags <=> Has(s, "InitRun"))
    BY <2>2, <2>3 DEF CoreType, Flags, BusPending, Has
  <2>5. waiting'[s]
    BY <1>1, <2>1 DEF Types
  <2> QED BY <1>2, <1>3, <1>4, <2>1, <2>4, <2>5, LeaveDrives
<1>14. CASE EvalExec(s)
  <2> DEFINE p == IF mutex[s].by = "client" THEN Decide(s, "ok") = "ok" ELSE e.pact
             f == core[s].flags \ {"BusOwner"}
             c == [Evaluated(s) EXCEPT !.flags = @ \ {"BusOwner"},
                      !.pact = IF mutex[s].by = "client" THEN Decide(s, "ok") = "ok" ELSE @]
  <2>1. /\ Eval(s, "exec") /\ execs' = [execs EXCEPT ![s] = TRUE] /\ core' = [core EXCEPT ![s] = c]
        /\ mutex' = [mutex EXCEPT ![s] = Free]
    BY <1>14 DEF EvalExec
  <2>2. e \in CoreType /\ e.flags = core[s].flags /\ e.pact = core[s].pact /\ e.refused = core[s].refused
    BY <1>6, <2>1 DEF PlainCommands
  <2>3. c = [e EXCEPT !.flags = f, !.pact = p]
    BY <2>2 DEF e
  <2> HIDE DEF c, p
  <2>4. c.flags = f /\ c.pact = p /\ c.refused = core[s].refused
    BY <2>2, <2>3 DEF CoreType
  <2>5. core'[s] = c /\ mutex'[s].by = None /\ execs'[s]
    BY <1>1, <2>1 DEF Types, Free
  <2>6. Carried(s)'
    BY <2>5 DEF Carried
  <2>7. core'[s].pact /\ Has(s, "InitRun")' => core[s].pact /\ Has(s, "InitRun")
    BY <1>5, <2>2, <2>4, <2>5 DEF Has, p
  <2> QED BY <1>1, <1>2, <1>4, <2>4, <2>5, <2>6, <2>7, CarriedOn, StreamsAssumption DEF Threads
<1>15. CASE EvalDisconnect(s)
  <2>1. Eval(s, "disconnect")
    BY <1>15 DEF EvalDisconnect
  <2>2. /\ e \in CoreType /\ e.flags = core[s].flags /\ e.pact = core[s].pact /\ e.refused = core[s].refused
    BY <1>6, <2>1 DEF PlainCommands
  <2>3. CASE Queueable(s, "connect")
    <3>1. Queue(s, "Disconnect", "connect", FALSE) /\ Leave(s, e, "ok")
      BY <1>15, <2>3 DEF EvalDisconnect, e
    <3>2. bus'[s].queued = "connect"
      BY <1>1, <3>1 DEF Queue, Types, BusType
    <3> QED BY <1>2, <1>3, <1>4, <2>2, <3>1, <3>2, LeaveDrives DEF Has
  <2>4. CASE ~Queueable(s, "connect")
    <3>1. Continue(s, e, "finish", "Fault", Decide(s, "failed"))
      BY <1>15, <2>4 DEF EvalDisconnect, e
    <3> QED BY <1>2, <1>3, <1>7, <2>2, <3>1, ContinueDrives DEF Has
  <2> QED BY <2>3, <2>4
<1>16. ~EvalConnect(s)
  BY <1>1, <1>2, PlainCommandIs DEF EvalConnect, Eval, PlainCommands
<1> QED BY <1>8, <1>9, <1>10, <1>11, <1>12, <1>13, <1>14, <1>15, <1>16 DEF EvalCommand

\* finishProtocol leaves the result, and a client that has failed leaves a passive record.
LEMMA FinishDrives ==
  ASSUME DInv, NEW s \in Streams, FinishProtocol(s)
  PROVE  Drives(s)'
<1>1. /\ IInv /\ Types /\ Local(s) /\ Drives(s) /\ core[s] \in CoreType /\ mutex[s] \in MutexType
  BY DEF DInv, IInv, Types
<1>2. mutex[s].next \in {"finish", "busFinish"}
  BY DEF FinishProtocol, FinishHandler, FinishUnlock, BusFinish
<1>3. Held(s) /\ (mutex[s].by = "client" => mutex[s].ret = "failed" /\ ~Has(s, "InitRun"))
  BY <1>1, <1>2 DEF Local, Running, Free, Drives
<1>4. Carried(s) /\ ~core[s].refused
  BY <1>1, <1>3 DEF Drives, Carried
<1>5. CASE FinishHandler(s)
  <2> DEFINE i == IF Reparses(s) THEN Tail(Handler(s)) ELSE Handler(s)
             c == [core[s] EXCEPT !.activeCommand = "end", !.runningHandler = mutex[s].status, !.commandIndex = i]
  <2>1. /\ mutex[s].next = "finish" /\ mutex[s].status \in Handled /\ results' = results
        /\ Continue(s, c, "eval", "Success", mutex[s].ret)
    BY <1>1, <1>5 DEF FinishHandler, Handles, CoreType
  <2>2. mutex[s].by # "client"
    BY <1>1, <1>3, <2>1 DEF Local, Running
  <2>3. c.refused = core[s].refused /\ c.flags = core[s].flags /\ c.pact = core[s].pact
    BY <1>1 DEF CoreType
  <2> HIDE DEF c
  <2> QED BY <1>3, <2>1, <2>2, <2>3, ContinueDrives DEF Has
<1>6. CASE FinishUnlock(s)
  <2> DEFINE f == core[s].flags \ {"BusOwner"}
             r == IF core[s].runningHandler = "Success" /\ ~Has(s, "InitRun") THEN mutex[s].status ELSE core[s].runningHandler
             u == core[s].unparsedInput /\ (mutex[s].status \in Handled \cup {"Success"} \/ core[s].runningHandler # "Success"
                                            \/ Has(s, "InitRun"))
             c == [core[s] EXCEPT !.activeCommand = "end", !.flags = f, !.runningHandler = r, !.unparsedInput = u]
             m == [mutex[s] EXCEPT !.next = "busFinish", !.status = Result(s)]
  <2>1. core' = [core EXCEPT ![s] = c] /\ results' = results
    BY <1>1, <1>6 DEF FinishUnlock, CoreType
  <2>2. mutex' = [mutex EXCEPT ![s] = m]
    BY <1>1, <1>6 DEF FinishUnlock, MutexType, Types
  <2> HIDE DEF r, u
  <2>3. c.flags = f /\ c.pact = core[s].pact /\ c.refused = core[s].refused
    BY <1>1 DEF CoreType
  <2>4. m.by = mutex[s].by /\ m.next = "busFinish" /\ m.ret = mutex[s].ret
    BY <1>1 DEF MutexType
  <2> HIDE DEF c, m
  <2>5. core'[s] = c /\ mutex'[s] = m
    BY <1>1, <2>1, <2>2 DEF Types
  <2>6. Carried(s)'
    BY <1>3, <2>4, <2>5 DEF Carried, Held
  <2> QED BY <1>1, <1>3, <1>4, <2>1, <2>3, <2>4, <2>5, <2>6, CarriedOn DEF Has
<1>7. CASE BusFinish(s)
  <2> DEFINE c == Drop(s, {"AcceptInput", "AcceptEvent"})
  <2>1. /\ Leave(s, c, "ok")
        /\ results' = [results EXCEPT ![s] = IF core[s].pact /\ ~Has(s, "InitRun") THEN @ + 1 ELSE @]
    BY <1>7 DEF BusFinish
  <2>2. /\ c \in CoreType /\ c.flags = core[s].flags \ {"AcceptInput", "AcceptEvent"} /\ c.pact = core[s].pact
        /\ c.refused = core[s].refused
    BY <1>1 DEF CoreType, Drop
  <2> HIDE DEF c
  <2>3. /\ core'[s].refused = c.refused /\ core'[s].flags = c.flags
        /\ mutex[s].by # "client" => core'[s].pact = c.pact
        /\ mutex[s].by = "client" => core'[s].pact = (Decide(s, "ok") = "ok")
        /\ mutex'[s].by = None
    BY <1>1, <1>3, <2>1, <2>2, LeaveTo
  <2>4. mutex[s].by = "client" => ~core'[s].pact
    BY <1>3, <2>3 DEF Decide
  <2>5. mutex[s].by # "client" /\ core[s].pact => results'[s] > 0
    BY <1>1, <1>4, <2>1 DEF Drives, Types
  <2> QED BY <1>4, <2>2, <2>3, <2>4, <2>5, StreamsAssumption DEF Drives, Threads
<1> QED BY <1>5, <1>6, <1>7 DEF FinishProtocol

\* A thread that takes the mutex.
LEMMA EnterDrives ==
  ASSUME DInv, NEW s \in Streams, NEW t \in Threads, NEW c, NEW next, NEW status, Enter(s, t, c, next, status),
         proto' = proto, ~c.refused, c.pact /\ "InitRun" \in c.flags => results'[s] > 0,
         t = "client" => next = "eval" /\ c.commandIndex = proto[s].commands
  PROVE  Drives(s)'
<1>1. core'[s] = c /\ mutex'[s] = [by |-> t, next |-> next, status |-> status, ret |-> "open"]
  BY DEF DInv, IInv, Types, Enter
<1>2. mutex'[s].by = t /\ mutex'[s].next = next /\ mutex'[s].ret = "open"
  BY <1>1
<1>3. Held(s)'
  BY <1>2, StreamsAssumption DEF Held
<1> QED BY <1>1, <1>2, <1>3 DEF Drives, Carried, Has

\* A callback of a protocol.
LEMMA CallbackDrives ==
  ASSUME DInv, NEW s \in Streams, Carried(s), NEW t \in Threads \ {"client"}, NEW c, NEW next, NEW status,
         Enter(s, t, c, next, status), proto' = proto, results' = results,
         c.refused = core[s].refused, c.pact = core[s].pact, "InitRun" \in c.flags => Has(s, "InitRun")
  PROVE  Drives(s)'
<1>1. Drives(s)
  BY DEF DInv
<1> QED BY <1>1, EnterDrives DEF Drives

\* The steps that leave the mutex free.
LEMMA FreeDrives ==
  ASSUME DInv, NEW s \in Streams, Carried(s), Carried(s)', mutex' = mutex, ~Held(s), results' = results,
         core'[s].refused = core[s].refused, core'[s].pact = core[s].pact, Has(s, "InitRun")' => Has(s, "InitRun")
  PROVE  Drives(s)'
<1>1. Drives(s) /\ mutex'[s].by = None
  BY DEF DInv, Held
<1> QED BY <1>1, CarriedOn, StreamsAssumption DEF Threads

\* The port thread takes over what the queue has carried.
LEMMA PortDrives ==
  ASSUME DInv, NEW s \in Streams, PortTake(s) \/ HandleIO(s)
  PROVE  Drives(s)'
<1>1. IInv /\ Types /\ Local(s) /\ bus[s] \in BusType /\ core[s] \in CoreType
  BY DEF DInv, IInv, Types
<1>2. "port" \in Workers /\ "port" \in Threads \ {"client"}
  BY DEF Workers, Threads
<1>3. CASE PortTake(s)
  <2>1. /\ bus[s].queued # "no" /\ at' = [at EXCEPT !["port"] = [s |-> s, act |-> "take"]]
        /\ core' = core /\ mutex' = mutex /\ results' = results
    BY <1>3 DEF PortTake
  <2>2. at'["port"] = [s |-> s, act |-> "take"]
    BY <1>1, <1>2, <2>1 DEF Types
  <2>3. Carried(s) /\ Carried(s)' /\ ~Held(s)
    BY <1>1, <1>2, <2>1, <2>2 DEF Carried, At, Local, Alone
  <2> QED BY <2>1, <2>3, FreeDrives DEF Has
<1>4. CASE HandleRequest(s)
  <2>1. /\ at["port"] = [s |-> s, act |-> "take"]
        /\ at' = [at EXCEPT !["port"] = IF bus[s].ioAction = "None" THEN Idle ELSE [s |-> s, act |-> bus[s].ioAction]]
        /\ core' = core /\ mutex' = mutex /\ results' = results
    BY <1>4 DEF HandleRequest
  <2>2. At(s, "port") /\ ~Held(s) /\ bus[s].ioAction # "None"
    BY <1>1, <2>1 DEF At, Local, Expected, PortAct, Waits, WaitsFor, Requests
  <2>3. at'["port"] = [s |-> s, act |-> bus[s].ioAction]
    BY <1>1, <1>2, <2>1, <2>2 DEF Types
  <2>4. Carried(s) /\ Carried(s)'
    BY <1>2, <2>2, <2>3 DEF Carried, At
  <2> QED BY <2>1, <2>2, <2>4, FreeDrives DEF Has
<1>5. ASSUME NEW act \in Requests \cup {"Connect"}, Serves(s, act)
      PROVE  Carried(s) /\ ~Held(s) /\ Waits(s, act)
  <2>1. act # "take"
    BY <1>5 DEF Requests
  <2> QED BY <1>1, <1>5, <2>1, PortServes DEF Carried
<1>6. ASSUME NEW fs
      PROVE  /\ Drop(s, fs).refused = core[s].refused /\ Drop(s, fs).pact = core[s].pact
             /\ "InitRun" \in Drop(s, fs).flags => Has(s, "InitRun")
  BY <1>1 DEF Drop, CoreType, Has
<1>7. ASSUME Carried(s), Disconnected(s), proto' = proto, results' = results PROVE Drives(s)'
  BY <1>2, <1>6, <1>7, CallbackDrives DEF Disconnected
<1>8. CASE LockHandler(s)
  <2> DEFINE d == Drop(s, {"LockPending"})
             c == [d EXCEPT !.flags = @ \cup {"BusOwner", "WritePending"}]
  <2>1. Serves(s, "Lock") /\ proto' = proto /\ results' = results
    BY <1>8 DEF LockHandler
  <2>2. Carried(s) /\ ~Held(s) /\ Has(s, "LockPending")
    BY <1>5, <2>1 DEF Requests, Waits, WaitsFor, Has
  <2>3. /\ d.refused = core[s].refused /\ d.pact = core[s].pact /\ ("InitRun" \in d.flags => Has(s, "InitRun"))
        /\ d \in CoreType
    BY <1>1, <1>6 DEF Drop, CoreType
  <2>4. \/ Queue(s, "Write", "low", TRUE) /\ core' = [core EXCEPT ![s] = c] /\ mutex' = mutex
        \/ Enter(s, "port", c, "finish", "Fault")
    BY <1>8, <2>2 DEF LockHandler
  <2> HIDE DEF d
  <2>5. c.refused = core[s].refused /\ c.pact = core[s].pact /\ ("InitRun" \in c.flags => Has(s, "InitRun"))
    BY <2>3 DEF CoreType
  <2> HIDE DEF c
  <2>6. CASE Queue(s, "Write", "low", TRUE) /\ core' = [core EXCEPT ![s] = c] /\ mutex' = mutex
    <3>1. bus'[s].queued = "low" /\ core'[s] = c
      BY <1>1, <2>6 DEF Queue, Types, BusType
    <3>2. Carried(s)'
      BY <3>1 DEF Carried
    <3> QED BY <2>1, <2>2, <2>5, <2>6, <3>1, <3>2, FreeDrives DEF Has
  <2>7. CASE Enter(s, "port", c, "finish", "Fault")
    BY <1>2, <2>1, <2>2, <2>5, <2>7, CallbackDrives
  <2> QED BY <2>4, <2>6, <2>7
<1>9. CASE WriteHandler(s)
  <2>1. Serves(s, "Write") /\ proto' = proto /\ results' = results
    BY <1>9 DEF WriteHandler
  <2>2. Carried(s) /\ Has(s, "WritePending")
    BY <1>5, <2>1 DEF Requests, Waits, WaitsFor, Has
  <2>3. \/ Disconnected(s)
        \/ \E next, status : Enter(s, "port", Drop(s, {"WritePending"}), next, status)
    BY <1>9, <2>2 DEF WriteHandler
  <2> QED BY <1>2, <1>6, <1>7, <2>1, <2>2, <2>3, CallbackDrives
<1>10. CASE ReadHandler(s)
  <2>1. Serves(s, "Read") /\ proto' = proto /\ results' = results
    BY <1>10 DEF ReadHandler
  <2>2. Carried(s) /\ Has(s, "AcceptInput")
    BY <1>5, <2>1 DEF Requests, Waits, WaitsFor, Has
  <2>3. \/ Disconnected(s)
        \/ \E io, r, left : Enter(s, "port", [core[s] EXCEPT !.lastInputStatus = io, !.unparsedInput = left], Then(r), Status(r))
    BY <1>10, <2>2, Zenon DEF ReadHandler
  <2>4. ASSUME NEW io, NEW left
        PROVE  LET c == [core[s] EXCEPT !.lastInputStatus = io, !.unparsedInput = left]
               IN  c.refused = core[s].refused /\ c.pact = core[s].pact /\ c.flags = core[s].flags
    BY <1>1 DEF CoreType
  <2>5. ASSUME NEW io, NEW r, NEW left,
               Enter(s, "port", [core[s] EXCEPT !.lastInputStatus = io, !.unparsedInput = left], Then(r), Status(r))
        PROVE  Drives(s)'
    <3> DEFINE c == [core[s] EXCEPT !.lastInputStatus = io, !.unparsedInput = left]
    <3>1. c.refused = core[s].refused /\ c.pact = core[s].pact /\ c.flags = core[s].flags
      BY <2>4
    <3>2. Enter(s, "port", c, Then(r), Status(r))
      BY <2>5
    <3> HIDE DEF c
    <3> QED BY <1>2, <2>1, <2>2, <3>1, <3>2, CallbackDrives DEF Has
  <2> QED BY <1>7, <2>1, <2>2, <2>3, <2>5
<1>11. ~ConnectHandler(s)
  BY <1>5 DEF ConnectHandler, Waits, WaitsFor, Requests
<1>12. CASE DisconnectHandler(s)
  <2>1. Serves(s, "Disconnect") /\ proto' = proto /\ results' = results
    BY <1>12 DEF DisconnectHandler
  <2>2. Carried(s)
    BY <1>5, <2>1 DEF Requests
  <2>3. Disconnected(s) \/ Enter(s, "port", core[s], "eval", "Success")
    BY <1>12 DEF DisconnectHandler
  <2> QED BY <1>2, <1>7, <2>1, <2>2, <2>3, CallbackDrives DEF Has
<1> QED BY <1>3, <1>4, <1>8, <1>9, <1>10, <1>11, <1>12 DEF HandleIO

\* So do the timeouts, the timers and the callbacks.
LEMMA TimerDrives ==
  ASSUME DInv, NEW s \in Streams, QueueTimeout(s) \/ HandleTimeout(s) \/ WaitExpires(s) \/ TimerCallback(s) \/ ExecCallback(s)
  PROVE  Drives(s)'
<1>1. IInv /\ Types /\ Local(s) /\ bus[s] \in BusType /\ core[s] \in CoreType
  BY DEF DInv, IInv, Types
<1>2. {"queueTimer", "timer"} \subseteq Workers /\ {"queueTimer", "timer", "callback"} \subseteq Threads \ {"client"}
  BY DEF Workers, Threads
<1>3. CASE QueueTimeout(s)
  <2>1. /\ bus[s].queueTimer /\ at' = [at EXCEPT !["queueTimer"] = [s |-> s, act |-> bus[s].ioAction]]
        /\ core' = core /\ mutex' = mutex /\ results' = results
    BY <1>3 DEF QueueTimeout
  <2>2. at'["queueTimer"] = [s |-> s, act |-> bus[s].ioAction]
    BY <1>1, <1>2, <2>1 DEF Types
  <2>3. Carried(s) /\ Carried(s)' /\ ~Held(s)
    BY <1>1, <1>2, <2>1, <2>2 DEF Carried, At, Local, Alone
  <2> QED BY <2>1, <2>3, FreeDrives DEF Has
<1>4. CASE WaitExpires(s)
  <2>1. /\ waiting[s] /\ at' = [at EXCEPT !["timer"] = [s |-> s, act |-> "wait"]]
        /\ core' = core /\ mutex' = mutex /\ results' = results
    BY <1>4 DEF WaitExpires
  <2>2. at'["timer"] = [s |-> s, act |-> "wait"]
    BY <1>1, <1>2, <2>1 DEF Types
  <2>3. Carried(s) /\ Carried(s)' /\ ~Held(s)
    BY <1>1, <1>2, <2>1, <2>2 DEF Carried, At, Local, Alone
  <2> QED BY <2>1, <2>3, FreeDrives DEF Has
<1>5. CASE HandleTimeout(s)
  <2> DEFINE act == at["queueTimer"].act
             st == IF act = "Read" THEN "Fault" ELSE core[s].lastInputStatus
             d == Drop(s, Pending(act))
             c == [d EXCEPT !.lastInputStatus = st]
  <2>1. At(s, "queueTimer") /\ mutex[s] = Free /\ proto' = proto /\ results' = results
    BY <1>5 DEF HandleTimeout, At
  <2>2. Carried(s)
    BY <1>2, <2>1 DEF Carried
  <2>3. Waits(s, act) /\ act \in {"Lock", "Write", "Read"}
    BY <1>1, <2>1, FreeStream DEF Local, Expected, Waits, WaitsFor, Requests
  <2>4. Awaited(s, act)
    BY <2>3 DEF Waits, WaitsFor, Awaited, Has
  <2>5. d \in CoreType
        /\ d.refused = core[s].refused /\ d.pact = core[s].pact /\ ("InitRun" \in d.flags => Has(s, "InitRun"))
        /\ d.lastInputStatus = core[s].lastInputStatus
    BY <1>1 DEF Drop, CoreType, Has
  <2>6. Enter(s, "queueTimer", c, "finish", TimeoutResult(act))
    <3>1. Enter(s, "queueTimer", [d EXCEPT !.lastInputStatus = IF act = "Read" THEN "Fault" ELSE @], "finish", TimeoutResult(act))
      BY <1>5, <2>4 DEF HandleTimeout
    <3> HIDE DEF d, act
    <3> QED BY <2>5, <3>1
  <2> HIDE DEF d, st
  <2>7. c.refused = d.refused /\ c.pact = d.pact /\ c.flags = d.flags
    BY <2>5 DEF CoreType
  <2> HIDE DEF c
  <2> QED BY <1>2, <2>1, <2>2, <2>5, <2>6, <2>7, CallbackDrives
<1>6. CASE TimerCallback(s)
  <2> DEFINE c == Drop(s, {"WaitPending"})
  <2>1. At(s, "timer") /\ mutex[s] = Free /\ proto' = proto /\ results' = results
    BY <1>6 DEF TimerCallback, At
  <2>2. Carried(s) /\ Has(s, "WaitPending")
    BY <1>1, <1>2, <2>1, FreeStream DEF Carried, Local, Expected, Pend, Has
  <2>3. Enter(s, "timer", c, "eval", "Success")
    BY <1>6, <2>2 DEF TimerCallback
  <2>4. c.refused = core[s].refused /\ c.pact = core[s].pact /\ ("InitRun" \in c.flags => Has(s, "InitRun"))
    BY <1>1 DEF Drop, CoreType, Has
  <2> HIDE DEF c
  <2> QED BY <1>2, <2>1, <2>2, <2>3, <2>4, CallbackDrives
<1>7. CASE ExecCallback(s)
  <2>1. execs[s] /\ proto' = proto /\ results' = results
    BY <1>7 DEF ExecCallback
  <2>2. Carried(s) /\ core[s].activeCommand = "exec"
    BY <1>1, <2>1 DEF Carried, Local, Expected
  <2>3. Enter(s, "callback", core[s], "eval", "Success") \/ Enter(s, "callback", core[s], "finish", "Fault")
    BY <1>7, <2>2 DEF ExecCallback
  <2> QED BY <1>2, <2>1, <2>2, <2>3, CallbackDrives DEF Has
<1> QED BY <1>3, <1>4, <1>5, <1>6, <1>7

\* The record starts a protocol, takes its result, or is told of the port.
LEMMA RecordDrives ==
  ASSUME DInv, NEW s \in Streams, Process(s) \/ RecordProcess(s) \/ ExceptionHandler(s) \/ ConnectCallback(s)
  PROVE  Drives(s)'
<1>1. IInv /\ Types /\ Local(s) /\ Drives(s) /\ core[s] \in CoreType
  BY DEF DInv, IInv, Types
<1>2. "client" \in Threads /\ "driver" \in Threads \ {"client"} /\ "driver" \notin Workers
  BY DEF Threads, Workers
<1>3. CASE Process(s)
  <2> DEFINE c == Started(s, proto[s].commands, {})
  <2>1. Enter(s, "client", c, "eval", "Success") /\ proto' = proto
    BY <1>3 DEF Process
  <2>2. ~c.refused /\ c.flags = {} /\ c.commandIndex = proto[s].commands
    BY <1>1 DEF Started, CoreType
  <2> HIDE DEF c
  <2> QED BY <1>2, <2>1, <2>2, EnterDrives
<1>4. CASE RecordProcess(s)
  <2>1. /\ mutex[s] = Free /\ core' = [core EXCEPT ![s].pact = FALSE]
        /\ mutex' = mutex /\ bus' = bus /\ waiting' = waiting /\ execs' = execs /\ at' = at
    BY <1>4 DEF RecordProcess, timerVars
  <2>2. /\ ~core'[s].pact /\ core'[s].refused = core[s].refused /\ core'[s].activeCommand = core[s].activeCommand
    BY <1>1, <2>1 DEF Types, CoreType
  <2>3. Carried(s)' = Carried(s)
    BY <2>1 DEF Carried, Held, At
  <2> QED BY <1>1, <2>1, <2>2, <2>3, StreamsAssumption DEF Drives, Free, Threads
<1>5. ASSUME NEW a, at' = [at EXCEPT !["driver"] = a],
             UNCHANGED <<proto, mutex, bus, waiting, execs, results>>
      PROVE  Carried(s)' = Carried(s)
  BY <1>1, <1>2, <1>5 DEF Types, Carried, Held, At, Workers, Threads
<1>6. CASE ExceptionHandler(s)
  <2>1. /\ at["driver"] = Idle /\ core' = core /\ proto' = proto /\ mutex' = mutex /\ results' = results
        /\ UNCHANGED <<proto, mutex, bus, waiting, execs, results>>
        /\ \/ at' = [at EXCEPT !["driver"] = [s |-> s, act |-> "connect"]]
           \/ at' = [at EXCEPT !["driver"] = Idle]
    BY <1>1, <1>2, <1>6 DEF ExceptionHandler, timerVars, Types
  <2>2. Carried(s)' = Carried(s)
    BY <1>5, <2>1
  <2> QED BY <1>1, <2>1, <2>2 DEF Drives, Has
<1>7. CASE ConnectCallback(s)
  <2> DEFINE c == Started(s, proto[s].onInit, {"InitRun"})
  <2>1. /\ at["driver"] = [s |-> s, act |-> "connect"] /\ mutex[s] = Free /\ mutex[s].by = None
        /\ proto' = proto /\ bus' = bus /\ waiting' = waiting /\ execs' = execs /\ results' = results
    BY <1>7 DEF ConnectCallback, timerVars, Free
  <2>2. /\ core[s].activeCommand = "end" => ~Carried(s) /\ ~core[s].refused
        /\ core[s].activeCommand # "connect"
    BY <1>1, <2>1, FreeStream DEF Drives, CoreType, PlainCommands
  <2>3. CASE core[s].activeCommand = "end" /\ proto[s].onInit # << >>
    <3>1. Enter(s, "driver", c, "eval", "Success")
      BY <1>7, <2>3 DEF ConnectCallback
    <3>2. ~c.refused /\ c.pact = core[s].pact
      BY <1>1 DEF Started, CoreType
    <3> HIDE DEF c
    <3> QED BY <1>1, <1>2, <2>1, <2>2, <2>3, <3>1, <3>2, EnterDrives DEF Drives
  <2>4. CASE core[s].activeCommand = "end" /\ proto[s].onInit = << >>
    <3>1. core' = [core EXCEPT ![s].flags = {}] /\ at' = [at EXCEPT !["driver"] = Idle] /\ mutex' = mutex
      BY <1>7, <2>4 DEF ConnectCallback
    <3>2. /\ core'[s].refused = core[s].refused /\ core'[s].pact = core[s].pact
          /\ core'[s].activeCommand = core[s].activeCommand
      BY <1>1, <3>1 DEF Types, CoreType
    <3>3. Carried(s)' = Carried(s)
      <4>1. UNCHANGED <<proto, mutex, bus, waiting, execs, results>>
        BY <2>1, <3>1
      <4> QED BY <1>5, <3>1, <4>1
    <3> QED BY <1>1, <2>1, <2>2, <2>4, <3>1, <3>2, <3>3, StreamsAssumption DEF Drives, Threads
  <2>5. CASE core[s].activeCommand # "end"
    <3>1. at' = [at EXCEPT !["driver"] = Idle] /\ core' = core /\ mutex' = mutex
      BY <1>7, <2>2, <2>5 DEF ConnectCallback, NotExpected
    <3>2. Carried(s)' = Carried(s)
      <4>1. UNCHANGED <<proto, mutex, bus, waiting, execs, results>>
        BY <2>1, <3>1
      <4> QED BY <1>5, <3>1, <4>1
    <3> QED BY <1>1, <2>1, <3>1, <3>2 DEF Drives, Has
  <2> QED BY <2>3, <2>4, <2>5
<1> QED BY <1>3, <1>4, <1>6, <1>7

\* All steps of a stream.
LEMMA DriveStep ==
  ASSUME DInv, NEW s \in Streams, Process(s) \/ Interrupt(s) \/ Step(s)
  PROVE  Drives(s)' /\ proto' = proto
<1>1. IInv
  BY DEF DInv
<1>2. proto' = proto
  BY DEF Process, Interrupt, Step, EvalCommand, EvalStillWaiting, EvalEnd, EvalOut, FormatFails, EvalIn, EvalWait,
         EvalEvent, EvalExec, EvalConnect, EvalDisconnect, FinishProtocol, FinishHandler, FinishUnlock, BusFinish,
         RecordProcess, PortTake,
         HandleIO, HandleRequest, LockHandler, WriteHandler, ReadHandler, ConnectHandler, DisconnectHandler,
         QueueTimeout, HandleTimeout, Timers, TimerExpires, TimerResets, WaitExpires, TimerCallback, EventCallback,
         Driver, ExceptionHandler, ConnectCallback, ExecCallback
<1>3. ~Interrupt(s) /\ ~TimerExpires(s) /\ ~TimerResets(s) /\ ~EventCallback(s, "timer") /\ ~EventCallback(s, "driver")
  BY <1>1, NoEvents
<1> QED BY <1>2, <1>3, RecordDrives, EvalDrives, FinishDrives, PortDrives, TimerDrives DEF Step, Timers, Driver

\* The second invariant holds, on the first one.
THEOREM DriveInvariant == ASSUME Plain, Prompt PROVE Spec => [](interfered \/ DInv)
<1>1. Init => DInv
  <2> SUFFICES ASSUME Init, NEW s \in Streams PROVE PromptProto(s) /\ Drives(s)
    BY InitInvariant DEF DInv
  <2>1. PromptProto(s)
    BY DEF Init, Prompt, PromptProto
  <2>2. Drives(s)
    BY StreamsAssumption DEF Init, Drives, Free, Threads
  <2> QED BY <2>1, <2>2
<1>2. (interfered \/ DInv) /\ [Next]_vars /\ (interfered \/ IInv)' => (interfered \/ DInv)'
  <2> SUFFICES ASSUME interfered \/ DInv, [Next]_vars, IInv', ~interfered'
               PROVE  \A s \in Streams : PromptProto(s)' /\ Drives(s)'
    BY DEF DInv
  <2>4. DInv
    BY InterferedStays
  <2>1. ASSUME NEW s \in Streams, Process(s) \/ Interrupt(s) \/ Step(s)
        PROVE  \A u \in Streams : PromptProto(u)' /\ Drives(u)'
    <3>1. Types' /\ Frame(s)
      BY <2>1, <2>4, StreamStep DEF DInv
    <3> QED BY <2>1, <2>4, <3>1, DriveStep, OthersDrive
  <2>2. CASE UNCHANGED <<proto, core, mutex, bus, timerVars, results, at, blocks, holder>>
    BY <2>2, <2>4 DEF DInv, PromptProto, Drives, Carried, Held, At, Has, timerVars
  <2>3. CASE ConnectionLost \/ ConnectionBack \/ UNCHANGED vars
    BY <2>2, <2>3 DEF ConnectionLost, ConnectionBack, vars, timerVars
  <2> QED BY <2>1, <2>3 DEF Next
<1> QED BY <1>1, <1>2, StreamInvariant, PTL DEF Spec

\* An active record is never left alone: a request in the queue, a timer, a command, a thread or its
\* result is on its way, unless the port has refused a request.
THEOREM ActiveIsDriven == ASSUME Plain, Prompt PROVE Spec => []AlwaysDriven
<1>1. interfered \/ DInv => AlwaysDriven
  <2> SUFFICES ASSUME DInv, NEW s \in Streams, core[s].pact, ~core[s].refused PROVE Driven(s)
    BY DEF AlwaysDriven
  <2>1. CASE Carried(s)
    BY <2>1, StreamsAssumption DEF Carried, Driven, Held, Free, At, Workers, Threads
  <2>2. CASE ~Carried(s)
    BY <2>2 DEF DInv, Drives, Driven
  <2> QED BY <2>1, <2>2
<1> QED BY <1>1, DriveInvariant, PTL

=============================================================================
