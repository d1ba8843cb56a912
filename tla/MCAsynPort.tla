---------------------------- MODULE MCAsynPort ----------------------------
(* Instances of AsynPort for TLC, with the invariants of its proofs. *)
EXTENDS AsynPortProofs, TLC

\* asynUsers whose clients and callbacks do the same are interchangeable.
Symmetry == Permutations(Users)

\* At most one flag of the port and its devices is off at a time. A driver or an operator turns it
\* on again at any point; two at once only make fewer requests eligible.
FlagsOff(flag) == Cardinality({d \in Dpcs : ~flag[d]})
OneFault == FlagsOff(enabled) + FlagsOff(connected) + FlagsOff(autoConnect) <= 1

\* All clients alike, that wait for nothing.
RestlessClients   == [u \in Users |-> {"queue", "cancel", "unblock", "free", "early"}]
BlockingCallbacks == [u \in Users |-> {"block"}]

\* The state without the history, which no step depends on.
WithoutHistory ==
  <<isQueued, timeout, state, callbackDone, timer, lifeVars, blockVars, queueVars, dpcVars,
    lockVars, threads>>

\* The asynUsers with a timeout do what they like, the others only compete with them for the port.
LifecycleClients ==
  [u \in Users |->
     IF u \in TimeoutUsers
     THEN {"queue", "queueTimeout", "cancel", "free", "disconnect", "lockPort", "early"}
     ELSE {"queue"}]
RequeueingCallbacks ==
  [u \in Users |-> IF u \in TimeoutUsers THEN {"queue", "queueTimeout", "free"} ELSE {}]
=============================================================================
