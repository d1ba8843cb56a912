--------------------------- MODULE AsynInterrupt ---------------------------
(***************************************************************************)
(* The users of the interrupts of one interface of a port (interruptBase   *)
(* in asynManager.c). A driver calls the callbacks on callbackList between *)
(* interruptStart and interruptEnd, without the lock; addInterruptUser and *)
(* removeInterruptUser wait meanwhile. Code between lock and unlock of     *)
(* asynManagerLock is one step.                                            *)
(*                                                                         *)
(* Sources may overlap, and callbackActive and listModified are one flag   *)
(* for all of them: interruptEnd of one clears the first under the loop of *)
(* another, interruptStart of one the second, which the interruptEnd of    *)
(* the other looks at. The history variables exposed and passedOver say to *)
(* whom this has happened; only properties read them.                      *)
(***************************************************************************)
EXTENDS Naturals, Sequences, SequencesExt

CONSTANTS Clients,        \* threads that register for interrupts and cancel
          Nodes,          \* interruptNodes
          Sources,        \* threads of the driver that call the callbacks
          None,
          MaxInterrupts   \* bound: calls of interruptStart in a behaviour

ASSUME NodesAssumption  == None \notin Nodes
ASSUME BoundsAssumption == MaxInterrupts \in Nat

VARIABLES callbackActive, listModified,
          callbackList,       \* nodes whose callback is called
          addRemoveList,      \* nodes whose client waits for interruptEnd
          isOnList, isOnAddRemoveList, callbackDone,   \* per node; callbackDone: is signalled
          interruptNodeFree,  \* nodes nobody has created
          node,               \* per client: its node
          client,             \* per client: where it is
          source, current, called,   \* per source: where it is, node it has come to, nodes called
          interrupts,
          exposed,            \* history, per source: another has ended since its interruptStart
          passedOver          \* history, per client: another source has started while it waits

vars == <<callbackActive, listModified, callbackList, addRemoveList, isOnList, isOnAddRemoveList,
          callbackDone, interruptNodeFree, node, client, source, current, called, interrupts,
          exposed, passedOver>>

baseVars   == <<callbackActive, listModified, callbackList, addRemoveList>>
flagVars   == <<isOnList, isOnAddRemoveList, callbackDone>>
nodeVars   == <<interruptNodeFree, node>>
sourceVars == <<source, current, called, interrupts, exposed, passedOver>>

Init == /\ callbackActive = FALSE /\ listModified = FALSE
        /\ callbackList = << >> /\ addRemoveList = << >>
        /\ isOnList = [n \in Nodes |-> FALSE]
        /\ isOnAddRemoveList = [n \in Nodes |-> FALSE]
        /\ callbackDone = [n \in Nodes |-> FALSE]
        /\ interruptNodeFree = Nodes
        /\ node = [c \in Clients |-> None]
        /\ client = [c \in Clients |-> "idle"]
        /\ source = [s \in Sources |-> "idle"]
        /\ current = [s \in Sources |-> None]
        /\ called = [s \in Sources |-> {}]
        /\ interrupts = 0
        /\ exposed = [s \in Sources |-> FALSE]
        /\ passedOver = [c \in Clients |-> FALSE]

-----------------------------------------------------------------------------
(* createInterruptNode, freeInterruptNode *)

\* A node from the free list is cleared, but for its event; new memory is zero too.
CreateInterruptNode(c) ==
  /\ client[c] = "idle" /\ node[c] = None
  /\ \E n \in interruptNodeFree :
        /\ interruptNodeFree' = interruptNodeFree \ {n}
        /\ node' = [node EXCEPT ![c] = n]
        /\ isOnList' = [isOnList EXCEPT ![n] = FALSE]
        /\ isOnAddRemoveList' = [isOnAddRemoveList EXCEPT ![n] = FALSE]
  /\ UNCHANGED <<baseVars, callbackDone, client, sourceVars>>

\* the test of isOnList is gone
FreeAnyNode(c) == /\ client[c] = "idle" /\ node[c] # None
                  /\ interruptNodeFree' = interruptNodeFree \cup {node[c]}
                  /\ node' = [node EXCEPT ![c] = None]
                  /\ UNCHANGED <<baseVars, flagVars, client, sourceVars>>

FreeInterruptNode(c) == /\ client[c] = "idle" /\ node[c] # None
                        /\ ~isOnList[node[c]]
                              /\ interruptNodeFree' = interruptNodeFree \cup {node[c]}
                        /\ node' = [node EXCEPT ![c] = None]
                        /\ UNCHANGED <<baseVars, flagVars, client, sourceVars>>

-----------------------------------------------------------------------------
(* addInterruptUser, removeInterruptUser *)

Return(c) == client' = [client EXCEPT ![c] = "idle"]

WaitForInterruptEnd(c, waiting) ==
  /\ ~isOnAddRemoveList[node[c]]
  /\ addRemoveList' = Append(addRemoveList, node[c])
  /\ isOnAddRemoveList' = [isOnAddRemoveList EXCEPT ![node[c]] = TRUE]
  /\ listModified' = TRUE
  /\ client' = [client EXCEPT ![c] = waiting]
  /\ UNCHANGED <<callbackActive, callbackList, isOnList>>

\* "already on addRemove list": with a node for each client this cannot happen.
Refused(c) == /\ isOnAddRemoveList[node[c]]
              /\ Return(c)
              /\ UNCHANGED <<baseVars, isOnList, isOnAddRemoveList>>

AddToList(c) == /\ callbackList' = Append(callbackList, node[c])
                /\ isOnList' = [isOnList EXCEPT ![node[c]] = TRUE]
                /\ Return(c)
                /\ UNCHANGED <<callbackActive, listModified, addRemoveList, isOnAddRemoveList>>

RemoveFromList(c) == /\ IF \E i \in DOMAIN callbackList : callbackList[i] = node[c]
                        THEN \E i \in DOMAIN callbackList :
                               callbackList[i] = node[c] /\ callbackList' = RemoveAt(callbackList, i)
                        ELSE UNCHANGED callbackList
                     /\ isOnList' = [isOnList EXCEPT ![node[c]] = FALSE]
                     /\ Return(c)
                     /\ UNCHANGED <<callbackActive, listModified, addRemoveList, isOnAddRemoveList>>

\* the loops make a single test
AddOnce(c)    == AddToList(c)
RemoveOnce(c) == RemoveFromList(c)

AddLoop(c)    == IF callbackActive THEN WaitForInterruptEnd(c, "addWaits") \/ Refused(c) ELSE AddToList(c)
RemoveLoop(c) == IF callbackActive THEN WaitForInterruptEnd(c, "removeWaits") \/ Refused(c) ELSE RemoveFromList(c)

AddInterruptUser(c) == /\ client[c] = "idle" /\ node[c] # None /\ ~isOnList[node[c]]
                       /\ AddLoop(c)
                       /\ UNCHANGED <<callbackDone, nodeVars, sourceVars>>

RemoveInterruptUser(c) == /\ client[c] = "idle" /\ node[c] # None /\ isOnList[node[c]]
                          /\ RemoveLoop(c)
                          /\ UNCHANGED <<callbackDone, nodeVars, sourceVars>>

\* epicsEventMustWait returns; the lock is yet to be taken.
CallbackDone(c) == /\ client[c] \in {"addWaits", "removeWaits"}
                   /\ callbackDone[node[c]]
                   /\ callbackDone' = [callbackDone EXCEPT ![node[c]] = FALSE]
                   /\ client' = [client EXCEPT ![c] = IF @ = "addWaits" THEN "addLocks" ELSE "removeLocks"]
                   /\ passedOver' = [passedOver EXCEPT ![c] = FALSE]
                   /\ UNCHANGED <<baseVars, isOnList, isOnAddRemoveList, nodeVars, source, current, called, interrupts, exposed>>

AddLocks(c) == /\ client[c] = "addLocks"
               /\ AddLoop(c)
               /\ UNCHANGED <<callbackDone, nodeVars, sourceVars>>

RemoveLocks(c) == /\ client[c] = "removeLocks"
                  /\ RemoveLoop(c)
                  /\ UNCHANGED <<callbackDone, nodeVars, sourceVars>>

-----------------------------------------------------------------------------
(* interruptStart, the driver's loop over the list, interruptEnd *)

Calling(s) == source[s] \in {"first", "walk"}
Waits(c)   == client[c] \in {"addWaits", "removeWaits"}

\* Who waits for another source, and is not signalled yet: listModified is cleared under it.
PassOver(s) == passedOver' = [c \in Clients |-> \/ passedOver[c]
                                                \/ /\ Waits(c) /\ ~callbackDone[node[c]]
                                                   /\ \E t \in Sources \ {s} : Calling(t)]

Expose(s) == exposed' = [t \in Sources |-> exposed[t] \/ (t # s /\ Calling(t))]

InterruptStart(s) == /\ source[s] = "idle"
                     /\ interrupts < MaxInterrupts
                     /\ interrupts' = interrupts + 1
                     /\ callbackActive' = TRUE /\ listModified' = FALSE
                     /\ source' = [source EXCEPT ![s] = "first"]
                     /\ called' = [called EXCEPT ![s] = {}]
                     /\ exposed' = [exposed EXCEPT ![s] = FALSE]
                     /\ PassOver(s)
                     /\ UNCHANGED <<callbackList, addRemoveList, flagVars, nodeVars, client, current>>

FirstNode(s) == /\ source[s] = "first"
                /\ source' = [source EXCEPT ![s] = "walk"]
                /\ current' = [current EXCEPT ![s] = IF callbackList = << >> THEN None ELSE Head(callbackList)]
                /\ UNCHANGED <<baseVars, flagVars, nodeVars, client, called, interrupts, exposed, passedOver>>

\* What follows a node on the list; if it is no longer there, whatever its memory holds.
After(n) == IF n \in ToSet(callbackList)
            THEN {IF i = Len(callbackList) THEN None ELSE callbackList[i + 1] :
                    i \in {j \in DOMAIN callbackList : callbackList[j] = n}}
            ELSE Nodes \cup {None}

CallNext(s) == /\ source[s] = "walk" /\ current[s] # None
               /\ called' = [called EXCEPT ![s] = @ \cup {current[s]}]
               /\ \E n \in After(current[s]) : current' = [current EXCEPT ![s] = n]
               /\ UNCHANGED <<baseVars, flagVars, nodeVars, client, source, interrupts, exposed, passedOver>>

EndUnmodified == /\ ~listModified
                 /\ UNCHANGED <<addRemoveList, isOnAddRemoveList, callbackDone>>

\* the clients are not signalled
EndModifiedNoSignal == /\ listModified
                       /\ addRemoveList' = << >>
                       /\ isOnAddRemoveList' = [n \in Nodes |-> isOnAddRemoveList[n] /\ n \notin ToSet(addRemoveList)]
                       /\ UNCHANGED callbackDone

EndModified == /\ listModified
               /\ addRemoveList' = << >>
               /\ isOnAddRemoveList' = [n \in Nodes |-> isOnAddRemoveList[n] /\ n \notin ToSet(addRemoveList)]
               /\ callbackDone' = [n \in Nodes |-> callbackDone[n] \/ n \in ToSet(addRemoveList)]

InterruptEnd(s) == /\ source[s] = "walk" /\ current[s] = None
                   /\ source' = [source EXCEPT ![s] = "idle"]
                   /\ callbackActive' = FALSE
                   /\ EndUnmodified \/ EndModified
                   /\ Expose(s)
                   /\ UNCHANGED <<listModified, callbackList, isOnList, nodeVars, client, current, called, interrupts, passedOver>>

-----------------------------------------------------------------------------
ClientCall(c) == \/ CreateInterruptNode(c) \/ FreeInterruptNode(c)
                 \/ AddInterruptUser(c) \/ RemoveInterruptUser(c)
ClientStep(c) == CallbackDone(c) \/ AddLocks(c) \/ RemoveLocks(c)
SourceStep(s) == FirstNode(s) \/ CallNext(s) \/ InterruptEnd(s)

Next == \/ \E c \in Clients : ClientCall(c) \/ ClientStep(c)
        \/ \E s \in Sources : InterruptStart(s) \/ SourceStep(s)

Spec == Init /\ [][Next]_vars

\* Threads that do not wait go on; the driver's callbacks return.
FairSpec == /\ Spec
            /\ \A c \in Clients : WF_vars(ClientStep(c))
            /\ \A s \in Sources : WF_vars(SourceStep(s))

-----------------------------------------------------------------------------
(* Properties *)

\* All variables have values of their types.
TypeOK == /\ callbackActive \in BOOLEAN /\ listModified \in BOOLEAN
          /\ callbackList \in Seq(Nodes) /\ addRemoveList \in Seq(Nodes)
          /\ isOnList \in [Nodes -> BOOLEAN]
          /\ isOnAddRemoveList \in [Nodes -> BOOLEAN]
          /\ callbackDone \in [Nodes -> BOOLEAN]
          /\ interruptNodeFree \in SUBSET Nodes
          /\ node \in [Clients -> Nodes \cup {None}]
          /\ client \in [Clients -> {"idle", "addWaits", "addLocks", "removeWaits", "removeLocks"}]
          /\ source \in [Sources -> {"idle", "first", "walk"}]
          /\ current \in [Sources -> Nodes \cup {None}]
          /\ called \in [Sources -> SUBSET Nodes]
          /\ interrupts \in Nat
          /\ exposed \in [Sources -> BOOLEAN]
          /\ passedOver \in [Clients -> BOOLEAN]

\* "thread-safe implementation of the user list": a node is on the list once, and is
\* known to be, and no node on the list has been freed.
ListedOnce == /\ IsInjective(callbackList)
              /\ \A n \in Nodes : isOnList[n] <=> n \in ToSet(callbackList)
              /\ \A n \in interruptNodeFree : n \notin ToSet(callbackList)

\* "asynManager delays the requests until interruptEnd is called": the list does not
\* change between interruptStart and interruptEnd of a source, but for a source during
\* whose loop another has called interruptEnd, which has cleared callbackActive.
ListDelayed == [][(\E s \in Sources : Calling(s) /\ ~exposed[s]) => UNCHANGED callbackList]_vars

\* An interrupt reaches every node that is on the list when it ends, with the same exception.
AllCalled == \A s \in Sources : source[s] = "walk" /\ current[s] = None /\ ~exposed[s] =>
                                   ToSet(callbackList) \subseteq called[s]

\* A client that waits is signalled, or the interruptEnd that is due will signal it;
\* unless another source has called interruptStart while it waited.
NoLostWaiter == \A c \in Clients : Waits(c) /\ ~passedOver[c] =>
                  callbackDone[node[c]] \/ (node[c] \in ToSet(addRemoveList) /\ listModified /\ \E s \in Sources : Calling(s))

\* "the call will block until interruptEnd is called", and no longer, with the exception
\* of NoLostWaiter: such a client waits for the interruptEnd of some later interrupt
\* during which another client adds or removes itself.
CallReturns == \A c \in Clients : client[c] # "idle" ~> client[c] = "idle" \/ passedOver[c]
=============================================================================
