----------------------- MODULE AsynInterruptProofs -----------------------
(***************************************************************************)
(* For any clients, nodes and sources of interrupts.                       *)
(*                                                                         *)
(* The list of nodes is sound, however many sources overlap: a client in   *)
(* the middle of addInterruptUser is the only one that could have put its  *)
(* node on the list meanwhile (ListInv).                                   *)
(*                                                                         *)
(* Between interruptStart and interruptEnd rests on what callbackActive    *)
(* and listModified tell (StartInv): callbackActive is set only while some *)
(* source is in its loop, and during every loop that is not exposed; and   *)
(* the interruptEnd that is due signals everybody who waits and has not    *)
(* been passed over.                                                       *)
(***************************************************************************)
EXTENDS AsynInterrupt, SequencesExt, SequenceTheorems, TLAPS

\* Append adds an element.
LEMMA AppendToSet ==
  ASSUME NEW S, NEW s \in Seq(S), NEW n \in S
  PROVE  /\ Append(s, n) \in Seq(S)
         /\ ToSet(Append(s, n)) = ToSet(s) \cup {n}
         /\ IsInjective(s) /\ n \notin ToSet(s) => IsInjective(Append(s, n))
  BY AppendProperties DEF ToSet, IsInjective

\* What RemoveAt of SequencesExt returns.
LEMMA RemoveAtProperties ==
  ASSUME NEW S, NEW s \in Seq(S), NEW i \in 1 .. Len(s)
  PROVE  /\ RemoveAt(s, i) \in Seq(S)
         /\ Len(RemoveAt(s, i)) = Len(s) - 1
         /\ \A j \in 1 .. Len(s) - 1 : RemoveAt(s, i)[j] = IF j < i THEN s[j] ELSE s[j + 1]
<1> DEFINE p == SubSeq(s, 1, i - 1)
           q == SubSeq(s, i + 1, Len(s))
<1>1. /\ p \in Seq(S) /\ Len(p) = i - 1 /\ \A j \in 1 .. i - 1 : p[j] = s[j]
      /\ q \in Seq(S) /\ Len(q) = Len(s) - i /\ \A j \in 1 .. Len(s) - i : q[j] = s[i + j]
  BY SubSeqProperties
<1> HIDE DEF p, q
<1>2. /\ p \o q \in Seq(S) /\ Len(p \o q) = Len(p) + Len(q)
      /\ \A j \in 1 .. Len(p) + Len(q) : (p \o q)[j] = IF j <= Len(p) THEN p[j] ELSE q[j - Len(p)]
  BY <1>1, ConcatProperties
<1>3. RemoveAt(s, i) = p \o q
  BY DEF RemoveAt, p, q
<1>4. \A j \in 1 .. Len(s) - 1 : (p \o q)[j] = IF j < i THEN s[j] ELSE s[j + 1]
  <2> TAKE j \in 1 .. Len(s) - 1
  <2>1. j \in 1 .. Len(p) + Len(q) /\ Len(s) \in Nat
    BY <1>1
  <2>2. CASE j < i
    BY <1>1, <1>2, <2>1, <2>2
  <2>3. CASE ~(j < i)
    <3>1. j - Len(p) \in 1 .. Len(s) - i /\ i + (j - Len(p)) = j + 1 /\ ~(j <= Len(p))
      BY <1>1, <2>1, <2>3
    <3> QED BY <1>1, <1>2, <2>1, <2>3, <3>1
  <2> QED BY <2>2, <2>3
<1>5. Len(p \o q) = Len(s) - 1
  BY <1>1, <1>2
<1> QED BY <1>2, <1>3, <1>4, <1>5

\* From a sequence without repetition, one element goes and the others stay.
LEMMA RemoveAtOnce ==
  ASSUME NEW S, NEW s \in Seq(S), IsInjective(s), NEW i \in 1 .. Len(s)
  PROVE  /\ IsInjective(RemoveAt(s, i))
         /\ ToSet(RemoveAt(s, i)) = ToSet(s) \ {s[i]}
<1> DEFINE t == RemoveAt(s, i)
<1>1. /\ DOMAIN s = 1 .. Len(s) /\ DOMAIN t = 1 .. Len(s) - 1 /\ Len(s) \in Nat
      /\ \A j \in 1 .. Len(s) - 1 : t[j] = IF j < i THEN s[j] ELSE s[j + 1]
  BY RemoveAtProperties, LenProperties
<1> HIDE DEF t
<1>2. IsInjective(t)
  <2> SUFFICES ASSUME NEW a \in 1 .. Len(s) - 1, NEW b \in 1 .. Len(s) - 1, t[a] = t[b]
               PROVE  a = b
    BY <1>1 DEF IsInjective
  <2> DEFINE k(j) == IF j < i THEN j ELSE j + 1
  <2>1. k(a) \in 1 .. Len(s) /\ k(b) \in 1 .. Len(s) /\ s[k(a)] = s[k(b)]
    BY <1>1
  <2>2. k(a) = k(b)
    BY <1>1, <2>1 DEF IsInjective
  <2> QED BY <1>1, <2>2
<1>3. ToSet(t) \subseteq ToSet(s) \ {s[i]}
  BY <1>1 DEF ToSet, IsInjective
<1>4. ASSUME NEW k \in 1 .. Len(s), k # i PROVE s[k] \in ToSet(t)
  <2>1. s[k] = t[IF k < i THEN k ELSE k - 1]
    BY <1>1, <1>4
  <2> QED BY <1>1, <1>4, <2>1 DEF ToSet
<1> QED BY <1>1, <1>2, <1>3, <1>4 DEF ToSet, t

-----------------------------------------------------------------------------
HasNode == \A c \in Clients : client[c] # "idle" => node[c] # None

BaseInv == TypeOK /\ HasNode

\* A client between the two locks of its call still knows whether its node is listed.
NodesOwned == /\ \A c \in Clients : node[c] \notin interruptNodeFree
              /\ \A c, d \in Clients : node[c] = node[d] /\ node[c] # None => c = d
              /\ \A c \in Clients : client[c] \in {"addWaits", "addLocks"} => ~isOnList[node[c]]
              /\ \A c \in Clients : client[c] \in {"removeWaits", "removeLocks"} => isOnList[node[c]]

ListInv == ListedOnce /\ NodesOwned

ActiveInv == /\ callbackActive => \E s \in Sources : Calling(s)
             /\ \A s \in Sources : Calling(s) /\ ~exposed[s] => callbackActive

WaiterInv == \A c \in Clients : Waits(c) =>
               \/ callbackDone[node[c]]
               \/ passedOver[c]
               \/ node[c] \in ToSet(addRemoveList) /\ listModified /\ callbackActive

StartInv == ActiveInv /\ WaiterInv

\* What holds with a node for each client.
IInv == BaseInv /\ ListInv /\ StartInv

\* The nodes at 1 .. k have been called; the source has come to the node at i.
CalledBefore(s, k) == \A j \in 1 .. k : callbackList[j] \in called[s]
At(s, i)           == callbackList[i] = current[s]

\* In the loop: what is before the node the source has come to has been called.
WalkInv == \A s \in Sources : ~exposed[s] =>
             /\ source[s] = "walk" /\ current[s] = None => CalledBefore(s, Len(callbackList))
             /\ source[s] = "walk" /\ current[s] # None =>
                  \E i \in 1 .. Len(callbackList) : At(s, i) /\ CalledBefore(s, i - 1)

-----------------------------------------------------------------------------
LEMMA AfterType ==
  ASSUME callbackList \in Seq(Nodes), NEW n \in Nodes, NEW x \in After(n)
  PROVE  x \in Nodes \cup {None}
  <1>1. CASE n \in ToSet(callbackList)
    <2>1. PICK i \in 1 .. Len(callbackList) : x = IF i = Len(callbackList) THEN None ELSE callbackList[i + 1]
      BY <1>1 DEF After
    <2>2. i # Len(callbackList) => i + 1 \in 1 .. Len(callbackList)
      OBVIOUS
    <2> QED BY <2>1, <2>2, ElementOfSeq
  <1>2. CASE n \notin ToSet(callbackList)
    BY <1>2 DEF After
  <1> QED BY <1>1, <1>2

-----------------------------------------------------------------------------

LEMMA NodeOf ==
  ASSUME BaseInv, NEW c \in Clients, node[c] # None
  PROVE  node[c] \in Nodes
  BY DEF BaseInv, TypeOK

(* What the parts of addInterruptUser and removeInterruptUser do to the variables. *)
LEMMA CallTypes ==
  ASSUME BaseInv, NEW c \in Clients, node[c] # None,
         AddLoop(c) \/ RemoveLoop(c),
         UNCHANGED <<callbackDone, nodeVars, sourceVars>>
  PROVE  BaseInv'
  <1>1. node[c] \in Nodes
    BY NodeOf
  <1> USE DEF BaseInv
  <1>2. CASE \E w \in {"addWaits", "removeWaits"} : WaitForInterruptEnd(c, w)
    <2>1. addRemoveList' \in Seq(Nodes)
      BY <1>1, <1>2, AppendToSet DEF WaitForInterruptEnd, TypeOK
    <2> QED BY <1>1, <1>2, <2>1 DEF WaitForInterruptEnd, TypeOK, HasNode, nodeVars, sourceVars
  <1>3. CASE Refused(c)
    BY <1>3 DEF Refused, Return, TypeOK, HasNode, baseVars, nodeVars, sourceVars
  <1>4. CASE AddToList(c)
    <2>1. callbackList' \in Seq(Nodes)
      BY <1>1, <1>4, AppendToSet DEF AddToList, TypeOK
    <2> QED BY <1>1, <1>4, <2>1 DEF AddToList, Return, TypeOK, HasNode, nodeVars, sourceVars
  <1>5. CASE RemoveFromList(c)
    <2>1. callbackList' \in Seq(Nodes)
      BY <1>1, <1>5, RemoveAtProperties DEF RemoveFromList, TypeOK
    <2> QED BY <1>1, <1>5, <2>1 DEF RemoveFromList, Return, TypeOK, HasNode, nodeVars, sourceVars
  <1> QED BY <1>2, <1>3, <1>4, <1>5 DEF AddLoop, RemoveLoop

LEMMA ClientTypes ==
  ASSUME BaseInv, NEW c \in Clients, ClientCall(c) \/ ClientStep(c)
  PROVE  BaseInv'
  <1>1. CASE CreateInterruptNode(c)
    BY <1>1, NodesAssumption DEF CreateInterruptNode, BaseInv, TypeOK, HasNode, baseVars, sourceVars
  <1>3. CASE FreeInterruptNode(c)
    BY <1>3 DEF FreeInterruptNode, BaseInv, TypeOK, HasNode, baseVars, flagVars, sourceVars
  <1>4. CASE AddInterruptUser(c) \/ RemoveInterruptUser(c) \/ AddLocks(c) \/ RemoveLocks(c)
    <2>1. node[c] # None
      BY <1>4 DEF AddInterruptUser, RemoveInterruptUser, AddLocks, RemoveLocks, BaseInv, HasNode
    <2> QED BY <1>4, <2>1, CallTypes DEF AddInterruptUser, RemoveInterruptUser, AddLocks, RemoveLocks
  <1>5. CASE CallbackDone(c)
    BY <1>5 DEF CallbackDone, BaseInv, TypeOK, HasNode, baseVars, nodeVars
  <1> QED BY <1>1, <1>3, <1>4, <1>5 DEF ClientCall, ClientStep

LEMMA SourceTypes ==
  ASSUME BaseInv, NEW s \in Sources, InterruptStart(s) \/ SourceStep(s)
  PROVE  BaseInv'
  <1> USE DEF BaseInv
  <1>1. CASE InterruptStart(s)
    <2>1. source' \in [Sources -> {"idle", "first", "walk"}]
      BY <1>1 DEF InterruptStart, TypeOK
    <2>2. called' \in [Sources -> SUBSET Nodes]
      <3>1. called' = [called EXCEPT ![s] = {}] /\ called \in [Sources -> SUBSET Nodes]
        BY <1>1 DEF InterruptStart, TypeOK
      <3> QED BY <3>1
    <2>3. callbackActive' \in BOOLEAN /\ listModified' \in BOOLEAN
      BY <1>1 DEF InterruptStart
    <2>4. interrupts' \in Nat
      BY <1>1 DEF InterruptStart, TypeOK
    <2>5. exposed' \in [Sources -> BOOLEAN] /\ passedOver' \in [Clients -> BOOLEAN]
      <3>1. exposed' \in [Sources -> BOOLEAN]
        BY <1>1 DEF InterruptStart, TypeOK
      <3>2. \A c \in Clients : (passedOver[c] \/ (Waits(c) /\ ~callbackDone[node[c]] /\ \E t \in Sources \ {s} : Calling(t))) \in BOOLEAN
        BY DEF TypeOK
      <3> QED BY <1>1, <3>1, <3>2 DEF InterruptStart, PassOver
    <2> QED BY <1>1, <2>1, <2>2, <2>3, <2>4, <2>5 DEF InterruptStart, TypeOK, HasNode, flagVars, nodeVars
  <1>2. CASE FirstNode(s)
    <2>1. callbackList # << >> => Head(callbackList) \in Nodes
      BY HeadTailProperties DEF TypeOK
    <2> QED BY <1>2, <2>1 DEF FirstNode, TypeOK, HasNode, baseVars, flagVars, nodeVars
  <1>3. CASE CallNext(s)
    <2>1. current[s] \in Nodes
      BY <1>3 DEF CallNext, TypeOK
    <2>2. PICK n \in Nodes \cup {None} : current' = [current EXCEPT ![s] = n]
      BY <1>3, <2>1, AfterType DEF CallNext, TypeOK
    <2>3. current' \in [Sources -> Nodes \cup {None}]
      BY <2>2 DEF TypeOK
    <2>4. called' \in [Sources -> SUBSET Nodes]
      BY <1>3, <2>1 DEF CallNext, TypeOK
    <2> QED BY <1>3, <2>3, <2>4 DEF CallNext, TypeOK, HasNode, baseVars, flagVars, nodeVars
  <1>4. CASE InterruptEnd(s)
    <2>1. /\ addRemoveList' \in Seq(Nodes)
          /\ isOnAddRemoveList' \in [Nodes -> BOOLEAN]
          /\ callbackDone' \in [Nodes -> BOOLEAN]
      <3>1. CASE EndUnmodified
        BY <3>1 DEF EndUnmodified, TypeOK
      <3>2. CASE EndModified
        BY <3>2 DEF EndModified
      <3> QED BY <1>4, <3>1, <3>2 DEF InterruptEnd
    <2>2. exposed' \in [Sources -> BOOLEAN]
      BY <1>4 DEF InterruptEnd, Expose, Calling, TypeOK
    <2> QED BY <1>4, <2>1, <2>2 DEF InterruptEnd, TypeOK, HasNode, nodeVars
  <1> QED BY <1>1, <1>2, <1>3, <1>4 DEF SourceStep

(* Types, and a node for every client that is in a call. *)
THEOREM BaseInvariant == Spec => []BaseInv
  <1>1. Init => BaseInv
    <2> SUFFICES ASSUME Init PROVE BaseInv
      OBVIOUS
    <2>1. << >> \in Seq(Nodes)
      OBVIOUS
    <2>2. called \in [Sources -> SUBSET Nodes] /\ interrupts \in Nat /\ interruptNodeFree \in SUBSET Nodes
      BY DEF Init
    <2> QED BY <2>1, <2>2 DEF Init, BaseInv, TypeOK, HasNode
  <1>2. BaseInv /\ [Next]_vars => BaseInv'
    <2>1. BaseInv /\ UNCHANGED vars => BaseInv'
      BY DEF vars, BaseInv, TypeOK, HasNode
    <2> QED BY <2>1, ClientTypes, SourceTypes DEF Next
  <1> QED BY <1>1, <1>2, PTL DEF Spec

(* Every variable keeps to its type, whoever shares nodes or overlaps. *)
THEOREM TypeCorrect == Spec => []TypeOK
  BY BaseInvariant, PTL DEF BaseInv

-----------------------------------------------------------------------------
(* The list of nodes *)

LEMMA CallKeepsList ==
  ASSUME BaseInv, ListInv, NEW c \in Clients, node[c] # None,
         \/ AddLoop(c) /\ client[c] \in {"idle", "addLocks"} /\ ~isOnList[node[c]]
         \/ RemoveLoop(c) /\ client[c] \in {"idle", "removeLocks"} /\ isOnList[node[c]],
         UNCHANGED <<callbackDone, nodeVars, sourceVars>>
  PROVE  ListInv'
  <1> DEFINE n == node[c]
  <1>1. n \in Nodes /\ callbackList \in Seq(Nodes) /\ isOnList \in [Nodes -> BOOLEAN]
    BY NodeOf DEF BaseInv, TypeOK
  <1>2. /\ UNCHANGED <<node, interruptNodeFree>>
        /\ \A d \in Clients : node[d] \in Nodes \cup {None}
        /\ client \in [Clients -> {"idle", "addWaits", "addLocks", "removeWaits", "removeLocks"}]
    BY DEF nodeVars, BaseInv, TypeOK
  <1>3. CASE UNCHANGED <<callbackList, isOnList>>
    <2>1. ListedOnce'
      BY <1>2, <1>3 DEF ListInv, ListedOnce
    <2>2. \A d \in Clients \ {c} : client'[d] = client[d]
      BY <1>2, <1>3 DEF AddLoop, RemoveLoop, WaitForInterruptEnd, Refused, AddToList, RemoveFromList, Return
    <2>3. \/ client'[c] = "idle"
          \/ client'[c] = "addWaits" /\ ~isOnList[n]
          \/ client'[c] = "removeWaits" /\ isOnList[n]
      BY <1>2, <1>3 DEF AddLoop, RemoveLoop, WaitForInterruptEnd, Refused, AddToList, RemoveFromList, Return
    <2>4. NodesOwned'
      BY <1>2, <1>3, <2>2, <2>3 DEF ListInv, NodesOwned
    <2> QED BY <2>1, <2>4 DEF ListInv
  <1>4. CASE ~isOnList[n] /\ AddToList(c)
    <2>1. /\ callbackList' = Append(callbackList, n)
          /\ isOnList' = [isOnList EXCEPT ![n] = TRUE]
          /\ client' = [client EXCEPT ![c] = "idle"]
      BY <1>4 DEF AddToList, Return
    <2>2. n \notin ToSet(callbackList) /\ n \notin interruptNodeFree
      BY <1>1, <1>4 DEF ListInv, ListedOnce, NodesOwned
    <2>3. IsInjective(callbackList') /\ ToSet(callbackList') = ToSet(callbackList) \cup {n}
      BY <1>1, <2>1, <2>2, AppendToSet DEF ListInv, ListedOnce
    <2>4. ListedOnce'
      BY <1>1, <1>2, <2>1, <2>2, <2>3 DEF ListInv, ListedOnce
    <2>5. NodesOwned'
      BY <1>1, <1>2, <2>1 DEF ListInv, NodesOwned
    <2> QED BY <2>4, <2>5 DEF ListInv
  <1>5. CASE isOnList[n] /\ RemoveFromList(c)
    <2>1. /\ isOnList' = [isOnList EXCEPT ![n] = FALSE]
          /\ client' = [client EXCEPT ![c] = "idle"]
      BY <1>5 DEF RemoveFromList, Return
    <2>2. n \in ToSet(callbackList)
      BY <1>1, <1>5 DEF ListInv, ListedOnce
    <2>3. PICK i \in 1 .. Len(callbackList) : callbackList[i] = n /\ callbackList' = RemoveAt(callbackList, i)
      BY <1>1, <1>5, <2>2 DEF RemoveFromList, ToSet
    <2>4. IsInjective(callbackList') /\ ToSet(callbackList') = ToSet(callbackList) \ {n}
      BY <1>1, <2>3, RemoveAtOnce DEF ListInv, ListedOnce
    <2>5. ListedOnce'
      BY <1>1, <1>2, <2>1, <2>4 DEF ListInv, ListedOnce
    <2>6. NodesOwned'
      BY <1>1, <1>2, <2>1 DEF ListInv, NodesOwned
    <2> QED BY <2>5, <2>6 DEF ListInv
  <1> QED BY <1>3, <1>4, <1>5 DEF AddLoop, RemoveLoop, WaitForInterruptEnd, Refused, baseVars

(* Who waits in a call knows whether its node is listed. *)
THEOREM ListInvariant == Spec => []ListInv
  <1>1. Init => ListInv
    <2> SUFFICES ASSUME Init PROVE ListInv
      OBVIOUS
    <2>1. IsInjective(callbackList) /\ ToSet(callbackList) = {}
      BY DEF Init, IsInjective, ToSet
    <2>2. NodesOwned
      BY NodesAssumption DEF Init, NodesOwned
    <2> QED BY <2>1, <2>2 DEF Init, ListInv, ListedOnce
  <1>2. ASSUME BaseInv, ListInv, NEW c \in Clients, ClientCall(c) \/ ClientStep(c)
        PROVE  ListInv'
    <2>0. /\ node \in [Clients -> Nodes \cup {None}] /\ isOnList \in [Nodes -> BOOLEAN]
          /\ interruptNodeFree \subseteq Nodes
          /\ client \in [Clients -> {"idle", "addWaits", "addLocks", "removeWaits", "removeLocks"}]
      BY <1>2 DEF BaseInv, TypeOK
    <2>1. CASE CreateInterruptNode(c)
      <3>1. PICK n \in interruptNodeFree : /\ interruptNodeFree' = interruptNodeFree \ {n}
                                           /\ node' = [node EXCEPT ![c] = n]
                                           /\ isOnList' = [isOnList EXCEPT ![n] = FALSE]
        BY <2>1 DEF CreateInterruptNode
      <3>2. UNCHANGED <<callbackList, client>> /\ client[c] = "idle"
        BY <2>1 DEF CreateInterruptNode, baseVars
      <3>3. ListedOnce'
        BY <1>2, <2>0, <3>1, <3>2 DEF ListInv, ListedOnce
      <3>4. NodesOwned'
        BY <1>2, <2>0, <3>1, <3>2, NodesAssumption DEF ListInv, NodesOwned
      <3> QED BY <3>3, <3>4 DEF ListInv
    <2>3. CASE FreeInterruptNode(c)
      <3>1. UNCHANGED <<callbackList, isOnList, client>> /\ client[c] = "idle"
        BY <2>3 DEF FreeInterruptNode, baseVars, flagVars
      <3>2. node[c] \in Nodes /\ ~isOnList[node[c]]
        BY <2>3, <2>0 DEF FreeInterruptNode
      <3>3. ListedOnce'
        BY <1>2, <2>3, <3>1, <3>2 DEF FreeInterruptNode, ListInv, ListedOnce
      <3>4. NodesOwned'
        BY <1>2, <2>3, <2>0, <3>1, <3>2, NodesAssumption DEF FreeInterruptNode, ListInv, NodesOwned
      <3> QED BY <3>3, <3>4 DEF ListInv
    <2>4. CASE AddInterruptUser(c) \/ RemoveInterruptUser(c) \/ AddLocks(c) \/ RemoveLocks(c)
      <3>1. node[c] # None
        BY <1>2, <2>4 DEF AddInterruptUser, RemoveInterruptUser, AddLocks, RemoveLocks, BaseInv, HasNode
      <3>2. /\ client[c] = "addLocks" => ~isOnList[node[c]]
            /\ client[c] = "removeLocks" => isOnList[node[c]]
        BY <1>2 DEF ListInv, NodesOwned
      <3> QED BY <1>2, <2>4, <3>1, <3>2, CallKeepsList
              DEF AddInterruptUser, RemoveInterruptUser, AddLocks, RemoveLocks
    <2>5. CASE CallbackDone(c)
      <3>1. UNCHANGED <<callbackList, isOnList, node, interruptNodeFree>>
        BY <2>5 DEF CallbackDone, baseVars, nodeVars
      <3>2. \A d \in Clients : \/ client'[d] = client[d]
                               \/ client[d] = "addWaits" /\ client'[d] = "addLocks"
                               \/ client[d] = "removeWaits" /\ client'[d] = "removeLocks"
        <4>1. /\ client[c] = "addWaits" => client'[c] = "addLocks"
              /\ client[c] = "removeWaits" => client'[c] = "removeLocks"
              /\ client[c] \in {"addWaits", "removeWaits"}
              /\ \A d \in Clients \ {c} : client'[d] = client[d]
          BY <2>5, <2>0 DEF CallbackDone
        <4> TAKE d \in Clients
        <4>2. CASE d = c
          BY <4>1, <4>2
        <4>3. CASE d # c
          BY <4>1, <4>3
        <4> QED BY <4>2, <4>3
      <3>3. ListedOnce'
        BY <1>2, <3>1 DEF ListInv, ListedOnce
      <3>4. NodesOwned'
        BY <1>2, <3>1, <3>2 DEF ListInv, NodesOwned
      <3> QED BY <3>3, <3>4 DEF ListInv
    <2> QED BY <1>2, <2>1, <2>3, <2>4, <2>5 DEF ClientCall, ClientStep
  <1>3. ASSUME ListInv, NEW s \in Sources, InterruptStart(s) \/ SourceStep(s)
        PROVE  ListInv'
    <2>1. UNCHANGED <<callbackList, isOnList, node, interruptNodeFree, client>>
      BY <1>3 DEF InterruptStart, SourceStep, FirstNode, CallNext, InterruptEnd, baseVars, flagVars, nodeVars
    <2> QED BY <1>3, <2>1 DEF ListInv, ListedOnce, NodesOwned
  <1>4. ListInv /\ UNCHANGED vars => ListInv'
    BY DEF ListInv, ListedOnce, NodesOwned, vars
  <1>5. BaseInv /\ ListInv /\ [Next]_vars => ListInv'
    BY <1>2, <1>3, <1>4 DEF Next
  <1> QED BY <1>1, <1>5, BaseInvariant, PTL DEF Spec

(* A node is listed once and freed only when it is not listed, whatever the *)
(* number of sources.                                                       *)
THEOREM NodesListedOnce == Spec => []ListedOnce
  BY ListInvariant, PTL DEF ListInv

-----------------------------------------------------------------------------
(* Between interruptStart and interruptEnd *)

LEMMA CallKeepsStart ==
  ASSUME BaseInv, StartInv, NEW c \in Clients, node[c] # None, AddLoop(c) \/ RemoveLoop(c),
         UNCHANGED <<callbackDone, nodeVars, sourceVars>>
  PROVE  StartInv'
  <1>1. /\ node[c] \in Nodes /\ addRemoveList \in Seq(Nodes)
        /\ client \in [Clients -> {"idle", "addWaits", "addLocks", "removeWaits", "removeLocks"}]
    BY NodeOf DEF BaseInv, TypeOK
  <1>2. UNCHANGED <<node, source, callbackActive, callbackDone, exposed, passedOver>>
    BY DEF nodeVars, sourceVars, AddLoop, RemoveLoop, WaitForInterruptEnd, Refused, AddToList, RemoveFromList, baseVars
  <1>3. ActiveInv'
    BY <1>2 DEF StartInv, ActiveInv, Calling
  <1>4. CASE \E w \in {"addWaits", "removeWaits"} : callbackActive /\ WaitForInterruptEnd(c, w)
    <2>1. ToSet(addRemoveList') = ToSet(addRemoveList) \cup {node[c]}
      BY <1>1, <1>4, AppendToSet DEF WaitForInterruptEnd
    <2>2. WaiterInv'
      BY <1>1, <1>2, <1>4, <2>1 DEF WaitForInterruptEnd, StartInv, WaiterInv, Waits
    <2> QED BY <1>3, <2>2 DEF StartInv
  <1>5. CASE client' = [client EXCEPT ![c] = "idle"] /\ UNCHANGED <<addRemoveList, listModified>>
    BY <1>1, <1>2, <1>3, <1>5 DEF StartInv, WaiterInv, Waits
  <1> QED BY <1>4, <1>5 DEF AddLoop, RemoveLoop, Refused, AddToList, RemoveFromList, Return, baseVars

LEMMA ClientKeepsStart ==
  ASSUME BaseInv, ListInv, StartInv, NEW c \in Clients, ClientCall(c) \/ ClientStep(c)
  PROVE  StartInv'
  <1>0. /\ node \in [Clients -> Nodes \cup {None}]
        /\ client \in [Clients -> {"idle", "addWaits", "addLocks", "removeWaits", "removeLocks"}]
    BY DEF BaseInv, TypeOK
  <1>1. CASE CreateInterruptNode(c) \/ FreeInterruptNode(c)
    <2>1. /\ UNCHANGED <<baseVars, callbackDone, client, source, exposed, passedOver>> /\ client[c] = "idle"
          /\ \A d \in Clients \ {c} : node'[d] = node[d]
      BY <1>1, <1>0 DEF CreateInterruptNode, FreeInterruptNode, flagVars, sourceVars
    <2> QED BY <2>1 DEF StartInv, ActiveInv, WaiterInv, Waits, Calling, baseVars
  <1>2. CASE AddInterruptUser(c) \/ RemoveInterruptUser(c) \/ AddLocks(c) \/ RemoveLocks(c)
    <2>1. node[c] # None
      BY <1>2 DEF AddInterruptUser, RemoveInterruptUser, AddLocks, RemoveLocks, BaseInv, HasNode
    <2> QED BY <1>2, <2>1, CallKeepsStart DEF AddInterruptUser, RemoveInterruptUser, AddLocks, RemoveLocks
  <1>3. CASE CallbackDone(c)
    <2>1. /\ UNCHANGED <<callbackActive, listModified, addRemoveList, source, node, exposed>>
          /\ ~Waits(c)'
          /\ \A d \in Clients \ {c} : client'[d] = client[d] /\ passedOver'[d] = passedOver[d]
      BY <1>0, <1>3 DEF CallbackDone, Waits, baseVars, nodeVars
    <2>2. ASSUME NEW d \in Clients \ {c}, Waits(d)
          PROVE  callbackDone'[node[d]] = callbackDone[node[d]]
      <3>1. node[d] # None /\ node[d] # node[c]
        BY <2>2 DEF BaseInv, HasNode, ListInv, NodesOwned, Waits
      <3> QED BY <1>3, <3>1 DEF CallbackDone, BaseInv, TypeOK
    <2>3. WaiterInv'
      BY <2>1, <2>2 DEF StartInv, WaiterInv, Waits
    <2> QED BY <2>1, <2>3 DEF StartInv, ActiveInv, Calling
  <1> QED BY <1>1, <1>2, <1>3 DEF ClientCall, ClientStep

(* The source that clears listModified passes over the clients that wait for another. *)
LEMMA SourceKeepsStart ==
  ASSUME BaseInv, StartInv, NEW s \in Sources, InterruptStart(s) \/ SourceStep(s)
  PROVE  StartInv'
  <1>0. /\ UNCHANGED <<client, node>> /\ source \in [Sources -> {"idle", "first", "walk"}]
        /\ exposed \in [Sources -> BOOLEAN]
    BY DEF InterruptStart, SourceStep, FirstNode, CallNext, InterruptEnd, nodeVars, BaseInv, TypeOK
  <1>1. CASE InterruptStart(s)
    <2>1. ActiveInv'
      BY <1>0, <1>1 DEF InterruptStart, ActiveInv, Calling
    <2>2. ASSUME NEW c \in Clients, Waits(c), ~callbackDone[node[c]]
          PROVE  passedOver'[c]
      <3>1. passedOver[c] \/ \E t \in Sources : Calling(t)
        BY <2>2 DEF StartInv, WaiterInv, ActiveInv
      <3>2. ~Calling(s)
        BY <1>1 DEF InterruptStart, Calling
      <3> QED BY <1>1, <2>2, <3>1, <3>2 DEF InterruptStart, PassOver
    <2>3. WaiterInv'
      BY <1>0, <1>1, <2>2 DEF InterruptStart, WaiterInv, Waits, flagVars
    <2> QED BY <2>1, <2>3 DEF StartInv
  <1>2. CASE FirstNode(s) \/ CallNext(s)
    <2>1. UNCHANGED <<callbackActive, listModified, addRemoveList, callbackDone, exposed, passedOver>>
      BY <1>2 DEF FirstNode, CallNext, baseVars, flagVars
    <2>2. ActiveInv'
      BY <1>0, <1>2, <2>1 DEF FirstNode, CallNext, StartInv, ActiveInv, Calling
    <2> QED BY <1>0, <2>1, <2>2 DEF StartInv, WaiterInv, Waits
  <1>3. CASE InterruptEnd(s)
    <2>1. ActiveInv'
      BY <1>0, <1>3 DEF InterruptEnd, Expose, ActiveInv, Calling
    <2>2. CASE EndUnmodified
      <3>1. \A c \in Clients : Waits(c) => callbackDone[node[c]] \/ passedOver[c]
        BY <2>2 DEF EndUnmodified, StartInv, WaiterInv
      <3>2. WaiterInv'
        BY <1>0, <1>3, <2>2, <3>1 DEF InterruptEnd, EndUnmodified, WaiterInv, Waits
      <3> QED BY <2>1, <3>2 DEF StartInv
    <2>3. CASE EndModified
      <3>1. \A c \in Clients : Waits(c) => callbackDone'[node[c]] \/ passedOver[c]
        <4>1. \A c \in Clients : Waits(c) => node[c] \in Nodes
          BY DEF Waits, BaseInv, TypeOK, HasNode
        <4> QED BY <2>3, <4>1 DEF EndModified, StartInv, WaiterInv
      <3>2. WaiterInv'
        BY <1>0, <1>3, <2>3, <3>1 DEF InterruptEnd, WaiterInv, Waits
      <3> QED BY <2>1, <3>2 DEF StartInv
    <2> QED BY <1>3, <2>2, <2>3 DEF InterruptEnd
  <1> QED BY <1>1, <1>2, <1>3 DEF SourceStep

(* For any number of sources, whether they overlap or not: see IInv. *)
THEOREM Invariant == Spec => []IInv
  <1>1. Init => StartInv
    BY DEF Init, StartInv, ActiveInv, WaiterInv, Calling, Waits
  <1>2. BaseInv /\ ListInv /\ StartInv /\ [Next]_vars => StartInv'
    <2>1. StartInv /\ UNCHANGED vars => StartInv'
      BY DEF StartInv, ActiveInv, WaiterInv, Calling, Waits, vars
    <2> QED BY <2>1, ClientKeepsStart, SourceKeepsStart DEF Next
  <1>3. IInv <=> BaseInv /\ ListInv /\ StartInv
    BY DEF IInv
  <1> QED BY <1>1, <1>2, <1>3, BaseInvariant, ListInvariant, PTL DEF Spec

(* No client that waits for interruptEnd is forgotten, but one that another source has *)
(* passed over: its interruptStart came while the client waited.                       *)
THEOREM WaitersAreSignalled == Spec => []NoLostWaiter
  <1>1. IInv => NoLostWaiter
    BY DEF IInv, StartInv, ActiveInv, WaiterInv, NoLostWaiter
  <1> QED BY Invariant, <1>1, PTL

(* Nobody changes the list during a loop that is not exposed. *)
LEMMA StillStep ==
  ASSUME IInv, Next, \E s \in Sources : Calling(s) /\ ~exposed[s]
  PROVE  UNCHANGED callbackList
  <1>0. callbackActive
    BY DEF IInv, StartInv, ActiveInv
  <1>1. ASSUME NEW c \in Clients, ClientCall(c) \/ ClientStep(c)
        PROVE  UNCHANGED callbackList
    BY <1>0, <1>1 DEF ClientCall, ClientStep, CreateInterruptNode, FreeInterruptNode, AddInterruptUser,
                      RemoveInterruptUser, CallbackDone, AddLocks, RemoveLocks, AddLoop, RemoveLoop,
                      WaitForInterruptEnd, Refused, baseVars
  <1>2. ASSUME NEW s \in Sources, InterruptStart(s) \/ SourceStep(s)
        PROVE  UNCHANGED callbackList
    BY <1>2 DEF InterruptStart, SourceStep, FirstNode, CallNext, InterruptEnd, baseVars
  <1> QED BY <1>1, <1>2 DEF Next

(* The list stands still between interruptStart and interruptEnd of a source, until *)
(* another source calls interruptEnd.                                               *)
THEOREM ListStandsStill == Spec => ListDelayed
  <1> DEFINE Still == (\E s \in Sources : Calling(s) /\ ~exposed[s]) => UNCHANGED callbackList
  <1>1. IInv /\ [Next]_vars => [Still]_vars
    BY StillStep
  <1> QED BY Invariant, <1>1, PTL DEF Spec, ListDelayed

-----------------------------------------------------------------------------
(* The loop over the list *)

(* The node after the one at i is the one at i + 1: the node is on the list once. *)
LEMMA AfterNext ==
  ASSUME BaseInv, ListInv, NEW i \in 1 .. Len(callbackList), NEW v \in After(callbackList[i])
  PROVE  v = IF i = Len(callbackList) THEN None ELSE callbackList[i + 1]
  <1> DEFINE n == callbackList[i]
  <1>0. callbackList \in Seq(Nodes) /\ DOMAIN callbackList = 1 .. Len(callbackList)
    BY DEF BaseInv, TypeOK
  <1>1. n \in ToSet(callbackList)
    BY <1>0 DEF ToSet
  <1>2. PICK k \in 1 .. Len(callbackList) :
          callbackList[k] = n /\ v = IF k = Len(callbackList) THEN None ELSE callbackList[k + 1]
    BY <1>0, <1>1 DEF After
  <1>3. k = i
    BY <1>0, <1>2 DEF ListInv, ListedOnce, IsInjective
  <1> QED BY <1>2, <1>3

(* A source that is not exposed calls the nodes of the list in its order and skips none. *)
LEMMA WalkInvStep ==
  ASSUME IInv, WalkInv, Next, NEW s \in Sources, ~exposed'[s]
  PROVE  /\ (source[s] = "walk" /\ current[s] = None => CalledBefore(s, Len(callbackList)))'
         /\ (source[s] = "walk" /\ current[s] # None => \E i \in 1 .. Len(callbackList) : At(s, i) /\ CalledBefore(s, i - 1))'
  <1>0. /\ callbackList \in Seq(Nodes)
        /\ source \in [Sources -> {"idle", "first", "walk"}]
        /\ current \in [Sources -> Nodes \cup {None}]
        /\ called \in [Sources -> SUBSET Nodes]
        /\ exposed \in [Sources -> BOOLEAN]
    BY DEF IInv, BaseInv, TypeOK
  <1>1. ASSUME NEW c \in Clients, ClientCall(c) \/ ClientStep(c)
        PROVE  UNCHANGED <<source[s], current[s], called[s], exposed[s]>>
    BY <1>1 DEF ClientCall, ClientStep, CreateInterruptNode, FreeInterruptNode, AddInterruptUser,
                RemoveInterruptUser, CallbackDone, AddLocks, RemoveLocks, sourceVars
  <1>11. ASSUME NEW t \in Sources, t # s, InterruptStart(t) \/ SourceStep(t)
         PROVE  UNCHANGED <<source[s], current[s], called[s], exposed[s]>>
    <2>1. CASE InterruptStart(t)
      BY <1>0, <1>11, <2>1 DEF InterruptStart
    <2>2. CASE FirstNode(t) \/ CallNext(t)
      BY <1>0, <1>11, <2>2 DEF FirstNode, CallNext
    <2>3. CASE InterruptEnd(t)
      <3>1. ~exposed[s]
        BY <2>3 DEF InterruptEnd, Expose
      <3> QED BY <1>0, <1>11, <2>3, <3>1 DEF InterruptEnd, Expose
    <2> QED BY <1>11, <2>1, <2>2, <2>3 DEF SourceStep
  <1>2. CASE UNCHANGED <<source[s], current[s], called[s], exposed[s]>>
    <2>1. CASE Calling(s)
      <3>1. UNCHANGED callbackList
        BY <1>2, <2>1, StillStep
      <3> QED BY <1>2, <2>1, <3>1 DEF WalkInv, At, CalledBefore, Calling
    <2>2. CASE ~Calling(s)
      BY <1>2, <2>2 DEF Calling
    <2> QED BY <2>1, <2>2
  <1>3. CASE InterruptStart(s)
    BY <1>0, <1>3 DEF InterruptStart
  <1>4. CASE FirstNode(s)
    <2>1. source'[s] = "walk" /\ UNCHANGED <<callbackList, called>>
      BY <1>0, <1>4 DEF FirstNode, baseVars
    <2>2. CASE callbackList = << >>
      <3>1. Len(callbackList) = 0 /\ current'[s] = None
        BY <1>0, <1>4, <2>2 DEF FirstNode
      <3> QED BY <2>1, <3>1 DEF CalledBefore
    <2>3. CASE callbackList # << >>
      <3>1. 1 \in 1 .. Len(callbackList) /\ current'[s] = callbackList[1]
        BY <1>0, <1>4, <2>3 DEF FirstNode
      <3>2. current'[s] # None
        BY <1>0, <3>1, NodesAssumption
      <3>3. At(s, 1)' /\ CalledBefore(s, 1 - 1)'
        BY <2>1, <3>1 DEF At, CalledBefore
      <3> QED BY <2>1, <3>1, <3>2, <3>3
    <2> QED BY <2>2, <2>3
  <1>5. CASE CallNext(s)
    <2>1. /\ source[s] = "walk" /\ current[s] # None /\ source'[s] = "walk"
          /\ called'[s] = called[s] \cup {current[s]} /\ UNCHANGED callbackList
          /\ current'[s] \in After(current[s])
      BY <1>0, <1>5 DEF CallNext, baseVars
    <2>2. PICK i \in 1 .. Len(callbackList) : At(s, i) /\ CalledBefore(s, i - 1)
      BY <1>5, <2>1 DEF WalkInv, CallNext
    <2>3. callbackList[i] = current[s]
      BY <2>2 DEF At
    <2>4. current'[s] = IF i = Len(callbackList) THEN None ELSE callbackList[i + 1]
      BY <2>1, <2>3, AfterNext DEF IInv
    <2>5. CalledBefore(s, i)'
      BY <1>0, <2>1, <2>2, <2>3 DEF CalledBefore
    <2>6. CASE i = Len(callbackList)
      BY <2>1, <2>4, <2>5, <2>6 DEF CalledBefore
    <2>7. CASE i # Len(callbackList)
      <3>1. i + 1 \in 1 .. Len(callbackList) /\ (i + 1) - 1 = i
        BY <1>0, <2>7
      <3>2. current'[s] # None
        BY <1>0, <2>4, <2>7, <3>1, NodesAssumption
      <3>3. At(s, i + 1)' /\ CalledBefore(s, (i + 1) - 1)'
        BY <2>1, <2>4, <2>5, <2>7, <3>1 DEF At, CalledBefore
      <3> QED BY <2>1, <3>1, <3>2, <3>3
    <2> QED BY <2>6, <2>7
  <1>6. CASE InterruptEnd(s)
    BY <1>0, <1>6 DEF InterruptEnd
  <1> QED BY <1>1, <1>11, <1>2, <1>3, <1>4, <1>5, <1>6 DEF Next, SourceStep

(* An interrupt during which no other ends reaches every node of the list: the driver's *)
(* loop, which runs without the lock, neither skips nor loses a node.                   *)
THEOREM EveryNodeCalled == Spec => []AllCalled
  <1>1. Init => WalkInv
    BY DEF Init, WalkInv
  <1>2. IInv /\ WalkInv /\ [Next]_vars => WalkInv'
    <2> SUFFICES ASSUME IInv, WalkInv, [Next]_vars PROVE WalkInv'
      OBVIOUS
    <2>1. CASE Next
      BY <2>1, WalkInvStep DEF WalkInv
    <2>2. CASE UNCHANGED vars
      BY <2>2 DEF vars, WalkInv, At, CalledBefore
    <2> QED BY <2>1, <2>2
  <1>3. IInv /\ WalkInv => AllCalled
    <2> SUFFICES ASSUME IInv, WalkInv, NEW s \in Sources, source[s] = "walk", current[s] = None, ~exposed[s]
                 PROVE  ToSet(callbackList) \subseteq called[s]
      BY DEF AllCalled
    <2>1. CalledBefore(s, Len(callbackList))
      BY DEF WalkInv
    <2>2. DOMAIN callbackList = 1 .. Len(callbackList)
      BY DEF IInv, BaseInv, TypeOK
    <2> QED BY <2>1, <2>2 DEF CalledBefore, ToSet
  <1> QED BY Invariant, <1>1, <1>2, <1>3, PTL DEF Spec
=============================================================================
