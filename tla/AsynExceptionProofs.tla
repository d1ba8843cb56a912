------------------------ MODULE AsynExceptionProofs ------------------------
(***************************************************************************)
(* For any sets of users and of announcing threads: no client that waits   *)
(* for the end of an announcement is forgotten; and for an announcement    *)
(* during which no other has finished, the list of users does not change   *)
(* while it is walked without the lock, and everybody on it is told.       *)
(*                                                                         *)
(* All rest on what exceptionActive tells (ActiveInv): if it is set,       *)
(* somebody walks, and signals who waits; and it is set while somebody     *)
(* walks who is not exposed, since the first of several announcers to      *)
(* finish clears it for all.                                               *)
(*                                                                         *)
(* That every user on the list is told rests on the list holding each user *)
(* once (ListInv): else the successor of a user is not well defined, and   *)
(* the walk may skip or repeat (WalkInv).                                  *)
(***************************************************************************)
EXTENDS AsynException, SequencesExt, SequenceTheorems, TLAPS

\* Append adds an element.
LEMMA AppendToSet ==
  ASSUME NEW S, NEW s \in Seq(S), NEW n \in S
  PROVE  /\ Append(s, n) \in Seq(S)
         /\ ToSet(Append(s, n)) = ToSet(s) \cup {n}
         /\ IsInjective(s) /\ n \notin ToSet(s) => IsInjective(Append(s, n))
  BY AppendProperties DEF ToSet, IsInjective

\* What RemoveAt of SequencesExt returns.
LEMMA RemoveAtProperties ==
  ASSUME NEW S, NEW s \in Seq(S), NEW i \in 1 .. Len(s)
  PROVE  /\ RemoveAt(s, i) \in Seq(S)
         /\ Len(RemoveAt(s, i)) = Len(s) - 1
         /\ \A j \in 1 .. Len(s) - 1 : RemoveAt(s, i)[j] = IF j < i THEN s[j] ELSE s[j + 1]
<1> DEFINE p == SubSeq(s, 1, i - 1)
           q == SubSeq(s, i + 1, Len(s))
<1>1. /\ p \in Seq(S) /\ Len(p) = i - 1 /\ \A j \in 1 .. i - 1 : p[j] = s[j]
      /\ q \in Seq(S) /\ Len(q) = Len(s) - i /\ \A j \in 1 .. Len(s) - i : q[j] = s[i + j]
  BY SubSeqProperties
<1> HIDE DEF p, q
<1>2. /\ p \o q \in Seq(S) /\ Len(p \o q) = Len(p) + Len(q)
      /\ \A j \in 1 .. Len(p) + Len(q) : (p \o q)[j] = IF j <= Len(p) THEN p[j] ELSE q[j - Len(p)]
  BY <1>1, ConcatProperties
<1>3. RemoveAt(s, i) = p \o q
  BY DEF RemoveAt, p, q
<1>4. \A j \in 1 .. Len(s) - 1 : (p \o q)[j] = IF j < i THEN s[j] ELSE s[j + 1]
  <2> TAKE j \in 1 .. Len(s) - 1
  <2>1. j \in 1 .. Len(p) + Len(q) /\ Len(s) \in Nat
    BY <1>1
  <2>2. CASE j < i
    BY <1>1, <1>2, <2>1, <2>2
  <2>3. CASE ~(j < i)
    <3>1. j - Len(p) \in 1 .. Len(s) - i /\ i + (j - Len(p)) = j + 1 /\ ~(j <= Len(p))
      BY <1>1, <2>1, <2>3
    <3> QED BY <1>1, <1>2, <2>1, <2>3, <3>1
  <2> QED BY <2>2, <2>3
<1>5. Len(p \o q) = Len(s) - 1
  BY <1>1, <1>2
<1> QED BY <1>2, <1>3, <1>4, <1>5

\* From a sequence without repetition, one element goes and the others stay.
LEMMA RemoveAtOnce ==
  ASSUME NEW S, NEW s \in Seq(S), IsInjective(s), NEW i \in 1 .. Len(s)
  PROVE  /\ IsInjective(RemoveAt(s, i))
         /\ ToSet(RemoveAt(s, i)) = ToSet(s) \ {s[i]}
<1> DEFINE t == RemoveAt(s, i)
<1>1. /\ DOMAIN s = 1 .. Len(s) /\ DOMAIN t = 1 .. Len(s) - 1 /\ Len(s) \in Nat
      /\ \A j \in 1 .. Len(s) - 1 : t[j] = IF j < i THEN s[j] ELSE s[j + 1]
  BY RemoveAtProperties, LenProperties
<1> HIDE DEF t
<1>2. IsInjective(t)
  <2> SUFFICES ASSUME NEW a \in 1 .. Len(s) - 1, NEW b \in 1 .. Len(s) - 1, t[a] = t[b]
               PROVE  a = b
    BY <1>1 DEF IsInjective
  <2> DEFINE k(j) == IF j < i THEN j ELSE j + 1
  <2>1. k(a) \in 1 .. Len(s) /\ k(b) \in 1 .. Len(s) /\ s[k(a)] = s[k(b)]
    BY <1>1
  <2>2. k(a) = k(b)
    BY <1>1, <2>1 DEF IsInjective
  <2> QED BY <1>1, <2>2
<1>3. ToSet(t) \subseteq ToSet(s) \ {s[i]}
  BY <1>1 DEF ToSet, IsInjective
<1>4. ASSUME NEW k \in 1 .. Len(s), k # i PROVE s[k] \in ToSet(t)
  <2>1. s[k] = t[IF k < i THEN k ELSE k - 1]
    BY <1>1, <1>4
  <2> QED BY <1>1, <1>4, <2>1 DEF ToSet
<1> QED BY <1>1, <1>2, <1>3, <1>4 DEF ToSet, t

-----------------------------------------------------------------------------
CurrentInv == \A a \in Announcers : announcer[a] \in {"next", "inRemove"} => current[a] \in Users

ActiveInv == /\ exceptionActive => \E a \in Announcers : Walking(a)
             /\ \A a \in Announcers : Walking(a) /\ ~exposed[a] => exceptionActive

NotifyInv == \A u \in Users : client[u] \in {"addWaits", "removeWaits"} =>
               notify[u] \/ (u \in ToSet(exceptionNotifyList) /\ exceptionActive)

IInv == TypeOK /\ CurrentInv /\ ActiveInv /\ NotifyInv

\* A user is on the list at most once, and exactly while it is added.
ListInv == /\ IsInjective(exceptionUserList)
           /\ \A u \in Users : added[u] <=> u \in ToSet(exceptionUserList)
           /\ \A u \in Users : client[u] \in {"addWaits", "addLocks"} => ~added[u]

\* The users before the one the announcer has come to have been told.
ToldBefore(a, k) == \A j \in 1 .. k : exceptionUserList[j] \in told[a]

At(a, i) == exceptionUserList[i] = current[a]

WalkInv == \A a \in Announcers : ~exposed[a] =>
  /\ announcer[a] = "walk" /\ current[a] = None => ToldBefore(a, Len(exceptionUserList))
  /\ announcer[a] = "walk" /\ current[a] # None => \E i \in 1 .. Len(exceptionUserList) : At(a, i) /\ ToldBefore(a, i - 1)
  /\ announcer[a] \in {"next", "inRemove"} => \E i \in 1 .. Len(exceptionUserList) : At(a, i) /\ ToldBefore(a, i)

-----------------------------------------------------------------------------
LEMMA InitIInv == Init => IInv
  <1> SUFFICES ASSUME Init PROVE IInv
    OBVIOUS
  <1>1. << >> \in Seq(Users)
    OBVIOUS
  <1>2. told \in [Announcers -> SUBSET Users] /\ announcements \in Nat
    BY DEF Init
  <1>3. TypeOK
    BY <1>1, <1>2 DEF Init, TypeOK
  <1>4. CurrentInv /\ ActiveInv /\ NotifyInv
    BY DEF Init, CurrentInv, ActiveInv, NotifyInv, Walking
  <1> QED BY <1>3, <1>4 DEF IInv

(* A client that begins to wait is put on the list to be notified. *)
LEMMA WaitStep ==
  ASSUME IInv, NEW u \in Users, NEW w \in {"addWaits", "removeWaits"},
         exceptionActive, WaitToBeNotified(u, w),
         notify' = notify \/ notify' = [notify EXCEPT ![u] = FALSE]
  PROVE  IInv'
  <1>1. /\ exceptionNotifyList' \in Seq(Users)
        /\ ToSet(exceptionNotifyList') = ToSet(exceptionNotifyList) \cup {u}
    BY AppendToSet DEF WaitToBeNotified, IInv, TypeOK
  <1>2. TypeOK'
    BY <1>1 DEF WaitToBeNotified, IInv, TypeOK, announcerVars
  <1>3. CurrentInv' /\ ActiveInv'
    BY DEF WaitToBeNotified, IInv, CurrentInv, ActiveInv, Walking, announcerVars
  <1>4. NotifyInv'
    BY <1>1 DEF WaitToBeNotified, IInv, TypeOK, NotifyInv
  <1> QED BY <1>2, <1>3, <1>4 DEF IInv

(* A client that changes the list waits no more. *)
LEMMA ChangeStep ==
  ASSUME IInv, NEW u \in Users, AddToList(u) \/ RemoveFromList(u),
         notify' = notify \/ notify' = [notify EXCEPT ![u] = FALSE]
  PROVE  IInv'
  <1>1. /\ client' = [client EXCEPT ![u] = "idle"]
        /\ UNCHANGED <<exceptionActive, exceptionNotifyList, announcer, current, told, announcements, exposed>>
    BY DEF AddToList, RemoveFromList, announcerVars
  <1>2. exceptionUserList' \in Seq(Users)
    <2>1. CASE AddToList(u)
      BY <2>1, AppendToSet DEF AddToList, IInv, TypeOK
    <2>2. CASE RemoveFromList(u)
      BY <2>2, RemoveAtProperties DEF RemoveFromList, IInv, TypeOK
    <2> QED BY <2>1, <2>2
  <1>3. added' \in [Users -> BOOLEAN]
    BY DEF AddToList, RemoveFromList, IInv, TypeOK
  <1>4. TypeOK'
    BY <1>1, <1>2, <1>3 DEF IInv, TypeOK
  <1>5. CurrentInv' /\ ActiveInv'
    BY <1>1 DEF IInv, CurrentInv, ActiveInv, Walking
  <1>6. NotifyInv'
    BY <1>1 DEF IInv, TypeOK, NotifyInv
  <1> QED BY <1>4, <1>5, <1>6 DEF IInv

LEMMA ClientStepIInv ==
  ASSUME IInv, NEW u \in Users, ExceptionCallbackAdd(u) \/ ExceptionCallbackRemove(u) \/ ClientStep(u)
  PROVE  IInv'
  <1>1. CASE ExceptionCallbackAdd(u)
    BY <1>1, WaitStep, ChangeStep DEF ExceptionCallbackAdd
  <1>2. CASE ExceptionCallbackRemove(u)
    BY <1>2, WaitStep, ChangeStep DEF ExceptionCallbackRemove, RemoveWaitsOrEnds
  <1>3. CASE Notified(u)
    <2>1. TypeOK'
      BY <1>3 DEF Notified, IInv, TypeOK, announcerVars
    <2>2. CurrentInv' /\ ActiveInv'
      BY <1>3 DEF Notified, IInv, CurrentInv, ActiveInv, Walking, announcerVars
    <2>3. NotifyInv'
      BY <1>3 DEF Notified, IInv, TypeOK, NotifyInv
    <2> QED BY <2>1, <2>2, <2>3 DEF IInv
  <1>4. CASE AddLocks(u)
    BY <1>4, WaitStep, ChangeStep DEF AddLocks
  <1>5. CASE RemoveLocks(u)
    BY <1>5, WaitStep, ChangeStep DEF RemoveLocks, RemoveWaitsOrEnds
  <1> QED BY <1>1, <1>2, <1>3, <1>4, <1>5 DEF ClientStep

LEMMA HeadType ==
  ASSUME NEW s \in Seq(Users), s # << >>
  PROVE  Head(s) \in Users
  OBVIOUS

LEMMA AfterType ==
  ASSUME exceptionUserList \in Seq(Users), NEW u \in Users, NEW v \in After(u)
  PROVE  v \in Users \cup {None}
  <1>1. CASE u \in ToSet(exceptionUserList)
    <2> DEFINE i == CHOOSE j \in 1 .. Len(exceptionUserList) : exceptionUserList[j] = u
    <2>1. i \in 1 .. Len(exceptionUserList)
      BY <1>1 DEF ToSet
    <2>2. v = IF i = Len(exceptionUserList) THEN None ELSE exceptionUserList[i + 1]
      BY <1>1 DEF After
    <2>3. i # Len(exceptionUserList) => i + 1 \in 1 .. Len(exceptionUserList)
      BY <2>1
    <2> QED BY <2>1, <2>2, <2>3, ElementOfSeq
  <1>2. CASE u \notin ToSet(exceptionUserList)
    BY <1>2 DEF After
  <1> QED BY <1>1, <1>2

LEMMA AnnouncerStepIInv ==
  ASSUME IInv, NEW a \in Announcers, Announce(a) \/ RemoveInCallback(a) \/ AnnouncerStep(a)
  PROVE  IInv'
  <1>1. CASE Announce(a)
    <2>1. TypeOK'
      BY <1>1 DEF Announce, IInv, TypeOK, clientVars
    <2>2. CurrentInv' /\ ActiveInv'
      BY <1>1 DEF Announce, IInv, TypeOK, CurrentInv, ActiveInv, Walking, clientVars
    <2>3. NotifyInv'
      BY <1>1 DEF Announce, IInv, TypeOK, ActiveInv, NotifyInv, Walking, clientVars
    <2> QED BY <2>1, <2>2, <2>3 DEF IInv
  <1>2. CASE First(a)
    <2>1. exceptionUserList # << >> => Head(exceptionUserList) \in Users
      BY HeadType DEF IInv, TypeOK
    <2>2. TypeOK'
      BY <1>2, <2>1 DEF First, IInv, TypeOK, clientVars
    <2>3. CurrentInv' /\ ActiveInv'
      BY <1>2, <2>1 DEF First, IInv, TypeOK, CurrentInv, ActiveInv, Walking, clientVars
    <2>4. NotifyInv'
      BY <1>2, <2>1 DEF First, IInv, TypeOK, ActiveInv, NotifyInv, Walking, clientVars
    <2> QED BY <2>2, <2>3, <2>4 DEF IInv
  <1>3. CASE Callback(a)
    <2>1. TypeOK'
      BY <1>3 DEF Callback, IInv, TypeOK, clientVars
    <2>2. CurrentInv' /\ ActiveInv'
      BY <1>3 DEF Callback, IInv, TypeOK, CurrentInv, ActiveInv, Walking, clientVars
    <2>3. NotifyInv'
      BY <1>3 DEF Callback, IInv, TypeOK, ActiveInv, NotifyInv, Walking, clientVars
    <2> QED BY <2>1, <2>2, <2>3 DEF IInv
  <1>4. CASE RemoveInCallback(a)
    <2>1. current[a] \in Users
      BY <1>4 DEF RemoveInCallback, IInv, CurrentInv
    <2>2. CASE exceptionActive
      <3>0. WaitInCallback(a) /\ notify' = notify
        BY <1>4, <2>2 DEF RemoveInCallback
      <3>1. /\ exceptionNotifyList' \in Seq(Users)
            /\ ToSet(exceptionNotifyList') = ToSet(exceptionNotifyList) \cup {current[a]}
        BY <3>0, <2>1, AppendToSet DEF WaitInCallback, IInv, TypeOK
      <3>2. TypeOK'
        BY <3>0, <2>1, <3>1 DEF WaitInCallback, IInv, TypeOK
      <3>3. CurrentInv' /\ ActiveInv'
        BY <1>4, <2>1, <3>0 DEF RemoveInCallback, WaitInCallback, IInv, TypeOK, CurrentInv, ActiveInv, Walking
      <3>4. NotifyInv'
        BY <2>2, <3>0, <2>1, <3>1 DEF WaitInCallback, IInv, TypeOK, NotifyInv
      <3> QED BY <3>2, <3>3, <3>4 DEF IInv
    <2>3. CASE ~exceptionActive
      BY <1>4, <2>1, <2>3, ChangeStep DEF RemoveInCallback
    <2> QED BY <2>2, <2>3
  <1>6. CASE NextUser(a)
    <2>1. current[a] \in Users
      BY <1>6 DEF NextUser, CallbackReturned, IInv, CurrentInv
    <2>2. \E u \in Users \cup {None} : current' = [current EXCEPT ![a] = u]
      BY <1>6, <2>1, AfterType DEF NextUser, IInv, TypeOK
    <2>3. TypeOK'
      BY <1>6, <2>1, <2>2 DEF NextUser, CallbackReturned, IInv, TypeOK, clientVars
    <2>4. CurrentInv' /\ ActiveInv'
      BY <1>6, <2>1, <2>2 DEF NextUser, CallbackReturned, IInv, TypeOK, CurrentInv, ActiveInv, Walking, clientVars
    <2>5. NotifyInv'
      BY <1>6, <2>1, <2>2 DEF NextUser, CallbackReturned, IInv, TypeOK, ActiveInv, NotifyInv, Walking, clientVars
    <2> QED BY <2>3, <2>4, <2>5 DEF IInv
  <1>7. CASE Finish(a)
    <2>0. exceptionNotifyList' \in Seq(Users) /\ notify' \in [Users -> BOOLEAN] /\ exposed' \in [Announcers -> BOOLEAN]
      BY <1>7 DEF Finish, Expose, Walking, IInv, TypeOK
    <2>1. TypeOK'
      BY <1>7, <2>0 DEF Finish, IInv, TypeOK
    <2>2. CurrentInv' /\ ActiveInv'
      BY <1>7 DEF Finish, Expose, IInv, TypeOK, CurrentInv, ActiveInv, Walking
    <2>3. NotifyInv'
      BY <1>7 DEF Finish, IInv, TypeOK, ActiveInv, NotifyInv, Walking, clientVars
    <2> QED BY <2>1, <2>2, <2>3 DEF IInv
  <1> QED BY <1>1, <1>2, <1>3, <1>4, <1>6, <1>7 DEF AnnouncerStep

(* While exceptionActive is set somebody walks, it is set during every walk that is not *)
(* exposed, and who waits is signalled or on the list of users to be notified.          *)
THEOREM Invariant == Spec => []IInv
  <1>1. IInv /\ UNCHANGED vars => IInv'
    BY DEF IInv, TypeOK, CurrentInv, ActiveInv, NotifyInv, Walking, vars
  <1>2. IInv /\ [Next]_vars => IInv'
    BY <1>1, ClientStepIInv, AnnouncerStepIInv DEF Next
  <1> QED BY InitIInv, <1>2, PTL DEF Spec

(* Every variable keeps to its type; the walk never leaves the users of the list. *)
THEOREM TypeCorrect == Spec => []TypeOK
  BY Invariant, PTL DEF IInv

(* No client that waits for the end of an exception is forgotten. *)
THEOREM NobodyForgotten == Spec => []NoLostNotify
  <1>1. IInv => NoLostNotify
    BY DEF IInv, ActiveInv, NotifyInv, NoLostNotify
  <1> QED BY Invariant, <1>1, PTL

(* Nobody changes the list during a walk that is not exposed: an exception is active. *)
LEMMA StableStep ==
  ASSUME IInv, Next, \E a \in Announcers : Walking(a) /\ ~exposed[a]
  PROVE  UNCHANGED exceptionUserList
  <1>0. exceptionActive
    BY DEF IInv, ActiveInv
  <1>1. ASSUME NEW u \in Users, ExceptionCallbackAdd(u) \/ ExceptionCallbackRemove(u) \/ ClientStep(u)
        PROVE  UNCHANGED exceptionUserList
    BY <1>0, <1>1 DEF ExceptionCallbackAdd, ExceptionCallbackRemove, ClientStep, Notified, AddLocks, RemoveLocks,
                      RemoveWaitsOrEnds, WaitToBeNotified
  <1>2. ASSUME NEW a \in Announcers, Announce(a) \/ RemoveInCallback(a) \/ AnnouncerStep(a)
        PROVE  UNCHANGED exceptionUserList
    BY <1>0, <1>2 DEF Announce, RemoveInCallback, WaitInCallback, AnnouncerStep, First, Callback, NextUser, Finish
  <1> QED BY <1>1, <1>2 DEF Next

(* The list does not change while an announcer walks along it without the lock, whatever *)
(* the number of announcers, until one of them finishes before the others.               *)
THEOREM ListIsStable == Spec => ListStable
  <1> DEFINE Stable == (\E a \in Announcers : Walking(a) /\ ~exposed[a]) => UNCHANGED exceptionUserList
  <1>1. IInv /\ [Next]_vars => [Stable]_vars
    BY StableStep
  <1> QED BY Invariant, <1>1, PTL DEF Spec, ListStable

-----------------------------------------------------------------------------
(* A client leaves the list without repetitions. *)
LEMMA ListInvStep ==
  ASSUME IInv, ListInv, Next
  PROVE  ListInv'
  <1> USE DEF IInv, TypeOK
  <1>1. ASSUME NEW u \in Users, AddToList(u), ~added[u]
        PROVE  ListInv'
    <2>1. /\ ToSet(exceptionUserList') = ToSet(exceptionUserList) \cup {u}
          /\ IsInjective(exceptionUserList')
      BY <1>1, AppendToSet DEF AddToList, ListInv
    <2> QED BY <1>1, <2>1 DEF AddToList, ListInv
  <1>2. ASSUME NEW u \in Users, RemoveFromList(u)
        PROVE  ListInv'
    <2>1. PICK i \in 1 .. Len(exceptionUserList) :
            exceptionUserList[i] = u /\ exceptionUserList' = RemoveAt(exceptionUserList, i)
      BY <1>2 DEF RemoveFromList
    <2>2. /\ ToSet(exceptionUserList') = ToSet(exceptionUserList) \ {u}
          /\ IsInjective(exceptionUserList')
      BY <2>1, RemoveAtOnce DEF ListInv
    <2> QED BY <1>2, <2>2 DEF RemoveFromList, ListInv
  <1>3. ASSUME NEW u \in Users, NEW w \in {"addWaits", "removeWaits"}, WaitToBeNotified(u, w),
               w = "addWaits" => ~added[u]
        PROVE  ListInv'
    BY <1>3 DEF WaitToBeNotified, ListInv
  <1>4. ASSUME NEW u \in Users, ExceptionCallbackAdd(u) \/ ExceptionCallbackRemove(u) \/ ClientStep(u)
        PROVE  ListInv'
    <2>1. CASE ExceptionCallbackAdd(u)
      BY <2>1, <1>1, <1>3 DEF ExceptionCallbackAdd
    <2>2. CASE ExceptionCallbackRemove(u)
      BY <2>2, <1>2, <1>3 DEF ExceptionCallbackRemove, RemoveWaitsOrEnds
    <2>3. CASE Notified(u)
      BY <2>3 DEF Notified, ListInv
    <2>4. CASE AddLocks(u)
      <3>1. ~added[u]
        BY <2>4 DEF AddLocks, ListInv
      <3> QED BY <2>4, <3>1, <1>1, <1>3 DEF AddLocks
    <2>5. CASE RemoveLocks(u)
      BY <2>5, <1>2, <1>3 DEF RemoveLocks, RemoveWaitsOrEnds
    <2> QED BY <1>4, <2>1, <2>2, <2>3, <2>4, <2>5 DEF ClientStep
  <1>5. ASSUME NEW a \in Announcers, Announce(a) \/ RemoveInCallback(a) \/ AnnouncerStep(a)
        PROVE  ListInv'
    <2>1. CASE RemoveInCallback(a)
      <3>1. current[a] \in Users
        BY <2>1 DEF RemoveInCallback, CurrentInv
      <3>2. CASE exceptionActive
        BY <2>1, <3>1, <3>2 DEF RemoveInCallback, WaitInCallback, ListInv
      <3>3. CASE ~exceptionActive
        BY <2>1, <3>1, <3>3, <1>2 DEF RemoveInCallback
      <3> QED BY <3>2, <3>3
    <2>2. CASE Announce(a) \/ AnnouncerStep(a)
      BY <2>2 DEF Announce, AnnouncerStep, First, Callback, NextUser, Finish, clientVars, ListInv
    <2> QED BY <1>5, <2>1, <2>2
  <1> QED BY <1>4, <1>5 DEF Next

(* The entry after the one at i is the one at i + 1: the user is on the list once. *)
LEMMA AfterNext ==
  ASSUME IInv, ListInv, NEW i \in 1 .. Len(exceptionUserList), NEW v \in After(exceptionUserList[i])
  PROVE  v = IF i = Len(exceptionUserList) THEN None ELSE exceptionUserList[i + 1]
  <1> DEFINE u == exceptionUserList[i]
             k == CHOOSE j \in 1 .. Len(exceptionUserList) : exceptionUserList[j] = u
  <1>1. u \in ToSet(exceptionUserList)
    BY DEF ToSet, IInv, TypeOK
  <1>2. k \in 1 .. Len(exceptionUserList) /\ exceptionUserList[k] = u
    OBVIOUS
  <1>3. k = i
    BY <1>2 DEF ListInv, IsInjective, IInv, TypeOK
  <1>4. v = IF k = Len(exceptionUserList) THEN None ELSE exceptionUserList[k + 1]
    BY <1>1 DEF After
  <1> QED BY <1>3, <1>4

(* An announcer that is not exposed tells the users of the list in its order and skips none. *)
LEMMA WalkInvStep ==
  ASSUME IInv, IInv', ListInv, WalkInv, Next, NEW b \in Announcers, ~exposed'[b]
  PROVE  /\ (announcer[b] = "walk" /\ current[b] = None => ToldBefore(b, Len(exceptionUserList)))'
         /\ (announcer[b] = "walk" /\ current[b] # None => \E i \in 1 .. Len(exceptionUserList) : At(b, i) /\ ToldBefore(b, i - 1))'
         /\ (announcer[b] \in {"next", "inRemove"} => \E i \in 1 .. Len(exceptionUserList) : At(b, i) /\ ToldBefore(b, i))'
  <1> USE DEF IInv, TypeOK
  <1>0. ~Announce(b) => ~exposed[b]
    <2>1. ASSUME NEW a \in Announcers, Announce(a), a # b
          PROVE  ~exposed[b]
      BY <2>1 DEF Announce
    <2>2. ASSUME NEW a \in Announcers, Finish(a)
          PROVE  ~exposed[b]
      BY <2>2 DEF Finish, Expose
    <2>3. ASSUME NEW a \in Announcers, RemoveInCallback(a) \/ First(a) \/ Callback(a) \/ NextUser(a)
          PROVE  ~exposed[b]
      BY <2>3 DEF RemoveInCallback, WaitInCallback, RemoveFromList, First, Callback, NextUser, announcerVars
    <2>4. ASSUME NEW u \in Users, ExceptionCallbackAdd(u) \/ ExceptionCallbackRemove(u) \/ ClientStep(u)
          PROVE  ~exposed[b]
      BY <2>4 DEF ExceptionCallbackAdd, ExceptionCallbackRemove, ClientStep, Notified, AddLocks, RemoveLocks,
                  RemoveWaitsOrEnds, WaitToBeNotified, AddToList, RemoveFromList, announcerVars
    <2> QED BY <2>1, <2>2, <2>3, <2>4 DEF Next, AnnouncerStep
  <1>1. ASSUME UNCHANGED <<announcer[b], current[b], told[b]>>, ~exposed[b]
        PROVE  /\ (announcer[b] = "walk" /\ current[b] = None => ToldBefore(b, Len(exceptionUserList)))'
               /\ (announcer[b] = "walk" /\ current[b] # None => \E i \in 1 .. Len(exceptionUserList) : At(b, i) /\ ToldBefore(b, i - 1))'
               /\ (announcer[b] \in {"next", "inRemove"} => \E i \in 1 .. Len(exceptionUserList) : At(b, i) /\ ToldBefore(b, i))'
    <2>1. CASE Walking(b)
      <3>1. UNCHANGED exceptionUserList
        BY <1>1, <2>1, StableStep
      <3> QED BY <1>1, <3>1 DEF WalkInv, At, ToldBefore
    <2>2. CASE ~Walking(b)
      BY <1>1, <2>2 DEF Walking
    <2> QED BY <2>1, <2>2
  <1>2. ASSUME NEW u \in Users, ExceptionCallbackAdd(u) \/ ExceptionCallbackRemove(u) \/ ClientStep(u)
        PROVE  UNCHANGED <<announcer[b], current[b], told[b]>> /\ ~Announce(b)
    <2>1. UNCHANGED <<announcer, current, told>>
      BY <1>2 DEF ExceptionCallbackAdd, ExceptionCallbackRemove, ClientStep, Notified, AddLocks, RemoveLocks,
                RemoveWaitsOrEnds, WaitToBeNotified, AddToList, RemoveFromList, announcerVars
    <2>2. Announce(b) => announcer'[b] # announcer[b]
      BY DEF Announce
    <2> QED BY <2>1, <2>2
  <1>21. ASSUME NEW a \in Announcers, a # b, Announce(a) \/ RemoveInCallback(a) \/ AnnouncerStep(a)
         PROVE  UNCHANGED <<announcer[b], current[b], told[b]>> /\ ~Announce(b)
    <2>1. UNCHANGED <<announcer[b], current[b], told[b]>>
      BY <1>21 DEF Announce, RemoveInCallback, WaitInCallback, RemoveFromList, AnnouncerStep, First, Callback, NextUser,
                   Finish, announcerVars
    <2>2. Announce(b) => announcer'[b] # announcer[b]
      BY DEF Announce
    <2> QED BY <2>1, <2>2
  <1>3. CASE Announce(b)
    BY <1>3 DEF Announce
  <1>4. CASE First(b)
    <2>1. announcer'[b] = "walk" /\ UNCHANGED <<exceptionUserList, told>>
      BY <1>4 DEF First
    <2>2. CASE exceptionUserList = << >>
      <3>1. Len(exceptionUserList) = 0 /\ current'[b] = None
        BY <1>4, <2>2 DEF First
      <3> QED BY <2>1, <3>1 DEF ToldBefore
    <2>3. CASE exceptionUserList # << >>
      <3>1. 1 \in 1 .. Len(exceptionUserList) /\ current'[b] = exceptionUserList[1]
        BY <1>4, <2>3 DEF First
      <3>2. current'[b] # None
        BY <3>1, ElementOfSeq, UsersAssumption
      <3>3. At(b, 1)' /\ ToldBefore(b, 1 - 1)'
        BY <2>1, <3>1 DEF At, ToldBefore
      <3> QED BY <2>1, <3>1, <3>2, <3>3
    <2> QED BY <2>2, <2>3
  <1>5. CASE Callback(b)
    <2>1. /\ announcer[b] = "walk" /\ current[b] # None /\ announcer'[b] = "next"
          /\ told'[b] = told[b] \cup {current[b]} /\ UNCHANGED <<exceptionUserList, current>>
      BY <1>5, UsersAssumption DEF Callback
    <2>2. PICK i \in 1 .. Len(exceptionUserList) : At(b, i) /\ ToldBefore(b, i - 1)
      BY <1>0, <1>5, <2>1 DEF WalkInv, Callback, Announce
    <2>3. At(b, i)' /\ ToldBefore(b, i)'
      BY <2>1, <2>2 DEF At, ToldBefore
    <2> QED BY <2>1, <2>3
  <1>6. CASE RemoveInCallback(b)
    <2>0. ~exposed[b] /\ exceptionActive
      BY <1>0, <1>6 DEF RemoveInCallback, Announce, ActiveInv, Walking
    <2>1. /\ announcer[b] = "next" /\ announcer'[b] = "inRemove"
          /\ UNCHANGED <<exceptionUserList, told, current>>
      BY <1>6, <2>0 DEF RemoveInCallback, WaitInCallback
    <2>2. PICK i \in 1 .. Len(exceptionUserList) : At(b, i) /\ ToldBefore(b, i)
      BY <2>0, <2>1 DEF WalkInv
    <2>3. At(b, i)' /\ ToldBefore(b, i)'
      BY <2>1, <2>2 DEF At, ToldBefore
    <2> QED BY <2>1, <2>3
  <1>7. CASE NextUser(b)
    <2>1. /\ announcer[b] \in {"next", "inRemove"} /\ announcer'[b] = "walk"
          /\ UNCHANGED <<exceptionUserList, told>>
      BY <1>7 DEF NextUser, CallbackReturned
    <2>2. PICK i \in 1 .. Len(exceptionUserList) : At(b, i) /\ ToldBefore(b, i)
      BY <1>0, <2>1 DEF WalkInv, Announce
    <2>3. exceptionUserList[i] = current[b]
      BY <2>2 DEF At
    <2>4. current'[b] = IF i = Len(exceptionUserList) THEN None ELSE exceptionUserList[i + 1]
      BY <1>7, <2>3, AfterNext DEF NextUser
    <2>5. CASE i = Len(exceptionUserList)
      BY <2>1, <2>2, <2>4, <2>5 DEF ToldBefore
    <2>6. CASE i # Len(exceptionUserList)
      <3>1. i + 1 \in 1 .. Len(exceptionUserList) /\ (i + 1) - 1 = i
        BY <2>3, <2>6
      <3>2. current'[b] # None
        BY <2>4, <2>6, <3>1, ElementOfSeq, UsersAssumption
      <3>3. At(b, i + 1)' /\ ToldBefore(b, (i + 1) - 1)'
        BY <2>1, <2>2, <2>4, <2>6, <3>1 DEF At, ToldBefore
      <3> QED BY <2>1, <3>1, <3>2, <3>3
    <2> QED BY <2>5, <2>6
  <1>8. CASE Finish(b)
    BY <1>8 DEF Finish
  <1> QED BY <1>0, <1>1, <1>2, <1>21, <1>3, <1>4, <1>5, <1>6, <1>7, <1>8 DEF Next, AnnouncerStep

(* When an announcer, during whose walk no other has finished, has come to the end of the *)
(* list, every user on it has been called: the walk neither skips nor loses a user.       *)
THEOREM EverybodyTold == Spec => []AllTold
  <1>1. Init => ListInv /\ WalkInv
    <2> SUFFICES ASSUME Init PROVE ListInv /\ WalkInv
      OBVIOUS
    <2>1. ToSet(exceptionUserList) = {} /\ IsInjective(exceptionUserList)
      BY DEF Init, ToSet, IsInjective
    <2> QED BY <2>1 DEF Init, ListInv, WalkInv
  <1>2. IInv /\ IInv' /\ ListInv /\ WalkInv /\ [Next]_vars => ListInv' /\ WalkInv'
    <2> SUFFICES ASSUME IInv, IInv', ListInv, WalkInv, [Next]_vars PROVE ListInv' /\ WalkInv'
      OBVIOUS
    <2>1. CASE Next
      BY <2>1, ListInvStep, WalkInvStep DEF WalkInv
    <2>2. CASE UNCHANGED vars
      BY <2>2 DEF vars, ListInv, WalkInv, At, ToldBefore
    <2> QED BY <2>1, <2>2
  <1>3. IInv /\ WalkInv => AllTold
    BY DEF IInv, TypeOK, WalkInv, AllTold, ToldBefore, ToSet
  <1> QED BY Invariant, <1>1, <1>2, <1>3, PTL DEF Spec
=============================================================================
