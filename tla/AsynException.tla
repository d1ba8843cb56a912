--------------------------- MODULE AsynException ---------------------------
(***************************************************************************)
(* The exception callbacks of one port or device (struct dpCommon in       *)
(* asynManager.c). announceExceptionOccurred walks the list of users       *)
(* without the lock and keeps exceptionActive set meanwhile;               *)
(* exceptionCallbackAdd and exceptionCallbackRemove wait for it to be      *)
(* clear. Code between lock and unlock of asynManagerLock is one step.     *)
(*                                                                         *)
(* exceptionActive is one flag for all announcers: the first to finish     *)
(* clears it while others may still walk. The history variable exposed     *)
(* says of which announcement this is true; only properties read it.       *)
(***************************************************************************)
EXTENDS Naturals, Sequences, SequencesExt

CONSTANTS Users,             \* asynUsers, each used by one client thread
          Announcers,        \* threads that announce exceptions
          None,
          CallbackOps,       \* what the users' callbacks do: subset of {"remove"}
          MaxAnnouncements   \* bound: exceptions in a behaviour

ASSUME UsersAssumption  == None \notin Users
ASSUME BoundsAssumption == MaxAnnouncements \in Nat

VARIABLES exceptionActive,
          exceptionUserList,   \* users whose callback is called, in order
          exceptionNotifyList, \* users that wait for exceptionActive to clear
          notify,              \* per user: its event is signalled
          added,               \* per user: puserPvt->pexceptionUser is set
          client,              \* per user: where its client is
          announcer,           \* per announcer: where it is
          current,             \* per announcer: the user it has come to
          told,                \* per announcer: users called so far
          announcements,
          exposed              \* history, per announcer: another one has finished since it began

vars == <<exceptionActive, exceptionUserList, exceptionNotifyList, notify, added, client,
          announcer, current, told, announcements, exposed>>

clientVars    == <<notify, added, client>>
announcerVars == <<announcer, current, told, announcements, exposed>>

Init == /\ exceptionActive = FALSE
        /\ exceptionUserList = << >> /\ exceptionNotifyList = << >>
        /\ notify = [u \in Users |-> FALSE]
        /\ added = [u \in Users |-> FALSE]
        /\ client = [u \in Users |-> "idle"]
        /\ announcer = [a \in Announcers |-> "idle"]
        /\ current = [a \in Announcers |-> None]
        /\ told = [a \in Announcers |-> {}]
        /\ announcements = 0
        /\ exposed = [a \in Announcers |-> FALSE]

-----------------------------------------------------------------------------
(* exceptionCallbackAdd and exceptionCallbackRemove *)

\* Wait to be notified while an exception is active, then change the list.
WaitToBeNotified(u, waiting) ==
  /\ exceptionNotifyList' = Append(exceptionNotifyList, u)
  /\ client' = [client EXCEPT ![u] = waiting]
  /\ UNCHANGED <<exceptionActive, exceptionUserList, added, announcerVars>>

AddToList(u) == /\ exceptionUserList' = Append(exceptionUserList, u)
                /\ added' = [added EXCEPT ![u] = TRUE]
                /\ client' = [client EXCEPT ![u] = "idle"]
                /\ UNCHANGED <<exceptionActive, exceptionNotifyList, announcerVars>>

RemoveFromList(u) == /\ \E i \in DOMAIN exceptionUserList :
                          /\ exceptionUserList[i] = u
                          /\ exceptionUserList' = RemoveAt(exceptionUserList, i)
                     /\ added' = [added EXCEPT ![u] = FALSE]
                     /\ client' = [client EXCEPT ![u] = "idle"]
                     /\ UNCHANGED <<exceptionActive, exceptionNotifyList, announcerVars>>

\* the list changes although an exception is active
AddAtOnce(u) == /\ client[u] = "idle" /\ ~added[u]
                /\ notify' = [notify EXCEPT ![u] = FALSE]
                /\ AddToList(u)

ExceptionCallbackAdd(u) == /\ client[u] = "idle" /\ ~added[u]
                           /\ notify' = [notify EXCEPT ![u] = FALSE]
                           /\ IF exceptionActive THEN WaitToBeNotified(u, "addWaits") ELSE AddToList(u)

RemoveWaitsOrEnds(u) == IF exceptionActive THEN WaitToBeNotified(u, "removeWaits") ELSE RemoveFromList(u)

ExceptionCallbackRemove(u) == /\ client[u] = "idle" /\ added[u]
                              /\ RemoveWaitsOrEnds(u)
                              /\ UNCHANGED notify

\* epicsEventMustWait returns; the lock is yet to be taken.
Notified(u) == /\ client[u] \in {"addWaits", "removeWaits"}
               /\ notify[u]
               /\ notify' = [notify EXCEPT ![u] = FALSE]
               /\ client' = [client EXCEPT ![u] = IF @ = "addWaits" THEN "addLocks" ELSE "removeLocks"]
               /\ UNCHANGED <<exceptionActive, exceptionUserList, exceptionNotifyList, added, announcerVars>>

AddLocks(u) == /\ client[u] = "addLocks"
               /\ IF exceptionActive THEN WaitToBeNotified(u, "addWaits") ELSE AddToList(u)
               /\ UNCHANGED notify

\* the loop made a single test
RemoveLocksOnce(u) == /\ client[u] = "removeLocks"
                      /\ RemoveFromList(u)
                      /\ UNCHANGED notify

RemoveLocks(u) == /\ client[u] = "removeLocks"
                  /\ RemoveWaitsOrEnds(u)
                  /\ UNCHANGED notify

-----------------------------------------------------------------------------
(* announceExceptionOccurred *)

Announce(a) == /\ announcer[a] = "idle"
               /\ announcements < MaxAnnouncements
               /\ announcements' = announcements + 1
               /\ exceptionActive' = TRUE
               /\ announcer' = [announcer EXCEPT ![a] = "first"]
               /\ told' = [told EXCEPT ![a] = {}]
               /\ exposed' = [exposed EXCEPT ![a] = FALSE]
               /\ UNCHANGED <<exceptionUserList, exceptionNotifyList, clientVars, current>>

First(a) == /\ announcer[a] = "first"
            /\ announcer' = [announcer EXCEPT ![a] = "walk"]
            /\ current' = [current EXCEPT ![a] = IF exceptionUserList = << >> THEN None ELSE Head(exceptionUserList)]
            /\ UNCHANGED <<exceptionActive, exceptionUserList, exceptionNotifyList, clientVars, told, announcements, exposed>>

Callback(a) == /\ announcer[a] = "walk" /\ current[a] \in Users
               /\ announcer' = [announcer EXCEPT ![a] = "next"]
               /\ told' = [told EXCEPT ![a] = @ \cup {current[a]}]
               /\ UNCHANGED <<exceptionActive, exceptionUserList, exceptionNotifyList, clientVars, current, announcements, exposed>>

WaitInCallback(a) == /\ exceptionNotifyList' = Append(exceptionNotifyList, current[a])
                     /\ client' = [client EXCEPT ![current[a]] = "removeWaits"]
                     /\ announcer' = [announcer EXCEPT ![a] = "inRemove"]
                     /\ UNCHANGED <<exceptionActive, exceptionUserList, added, current, told, announcements, exposed>>

\* The callback itself calls exceptionCallbackRemove, and waits in it; unless another
\* announcer has cleared exceptionActive, when the entry is freed under the walk.
RemoveInCallback(a) == /\ "remove" \in CallbackOps
                       /\ announcer[a] = "next"
                       /\ client[current[a]] = "idle" /\ added[current[a]]
                       /\ IF exceptionActive THEN WaitInCallback(a) ELSE RemoveFromList(current[a])
                       /\ UNCHANGED notify

\* The callback has returned, and so has a call of exceptionCallbackRemove in it.
CallbackReturned(a) == \/ announcer[a] = "next"
                       \/ announcer[a] = "inRemove" /\ client[current[a]] = "idle"

\* ellNext. If the user has been removed meanwhile its node is freed memory, and
\* what the announcer finds there may be anything.
After(u) == IF u \in ToSet(exceptionUserList)
            THEN LET i == CHOOSE j \in 1 .. Len(exceptionUserList) : exceptionUserList[j] = u
                 IN {IF i = Len(exceptionUserList) THEN None ELSE exceptionUserList[i + 1]}
            ELSE Users \cup {None}

NextUser(a) == /\ CallbackReturned(a)
               /\ announcer' = [announcer EXCEPT ![a] = "walk"]
               /\ \E u \in After(current[a]) : current' = [current EXCEPT ![a] = u]
               /\ UNCHANGED <<exceptionActive, exceptionUserList, exceptionNotifyList, clientVars, told, announcements, exposed>>

Walking(a) == announcer[a] \in {"first", "walk", "next", "inRemove"}

Expose(a) == exposed' = [b \in Announcers |-> exposed[b] \/ (b # a /\ Walking(b))]

\* only the first entry of the list is signalled
FinishFirstOnly(a) == /\ announcer[a] = "walk" /\ current[a] = None
                      /\ announcer' = [announcer EXCEPT ![a] = "idle"]
                      /\ notify' = [u \in Users |-> notify[u] \/ (exceptionNotifyList # << >> /\ u = Head(exceptionNotifyList))]
                      /\ exceptionNotifyList' = << >>
                      /\ exceptionActive' = FALSE
                      /\ Expose(a)
                      /\ UNCHANGED <<exceptionUserList, added, client, current, told, announcements>>

Finish(a) == /\ announcer[a] = "walk" /\ current[a] = None
             /\ announcer' = [announcer EXCEPT ![a] = "idle"]
             /\ notify' = [u \in Users |-> notify[u] \/ u \in ToSet(exceptionNotifyList)]
             /\ exceptionNotifyList' = << >>
             /\ exceptionActive' = FALSE
             /\ Expose(a)
             /\ UNCHANGED <<exceptionUserList, added, client, current, told, announcements>>

-----------------------------------------------------------------------------
ClientStep(u)    == Notified(u) \/ AddLocks(u) \/ RemoveLocks(u)
AnnouncerStep(a) == First(a) \/ Callback(a) \/ NextUser(a) \/ Finish(a)

Next == \/ \E u \in Users : ExceptionCallbackAdd(u) \/ ExceptionCallbackRemove(u) \/ ClientStep(u)
        \/ \E a \in Announcers : Announce(a) \/ RemoveInCallback(a) \/ AnnouncerStep(a)

Spec == Init /\ [][Next]_vars

\* Threads that do not wait go on, callbacks return.
FairSpec == /\ Spec
            /\ \A u \in Users : WF_vars(ClientStep(u))
            /\ \A a \in Announcers : WF_vars(AnnouncerStep(a))

-----------------------------------------------------------------------------
(* Properties *)

\* All variables have values of their types.
TypeOK == /\ exceptionActive \in BOOLEAN
          /\ exceptionUserList \in Seq(Users) /\ exceptionNotifyList \in Seq(Users)
          /\ notify \in [Users -> BOOLEAN]
          /\ added \in [Users -> BOOLEAN]
          /\ client \in [Users -> {"idle", "addWaits", "addLocks", "removeWaits", "removeLocks"}]
          /\ announcer \in [Announcers -> {"idle", "first", "walk", "next", "inRemove"}]
          /\ current \in [Announcers -> Users \cup {None}]
          /\ told \in [Announcers -> SUBSET Users]
          /\ announcements \in Nat
          /\ exposed \in [Announcers -> BOOLEAN]

\* "While an exceptionActive exceptionCallbackAdd and exceptionCallbackRemove will
\* wait": nobody changes the list, or frees an entry, while an announcer that does
\* not hold the lock walks along it, but for an announcer during whose walk another
\* has finished, which has cleared exceptionActive.
ListStable == [][(\E a \in Announcers : Walking(a) /\ ~exposed[a]) => UNCHANGED exceptionUserList]_vars

\* The end of the walk is the end of the list: when an exception has been announced,
\* every user on the list has been called ("all users that previously called
\* exceptionCallbackAdd for that port or device are called"), with the same exception.
AllTold == \A a \in Announcers : announcer[a] = "walk" /\ current[a] = None /\ ~exposed[a] =>
                                   ToSet(exceptionUserList) \subseteq told[a]

\* A client that waits is going to be woken: its event is signalled, or it is on
\* the list of an announcer that has yet to finish.
NoLostNotify == \A u \in Users : client[u] \in {"addWaits", "removeWaits"} =>
                  notify[u] \/ (u \in ToSet(exceptionNotifyList) /\ \E a \in Announcers : Walking(a))

\* "None of these methods block": exceptionCallbackAdd and exceptionCallbackRemove
\* return, if not at once, then when the exceptions have been announced; unless the
\* announcing thread itself waits, in a callback that has called exceptionCallbackRemove.
CallReturns == \A u \in Users : client[u] # "idle" ~> client[u] = "idle" \/ \E a \in Announcers : announcer[a] = "inRemove"
=============================================================================
