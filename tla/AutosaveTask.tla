---------------------------- MODULE AutosaveTask ----------------------------
(***************************************************************************)
(* When autosave saves a save set: the save_restore task of save_restore.c *)
(* and the callbacks that ask it to save.                                  *)
(*                                                                         *)
(* The callbacks of timers (the callback thread) and of monitors (channel  *)
(* access) set bits of plist->save_state without a lock; the task reads    *)
(* the bits to decide whether to save, restarts the timers and clears the  *)
(* bits. A |= or an &= is a load and a store, and a step of another thread *)
(* may come between. Of the values one change at a time is followed, any   *)
(* one, until it is in the file; how it is written is in AutosaveFiles.    *)
(***************************************************************************)
EXTENDS Naturals, FiniteSets

CONSTANTS
    MethodSets,     \* the sets of methods the save set may have
    CallbackTimeout \* save_restoreCallbackTimeout is more than MIN_PERIOD

ASSUME TaskAssumption ==
    /\ MethodSets \subseteq SUBSET {"PERIODIC", "TRIGGERED", "MONITORED", "MANUAL"}
    /\ CallbackTimeout \in BOOLEAN

MonitoredBits == {"TIMER", "CHANGE"}                \* MONITORED
SingleEvents  == {"PERIODIC", "TRIGGERED", "MANUAL"}
AllBits       == MonitoredBits \cup SingleEvents

\* The bits of a save_method.
BitsOf(methods) ==
    (methods \cap SingleEvents) \cup (IF "MONITORED" \in methods THEN MonitoredBits ELSE {})

VARIABLES
    method,     \* plist->save_method
    enabled,    \* plist->enabled_method
    bits,       \* plist->save_state
    armed,      \* the timers that run: subset of {"PERIODIC", "TIMER"}
    callback,   \* the callback thread: the bit it is setting and what it loaded
    monitor,    \* channel access: likewise
    events,     \* monitors to be delivered: subset of {"TRIGGERED", "CHANGE"}
    task,       \* where the save_restore task is
    loaded,     \* the save_state it has loaded to clear bits
    overdue,    \* callback_time is older than save_restoreCallbackTimeout
    mark,       \* a change: where it is on its way to the save file
    status,     \* plist->status: "FAIL" for FAIL and INIT, "OK" for WARN and better
    masked      \* history: the status hides that the change was not written to the set's own file

vars == <<method, enabled, bits, armed, callback, monitor, events, task, loaded,
          overdue, mark, status, masked>>
threads == <<callback, monitor>>
saving  == <<mark, status, masked>>

Quiet == [bit |-> "none", seen |-> {}]

Init ==
    /\ method \in MethodSets /\ Cardinality(method) = 1
    /\ enabled = {}
    /\ bits = {} /\ armed = {} /\ events = {}
    /\ callback = Quiet /\ monitor = Quiet
    /\ task = "sleep" /\ loaded = {}
    /\ overdue = FALSE
    /\ mark = "none" /\ status = "FAIL" /\ masked = FALSE

----------------------------------------------------------------------------
(* The database and the callbacks                                          *)

\* A channel of the set changes (or fdbrestore puts values to it): a
\* monitored set gets an event of it.
ChannelChanges ==
    /\ events' = events \cup ({"CHANGE"} \cap BitsOf(enabled))
    /\ mark' \in {mark} \cup (IF mark = "none" THEN {"changed"} ELSE {})
    /\ UNCHANGED <<method, enabled, bits, armed, threads, task, loaded, overdue, status, masked>>

\* The trigger channel is posted.
TriggerChanges ==
    /\ "TRIGGERED" \in enabled
    /\ events' = events \cup {"TRIGGERED"}
    /\ UNCHANGED <<method, enabled, bits, armed, threads, task, loaded, overdue, saving>>

\* triggered_save and on_change_save: save_state is loaded, and stored with a
\* bit more.
MonitorLoads(b) ==
    /\ monitor = Quiet /\ b \in events
    /\ events' = events \ {b}
    /\ monitor' = [bit |-> b, seen |-> bits]
    /\ UNCHANGED <<method, enabled, bits, armed, callback, task, loaded, overdue, saving>>

MonitorStores ==
    /\ monitor # Quiet
    /\ bits' = monitor.seen \cup {monitor.bit}
    /\ monitor' = Quiet
    /\ UNCHANGED <<method, enabled, armed, callback, events, task, loaded, overdue, saving>>

\* periodic_save and on_change_timer, when their timer has elapsed.
CallbackLoads(b) ==
    /\ callback = Quiet /\ b \in armed
    /\ armed' = armed \ {b}
    /\ callback' = [bit |-> b, seen |-> bits]
    /\ UNCHANGED <<method, enabled, bits, monitor, events, task, loaded, overdue, saving>>

CallbackStores ==
    /\ callback # Quiet
    /\ bits' = callback.seen \cup {callback.bit}
    /\ callback' = Quiet
    /\ UNCHANGED <<method, enabled, armed, monitor, events, task, loaded, overdue, saving>>

\* Without a step of another thread between the two.
CallbackSets(b) ==
    /\ callback = Quiet /\ b \in armed
    /\ armed' = armed \ {b}
    /\ bits' = bits \cup {b}
    /\ UNCHANGED <<method, enabled, threads, events, task, loaded, overdue, saving>>

\* No timer was restarted for save_restoreCallbackTimeout seconds.
TimePasses ==
    /\ ~overdue /\ overdue' = TRUE
    /\ UNCHANGED <<method, enabled, bits, armed, threads, events, task, loaded, saving>>

\* create_data_set gives the set another method, between two passes.
AddMethod(m) ==
    /\ task = "sleep"
    /\ m \notin method /\ method \cup {m} \in MethodSets
    /\ method' = method \cup {m}
    /\ UNCHANGED <<enabled, bits, armed, threads, events, task, loaded, overdue, saving>>

----------------------------------------------------------------------------
(* A pass of save_restore over the set                                     *)

\* enable_list: timers are started and monitors established, which sends a
\* first event. The trigger channel may not be connected.
Enable ==
    /\ task = "sleep"
    /\ task' = "force"
    /\ \E on \in {method, enabled \cup (method \ {"TRIGGERED"})} :
         LET new == on \ enabled
         IN  /\ enabled' = on
             /\ armed' = armed \cup (new \cap {"PERIODIC"}) \cup (BitsOf(new) \cap {"TIMER"})
             /\ events' = events \cup (BitsOf(new) \cap {"TRIGGERED", "CHANGE"})
             /\ overdue' = (overdue /\ new \cap {"PERIODIC", "MONITORED"} = {})
    /\ UNCHANGED <<method, bits, threads, loaded, saving>>

\* A bug: the callback timeout is looked at for periodic sets only.
TimesOutPeriodic == CallbackTimeout /\ overdue /\ "PERIODIC" \in method

\* The callbacks of the set have failed for too long.
TimesOut == CallbackTimeout /\ overdue /\ method \cap {"PERIODIC", "MONITORED"} # {}

\* Then all the bits of the save method are set, with a plain store.
Force ==
    /\ task = "force"
    /\ task' = "decide"
    /\ bits' = IF TimesOut THEN BitsOf(method) ELSE bits
    /\ UNCHANGED <<method, enabled, armed, threads, events, loaded, overdue, saving>>

\* A bug: a failed save is not tried again.
SaveNeededByBits == bits \cap SingleEvents # {} \/ MonitoredBits \subseteq bits

SaveNeeded ==
    \/ bits \cap SingleEvents # {}
    \/ MonitoredBits \subseteq bits
    \/ status \in {"INIT", "FAIL"}     \* when RETRY_SECS have elapsed

Decide ==
    /\ task = "decide"
    /\ \/ SaveNeeded /\ task' = "fetch"
       \/ bits \cap SingleEvents = {} /\ ~(MonitoredBits \subseteq bits) /\ task' = "restart"
    /\ UNCHANGED <<method, enabled, bits, armed, threads, events, loaded, overdue, saving>>

\* get_channel_values.
Fetch ==
    /\ task = "fetch"
    /\ task' = "write"
    /\ mark' = IF mark = "changed" THEN "fetched" ELSE mark
    /\ UNCHANGED <<method, enabled, bits, armed, threads, events, loaded, overdue, status, masked>>

\* write_save_file.
WriteOk ==
    /\ task = "write"
    /\ task' = "restart"
    /\ status' = "OK" /\ masked' = FALSE
    /\ mark' = IF mark = "fetched" THEN "none" ELSE mark
    /\ UNCHANGED <<method, enabled, bits, armed, threads, events, loaded, overdue>>

WriteFails ==
    /\ task = "write"
    /\ task' = "restart"
    /\ status' = "FAIL" /\ masked' = FALSE
    /\ mark' = IF mark = "fetched" THEN "changed" ELSE mark
    /\ UNCHANGED <<method, enabled, bits, armed, threads, events, loaded, overdue>>

\* The timer of a periodic save is restarted.
RestartPeriodic ==
    /\ task = "restart"
    /\ task' = "single"
    /\ armed' = armed \cup (bits \cap {"PERIODIC"})
    /\ overdue' = (overdue /\ "PERIODIC" \notin bits)
    /\ UNCHANGED <<method, enabled, bits, threads, events, loaded, saving>>

\* The bits of single events are cleared: a load, then a store.
LoadSingle ==
    /\ task = "single"
    /\ IF bits \cap SingleEvents # {}
         THEN task' = "clearSingle" /\ loaded' = bits
         ELSE task' = "monitored" /\ UNCHANGED loaded
    /\ UNCHANGED <<method, enabled, bits, armed, threads, events, overdue, saving>>

ClearSingle ==
    /\ task = "clearSingle"
    /\ task' = "monitored"
    /\ bits' = loaded \ SingleEvents
    /\ loaded' = {}
    /\ UNCHANGED <<method, enabled, armed, threads, events, overdue, saving>>

\* The timer of a monitored save is restarted, and its bits are cleared.
RestartMonitored ==
    /\ task = "monitored"
    /\ IF MonitoredBits \subseteq bits
         THEN task' = "loadMonitored" /\ armed' = armed \cup {"TIMER"}
         ELSE task' = "messages" /\ UNCHANGED armed
    /\ UNCHANGED <<method, enabled, bits, threads, events, loaded, overdue, saving>>

LoadMonitored ==
    /\ task = "loadMonitored"
    /\ task' = "clearMonitored"
    /\ loaded' = bits
    /\ UNCHANGED <<method, enabled, bits, armed, threads, events, overdue, saving>>

ClearMonitored ==
    /\ task = "clearMonitored"
    /\ task' = "messages"
    /\ bits' = loaded \ MonitoredBits
    /\ loaded' = {}
    /\ overdue' = FALSE
    /\ UNCHANGED <<method, enabled, armed, threads, events, saving>>

\* manual_save under another name: the status of the set is that of the last
\* file written, whichever it is.
ManualSave ==
    /\ task = "messages"
    /\ status' \in {"OK", "FAIL"}
    /\ masked' = (mark # "none" /\ status' = "OK" /\ (status = "FAIL" \/ masked))
    /\ UNCHANGED <<method, enabled, bits, armed, threads, events, task, loaded, overdue, mark>>

\* The messages are served, and MIN_DELAY passes.
Sleep ==
    /\ task = "messages"
    /\ task' = "sleep"
    /\ UNCHANGED <<method, enabled, bits, armed, threads, events, loaded, overdue, saving>>

----------------------------------------------------------------------------
Pass == \/ Enable \/ Force \/ Decide \/ Fetch \/ WriteOk \/ WriteFails \/ RestartPeriodic \/ LoadSingle \/ ClearSingle
        \/ RestartMonitored \/ LoadMonitored \/ ClearMonitored \/ Sleep

Callbacks == \/ \E b \in {"TRIGGERED", "CHANGE"} : MonitorLoads(b)
             \/ MonitorStores
             \/ \E b \in {"PERIODIC", "TIMER"} : CallbackLoads(b) \/ CallbackSets(b)
             \/ CallbackStores

Next == \/ Pass \/ Callbacks \/ TimePasses
        \/ ChannelChanges \/ TriggerChanges \/ ManualSave
        \/ \E m \in UNION MethodSets : AddMethod(m)

Spec == Init /\ [][Next]_vars

\* RETRY_SECS elapse as well. A file is
\* not always written in vain. When timers elapse again and again, one finds
\* the task asleep: in each pass it sleeps MIN_DELAY, and works a few moments.
TimersElapse ==
    []<>(armed # {}) => []<><<task = "sleep" /\ \E b \in armed : CallbackSets(b)>>_vars

Fairness ==
    /\ WF_vars(Pass) /\ SF_vars(Decide /\ task' = "fetch") /\ SF_vars(WriteOk)
    /\ WF_vars(MonitorStores) /\ WF_vars(CallbackStores) /\ WF_vars(TimePasses)
    /\ \A b \in {"TRIGGERED", "CHANGE"} : WF_vars(MonitorLoads(b))

FairSpec == Spec /\ Fairness /\ TimersElapse

----------------------------------------------------------------------------
TypeOK ==
    /\ method \in MethodSets
    /\ enabled \subseteq method
    /\ bits \subseteq AllBits /\ loaded \subseteq AllBits
    /\ armed \subseteq {"PERIODIC", "TIMER"} \cap BitsOf(enabled)
    /\ callback.bit \in {"none", "PERIODIC", "TIMER"} /\ callback.seen \subseteq AllBits
    /\ monitor.bit \in {"none", "TRIGGERED", "CHANGE"} /\ monitor.seen \subseteq AllBits
    /\ events \subseteq {"TRIGGERED", "CHANGE"} \cap BitsOf(enabled)
    /\ overdue \in BOOLEAN
    /\ mark \in {"none", "changed", "fetched"}
    /\ status \in {"FAIL", "OK"}
    /\ masked \in BOOLEAN /\ (masked => status = "OK")

\* A change of a periodic or monitored set is in the save file in the end,
\* although a bit that a callback or the task sets may be lost, with it the
\* timer that would be restarted, and although writes may fail: the callback
\* timeout forces a save (save_restore.c:1069). While monitors go on, each may
\* come just when the bits are cleared, so this is about the time after them.
ChangesSaved ==
    <>[][~ChannelChanges /\ ~TriggerChanges]_vars =>
    (mark = "changed" /\ method \cap {"PERIODIC", "MONITORED"} # {}) ~> (mark = "none")

\* A value that a save has fetched reaches the save file, whatever method the set has and
\* although the write fails and the bits that asked for it are cleared: the save is repeated
\* (save_restore.c:1086). Not so once a manual save under another name has made the status of
\* the set a good one: then nothing repeats it.
FetchedSaved == mark = "fetched" ~> (mark = "none" \/ masked)

============================================================================
