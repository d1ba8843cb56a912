# TLA+ models of EPICS-support

This directory holds TLA+ modules, TLC configurations and TLAPS proofs about the support
modules collected in this repository: `asyn`, `seq` (the sequencer), `StreamDevice`,
`autosave`, `calc`, `busy`, `regDev` and `sscan`. The models are translated from the C
code; the manuals in `asyn/docs/source` and the comments in the code say what the code
is meant to do, and give the properties their words.

Where to start: `AsynPort.tla` (the queue manager and port thread of asyn),
`AsynQueueLock.tla` (a lock built on it), `AutosaveFiles.tla` (files through crashes)
and `StreamCore.tla` (protocols of StreamDevice records). `PROJECT.json` lists, for every
definition, the lines of code it stands for, every run, and the known hazards of the
code.

    tlc -config port_contract.cfg MCAsynPort        # a model-checking run
    tlapm SeqQueueProofs.tla                        # a proof

## 1. The system and its parts

All of it runs in one IOC process: records are processed by scan threads, which must not
block; whatever may block is handed to another thread and completes by a callback.
Almost every part below is therefore a small protocol between threads, held together by
a mutex, some flags and an event, and the interesting behaviour is in the places where
the lock is let go of.

### asyn

| part | state | operations | interacts with |
| --- | --- | --- | --- |
| request queues and port thread (`asynManager.c`) | per port four queues, `queueStateChange`, `notifyPortThread`, block holders; per asynUser `isQueued`, `state`, `timer`, block counts, `freeAfterCallback`, `callbackDone` | `queueRequest`, `cancelRequest`, `blockProcessCallback`, `unblockProcessCallback`, `connectDevice`, `disconnect`, `createAsynUser`, `freeAsynUser`, `lockPort`, `enable`, `exceptionConnect`, ... | one thread per port, the thread of the shared timer queue, any number of client threads, drivers |
| exceptions | per port or device `exceptionUserList`, `exceptionNotifyList`, `exceptionActive` | `exceptionCallbackAdd`, `exceptionCallbackRemove`, announcement | drivers and operators announce, clients listen |
| interrupt lists | per interface `callbackList`, `addRemoveList`, `callbackActive`, `listModified` | `addInterruptUser`, `removeInterruptUser`, `interruptStart`, `interruptEnd`, nodes | drivers call, device support listens |
| `queueLockPort` | a second asynUser, a mutex and three events per client thread | `queueLockPort`, `queueUnlockPort` | built on `queueRequest`; used by all SyncIO interfaces |
| `asynPortDriver` | a parameter list per address, changed flags | `setXxxParam`, `callParamCallbacks`, read and write of the interfaces | built on the interrupt lists |
| device support (`devEpics`) | ring buffers, `gotValue`, `asyncInProgress`-like flags | record processing, interrupt callbacks, `processCallback` | built on queues and interrupts |
| interpose layers, IP and serial drivers, GPIB, asynRecord | buffers, sockets, state of the bus | octet I/O | called on the port thread |

What makes asyn hard: `portThread` lets go of `asynManagerLock` in the middle of its
scan of the queues (to connect a device) and between taking a request and calling its
callback; `cancelRequest` must wait for a callback that runs, on either of two threads;
the timer of a request is started and cancelled by different threads, in part without
the lock; asynUsers are freed from their own callbacks; flags (`exceptionActive`,
`listModified`, `queueStateChange`, `state`) are shared by overlapping operations.
Correctness: the lists agree with the flags; a request is served once, in order of
priority, by the holder of a block only; `cancelRequest` and the blocking calls return,
and when they should; the walk along a list without the lock finds a list that stands
still.

### seq

| part | state | operations | interacts with |
| --- | --- | --- | --- |
| queues (`seq_queue.c`, `seq_if.c`, `seq_ca.c`) | ring buffer with `rd`, `wr`, `overflow`; event flag of the queue | `seqQueueGetF`, `seqQueuePutF`, `seqQueueFlush`; `pvGetQ`, `pvFlushQ`; monitor callback, anonymous put | channel access threads write, a state set reads |
| requests (`seq_if.c`, `seq_ca.c`) | per channel and state set a pending get and put, its semaphore, meta data; connection counters | `pvGet`, `pvPut`, `pvAssign`, `pvMonitor`, `pvStopMonitor`, completion callbacks, connection handler | state sets call, channel access calls back |
| state sets (`seq_task.c`, `seq_main.c`) | event flags, `dead`, delays, in safe mode a copy of each variable | the loop of a state set, `efSet`, `efTest`, `efClear`, `efTestAndClear`, `delay`, start and stop | threads of one program share variables and event flags |
| compiler and shell | | | no concurrency |

Hard here: the ring buffer is read and written without its mutex unless it overflows;
callbacks of channel access come late (after a timeout of `pvGet`), together, or after a
disconnect; a request structure may be reused while an old callback is on its way.

### The other modules

| part | state | operations, and what is hard |
| --- | --- | --- |
| autosave `save_restore.c` | list of save sets, status, triggers, files and their backups | a save thread polls sets changed by channel access callbacks; files are written under a crash-safe order (`.sav`, `.savB`, sequence files) |
| autosave `dbrestore.c` | the files | choice of the file to restore after a crash |
| StreamDevice `StreamCore.cc` | flags of the command in progress, timers | protocol commands, handlers, and asynchronous callbacks of the bus interface that come after an abort |
| regDev | per device a request queue and a list of records | asynchronous requests of records, and callbacks of drivers |
| sscan | phases of a scan over dynamic links; `saveData` message queue | completion callbacks that arrive in any order; a full queue |
| calc `sseq`, `swait`, transform and the expression engines | step of the sequence, delays, put callbacks | abort in the middle of a put with callback |
| busy | value, `oval` | the forward link fires when the value returns to 0 |
| pcre, memDisplay, lemon, snc | | vendored or sequential code |

For StreamDevice the properties are: a record that has begun a protocol becomes passive
again, is processed once for it, and has the device to itself meanwhile. For autosave:
one of the two files is good at any time, a boot restores what was reported as saved,
and a change is saved in the end. For the rest: a request started is completed or
aborted exactly once; a late callback of an aborted request changes nothing; a queue at
its limit drops what its documentation says.

`PROJECT.json` has one entry for each part, modelled or not, with the reason.

## 2. The plan, and what it has left

The first eight steps are done; the modules of each are described in section 3.

1. `AsynPort`: queues, port thread, timers, blocks, life of asynUsers. `AsynPortProofs`.
2. `SeqQueue`, refining `BoundedQueue`; `SeqSyncQ` on top of it. `SeqQueueProofs`.
3. `AsynException`, `AsynExceptionProofs`: the list of exception users.
4. `AsynInterrupt`, `AsynInterruptProofs`: the list of interrupt users.
5. `AsynQueueLock`, refining `PortLock`: `queueLockPort` on top of the queue.
   `AsynQueueLockProofs`.
6. `SeqPvReq`: get and put requests, timeouts and late answers. `SeqPvReqProofs`.
7. `AutosaveFiles`, `AutosaveFilesProofs`, and `AutosaveTask`: what is on disk after a
   crash, and when it is written.
8. `StreamCore`, `StreamCoreProofs`: the protocols of StreamDevice records on one port.

Every property that a run checks is proved but for liveness: the invariants, the action
properties, and the two refinements. What is left to prove is `StreamCore` with events,
whose timers race with the driver (the properties fail for some such protocols, section
6, and hold for those of the runs).

The runs are few and each joins the properties that its instance can decide; a module
with liveness properties has them in the same run as its invariants where the instance
allows it.

## 3. The modules

### AsynPort (`asyn/asyn/asynDriver/asynManager.c`)

One port that can block, with its devices. The variables carry the names of the C
fields. Threads: `pc` is where `portThread` is (and `locked` whether it holds
`asynManagerLock`, which it does over several steps), `tpc` the thread of the timer
queue, `cpc[u]` the client thread of asynUser `u`; `Environment` stands for drivers and
operators (`enable`, `autoConnect`, `exceptionConnect`, `exceptionDisconnect`). A
section of code under the lock is one step; everything that is done outside of it (the
cancelling of a timer, the tests of `freeAsynUser`, the callbacks) is a step of its own,
so that others can come between.

A callback is an interval: while it runs, its asynUser may call what `CallbackOps[u]`
allows; what its client does outside of callbacks is `ClientOps[u]`. With `"early"`
among the latter a client may call again before its last callback has returned, and
with `"queue"` among the former a callback queues its own asynUser again, as the manual
allows (`asynDriver.rst:1197`) and StreamDevice does. Both runs have clients that do
not wait, and `port_lifecycle` callbacks that queue.

Then a request may be queued before the last one is over, and some promises of the
manual are broken. The history variable `overlap[u]` says for which asynUsers: `"none"`
if each request began when the last one was over; `"queued"` from a request that was
queued before, until one is queued or taken when nothing is left of the others; `"both"` from a
request that one thread takes while the other thread is busy with the same asynUser.
No step depends on it. `QueueConsistent`, `QueuedIsConnected`, `ScanSound`,
`BlockExclusion`, `NoLostWakeup` and `PriorityOrder` hold whatever `overlap` is;
`CancelWaitsForCallback`, `TimeoutArmed` and what `FreeListUnused` says of the timer hold
for `"none"`; `CancelReturns` and what `FreeListUnused` says of callbacks hold unless it
is `"both"`. For every one of these
exceptions TLC finds the property violated without it on the instance of the run.

Left out: a port that cannot block (there `queueRequest` is a call), trace, time stamps,
`shutdownPort`, interpose interfaces.

### AsynQueueLock, PortLock (`asynManager.c`)

A thread that calls `queueLockPort` queues a request of its own; the callback signals
an event and then waits for a mutex that the thread holds until `queueUnlockPort`, which
keeps `portThread` where it is. `call[t]` is where a thread is in its call, `pt` where
`portThread` is and for whom, `tt` the timer thread. Beside the threads there are
asynUsers with requests (`Users`) and threads that call `lockPort` (`Lockers`), and the
port and the device lose their connection at any point. `PortLock` is what the manual
promises (`asynDriver.rst:1233`: other code that calls `queueRequest` or `lockPort` is
delayed): one holder at a time, which lets go before the next one begins. `AsynQueueLock`
implements it; the refinement mapping is `Holders`.

Of the port the module has what these calls use: one queue, since requests of a higher
priority may overtake for ever, no blocks, no disabling, requests for one device, and no
`asynLockPortNotify` (of all drivers only the one of `testApp/src/addrChangeDriver.c`
registers it). Where it is registered and fails, `queueLockPort` returns an error with
the port locked, and callers such as `asynOctetSyncIO.c:188` return without unlocking.

### AsynException, AsynInterrupt (`asynManager.c`)

Both are a list walked without the lock, and clients that wait to change it.
`AsynException` announces; the walk is `First`, `Callback`, `NextUser`, `Finish`, and a
freed entry under the walk leads anywhere (`After`). `AsynInterrupt` has nodes that are
created and freed, the flag `listModified`, and the list of those who wait. How many
threads announce or process interrupts, and whether callbacks remove their own users
(`CallbackOps`), are parameters; they may overlap, although the flags are made for one
at a time. History variables say whom this hurts: `exposed` the announcement, or the
interrupt, during which another one has ended and cleared the flag that protects its
walk; `passedOver` the client that waits for `interruptEnd` when another source begins
and clears `listModified`. The properties except these, and no others. Each client has a
node of its own, as in the interfaces of this repository, so that the refusal "already
on addRemove list" does not occur.

### SeqQueue, SeqSyncQ, BoundedQueue (`seq/src/seq`)

`SeqQueue`: `seqQueueGetF`, `seqQueuePutF` and `seqQueueFlush` with every read and write
of `rd`, `wr` and `overflow` a step. `BoundedQueue` is what `seq_queue.h` promises: a
FIFO of bounded size whose last element is overwritten when it is full. `SeqQueue`
implements it with one reader and one writer; the refinement mapping is `Promised`, the
property `ImplementsQueue`. Memory is sequentially consistent here, which the C code
does not ask for. `SeqSyncQ` puts the event flag and the locks of the program on top:
monitor callbacks, anonymous puts, `pvGetQ`, `pvFlushQ`.

### SeqPvReq (`seq/src/seq/seq_if.c`, `seq_ca.c`)

One variable of one state set. `pc` is where the state set's thread is in `pvGet`,
`pvPut` (which run alike) or `pvAssign`; `req` are the two slots of pending requests,
`free` the free list of their memory, `calls` what channel access has still to answer,
`handler` its callback thread between the steps of `seq_get_handler`: the address is
freed, compared, and then the request is completed under another lock. Requests time
out, are cancelled, ended by a disconnect, or orphaned by `pvAssign` at any point; they
are answered all the same. Safe mode, meta data, monitors and the connection counters
are left out.

### AutosaveFiles (`autosave/asApp/src/save_restore.c`, `dbrestore.c`)

The files of one save set. A file is absent, empty, partial, or whole with the values of
a certain fetch; `job` is the file operation under way and what follows it in
`write_save_file`, `do_seq` or the dated backup. `Opens`, `Flushes`, `Succeeds` and
`Fails` are the steps of writing one file, `Crash` may come between any two of them, and
`Restore` is the choice of `reboot_restore`: `.sav`, `.savB`, then the sequence files
from the newest on. A crash is one of the IOC's process: what was written stays.
`write_it` flushes and syncs its file (`save_restore.c:1932`, `1950`) and reads its end
again after it has closed it; `myFileCopy` does none of this, and does not look at what
`fclose` returns, so that a copy it reports as good may be partial (that is modelled; what
a crash of the machine may lose is not).

### AutosaveTask (`save_restore.c`)

When the set of `AutosaveFiles` is written. `bits` is `save_state`; the callbacks of
timers and monitors and the task set and clear bits by a load and a store each. One
change of one channel is followed until its value is in the file (`mark`). The
connections to the channels, the NFS mount, and the creation and removal of sets are
left out. A manual save that names a file writes another file, but sets the status of the
set: if that hides that the set's own file is old, the history variable `masked` says so.

### StreamCore (`streamd/src/StreamCore.cc`, `AsynDriverInterface.cc`, `StreamEpics.cc`)

Records that run protocols on one port. A protocol is a sequence of commands with its
handlers and an `@init` (`Protocols`); `core[s]` holds what `StreamCore` keeps (flags,
the command, what is left, the input not parsed), `bus[s]` what the interface keeps
(`ioAction`, timers, event mask, its asynUser), `mutex[s]` the thread inside
`evalCommand` or `finishProtocol` and what it does next. A reply may come whole, in
parts, or not; may match or not; the port may lose its connection (`ConnectionLost`).
`EvalCommand` and `FinishProtocol` run under the mutex; `portThread` (`HandleIO`), the
timer (`TimerExpires`), the driver's interrupts, the connection exceptions and the
thread of `exec` run outside of it until they take it. The manager is what `AsynPort`
promises: a queued request is served in the end unless another asynUser blocks.

Left out: `I/O Intr` records and asynchronous reads, abort, `streamReload`, `PROC=2`,
partial writes, the other bus interfaces, and the contents of lines. A record is not
active while its `@init` runs, so that `process()` (`StreamEpics.cc:905`) may start its
protocol in the middle of it. The model does that too; it sets the history variable
`interfered`, and from then on the properties promise nothing (section 6).

### MC modules and proofs

Each `MC` module extends a component's module, or the module of its proofs, so that TLC
evaluates the assumptions of both, and adds what a `.cfg` cannot say: symmetry, the
state constraint, the view and the clients of `MCAsynPort`, the names of the sequence
files, the protocols of `MCStreamCore`. The modules `*Proofs` hold inductive invariants
(`IInv` and others), which TLC checks on the instances of the runs when they are named
as INVARIANT. Those of the lists and queues begin with the few lemmas they need about
`Append`, `RemoveAt` and `RemoveFirst`.

## 4. The runs

| run | instance | checks |
| --- | --- | --- |
| `port_contract` | two asynUsers, port and device, two plain priorities; queueing, cancels, blocks, freeing, by clients that do not wait for callbacks to return; enabled, connected and autoConnect changed by drivers and by `portThread` | `QueueConsistent`, `QueuedIsConnected`, `ScanSound`, `BlockExclusion`, `NoLostWakeup`, `PriorityOrder` |
| `port_lifecycle` | fairness; an asynUser with timeouts, queued again by its callbacks and by a client that does not wait, cancelled, freed, in callbacks too, disconnected and created again, with `lockPort`; another one that competes; a plain priority and that of connections | `FreeListUnused`, `CancelWaitsForCallback`, `TimeoutArmed`, `CancelReturns`, `RequestServed`, `FreedReachesFreeList` |
| `queue_lock` | fairness; two threads that nest `queueLockPort`, an asynUser, a locker, timeouts, lost connections | `EventExpected`, `ImplementsLock`, `CallsReturn`, `OthersServed` |
| `exception_list` | fairness; three users, two announcers, callbacks that remove their own user | `NoLostNotify`, `AllTold`, `ListStable`, `CallReturns` |
| `interrupt_list` | fairness; three clients, two nodes, two sources | `ListedOnce`, `AllCalled`, `ListDelayed`, `CallReturns` |
| `seqq_fifo` | ring of three slots, get, put, flush | `RoomForStore`, `ImplementsQueue` |
| `syncq_flag` | a monitored PV and an anonymous channel of one array, two state sets that put, one that gets and flushes | `FlagLostByFlushOnly` |
| `seq_pv` | fairness; gets and puts, synchronous and not, timeouts, cancels, disconnects, `pvAssign`, late answers | `PoolSound`, `SlotFree`, `SyncReturns`, `RequestEnds` |
| `stream_lock` | two records, one with each of eight kinds of protocol, the other with a request and a reply | `OwnerBlocks`, `ExclusiveAccess` |
| `stream_protocol` | fairness; one record with each of seven protocols, a port that loses its connection twice, which starts `@init` | `OneResult`, `AlwaysDriven`, `ProcessCompletes` |
| `autosave_files` | automatic, named and unnamed saves, two sequence files, two failures, two crashes | `OverwriteProtected`, `RestoreFresh` |
| `autosave_task` | fairness; sets of each method and of two methods at once, writes that fail, manual saves | `ChangesSaved`, `FetchedSaved` |

### Bounds

Two asynUsers per port are what the hazards of `AsynPort` need: one whose callback runs
and one that is queued, holds a block, or runs the timer; a port and one device make the
two levels of blocks and of connection. Two priorities stand for the four: in
`port_contract` a plain one and another to overtake it, in `port_lifecycle` a plain one
and the one for connections, which has a path of its own in `portThread`. `MaxBlock = 1`
bounds the nesting of one asynUser's blocks. `OneFault` lets one of the flags `enabled`,
`connected`, `autoConnect` be off at a time, of the port or the device: another one off
at the same time only makes fewer requests eligible, and each turns on again at any
point. The view of `port_contract` leaves out `overlap`, which no step and no property
of that run reads. In `port_lifecycle` the second asynUser only queues and is served:
its low request waits for ever while a callback of the first one queues with the higher
priority again and again, which is the exception in `RequestServed`. Requests are not
bounded, the state graph is finite without it.

`AsynQueueLock`: two threads that lock, so that one waits while the other holds;
`MaxNest = 2` is a nested call; two `lockPort` calls (`MaxLocks`) and two losses of the
connection (`MaxDrops`) let one come while the thread waits and one while it holds.
Since `lockPort` can starve others, according to the manual, each locker calls it
finitely often.

`MaxAnnouncements` (2) lets a client that was woken find a second walk begun, which may
overlap the first; three users give a list with a first, a middle and a last element.
`MaxInterrupts` (3) lets one source begin anew while the other is in the middle of its
interrupt; two nodes for three clients make them free and create again the same one. A
ring of three slots wraps, fills up and overflows; `MaxPuts` bounds the number of
elements, numbered so that each can be told from the others (eight are enough to go
around twice), `MaxFlushes` the flushes. `syncq_flag` has two slots and four puts,
enough for a full ring and an overwritten element.

`SeqPvReq`: two addresses are one pending and one given up, or a get and a put; a third
would only add late answers of the same kind. Two changes of the connection are a
disconnect and a reconnection, and one `pvAssign` orphans what is pending.

`StreamCore`: two records contend for the device; the protocols have each command, a
handler that parses the same line again, one that sends again, and an `@init`. With
`MaxDrops = 2` the connection is lost, comes back and is lost again; the protocol with
`connect` is left out there, because it takes a late exception for its answer. The
constraint `Undisturbed` of that run stops at a record that is processed during its
`@init`: `interfered` is never reset and satisfies every property, so that nothing is
lost.

`AutosaveFiles`: three fetches, two failures and two crashes reach a `.sav` and a
`.savB` that differ, one of them damaged by the first crash, and a second crash while it
is repaired. `AutosaveTask` has no bounds: bits, timers and one followed change are
finite.

### Fairness

`AsynPort`: strong fairness of `portThread`, of the timer thread and of the second half
of calls that wait for a mutex, since a mutex that is released again and again is handed
to each thread that waits for it; weak fairness of a client that returns from a call.
Process callbacks and the driver's `connect` are assumed to return, timers to expire.
Clients never have to begin anything. `AsynQueueLock`: weak fairness of `portThread`,
the timer thread and a call that can go on; whoever has the port gives it back, a nested
owner by strong fairness of the last `queueUnlockPort`, since it may lock again at each
step. No timer need ever expire. `AsynException` and `AsynInterrupt`: weak fairness
of the threads that do not wait; a client in its loop is not promised the lock before
the next walk begins, and returns because walks are finitely many in a behaviour (the
bound), which is the most the code gives. `SeqPvReq`: the state set and the callback
thread run, channel access answers each request in the end; nothing need time out, so
that the waits end by answers and disconnects alone. `StreamCore`: each thread runs and
timers expire; a lost connection need not come back. `AutosaveTask`: the task runs and
sleeps, retries come due, a write does not fail for ever, and timers that elapse again
and again do not all find the task at work: it sleeps `MIN_DELAY` in each pass and works
for a moment (`TimersElapse`). `ChangesSaved` is about the time after the last monitor,
and needs the callback timeout (`save_restoreCallbackTimeout`, `save_restore.c:379`: 600
seconds unless set; the start-up script in `autosave/docs/autoSaveRestore.md:228` sets
it to -1, for ever); with `CallbackTimeout` FALSE it fails.

The runs of safety properties that name `FairSpec` do so for the liveness properties
beside them; no invariant rests on fairness.

## 5. The proofs

`tlapm` checks all of them; nothing is assumed but the named ASSUMEs of the modules.

- `AsynPortProofs`: for any asynUsers, devices, priorities and operations of clients and
  callbacks, without a hypothesis. `IInv` joins the types with what each position of
  `portThread` and of the timer thread implies (`PortControlInv`, `TimerControlInv`),
  the queues (`QueueConsistent`), the life of asynUsers (`LifeInv`), the scan
  (`ScanInv`) and the block that was tested for the request in hand (`BlockInv`).
  `QueueConsistent` is not inductive without `ScanInv`: `portThread` takes the element
  that it saw before it released the lock to connect a device, and it is still there
  because every change of the queues sets `queueStateChange`. Theorems: `TypeCorrect`,
  `QueuesConsistent`, `QueuedUsersConnected`, `ScanIsSound`, `BlocksExclude`.
  `WakeInv` adds what the scan has seen: every element before the one in hand is one
  that could not be taken (`Passed`), or a wakeup is pending (`Outdated`,
  `WakeupPending`). When the scan ends that is `NoLostWakeup`, when it takes an element
  it is `PriorityOrder`. Theorems: `WakeupsAreNotLost`, `ServedByPriority`.
  `OverlapInv` says, for each value of `overlap[u]`, what the threads know of one
  another: unless it is `"both"`, at most one thread is busy with the asynUser, `state`
  tells so, and a `cancelRequest` that waits will be signalled (`TakenInv`); if it is
  `"none"`, a request is queued, or in the hands of one thread, or over (`RequestInv`),
  and it is known who is to cancel a timer that runs (`TimerInv`). Theorems:
  `FreedAreUnused`, `CancelsWait`, `TimeoutsArmed`, and the safety halves of
  `CancelReturns` and `FreedReachesFreeList`, `WaitersAreSignalled` and `FreedAreHeld`.
- `AsynQueueLockProofs`: for any threads, asynUsers and lockers, any nesting and any
  losses of the connection. The invariant says where the request of a waiting thread is
  (in the queue, in the hands of `portThread` or of the timer thread, never in two of
  them), who is about to signal its event, and who holds its mutex. Theorems:
  `Invariant`, `EventsExpected`, and the refinement `PortIsLock`: a step of
  `AsynQueueLock` is an acquisition, a release or a stutter of `PortLock`.
- `SeqQueueProofs`: for every number of slots, with one reader and one writer
  (`OneReaderOneWriter`, what the header demands). `RoomForStore` (the writer without
  the mutex never runs into the reader) needs to know what each side knew when it last
  looked: `WriterKnows`, `ReaderKnows`, and who holds the mutex, `MutexInv`. The
  refinement `Refinement` adds what each has in its hands (`ReaderHas`, `WriterHas`) and
  that overlapping calls are noted (`OverlapKnown`). What is promised is read off the
  ring from `rd` to `wr`, around its end (`Ring`), so that most of the proof is the
  arithmetic of its indices. The last part is `FlagNotLost`, about `SeqSyncQ`: one state
  set that gets (`OneReader`), any number that put, whatever they do to the queue. What
  the test of `pvGetQ` has found stays true while it holds the lock of the program,
  unless somebody puts, who then waits for that lock to set the flag (`SyncInv`).
- `SeqPvReqProofs`: for any pool and any bounds. A request is in one place only: the
  free list, the hands of the state set, or what channel access has to answer
  (`PoolSound`); a slot is free when a request is allocated (`SlotFree`), whatever the
  semaphore has kept, because `check_pending` looks at the slot again after each wait.
- `AutosaveFilesProofs`: for any number of sequence files, of failures and of crashes.
  The invariant ties each file operation of `write_save_file` to what the tests before
  it have found: while `.sav` is open, `.savB` is good or the save is a manual one
  without a name; while `.savB` is open, it was bad before or `.sav` has been written.
  Theorem: `FilesOverwriteProtected`. `FreshInv` adds how new the files are: what was
  reported is in a good one of the two, and a good one is never older, because a save is
  reported when both hold it and later writes are newer. Theorem: `BootsRestoreFresh`.
- `AsynExceptionProofs`: any users, any number of announcers. The heart is `ActiveInv`:
  while `exceptionActive` is set somebody walks, and it is set during each walk that is
  not `exposed`. `AllTold` needs that each user is on the list once (`ListInv`), else
  the successor of a user is not well defined, and that everybody up to the user in hand
  has been called (`WalkInv`). Theorems: `TypeCorrect`, `NobodyForgotten`,
  `ListIsStable`, `EverybodyTold`.
- `AsynInterruptProofs`: any number of clients, each with a node, and of sources. A
  client that waits in its call is the only one that could have changed the membership
  of its node meanwhile (`NodesOwned`, for `NodesListedOnce`). For `ListStandsStill`,
  `WaitersAreSignalled` and `EveryNodeCalled` the invariant says what `callbackActive`
  and `listModified` are worth while sources overlap: the first is set during every
  interrupt that is not `exposed`, and whoever waits and has not been passed over is on
  the list that the next `interruptEnd` signals.
- `StreamCoreProofs`: for any number of streams and of lost connections, and any
  protocols of plain commands (`Plain`: out, in, wait, exec, disconnect), of any length,
  with any handlers and `@init`, until a record is processed while its `@init` runs
  (`interfered`). The heart of `IInv` is `Alone`: a protocol has one
  carrier, which is the holder of the mutex, the request in the queue, the thread that
  has taken it, the timer of a wait or the command of an exec; and `Expected`: flags and
  `activeCommand` are those that the carrier will look for, so that no callback is
  taken for the answer of another. `Owner` ties `BusOwner` to the block of the device.
  Theorems: `OwnerBlocksDevice`, `ReplyReachesOwner`, `EveryResultOnce`. `DInv` says
  that an active record has a carrier or its result, and gives `ActiveIsDriven`, under
  `Prompt`: a protocol is not empty and does not begin with `in`.

### What the hypotheses are for

None of them is there for the prover. Each excludes behaviours of the code that break
the property, and TLC finds them when it is dropped (sections 3, 4 and 6).

| hypothesis | without it |
| --- | --- |
| `OneReaderOneWriter` | two writers with different locks use the same slot |
| `OneReader` | two state sets get the same element; the second one moves past the end, and the flag is cleared while the ring counts as full |
| `Plain`, no `connect` | after a lost connection a late exception is taken for the answer |
| `Plain`, no `event` | the timeout of an earlier event ends the protocol while its next write is queued; the device stays blocked |
| `Prompt` | `startProtocol` finishes the protocol before it returns, and the record is made active after that |

### Only model-checked

- The liveness properties, which are out of the prover's reach: `CancelReturns`,
  `RequestServed`, `FreedReachesFreeList`, `CallsReturn`, `OthersServed`, `CallReturns`
  (twice), `SyncReturns`, `RequestEnds`, `ProcessCompletes`, `ChangesSaved`,
  `FetchedSaved`.
- `OwnerBlocks`, `ExclusiveAccess`, `OneResult` and `AlwaysDriven` for the protocols with
  `event` and `connect` of the two runs, which a general proof would have to tell from
  those that break them.

Before they were proved the invariants of `StreamCoreProofs` were checked by TLC for one
stream with every sequence of at most two plain commands, every handler and `@init` of
at most one, and a lost connection, and for two streams; those of `AsynPortProofs` on the
instances of the two runs.

## 6. Where the code falls short of its documents

The properties above hold with the exceptions that they or their instances name. Each
exception is something the code does; other constants show it, or the property without
its exception.

- The manual promises that `cancelRequest` does not return while a callback is active
  (`asynDriver.rst:1211`), and it allows a callback to queue its asynUser again
  (`rst:1197`). Then `cancelRequest` finds the new request, takes it off the queue and
  returns at once, the callback still active (`asynManager.c:1630`):
  `CancelWaitsForCallback` makes an exception for requests that overlap. And if the other
  thread takes the new request, both run a callback: `portThread` overwrites
  `callbackCanceled` (line 897), and a waiting `cancelRequest` is never signalled;
  `CancelReturns` makes an exception for `overlap = "both"`.
- `portThread` cancels the timer of a newer request (`asynManager.c:899`), so that its
  timeout never comes; `TimeoutArmed` makes an exception for requests that overlap.
- `freeAsynUser` tests `state` without the lock (`asynManager.c:1235`) and may set its flag
  when nobody will read it any more: the asynUser never reaches the free list;
  `FreedReachesFreeList` makes an exception for that (`FreeMissed`). If both threads are
  in a callback of the asynUser, the first to finish frees it under the other
  (`FreeListUnused`), and a timer that has fired may still come upon a freed one.
- A request may wait for ever behind requests of a higher priority that are queued again
  and again; `RequestServed` says that nothing else keeps it waiting.
- The timeout callback of a request may be called because of another one, whose device
  was not connected (`asynManager.c:880`, `callTimeoutUser`). The manual
  (`asynDriver.rst:637`) says that a request is skipped when its device is not
  connected; the code calls its timeout callback.
- Of two announcements or interrupts at a time, the one that ends first lets the list
  change under the other (`asynManager.c:627`, `2455`), and `interruptStart` forgets that
  somebody waits (line 2442), who may then wait for ever: `ListStable`, `AllTold`,
  `ListDelayed`, `AllCalled` and `CallReturns` make an exception for whom it hits, and the
  runs reach it.
- `exceptionCallbackRemove` from an exception callback waits for itself
  (`asynManager.c:1436`); `CallReturns` makes an exception for that.
- Named and anonymous writers of one queue of the sequencer use different locks
  (`seq_if.c:407`), and may use the same slot.
- Two state sets may get from one queue (`seq_if.c:1213`), although it is made for one
  reader: both find its last element, and the second to advance moves `rd` past `wr`.
  `SeqSyncQ` with two readers; `FlagLostByFlushOnly`.
- `pvFlushQ` empties the queue and clears its event flag in two steps (`seq_if.c:1248`).
  A `pvGetQ` during which an element is put may report an empty queue that never was
  empty; `BoundedQueue` allows it (`GetNothing`).
- A late answer of a `pvGet` that has timed out may be taken for that of the next one,
  which has the same address (`seq_ca.c:153`): its value is the old one.
- A request that `pvAssign` orphans stays in its slot, and every later asynchronous get
  of the variable fails (`seq_if.c:691`, `RequestEnds`).
- A StreamDevice record that is processed while its `@init` runs starts a second protocol
  in the middle of it (`StreamEpics.cc:910` tests `pact` only): a request or timer of
  `@init` is taken for one of the new protocol. `OwnerBlocks`, `OneResult` and
  `AlwaysDriven` fail without their exception for `interfered`.
- A StreamDevice record whose next request is refused, since the connection was lost
  during its last one, stays active for ever (`StreamCore.cc:892` ignores the result),
  although a protocol ends by processing the record (`processing.html:29`). A record
  that waits for an event without a timeout waits for it. A timeout that expires while
  another thread finishes the protocol makes the two wait for each other
  (`AsynDriverInterface.cc:1470`).
- The timeout of an event that has expired while the driver received the event may be
  taken for that of the next event: the protocol ends with `ReplyTimeout` while its next
  write is queued, the unblocking fails, and the device stays blocked without an owner.
  `StreamCore` with the protocol out, event, out, event; `OwnerBlocks`.
- `startProtocol` may finish the protocol before it returns, when the first command is
  an `in` that finds input left over; `StreamEpics.cc:954` makes the record active after
  that. `StreamCore` with such a protocol; `AlwaysDriven`.
- A trigger of a TRIGGERED save set that comes while the bits are cleared may be lost
  (`save_restore.c:1134`), although it should save (`autosave/docs/autoSaveRestore.md:581`).
- A manual save under the set's own name does not test `.savB` before it opens `.sav`
  (`autosave/docs/autoSaveRestore.md:545`); one under a new name reports a failure, because it tries to
  copy the file it has not found; and one that names a file sets the status of the set to
  good, which ends the retries of a failed save of its own file (`save_restore.c:1313`):
  `FetchedSaved` makes an exception for that (`masked`).
- `checkFile` may accept an empty `.sav` (`dbrestore.c:1237`); `RestoreFresh` makes an
  exception for that.

## 7. What is not modelled

`PROJECT.json` has the reason for each part. In short: drivers of particular hardware
and sockets, parsers, converters and expression engines (sequential), operator displays,
shells and tests; pcre and lemon (third party). The records of `calc`, `sscan`, `busy`
and of device support run under the lock of EPICS base and wait for its links and put
callbacks; base is not part of the repository, and a model of them would be a model of
it. Of the state sets of the sequencer the loop itself is left out: between two waits it
runs generated code.

The share of lines that the models stand for is small because most of the repository is
of these kinds: of the quarter million lines of C about half is pcre, lemon and the
compiler of the sequencer, and most of the rest are record types, drivers and shells.
