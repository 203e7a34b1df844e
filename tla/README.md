# A TLA+ model of the monitor, logd and adbd

This directory models the device-side programs of the repository: an Android-derived user space for
a camera, built by `src/SConstruct` (monitor, logcat, looper and osal libraries) and by the Makefiles
of `src/src/logd` and `src/src/adb`. Paths below are relative to the repository. The modules are
checked with TLC and proved with TLAPS; `PROJECT.json` lists runs, the mutations each property was
tried against, the map from definitions to source lines, findings, hazards and theorems.

## 1. Inventory

| Component | State it keeps | Operations | Talks to | Status |
|---|---|---|---|---|
| Service supervisor (`src/src/init/init.c`, `signal_handler.c`, `builtins.c`) | flags, pid, time_started of each service; process_needs_restart; the signal socketpair | service_start, service_stop_or_reset, class commands, ctl.* messages, wait_for_one_process, restart_processes | kernel (fork, kill, waitpid, SIGCHLD), property service (init.svc.*) | `Supervisor` |
| Action queue (`init_parser.c`, `init.c`, `inc/cutils/list.h`) | action_queue, cur_action, cur_command, property_triggers_enabled | action_add_queue_tail, action_remove_queue_head, queue_property_triggers, queue_all_property_triggers, execute_one_command | property service (property_changed), builtins | `ActionQueue` |
| Property area (`property_service.c`, `extlib/libcutils/system_properties.c`, `inc/init/_system_properties.h`, `_futex.h`) | shared memory: count, toc, serials, values | _property_set, update_prop_info; __system_property_find, _read, _wait, property_get | every process maps it | `PropertyArea` |
| Property service (same files) | the socket, permissions, persistent files, persistent_properties_loaded | handle_property_set_fd, property_set, write_persistent_property, load_persistent_properties | clients over a socket, the file system | `PropertyService` |
| logd buffer and readers (`src/src/logd/LogBuffer.cpp`, `LogTimes.*`, `FlushCommand.cpp`, `LogReader.cpp`) | the list of elements with byte counts per log id, the list of LogTimeEntry with one thread each | log, prune, flushTo, clear; threadStart, triggerReader, release, skipAhead | one lock for the elements, one for the readers, a condition variable each reader | `LogBuffer` |
| logd sockets and commands (`LogListener.cpp`, `CommandListener.cpp`, `extlib/libsysutils/SocketListener.cpp`, `SocketClient.cpp`) | client collection, reference counts | runListener, runOnEachSocket, release, sendMsg | the buffer | `LogBuffer`, in part |
| adbd streams (`src/src/adb/adb.c`, `sockets.c`) | lists of local sockets and closing ones, peers, packet queues | handle_packet (CNXN, OPEN, OKAY, WRTE, CLSE), local and remote enqueue, ready, close | the event loop, a transport | `AdbStream` |
| adbd transports (`transport.c`, `fdevent.c`, `transport_usb.c`, `transport_local.c`) | atransport: reference count, kicked, sync_token; two threads each | register, unref, kick, input and output thread | streams through a socketpair | `AdbStream`, in part |
| adbd services (`services.c`, `jdwp_service.c`, `file_sync_service.c`, ...) | one thread and descriptor each | | streams | not modelled |
| osal (`src/extlib/osal/src`), looper (`src/extlib/looper/Looper.cpp`) | queues, mailboxes, event flags; message queue and epoll set | | | not modelled: vendored, and no program under `src/src` is linked with them |
| init.rc parser, util, prop_tools, logcat | none at run time | | | not modelled |
| Vendored: mongoose, openssl, libutils, liblog, the rest of libcutils; adb host side | | | | not modelled |

How they interact: one thread of the monitor runs `execute_one_command`, `restart_processes` and
`poll`; the handlers poll() dispatches (`handle_property_set_fd`, `handle_signal`) call into the
supervisor, the property area and, through `property_changed`, the action queue. The four modelled
parts of the monitor share no mutable state but the properties: the supervisor publishes `init.svc.<name>`, setting a
property queues actions, and an action's commands start and stop services. Everything outside the
monitor (children, clients, the kernel) runs concurrently with it. logd and adbd are services of the
monitor and know it only as clients of the property service. In logd the thread that logs, the one for
commands, the listener of the readers' socket and one thread for each reader share the list of elements
and the list of readers under a mutex each. In adbd one event loop owns all streams; two threads for
each transport hand it packets through a socketpair.

What is hard: children die between any two calls of the monitor; signals coalesce and their socket is
bounded; pids are reused; a stop races with the exit of what it stops; one timer serves all services;
events append to a queue whose nodes are the actions themselves, with no mark that says "queued";
readers of the shared memory take no lock; clients stop waiting for the monitor after 250 ms; a reader of
the log writes an element to its client with no lock held, while others prune; either end of an adb
stream closes it at any moment, with packets of it under way or waiting to be written, and either end of
a transport may be replaced without the other noticing. `hazards` in `PROJECT.json` names each at its line.

## 2. Modules

| Module | What it is |
|---|---|
| `Supervisor` | the supervisor, with kernel, children and clients as its environment |
| `MCSupervisor` | instances for TLC |
| `SupervisorProofs` | theorems about `Supervisor` |
| `ActionFIFO` | the queue as `src/src/init/readme.txt:27-36` describes it |
| `ActionQueue` | the linked list, the events and the loop; its instance `Documented` of `ActionFIFO` is the refinement |
| `MCActionQueue` | instances for TLC |
| `ActionQueueProofs` | theorems about `ActionQueue` |
| `AtomicProperties` | properties changed and read as a whole |
| `PropertyArea` | the shared memory, the monitor's writes and the clients' reads; its instance `Atomic` is the refinement |
| `MCPropertyArea`, `PropertyAreaProofs` | instances for TLC, theorems |
| `PropertyService`, `MCPropertyService`, `PropertyServiceProofs` | requests, their acknowledgement and order, persistent files and reboots |
| `LogBuffer`, `MCLogBuffer`, `LogBufferProofs`, `LogBufferDeliveryProofs` | the log's elements, its readers' entries, threads and connections |
| `AdbStream`, `MCAdbStream`, `AdbStreamProofs`, `AdbStreamDeliveryProofs` | streams over a transport, both ends of it |

### Supervisor

`flags`, `pid`, `init_svc` are `svc->flags` (the four bits that change), `svc->pid` and the property
`init.svc.<name>`. Times are relative: `elapsed` is `gettime() - time_started` cut off at the 5
seconds (`RestartDelay`), so that `time_started = 0` is "due" (the device has been up for 5 seconds),
and `armed` is `process_needs_restart - gettime()`. `pc` is the place in the loop of `main()`; `job` is
the rest of the calls the handler in progress will make, since a class command, a restart or an
onrestart section is several calls of `service_start` and `service_stop` between which children move.
One action is one call: `CallStart`, `CallStartIfNotDisabled`, `CallStopOrReset`,
`CallRestartIfNeeded`, `CallNotifyRestarting`, or one step of the loop: `ExecuteOneCommand`,
`RestartProcesses`, `Poll`, `HandlePropertySetFd`, `HandleSignal`, and inside `handle_signal` one
`ReapService`, `ReapUntracked` or `ReapDone` for each return of waitpid. `proc` and `owner` are the
kernel's view: a pid is free, forked (the child has not reached `setpgid`, init.c:209), running, dying
(SIGKILL delivered) or a zombie. `wanted` is history: was the last explicit request a start?

The loop filters by SVC_RESTARTING when `service_for_each_flags` reaches a service, so the job of
`RestartProcesses` is the whole list and `CallRestartIfNeeded` looks at the flag.

Properties: `NoLostChild` (no zombie is overlooked although signals coalesce and the socketpair can be
full), `PidsAreOwned` (pid reuse), `OneState` (the flag combinations), `RespawnsOnlyWanted` (a stop is
never undone by the timer), `TimerCoversRestarts` (poll's timeout covers every waiting service),
`PublishedState` (init.svc.* against flags and pid), `ChildrenAreReaped`, `RestartsHappen`.

### ActionQueue

`next` and `prev` are the pointers of `qlist` in every action and of the head `action_queue`;
`list_add_tail` and `list_remove` are the assignments of `cutils/list.h` in their order. An event sets
`visiting` to `action_list`, and `VisitAction` is one turn of `list_for_each`; nothing else of the
thread runs until the walk ends. `queue` is history: the queue readme.txt promises. `ran` is history
too. `Requeue = FALSE` restricts clients to sets that trigger no queued action; `Requeue = TRUE` is the
program without that restriction. Commands that neither set a property nor queue are `other`.

Properties: `ListIsQueue` (the pointers are one ring through the documented queue, both ways),
`AppendsAreFresh` (what the list needs of its callers), `DocumentedQueue` (refinement of `ActionFIFO`),
`NoTriggerLost` (no trigger falls between boot and the enabling of triggers), `QueuedActionsRun`.

### PropertyArea

A serial is a record: `len` are its upper 8 bits and `seq` the 24 below, whose lowest bit is the dirty
one. A value is copied cell by cell, in any order (memcpy promises none). `_property_set` is `Create`,
`Publish` or `BeginUpdate`, `WriteCell`, `EndUpdate`, `WakeEntry`, followed by `Bump`, `WakeArea`.
Clients run `__system_property_read`, `property_get` (whose caller then reads the string through the
pointer) and `__system_property_wait`. A futex wait compares and sleeps at once, may be interrupted,
and may be woken for nothing. `current` (changed when an update is complete) and `result` are history.

Properties: `AtomicReads` (refinement of `AtomicProperties`: a read returns the value the property has
at the last look at the serial), `NoLostWakeup`, `SleepersWake`.

The accesses take effect in program order. The code has no barriers although it is built for ARM
(`src/src/logd/Makefile`, `src/src/adb/Makefile`): what a weaker memory order does to it is not covered.

### PropertyService

A request is one call of `property_set`; the value it sets is named by the request, so that values tell
their requests apart. `state` is how far the call got (connected, message sent, returned because the
monitor closed the connection, because 250 ms passed, or because its client died), `backlog` the queue of
`listen()`. `pc`, `serving` and `job` are the monitor: `Accept`, then `ReceiveNothing`, `ReceiveControl`
and `HandleControl` (the connection is closed before a control message is acted upon), or `ReceiveSet`
(permission, `ro.`, `net.change`) and `Answer`. A persistent property goes through `SaveOpen`, `SaveWrite`,
`SaveRename` in between, each of which may fail; the result of `write()` is ignored as in the code, so a failed
one leaves an empty file or some of the value (`Torn`, as is what `open()` leaves), which is renamed over the
old one. `Boot`,
`LoadEntry`, `CannotLoadEntry`, `LoadEnd` are the boot sequence and `load_persist_props`, which calls
`_property_set` for each file and so writes the files again when it is repeated. The update of shared
memory is one step here (`PropertyArea` looks into it) and the area is never full.

Properties: `FilesAreWhole` (a file is empty or cut off only if a `write()` of it failed and no whole value
was saved since: no step of a save and no reboot between two of them tears it), `FilesMirrorArea`,
`AcknowledgedIsDone` (what a closed connection tells the client, now and after every reboot),
`CallsInOrder` (in spite of time-outs), `EveryoneIsServed`. `handled`, `unsaved`, `unread`,
`miswritten` are history.

### LogBuffer

An element is its number in the order of logging, which is its monotonic time. `order` and `live` are
`mLogElements`: `Log` appends an element or inserts it where the loggers' clocks say, but not in front of
one that a region lock covers. `MaybePrune` and `Clear` are `prune` with its two callers: nothing at or
behind the `mStart` of the oldest reader is erased, and that reader is told to skip or is kicked. `Notify`,
`NotifyOne`, `Notified` are `LogReader::notifyNewLog` over `runOnEachSocket`. `Request` accepts a
connection and makes its entry (`startReader_Locked`, whose `pthread_create` may fail), `HangUp` is what
the listener does when the connection ends. A reader's thread is `Loop`, `FirstPass`, `Walk` for each
element (one call of `FilterSecondPass` each), `Send` without the locks, `WalkEnd`, `Flushed`, `Stop`.
`elementsLock` is held from `Log` to `MaybePrune` and by a reader between elements it leaves out.
Sections under `timesLock` are one step each, since what they call takes no other lock but leaf ones.

`LateHangUp = FALSE` keeps the listener from noticing a closed connection while the reader's thread is
inside `flushTo`; `TRUE` is the program, for which `RangeLocking` fails (finding 5). The model lets a
thread whose element was deleted go on from that element's place; what freed memory does to it is not modelled.

Properties: `RangeLocking`, `EntryLifetime`, `ClientLifetime`, `NoLogLost`, `InOrderOnce`, `TailIsTail`,
`SleepersAreWanted`. `received`, `owed`, `dropped` are history.

### AdbStream

Both ends run the code of this program, and `p` says which; only the server opens streams. `socket` holds
the local sockets: `peer` is the id of the socket at the other end that the remote socket stands for, 0 if
there is none; `reading` is the interest in FDE_READ; `pending` is the queue of packets to write; "closing"
is a socket on the list of those that wait for that queue. `wire` is what an end has sent and the other end
has not handled: the socketpair, the transport's threads and the cable together. `HandleOpen`,
`HandleOkay`, `HandleWrite`, `HandleClose`, `HandleConnect`, `Ignore` are `handle_packet`; `ReadEvent`
and `WriteEvent` are `local_socket_event_func`. Faults: `Unplug` cuts what each end has sent somewhere and
ends it with the SYNC(0, 0) of the output thread, `HandleSync` closes the streams and starts on a new
transport; `HostRestart` replaces the server, which the device learns from the next CNXN only. A packet in
`pending` that was written in part is still pending.

Properties: `PeersAreKnown` (nobody answers through a null peer), `OneWriteAtATime` (protocol.txt:146-149),
`DeliveredInOrder`, `NothingCutOff`, `NobodyStandsStill`, and its safety core `NobodyWaitsInVain`: an end that
waits is owed something that ends its wait. `chunks`, `written`, `ended` are history.

## 3. Runs

| Run | States | What it shows |
|---|---|---|
| `supervisor` | 4.5 million | the safety properties but the timer's: two services tied by onrestart, one oneshot and disabled; stop, start with arguments, class_reset and class_start from clients; three pids |
| `supervisor_live` | 132 thousand | liveness, and `TimerCoversRestarts`: the timer shared by two services, with a delay of 2 |
| `supervisor_two_instances` | violation | finding 2 |
| `supervisor_stop` | violation | finding 3 |
| `action_queue` | 31 thousand | the list is the documented queue, and nothing is appended twice, by an init.rc that keeps to `SetOffOnce` |
| `action_queue_twice` | violation | finding 1 |
| `property_area` | 333 thousand | atomic reads and wake-ups: one reader and waiter, one getter and waiter |
| `property_area_get` | violation | finding 4 |
| `property_service` | 1.1 million | the six properties: three calls of two clients, a reboot and a reload at any moment, every call on a file may fail |
| `log_buffer` | 3.9 million | the eight properties: a reader that follows the log and a dump of the last element |
| `log_buffer_hang_up` | violation | finding 5 |
| `adb_stream` | 208 thousand | the seven properties: two streams, one fault at any moment |

Bounds and why they suffice:

- Two services: every property of the supervisor relates a service to its own child or to one other
  service (onrestart, the shared timer, a reused pid). Three pids let a service have an exiting child
  and a new one while the other service has one; with fewer, fork fails, which is also explored.
- `PipeCap = 1`, `ReadMax = 1`: the socketpair is full after one byte, so both coalescing and a dropped
  byte happen. `MaxInbox = 1`: a client can always send again. `RestartDelay = 1` separates "just
  started" from "due"; 2 is used where two timers must differ.
- Eight actions: two on the same property value (one by `*`, one without commands), one on another
  property, a chain of two reached by the trigger command, the boot action, which sets a property, and the
  two builtin ones whose order matters. Two values and two properties.
- `MaxLen = 2` with values of lengths 1 and 2 that differ in every cell: every mixture is
  distinguishable. `PA_COUNT_MAX = 1` with two names: the area fills. `MaxWrites = 3`: a serial goes
  from even to dirty to even twice, so a reader can be overtaken twice. `SerialMod = 8 > 2 * MaxWrites`
  keeps serials from wrapping: 2^23 updates of one property during one read are out of scope.
- `PropertyService`: three requests, two of one client and two for one persistent property, let calls of
  one client and of two overtake each other at every stage; the names cover every prefix the code tests.
  `MaxReboots = MaxReloads = 1`: a reboot finds each stage of a save, and the boot after it everything the
  first run may leave; a reload sees the files after sets and after a boot. One request may lose its
  client (`Mortal`): at that point it differs from the others in nothing.
- `LogBuffer`: `Size = 1` prunes from the second element on, `MaxLogs = 3` outgrows twice the size, so
  that readers are told to skip and are kicked; three elements have a first, a middle and a last.
  `AllRows = 3` is as good as all.
- `AdbStream`: two streams, because ids and packets may be mixed up only between two; two chunks from the
  device and one from the server on the first, because a second chunk waits for the OKAY of the first.
  `MaxFaults = 1`: see section 6 for what two faults do.

Deadlock is checked in every run but `adb_stream`, where everything may be closed and nothing left to
open. In `PropertyService` and `LogBuffer` the action `Quiet` stands for the end, when all calls have
returned or all was logged and every thread sleeps; any other standstill is reported.

Fairness. `Supervisor`: the loop, the delivery of a pending SIGCHLD, time, a child's way to `setpgid`
and the death of a killed child are weakly fair: all are done by a scheduler that runs every runnable
process. Nothing obliges a healthy child to exit or a client to send. `ActionQueue`: the thread is
weakly fair; clients are not. `PropertyArea`: the monitor and every client that is not asleep are
weakly fair; calls and signals are not. `PropertyService`: the monitor's thread, and each client between
`connect` and `send`, which are consecutive statements (a client that dies in between counts as closed);
neither calls nor reboots. `AdbStream`: the loop of each end handles the packets that arrive, and a
descriptor that is given data takes it or fails; nothing obliges a descriptor to have data to read, nor a
client to open a stream.

## 4. Findings

1. `readme.txt:29-31` says an action is queued "unless it is already on the queue".
   `action_add_queue_tail` (init_parser.c:570-573) does not ask. A second trigger before the action ran
   re-links its node: the actions behind it drop off the list, the ones before it may be run again.
2. The comment at init.c:143-147 says that a process that is exiting is restarted on exit. `stop`
   clears SVC_RUNNING at once, so `restart`, or `start` after `stop`, forks a second process while the
   first is still alive; the first is then reaped as an untracked pid.
3. `stop` (readme.txt:197-198) right after a start: the child has no process group yet, `kill(-pid)`
   fails and is not repeated. The process lives on, the service is disabled and stays "stopping".
4. `property_get` (system_properties.c:155) hands out a pointer to the value in shared memory; its
   caller cannot follow the reading rules of `_system_properties.h:59-63` and can see a mixture of two
   values.
5. `LogBuffer.cpp:505` says that range locking keeps the element a reader writes without the lock. When
   the client hangs up, `doSocketDelete` (LogReader.cpp:171) takes the entry off `mTimes` while its thread
   may be writing that element; `prune` then sees no lock and deletes it under the thread.

Seen in the code without a run: a reader that was kicked while `writev` blocks keeps its region locked
until the client reads (LogBuffer.cpp:387); a dump whose thread could not be created stays in `mTimes` and
locks its region for good (LogTimes.h:64); a clear tells the oldest reader to skip what remains of
ULONG_MAX, all the elements that follow (LogBuffer.cpp:440); CLSE is answered by CLSE although
protocol.txt:163 says a recipient should not respond; the local id of a CLSE is always 0
(protocol.txt:156-158); an OPEN that arrives while the end is offline is dropped without an answer
(protocol.txt:102); when a client of the server is gone before its OPEN is answered, nobody closes the
device's end of the stream, which `NobodyStandsStill` exempts; the option `critical` is parsed but signal_handler.c never acts on it
(readme.txt:62-64); `init.svc.<name>` also takes the value "stopping", which readme.txt:231-232 does
not list; after a failed fork SVC_RESTARTING is gone and nobody tries again (init.c:251-255); a
redundant start zeroes time_started (init.c:141), so the next crash restarts without a delay;
`handle_property_set_fd` blocks in recv until a connected client sends or closes
(property_service.c:399); a ctl. message is acknowledged before it is acted upon (411);
`write_persistent_property` ignores the result of write before it renames (305-308), so a full disk replaces a
value by an empty file; the command setPruneList rewrites the lists of `mPrune` without a lock (LogBuffer.h:75)
while the logging thread reads them in `prune`.

## 5. Proofs

All theorems hold for every value of the constants that satisfies the module's named assumption and, where
one is stated, the theorem's hypothesis.

`SupervisorProofs`, from `SupervisorAssumption`. The inductive invariant is `IInv == TypeOK /\
NoLostChild /\ SafetyInv /\ TimerInv`. `OneState` and `RespawnsOnlyWanted` are not inductive alone:
`WantedIfActive` adds that a running or waiting service is wanted and that an unreaped child which does
not run belongs to a service marked so that reaping will not restart it; `PidsAreOwned` is needed to
know which service a reaped pid belongs to. `TimerInv` adds that while `restart_processes` is under
way each waiting service is either still ahead in the job or covered by the timer. Theorems:
`TypeCorrect`, `ZombiesAreNoticed`, `PidsOwned`, `ExclusiveStates`, `StopIsHonoured`, `TimerIsArmed`.
The proof of a step has one case for each action. `StatesPublished` (`init.svc.*`) has the hypothesis
`OnRestartElsewhere`: no onrestart section names its own service or publishes "restarting" itself. Its
invariant says of every service that it is published or that its notification is still in the job, and
that then nothing else in the job is about it; it uses `ExclusiveStates`.

`ActionQueueProofs`, from `ActionQueueAssumption`. `TypeCorrect` and `NullIsNeverFollowed` hold without a
hypothesis: also when an action is queued twice and the list is damaged (finding 1) no pointer of it
is null. The others have the hypothesis `[]AppendsAreFresh`, which the code does not guarantee and which
the run `action_queue` establishes for its instance: `ListIsRight` (the pointers are the ring of the
documented queue), `QueueIsDocumented` (the refinement of `ActionFIFO`), `TriggersAreCaught`. Two lemmas
about any ring of pointers, `AppendRing` and `RemoveRing`, carry the argument.

`AppendsStayFresh` proves that hypothesis from what the init.rc itself says, `SetOffOnce(k)`, and from
clients that keep off queued actions (`~Requeue`); `QueueOfEveryFile` then has the three results with no
temporal hypothesis. `SetOffOnce` can be read off a file: a triggered action has one command that triggers
it, no action triggers itself, and properties that actions wait for are set by the boot sequence before the
triggers are enabled, or by clients. A file without `trigger` and `setprop` commands satisfies it. The
inductive invariant `FreshInv` says what keeps an append fresh before it happens: what a walk is still to meet
is not queued (`WalkIsFresh`) and where that walk comes from (`WalkOrigin`); a queued action is never behind one
that triggers it and waits for no property before the triggers are enabled (`QueueOrder`); what the current
action is still to trigger is not queued, nor that action itself if a command triggered it (`CurrentIsFresh`);
once the triggers are enabled the boot sequence is done up to there (`BootIsDone`). TLC checked it on the
instance of `action_queue`. Finding 1 is what happens to a file that does not keep to `SetOffOnce`, or to
clients that do not.

`PropertyAreaProofs`, from `PropertyAreaAssumption`. The inductive invariant adds to `TypeOK` and
`NoLostWakeup` what the writer has tested (`WriterInv`), that an entry shows its value under an even
serial (`EntryInv`), that serials only grow and do not wrap (`SerialInv`), where clients may be looking
(`TargetInv`), and the key, `CopyInv`: what a client has copied is the current text as long as the
serial is the one it loaded. Theorems: `TypeCorrect`, `WakeupsArrive`, `ReadsAreAtomic` (the
refinement of `AtomicProperties`).

`PropertyServiceProofs`, from `PropertyServiceAssumption`. `DiskInv` ties job, temporary file and stage of
the save together (an empty or partial value under way has its name in `miswritten`), and while files are loaded
says that what was read is in the area; it gives
`TypeCorrect`, `RenameIsAtomic` and `FilesMirror`. `AcknowledgementsHold` adds `AckInv` (the requests whose
connection is closed are decided and saved, the one being answered is saved), `OrderIsKept` adds
`OrderInv`: for each client what is handled comes before what is served, that before the queue, and the
queue is in the order of the calls.

`LogBufferProofs`, from `LogBufferAssumption`. Only `RangeLocked` has the hypothesis `~LateHangUp`, without
which finding 5 refutes it; what holds of the program as well is `ListedRangesLocked`: as long as a reader's
entry is in `mTimes`, the element its thread is at is not erased. `Lives` ties each reader's entry, thread,
connection and reference counts together; `Iterators` says that a thread whose iterator is at an element
holds `mLogElementsLock`, or has its entry in `mTimes` with `mStart` at that element, which `prune` never
erases, or lost the entry to a late hang-up. Theorems: `TypeCorrect`, `RangeLocked`, `ListedRangesLocked`,
`EntriesAreFreed` and `ClientsAreClosed` (the two reference counts), `SleepersStay` (no thread sleeps that
should go).

`LogBufferDeliveryProofs` goes on from that invariant to what the readers get, late hang-ups or not.
`Deliveries` says of a reader that follows the log: what it is owed was appended, so the list is sorted
from there on (`Sorted`); an owed element was sent, was left out because the reader was told so, or is
`Kept`, that is in the list with `mStart` not past it and the iterator still in front of it; what was
received lies behind (`Done`). Theorems: `NothingIsLost`, `FollowersGetOrder`. `TailInv` counts the
elements of a dump with tail=n over its two passes, in the second of which `mIndex` may not outrun the
`mCount` of the first: `TailsAreTails`.

`AdbStreamProofs`, from `AdbStreamAssumption`, for any number of streams, chunks and faults: `TypeCorrect`
and `DevicePeers`, that adbd never answers through a null peer. A socket of adbd is made with its peer and
only `Closed` takes the peer away, together with the interest in events.

What the ends say to each other is safe only if a server is not replaced again before its CNXN was
answered (section 6): the other theorems have the hypothesis `[][SettledRestart]_vars`, "a server restarts
only online", and hold for any number of such restarts and of pulled cables. Their invariant has four layers,
each inductive over the ones before; on an instance with two faults TLC found each of them true as well.

- `Sessions` (`AdbStreamProofs`): which packets and sockets belong together. A CNXN under way has nothing of an
  earlier session behind it; while the server is online its id i stands for stream `StreamOf(i)`, which every
  packet addressed to i and every socket with peer i is of; a server's socket has no peer exactly until the
  OKAY of its OPEN. A step that only sends, receives and closes is an `Ordinary` one, a step of the connection
  a `Reconnects`: each preserves the layer by one lemma, and a lemma for each action says which it is.
  Theorem: `PeersKnownAlways`, at both ends.
- `Flow` (`AdbStreamDeliveryProofs`): of each direction of a stream one token exists: an end that may read, a WRITE
  on the wire, a packet in a queue, or an OKAY on its way back. A WRITE or a waiting packet is the last chunk
  read, and if there is neither all was written. Theorems: `OneWriteAlways`, `InOrderAlways`.
- `Closes`: as long as both ends are open what was read is written, waits or is on the wire; a CLOSE on the
  wire is behind the WRITEs of its stream and its sender is closed; a stream ended by a CLOSE is written up to
  what its closing socket holds. It also needs `Receivers`: no other socket of the device takes what is
  sent of a stream. Theorem: `NothingCutOffAlways`.
- `Owing`: an open socket is `Served`. Either its stream is open at the other end too and the token of its
  direction exists (what `Flow` says at most, this says at least), or it will learn that it is alone: a CLOSE
  for it, its own OPEN, a CNXN or the loss of the connection is on its way. Exempt are the sockets whose client
  was gone before its OPEN was answered. It also needs `Senders` and `Asking`, that a WRITE or an OPEN on the
  wire still has the socket that sent it or its loss is on the way, and `Tied`, that the device is online before
  the server is. Theorem: `NoVainWaits`, that the state in which a stream stands still for good is never reached.

Only model-checked: everything that needs fairness (`ChildrenAreReaped`, `RestartsHappen`,
`QueuedActionsRun`, `SleepersWake`, `EveryoneIsServed`, `NobodyStandsStill`), which the prover cannot do. Of
`NobodyStandsStill` the safety half is proved, `NoVainWaits`; that what is owed arrives needs the fairness.
Every other property of a passing run is stated by a theorem.

## 6. Not modelled

- A service's own children and what remains of its process group; sockets, uid, gid, environment and
  exec; keychords; the console (`have_console` is never set, so services that need it count as
  `Unstartable`); reboot into recovery.
- The `kill(-pid)` of signal_handler.c:52, which comes after waitpid has released the pid.
- onrestart sections whose own service is among the services they name make `init.svc` lag; the
  instances have none.
- Publishing `init.svc.<name>` succeeds in `Supervisor`: names too long for it and a full property area
  (init.c:67, property_service.c:350) are left out; the full area is `PropertyArea`'s.
- A command of `ActionQueue` changes one property at most and walks the triggers once; commands that set several
  properties (a class_start, load_persist_props) are not modelled as such.
- Permission checks are a relation (`Denied`); their tables of uids are not modelled. `Reboot` keeps what
  was written although nothing calls fsync: a loss of power may lose it. The
  `property_set` calls inside `mount_all` are compiled out.
- logd: one log id and unit sizes; pid and uid filters, and start=, which asks for a first pass of its own;
  which of the unprotected elements the white and black lists and the statistics choose (any may go); ties of
  monotonic times and what real times say about the place of an element (any place); spurious wake-ups; a
  connection makes one request. `HangUp` joins `doSocketDelete` and `release`, `Request` joins accept and
  request. Of the other commands four read or set sizes and statistics under `mLogElementsLock`; getPruneList
  and setPruneList read and rewrite `mPrune` under no lock, a race that is undefined behaviour and is not
  modelled; LogAudit is not built.
- adbd: authentication (`auth_enabled` is 0 by default), listeners, exit_on_close and force_eof of jdwp and
  tcp services, the smart socket of the server beyond the client that is gone early, the reference counts
  of transports and fdevent's own lists, several transports at a time. A transport is replaced by one
  action at each end: SYNC(0, 0), `close_all_sockets` and registration come one after the other there.
- Two faults of adb (`MaxFaults = 2`, 686 thousand states): `TypeOK`, `OneWriteAtATime`, `NobodyWaitsInVain` hold.
  `PeersAreKnown` and `DeliveredInOrder` fail when the server restarts twice before the device has answered
  the first CNXN: the answer to the first takes the second server online, its OPEN reuses an id, and an
  OKAY or WRTE meant for the predecessor reaches the new socket. It is the protocol that has no session
  number; the runs say that one restart, at any moment, is safe, and the theorems that any number is as long
  as each server is online before it is replaced. With three faults `NothingCutOff` fails in the same way.

## 7. Possible extensions

1. A composition: the supervisor's `init.svc` through the property service into the action queue.
2. The reference counts of a transport and its two threads.
3. Several log ids and start= in `LogBuffer`.
