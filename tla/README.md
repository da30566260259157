# Verification of software_monitor

software_monitor watches which programs install what. A Windows minifilter
driver sees files and registry keys being created; a service fetches these
events from the driver and records, in an SQLite database, which product each
file and key belongs to. This directory holds TLA+ models of both halves, the
TLC runs that check them on small instances and the TLAPS proofs of what holds
for every instance.

## The system

| part | source | state | operations |
|---|---|---|---|
| rendezvous | `src/src/drv/ioctl.cc` | `ioctl_ctx_` with `irp_list` (parked requests) and `data_list` (messages), both SafeLists; each request's cancel flag and cancel routine; the system's cancel spin lock | `Dispatcher`, `SendMessage`, `NotifyIrpCancelRoutine`, `initialize`, `finalize` |
| SafeList | `src/src/drv/safe_list.h`, `spin_lock.h` | a linked list, `size_`, one spin lock with one saved IRQL | `Push`, `Pop`, `Pop(buffer)`, `Clear`, `Size` |
| driver life cycle | `src/src/drv/drv.cc`, `dev.cc`, and the `initialize`/`finalize` of the monitors | device, symbolic link, context, filter, registry callback | `DriverEntry`, `finalize`, `FilterUnload` |
| event collection | `src/src/drv/file_monitor.cc`, `reg_monitor.cc`, `proc_util.cc`, `install_monitor.cc` | what one callback has taken from the system | `PostCreate`, `PostSetInfo`, `NotifyRoutine`, `BuildInstallInfo` |
| shared definitions | `src/include/shared.h` | the layout of `InstallInfo` | written by the driver, read by the service |
| Communication | `src/src/srv/ioctl.cc` | device handle, completion port, four slots with a buffer each, four threads, `is_stopped_` | `Start`, `Stop`, `DoCompleteRequest` |
| service control | `src/src/srv/main.cc` | stop event, service status | `ServiceMain`, `ServiceCtrlHandler`, `LoadDriver`, `UnloadDriver` |
| recording | `src/src/srv/install_monitor.cc`, `install_manager.cc`, `sql_helper.cc` | tables `app` and `asset`, `max_software_id_` | `FileInstall`, `RegistryInstall`, `InsertSoftware`, `InsertAsset`, `SqlHelper` |
| SQL interface | `src/include/sql` | the driver's library and its objects | `DriverManager`, `SqlHelper::Connect` |
| logging | `src/src/srv/log_util.*` | a stream behind a mutex, the level | `LOG_DBG` to `LOG_ERR`, `LogStream` |
| build files | CMake, `src/install` | none | not modelled |

How they interact. A callback thread of the driver builds a message and hands it
to `SendMessage`. The service keeps one overlapped `IOCTL_FETCH_DATA` request
outstanding per slot; the I/O manager hands each to `Dispatcher`. Whichever side
comes first waits in its list. A request that is answered puts a packet on the
service's completion port; a pool thread takes it, records the event through
`SqlHelper` and issues the slot's next request. `ServiceMain` connects to the
database, loads the driver, starts Communication, waits for the stop event, and
takes everything down in the other order.

What makes each part hard, and what makes it correct:

- **Rendezvous.** Clients, callback threads and the I/O manager's cancellation
  meet over two lists without a common lock. Correct means: every request is
  completed once and every buffer freed once, by the one thread or list node
  that holds it; a parked request stays cancellable; a cancelled one completes;
  the memory for messages stays bounded; no call hangs.
- **SafeList.** Nodes are allocated and freed outside the lock, `Size()` is read
  without it, and one saved IRQL serves callers at two levels. Correct means that
  it is an atomic FIFO list, leaks and double-frees nothing and gives every
  caller its level back.
- **Life cycle.** Any step of `DriverEntry` may fail, callbacks run during all of
  it, and the filter manager may unload the filter by itself. Correct means no
  use of freed state and nothing left behind.
- **Event collection.** Each callback makes a chain of queries, any of which
  fails. Correct means that it gives back what it took on every path, reports
  what came into being and nothing else, and that the service reads the event
  that was written.
- **Communication.** Packets, failures and `Stop` come in any order. Correct
  means that no buffer is shared by the driver and a thread, no event that
  arrives is lost or handled twice, and `Stop` returns.
- **Service control.** Controls come at any time and any step fails. Correct
  means that no stop request is lost, and STOPPED is reported only when no
  thread works any more.
- **Recording.** Several workers run select-then-insert without a transaction,
  statements fail and the process may die between any two. Correct means that the tables
  refer to each other, ids are never reused, rows are final, races lose
  nothing, and that names and texts describe the file and the program they stand for.
- **SQL interface, logging.** Libraries, drivers and statements may be missing or
  fail; all threads log to one stream. Correct means that a connection that is
  reported is usable, that code stays mapped while objects need it, and that
  lines are whole and complete.

## Modules

| module | what it is |
|---|---|
| `Ioctl` | the rendezvous, one action per critical section, interlocked exchange or unlocked read; implements `Rendezvous` |
| `Rendezvous` | what `Ioctl` promises: how requests and messages end |
| `SafeList` | the list and its lock, step by step; implements `FifoList` |
| `FifoList` | what SafeList promises: atomic operations on a FIFO list |
| `Driver` | the driver's life cycle with callbacks and clients |
| `Collection` | the callbacks that collect events, with every query that can fail |
| `EventCodec` | the layout of a message, from the driver's names to the service's |
| `Communication` | the service's end of the device |
| `Pipeline` | `Ioctl` and `Communication` put together |
| `Service` | `ServiceMain` and the control handler around an instance of `Communication` |
| `InstallDb` | the recording of events |
| `PathConversion` | device and registry paths made into the names in the database |
| `VersionInfo` | the texts of a version resource, and which programs count |
| `SqlConnect` | the SQL driver's library and `SqlHelper::Connect` |
| `Logging` | the log |
| `DriverParts` | `Driver`, `Collection` and `EventCodec`, which share no state; one behaviour runs one of them |
| `ServiceParts` | the same for `VersionInfo`, `PathConversion`, `SqlConnect` and `Logging` |
| `IoctlProofs`, `SafeListProofs`, `CommunicationProofs`, `InstallDbProofs`, `ServiceProofs`, `PipelineProofs`, `DriverPartsProofs`, `ServicePartsProofs` | the theorems, each about the module it is named after |
| `MC*` | symmetry sets, state constraints and small data sets; each `.cfg` gives the constants of one run |

Composition: `Pipeline` instantiates `Ioctl` and `Communication`, `Service`
instantiates `Communication`, `Ioctl` and `SafeList` instantiate their abstract
specifications. `DriverParts` and `ServiceParts` put together modules that do
not touch each other: the variable `part` says which of them a behaviour runs,
and the others stand still. This is only a way to check and to prove them with
one run and one module of proofs each; `EachPart` proves that every part then
behaves as its own specification says.

In every module actions carry the names of the functions, or of the steps of
one, that they stand for; variables carry the names of the fields. A definition
that stands directly before another one with the same parameters and is used
nowhere (`PeekIrp` before `PopIrp`) is a plausible bug: put in the place of
the one behind it, it breaks the property that PROJECT.json names for it. This
shows that the property depends on the code.

### Ioctl and Rendezvous

`Dispatcher` runs in `Clients` (variables `dpc`, `dirp`, `dmsg`), `SendMessage`
in `Senders` (`spc`, `smsg`, `sirp`), the cancel routine once per request
(`kpc`). `live`, `cancel` and `armed` are the requests not yet completed, with
`irp->Cancel`, and with a cancel routine. `heap` is the set of message buffers
that are allocated. A SafeList operation is one step; that this is sound is what
`SafeList` shows. Failed node allocations are a choice in every push. Messages
that are longer than a request's buffer are the constant `Oversized`.

`Pop(buffer)` deletes the node that it visited last when it finds nothing, and
returns a value that is not null. `PopMisses` models this: a linked node that was deleted
is recorded in `dangling`, a request completed twice in `doubled`. What the
machine does afterwards is undefined; it may stop (`Bugcheck`) or go on. The
properties about requests therefore speak of behaviours up to such a miss
(`dangling = {}`); `UncancelledIntact` says that it takes a cancellation to get
there, `MessageHeldOnce` and `DataListBound` need no such condition.

Taken from Windows: the I/O manager sets `irp->Cancel` and takes the cancel
routine in one critical section of the cancel spin lock; a request's memory is
not reused before its thread has left `Dispatcher` and its cancel routine has
returned (guards of `Request`); `finalize` runs with no request outstanding and
no call in the driver (guards of `Finalize`; for callbacks `Driver` shows it).

`Rendezvous` is what remains when lists, locks and threads are taken away: the
pending requests and the messages that exist. A request ends once, alone or
together with the one message it was answered with; a message ends so, or is
given up (evicted, or without memory for its node). The implementation shows
two things that a step of `Ioctl` could get wrong unseen by the single
invariants: that no step ends two requests, and that an answered request's
message leaves in the same step.

### SafeList and FifoList

A node is memory that is allocated, linked, and reused. Each operation is split at
the lock, at the change of the list, at the change of `size_`, at the unlock and
at the deletion; `Clear` too moves the list out (`MoveAll`) before it sets `size_`
to 0 (`Reset`), so that for that moment `Size()` is too large by the whole list. The refinement maps the list to the buffers of its nodes, and
an operation takes effect when it links or unlinks. `intact` ends the promise at
the first search that misses in a non-empty list, as above.

### Driver

`pc` walks through `DriverEntry` and `finalize`; `EntryFails` may happen at any
step. `FltUnregisterFilter` and `CmUnRegisterCallback` start no more callbacks
and wait for those that run (documented by Windows), so each is two steps. The
I/O manager lets clients open the device only after `DriverEntry` has returned and calls
`DriverUnload` only when nobody has it open; it and the filter manager do not
unload at the same time.

### Collection

One callback after another, for any operation (`Operation`: its kind, its
object, whether it succeeded, what the system says of it). Callbacks keep no
state and share none, so running them one by one loses no behaviour; what they
call in common is `SendMessage`, module `Ioctl`. Every query of the code is a step
that may fail. `held` is what has been taken from the system: the name
information, the key's path (only where `CmCallbackGetKeyObjectIDEx` exists),
the reference to the process, its image's name, the message. `CopyUnicodeString`
that fails leaves an empty name which nobody tests, so the event is reported
with it. `Created` says in the terms of the operation what ought to be reported.

### EventCodec

Names are sequences of 16-bit words. `LenMod` stands for 2^16, by which the two
lengths are cut; `MaxName` for the longest name a `UNICODE_STRING` counts.
`wcsncpy` stops at a NUL and fills up with NULs, the second name is placed by the
length of the first, and a slot keeps what is behind a shorter message. The
service reads by the two lengths it finds. Since `MaxName < LenMod`, cutting
loses nothing: this is the assumption that carries the property, and it is that
`UNICODE_STRING::Length` has 16 bits as well.

### Communication and Service

A slot is idle, at the device, queued at the port, with a thread, or lost: a
request that fails, at once or later, is not issued again. The device answers
or fails requests as it likes. `DoCompleteRequest` leaves its loop on any error
but `ERROR_INSUFFICIENT_BUFFER`. Taken from Windows: `GetQueuedCompletionStatus`,
which is called without a time limit, fails without a packet only when the port
is closed or was never opened. Any other such failure would end a thread
without costing a slot, and `ThreadForEverySlot` would not hold.

`Service` instantiates `Communication`: the steps of `Start` and `Stop` are
enabled by the step of `ServiceMain` that calls them. The end of a process,
orderly or not, closes its handles and cancels its requests, and another process
may follow. The driver that was told to stop is unloaded when its device is
closed and no request is outstanding. The control handler's call of
`SetServiceStatus` reads the state in one step and sends it in another, and so
`ServiceMain` writes its last state and sends it apart; a handler may thus send
"running" after `ServiceMain` has sent "stopped". Where `ServiceMain` writes a state
while no control can come, the write and the call are one step.

### Pipeline

The two halves with nothing in between but `DeviceIoControl`: a slot is a
request of the driver, `Dispatcher` runs on the pool thread (or on
`ServiceMain`) that makes the request, and a completion puts a packet at the
port, before or after `DeviceIoControl` has returned. A message that is too long
ends its request in one of two ways, at once and without a packet
(`Dispatcher` has not marked it pending) or with a failed packet (`SendMessage`
answers a parked one); either way the slot is lost. Nothing in the module keeps
the driver from completing what `Communication` does not expect. `ActsAsDevice`
shows that every step, seen from the service, is a step of `Communication`: its
free device is what the driver really does. The module is one life of the
service's process: the service never cancels a request, and the end of its
process, which cancels those outstanding, is outside (`Ioctl` has cancellation
at any point). An event whose message is gone and
that was handled is raised again (`Over`), so that events never run out.

### InstallDb

One statement is one step, `++max_software_id_` is an atomic variable's
increment. An event is the image that caused it and the file or key it created,
both as the path conversions return them. An image is accepted or refused by
what its version resource says (`Filtered`, which module `VersionInfo` explains).
Every statement may fail and the process may die anywhere; the tables survive.
`done` is the set of events whose handling has ended, except where a failure from
outside ended it (`Fail`: no disk space, a file that cannot be opened) or the
process died, which loses the event, as in the code. A statement that meets what
another worker or an earlier process has inserted is not such a failure: an id
that is taken (`Taken`) would end an event that counts as done, and
`EveryEventRecorded` says that this loses nothing. Racing workers may insert one
image as several products; the first row of `asset` decides.

### PathConversion

Paths and device names are sequences of words, some of which differ in case only
(`Fold`). Drive letters are mapped, unmapped and remapped while the loop runs;
`kept` are the letters that were left alone since the call, about which the
properties speak. The device's name is compared as a prefix without its
separator, so a path on `HarddiskVolume10` may get the letter of
`HarddiskVolume1`. `RightDrive` says that this is the only way to a wrong letter, and
`LeadsBack` that even then the name leads back to the path, as long as the letter
stays where it is: a letter that is given to another device later gives another
file the same name. Of keys `KeysApart` says that no two share a name, and nothing
says that it is a name which the system knows (see the limits below).

### VersionInfo

A resource is any assignment of texts to tables. `QueryVersionInfo` tries its
caller's language and then the fallbacks, and it changes its caller's variables:
`lang` stays at the table tried last. `OneTable` says what this is good for
(the texts of one program come from one table), `NothingOverlooked` what it must not
cost (a fallback's text is found whatever was searched for before),
`MicrosoftRefused` which programs are refused. After a text that no table holds
the program's own table is not tried again; only the fallbacks are promised.

### SqlConnect and Logging

`SqlConnect` follows the library from `LoadLibrary` to the destructors, with a
library that is absent, lacks `CreateDriver`, or returns null for its driver or
its connection, and tables and ids that survive crashes. `GetConnection` reports
every failure as a null pointer, which `Connect` uses: the process ends there
(`Crash`). `Logging` has the `LogStream` that is built in place or moved, its
destructor under the mutex, and the stream's buffer.

## The runs

| run | instance | states | shows |
|---|---|---|---|
| `ioctl_cancel` | 2 clients, 2 senders, 3 requests, all cancellable, 3 messages (1 oversized), limit 1 | 111,053 | ownership of requests and messages and the refinement of `Rendezvous`, up to the first miss |
| `ioctl_uncancelled` | 2 + 2 threads, 2 requests, 5 messages (2 oversized), limit 1 | 91,390 | nothing is corrupted; the limit is exceeded by less than the number of threads |
| `ioctl_live` | 2 clients, 1 sender, 2 requests (1 cancellable), 2 messages (1 oversized) | 140,066 | calls return, cancelled requests complete, no message starves |
| `safe_list` | 3 threads (1 at DISPATCH), 3 nodes, 2 buffers | 81,845 | the FIFO refinement, size, IRQL, node ownership, no deadlock |
| `driver_parts` | 2 file threads, 2 registry threads, 2 clients; 1 object, 2 processes (1 nameless); words 0 and 1, names up to 3 words, lengths modulo 4, slots of 14 bytes | 22,728 | no use after free, nothing left; callbacks give back what they took and report what was created; events survive their way through a slot |
| `communication` | 2 slots, 2 threads, 3 events | 38,626 | buffers, packets, events, threads for the slots, and every event is handled |
| `pipeline` | 2 slots, 2 threads, 1 sender, 2 events (1 oversized), limit 1 | 89,445 | the driver is the device that the service expects, events are delivered once and get through |
| `service` | 2 slots, 2 threads, 1 event, any number of restarts | 24,118 | stop requests, status and the driver |
| `install_db` | 2 workers, 3 images (1 refused), up to 3 ids | 1,444,306 | the tables under races, failures and restarts |
| `service_parts` | 3 tables, 2 fallbacks; 3 letters, 3 devices; ids up to 4; 3 threads with 2 statements each | 1,650,930 | `VersionInfo`, `PathConversion`, `SqlConnect`, `Logging` |

Why these bounds. Ownership goes wrong between two parties and needs a third
thing to be confused with: two threads of a kind, three requests and three
messages let one be cancelled while a second is parked and a third arrives.
`kMaxDataListSize` is 1 instead of 1024, so that the limit is reached at once; with
two senders and two clients `Len(data_list) = 4` occurs, so the bound of
`DataListBound` is tight. SafeList's defects need the list empty, with one and
with two nodes. Four slots and threads (`kMaxThreadNum`) are symmetric, and every
interaction is between two of them. In `pipeline` two slots are the fewest of
which one can be lost and the other go on, and two events fill a list whose
limit is 1. `install_db` needs two products that race and a third
program that is refused; `Bounded` stops behind the third id: one for each product
and one after a restart. In `driver_parts` names reach the longest that `LenMod` can count, two
of the shorter ones fit a slot and two of the longest do not, and a name follows
a longer one. `service_parts`: the caller's table and two fallbacks are one
more than are needed to tell apart which table a search ended at; of the three devices one's name
starts the other's, and paths name them in another case; four ids span two
restarts; three threads let two wait for the mutex. Constraints: `Intact` stops
exploring where behaviour is undefined, `Bounded` bounds the ids. `CHECK_DEADLOCK
FALSE` is set where the system stops: after a bugcheck, after `Stop`, and
where a standalone part has done its work.

### Fairness

- `Ioctl`: threads inside the driver are scheduled (weak fairness). The cancel
  spin lock is a queued lock of the kernel, so that a waiting thread
  gets it (strong fairness on `Pend` and `PendCancelled`). Requests, events and
  cancellations are never obliged to come. `NoMessageStarves` assumes in its own
  statement that requests keep finding messages.
- `Communication`, `Service`: threads run, a process that has finished ends and
  a driver that can be unloaded is. Nothing obliges anyone to stop the service,
  nor the device to answer.
- `Pipeline`: the fairness of both halves, with the kernel's lock as above.
  `EventsGetThrough` assumes in its own statement that events keep being reported.
- None for the other modules: they state no liveness. An ordinary `KSPIN_LOCK`
  does not promise to serve everybody, so `SafeList` claims the absence of
  deadlock only, and `Ioctl` takes its operations as one step.

## What is proved

Everything below holds for all values of the constants that satisfy the named
assumptions, which TLC evaluates in the runs. Each module proves an inductive
invariant, `Init => IInv` and `IInv /\ [Next]_vars => IInv'`, from which the
properties follow. Every invariant and every action property of the runs is
stated by a theorem, and so is each of the two refinements.

### The assumptions

- `IoctlAssumption`, `CommunicationAssumption`, `ServiceAssumption`,
  `PipelineAssumption`: the sets of threads, slots and senders are finite,
  different things have different names, and there is a thread for every slot
  (both are `kMaxThreadNum`). The limit of a list is positive.
- `SafeListAssumption`, `DriverAssumption`, `CollectionAssumption`,
  `InstallDbAssumption` and `LogAssumption`: subsets are subsets, different things have
  different names, and the workers that record are finite in number.
- `CodecAssumption`: a `UNICODE_STRING` counts its length in as many bits as a
  message does, and a slot has room for the head of a message.
- `VersionAssumption`: there is a fallback language, and a text that is missing is
  none of the texts that a resource may have.
- `PathAssumption`: paths are full names. If a path starts with a device's name,
  it is on some device, whose name ends at a separator, and no device is on another; so
  the object manager forms the names that the file system reports. No name is both a
  file's and a key's, and a root has one prefix, as in the code's two.

### The rendezvous, `IoctlProofs`

For all sets of clients, senders, requests and messages (threads finite in
number) and every positive limit:

- `TypeCorrect`: the types and the agreement of registers with steps; this is
  inductive by itself.
- `MessagesHeldOnce`. The invariant `MessageInv` says for the whole set of buffers
  that what is allocated is held once. Actions are instances of a few moves (take
  charge, release, enqueue, dequeue), whose lemmas are proved once for any list
  and any two groups of threads and used for both requests and messages.
- `DataListBounded`. The property is not inductive, because a sender that has passed the
  size test pushes later. `BoundInv` counts, on top of the list, the senders
  about to push and the clients with a message they may put back.
- `RequestsHeldOnce`, `RequestsCompletedOnce`, `CancelRoutinesCorrect`. One
  invariant, `RequestInv`, ties them together: that only one party completes a
  request depends on who has its cancel routine, and the reverse. It needs `NoContext`:
  without a context there are no lists.
- `UncancelledSound`: where no request is cancellable, no cancel routine starts,
  hence nothing dangles, and `RequestInv` holds without its condition.
- `RendezvousImplemented`: every step is one of `Rendezvous` or leaves its state
  alone. The step that answers needs `RequestInv` (its request is still pending) and
  `MessageInv` (its message still exists).

`MessageInv` and `RequestInv`, the largest of these invariants, were checked
with TLC before they were proved.

### The list, `SafeListProofs`

The counter, the levels, the ownership of nodes and the whole refinement of
`FifoList` (`FifoImplemented`). `Guarded` says what the holder of the lock may
rely on, that `size_` is off only in its hands, by the one node it counts or by
the nodes it has cleared, and that `irql_` is the holder's; `Held` says, until a search misses, that each allocated node is in the
list, in a cleared batch or with one thread, once; `Filled` adds what the nodes'
buffers are, which the mapping of the list needs.

### The service's end of the device, `CommunicationProofs`

Slots, events and threads. `Places` ties `where` to packets and threads,
`Carried` each event to the one slot that has it, `Ports` says what a closed
port means; that enough threads remain is counted from them.

### The two halves together, `PipelineProofs`

`IInv` is the inductive invariant of `IoctlProofs` for the driver's half, that
of `CommunicationProofs` for the service's half, and `Link` between them: a
request that the driver has is one that the service waits for, and no event is
in both halves. Neither half is inductive alone, since each assumes something
of its environment: `Ioctl` that a request is not reused while something refers
to it, `Communication` that the device completes only what is pending. `Link`
is what makes the step of one half a step that the other one expects, and
each step of a half is then settled by the lemmas of that half's own module.

- `EventsDeliveredOnce`: no event is in the driver and in the service at once,
  and each that reached the service is handled once or still on its way.
- `DriverActsAsDevice`: `ActsAsDevice`, for any number of slots. So what is
  proved and checked about `Communication` with its free device covers this driver.
- `ServiceActsAsClient`: `Spec => D!Spec`, the service is one of the clients
  that `Ioctl` allows. With `ActsAsDevice` this justifies modelling the halves apart.
- `HalvesHold`: the safety properties of both halves, in the composition. That
  they need no condition there is because nobody cancels: it says nothing of the
  moment when the process ends, of which `RequestsHeldOnce`, `MessagesHeldOnce` and
  `RendezvousImplemented` speak.

### The service's life, `ServiceProofs`

`ControlsAreSeen` and `QuietWhenStopped`, with controls, failures and the death of
the process anywhere. `Handles` relates the step of `ServiceMain` to the stop
event, `Reports` what the SCM was told to the state, `Phases` says which part of
`Start` and `Stop` each step of `ServiceMain` may find, and `Joined` that `Stop`
leaves no thread. `STOPPED` is only quiet because of all of them together with
`Ports`: `ServiceMain` may also get there after a `Start` that failed half way.
`CommunicationHolds` carries the properties of `Communication` over to a
service that starts again.

### The driver's other parts, `DriverPartsProofs`

- Life cycle: the context outlives its use, and an absent driver has left
  nothing. `Staged` gives what each step of `DriverEntry` holds and each step of
  `finalize` has released, `Backed` and `Called` which part keeps the context and a
  running callback alive.
- Collection: all is given back and exactly the creations are reported.
  `HeldRight` gives the steps at which each resource is held, `Progress` what is
  known of the operation there.
- Layout: both names are read as they were written, and the lengths in a slot
  stay inside its buffer (`StaysInside`). `Holds` relates the slot to the last
  event word by word.

### Recording, `InstallDbProofs`

References, fresh ids, attribution, recorded events and final rows, over any
number of restarts. That no event is lost rests on the fresh ids. `Counted` keeps the counter above all ids, `Stored` says
what a worker's `software_id` refers to at each of its steps.

### The service's other parts, `ServicePartsProofs`

- `ProgramDescribed`. `Attributed` ties the texts to the tables they came from,
  `Searched` keeps what each search has left behind for the next: the table it
  found its text in, or that no fallback holds it.
- `PathsConvertedRightly`. `Passed` says of the letters behind the loop that they do not
  match as long as they stay mapped, `Chosen` that the letter taken is the first and
  what follows it the rest of the path, `KeyChosen` how a key was changed. A wrong letter
  (`RightDrive`) can only be that of a device whose name is shorter than the path's: the longer
  of two devices that both start the path would be on the other one. The lemmas
  say what a prefix without its case leaves of a name (`MatchesProperties`,
  `RestProperties`): that the parts put together again are the name is what
  `LeadsBack` rests on. `KeysApart` is proved from the roots: equal names have one
  root, that root one prefix, and what follows both prefixes is the same.
- `ConnectMakesReady` and `LibraryIsHeldRight`. `Loaded` gives what each step of
  `Connect` and of the destructors may find of library, driver and connection,
  `Connected` which statements have succeeded; ids are bounded, so there is a
  highest one to read.
- `LogIsFaithful`. `OneWriter` says how far the mutex's holder has come with its line
  in the buffer, `Streams` which `LogStream`s of a statement are left, `Counted`
  relates the lines in the file to the statements that are over.

### Only model-checked

Liveness, which the prover cannot do (no reasoning about `ENABLED` and
fairness): `CallsReturn`, `CancelCompletes`, `NoMessageStarves` of `Ioctl`,
`EventsHandled` of `Communication`, `StopHonoured` and `DriverLeaves` of `Service`,
`EventsGetThrough` of `Pipeline`; and the absence of deadlock. That each half of
`Pipeline` keeps the other's fairness is not claimed.

## Limits of the code that the models keep

No document of the repository promises otherwise, so none of these is stated
as an error; the properties hold with them.

- A search that misses (`safe_list.h:64`) ends what can be said about `irp_list`.
- `Dispatcher` and `SendMessage` may each find the other's list empty, and a
  message and a request wait side by side until something else happens.
- A message longer than a slot costs the slot it is given to. As many of them as
  there are slots make the service deaf.
- A connection that cannot be made ends the process instead of being reported.
- Racing workers, and failures between the two inserts, leave products without
  an image in `app`.
- A program whose version resource has none of the texts is recorded, with empty fields.
- `\REGISTRY\USER\` is written as `HKEY_CURRENT_USER\`
  (`srv/install_monitor.cc:82`), although the system means one of the keys below it
  by that name: such a name in the database is not the key's own.
- A control handler may tell the service control manager "running" after
  `ServiceMain` has told it "stopped"; it stands until the process has ended.

Hazards for which there is no property: what follows after a search that misses
(`drv/safe_list.h:64`); a message and a request that wait side by side
(`drv/ioctl.cc:98`), which the code allows; the context that `finalize` deletes behind a
cancel routine (`drv/ioctl.cc:153`) and buffers that the service frees before its
requests are cancelled (`srv/ioctl.cc:57`), where what Windows does is taken as
given; a filter that is unregistered twice (`drv/file_monitor.cc:15`); a log file that cannot
be opened or written (`srv/log_util.cc:32`); the constant `kMaxIrpListSize`
(`drv/ioctl.cc:12`) is never used; the status of a completed request is read
(`drv/ioctl.cc:111`), which only changes a return value; the symbolic link is deleted
by name (`dev.cc:54`), which takes a second driver to matter; the null connection
(`sql_helper.cc:9`) is in `SqlConnect` as what it is, the end of the process.

## Not modelled

- The statements, result sets and values of `src/include/sql` are abstract
  classes in front of a binary driver that is not in the repository; what SQLite does
  to one statement is taken as atomic.
- What the driver writes into the service's buffers between their release at
  the end of the process and the cancellation of the outstanding requests.
- Several instances of the driver at once.
- The wording and formatting of the log, the place of its file, and the parsing
  of `logger.ini`; the level may be any. The log's stream is one that works.
- The end of the service's process within `Pipeline`.
- Build and deployment files, which hold no state of the running system.

## Order of the work

The rendezvous and the list came first, because everything passes through them;
then the recording, the service's end of the device, the two life cycles; then
the abstract promise of the rendezvous, the composition of both halves, the
callbacks and the sequential parts; proofs followed each module. Of this plan
nothing is left: every safety property and every action property that a run
checks is proved. What could be added is a composition of `Service` with
`Driver` and `Ioctl`, for the moment when the process ends with requests
outstanding.
