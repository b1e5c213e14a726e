# A verification project for the core Flight Executive

The core Flight Executive (cFE) is the run-time environment of NASA flight
software: it starts applications, lets them exchange messages, manages their
parameter tables, their events and the spacecraft time, and keeps data for them
over a processor reset. This directory holds TLA+ models of its parts, the TLC
configurations that check them on small instances, and proofs about them
that the TLA+ proof system (TLAPS) checks. It is written from the source under
`src/modules`; paths below are relative to that directory.

1. [How cFE works](#1-how-cfe-works)
2. [Inventory](#2-inventory)
3. [Modules and how they correspond to the code](#3-modules-and-how-they-correspond-to-the-code)
4. [Runs: questions, bounds, fairness](#4-runs-questions-bounds-fairness)
5. [Proofs](#5-proofs)
6. [Disagreements between code and documents](#6-disagreements-between-code-and-documents)
7. [What is not covered](#7-what-is-not-covered)
8. [Plan](#8-plan)

## 1. How cFE works

One image holds cFE, the operating system abstraction (OSAL) and the platform
support (PSP). Each core service (ES, EVS, SB, TBL, TIME) has a task that
serves its commands, and a library of functions that every task of every
application calls directly. So the state of a service is a set of global tables,
written by many tasks at once under one mutex per service, and nearly every
operation is a sequence of regions under that mutex with calls of OSAL, of the
PSP or of another service between them. What one region reads may have changed
by the next one: this is where the difficulty of the code lies, and all models
take a locked region, or one call outside of it, as one action.

Three mechanisms recur:

- *Resource ids.* A table entry is named by an id, a serial number whose value
  modulo the table size is the index of the entry. An entry in transition
  carries the id RESERVED; the next id is the first serial after the last one
  whose entry is free (`resourceid/fsw/src/cfe_resourceid_api.c`). Old ids do not match an
  entry that was given away anew. Each model has the ids with serial and slot.
- *Ownership by application.* A resource records its application, and when
  an application stops, ES has each service give back what it owned.
- *Background work.* A task of ES runs jobs in small portions: the scan of the
  application table, dumps of the performance log, file writes of FS.

## 2. Inventory

| Part | State | Operations | What is hard |
|---|---|---|---|
| SB core (`sb/.../cfe_sb_api.c`, `cfe_sb_priv.c`, `cfe_sb_buf.c`) | pipe table, routes and destinations, message buffers with use counts, gauges; OSAL queues | create and delete pipe, clean up, subscribe and unsubscribe, enable and disable route, transmit, receive, zero copy | queue operations run unlocked, between two locked regions: a pipe may be deleted, and its entry reused, in between |
| SB task (`cfe_sb_task.c` ...) | counters | commands, files, reports of subscriptions | little: reporting |
| SBR (`sbr`) | hash map of message ids, route table | add, look up, walk | probing in a full map |
| TBL load and activation (`tbl/.../cfe_tbl_internal.c`, `cfe_tbl_load.c`, `cfe_tbl_regrec.c`, `cfe_tbl_loadbuff.c`, `cfe_tbl_validation.c`) | registry records with active, previous and next buffer ids; own and shared load buffers; access descriptors; validation results | load, validate, activate, abort by command; CFE_TBL_Load, Update, Validate, Manage, GetAddress, ReleaseAddress | buffers are filled and validated unlocked; readers hold pointers into buffers; ground and owner act on the same load |
| TBL registry (`cfe_tbl_registry.c`, `cfe_tbl_accdesc.c`, `cfe_tbl_transaction.c`, ...) | registry, linked lists of access descriptors, critical registry and its copy | register, share, unregister, clean up, delete the store of a critical table | a table whose owner is gone while others share it; an image and an entry that two copies keep, over resets |
| TBL dumps (`cfe_tbl_dump.c`, `cfe_tbl_dumpctl.c`) | dump control blocks, shared load buffers | dump by command, snapshot by the table task or, for a dump-only table, by its owner, file by housekeeping | a request passes between two tasks and housekeeping; owners change dump-only tables in place |
| ES critical data store (`es/.../cfe_es_cds.c`, `cfe_es_cds_mempool.c`, `cfe_es_generic_pool.c`) | registry and pool, half in RAM, half in memory that survives a reset | boot, register, resize, copy, restore, delete | a reset between any two writes; writes that fail |
| ES applications (`cfe_es_apps.c`, `cfe_es_api.c`) | application, task and library tables, counters; OSAL tasks | start, load library, create and delete child task, exit, request stop or restart, scan, clean up | creation and clean up in several regions, by different tasks, about tasks that run meanwhile |
| ES performance log (`cfe_es_perf.c`) | ring of entries in memory that survives a reset, trigger state, states of the dump | add an entry, start, stop with dump | the stop takes no lock; the dump holds the mutex over several turns of its task |
| ES background task (`cfe_es_backgroundtask.c`) | a table of jobs | run each for a while, wait | jobs that share a task and must not hold it up |
| ES memory pools, system log, reset counting | see the plan | | log kept over resets; counters at limits |
| EVS (`evs`) | switches, filters and tokens per application, log ring in memory that survives a reset | send, register, filter, commands, write the log, clean up | filter counters changed without a lock; a reset between two writes of the log |
| TIME (`time`) | reference state in four buffers, tone and data packet states | get time, tone and data packets, commands, local interrupts | readers without a lock and with limited retries; tones and packets lost, late or doubled; a clock that rolls over |
| FS (`fs`) | queue of file writes, the file that is open | request, run in background | flag read without the lock, ring counters that come round |
| Resource ids, MSG, configuration registry | none or constant | pure functions | - |

Parts call each other in few ways. ES calls the clean up of SB, TBL, EVS and TIME
when it stops an application; TBL keeps critical tables in the CDS of ES; all
services use ES to find out which application calls, and EVS, SB and TIME for
telemetry.

What makes each part correct:

- **SB**: a buffer returns to the pool when, and not before, nobody can reach it;
  depths and limits agree with the queues; no destination names a pipe that is
  gone; a deletion and a clean up leave nothing; every call that does not wait ends.
- **TBL**: only images that the validation function accepts become active; an
  image does not change under a reader; a load buffer has one load; validations
  and activations that were accepted are carried out; a sharer is told of updates; a dump is an image the table had.
- **CDS**: whatever reset or failing write comes when, blocks neither overlap nor
  leak, the registry a boot finds is the one that was in use, and what is restored
  is what was copied.
- **ES applications**: tables, counters and OSAL agree; no task outlives its
  application; a stop is carried out whatever the application does, nobody is
  stopped otherwise, a restart brings the application back.
- **Performance log**: a dump is the last entries, in order, with the trigger where the mode
  wants it; every dump ends and gives the mutex back.
- **EVS**: the log keeps all events in order over resets; no application floods the
  ground, and it is told when it tries; a locked filter stays locked.
- **TIME**: a reader gets data that belong together; the time at the tone is that of the
  right tone, or the clock says that it flies.
- **FS**: each request is served once, none is overwritten.

`PROJECT.json` lists the hazards of the code at their lines, with the properties
that would catch them.

## 3. Modules and how they correspond to the code

| Part | Specification | Abstract specification | Instances | Invariant and proofs |
|---|---|---|---|---|
| SB core | `SoftwareBus` | | `SoftwareBusMC` | `SoftwareBusInv`, `SoftwareBusProofs` |
| TBL load, activation and dumps | `TableLoad` | | `TableLoadMC` | `TableLoadInv`, `TableLoadProofs` |
| TBL registry and critical tables | `TableRegistry` | | `TableRegistryMC` | `TableRegistryInv`, `TableRegistryProofs` |
| CDS | `CriticalDataStore` | | `CriticalDataStoreMC` | `CriticalDataStoreInv`, `CriticalDataStoreProofs` |
| ES applications | `EsApps` | | `EsAppsMC` | `EsAppsProofs` |
| EVS | `EventServices`, on `EventLog` | `EventQueue` | `EventServicesMC` | `EventServicesProofs` |
| TIME, readers of the reference | `TimeReference` | `TimeRegister` | `TimeReferenceMC` | `TimeProofs` |
| TIME, tone and packet | `TimeTone` | | `TimeTone` | `TimeProofs` |
| ES background task with performance log and file writes | `BackgroundTask`, which composes `PerfLog` and `FileDump` | | `BackgroundTask` | `BackgroundTaskProofs` |

Definitions keep the names of the code. The lines each one stands for are in
`PROJECT.json` under "map". Beside them each module has definitions that the specification does
not use, marked "Faulty": errors a change of the code could make (a dropped guard, a missing
reset, a swapped order). With one of them put in place of its original, the
run named in `PROJECT.json` under "mutants" finds the property violated.

### SoftwareBus

`PipeTbl`, `LastPipeId`, `PipesInUse`, `SubscriptionsInUse` are the members of
`CFE_SB_Global`; `Routes`, `Dests` and `Dest` are what SBR keeps; `Buf` has for
each buffer its use count, owner, list and message id; `Queue` and `QueueDepth`
are the OSAL queues, named by the id of their pipe. `pc[t]`, with `zc`, `cur`,
`pid` and `targets`, is where task t is in a call and what its local variables
hold. `cleaning`, `todo` and `gone` say which application is being cleaned up.

A creation is `CreatePipe` (the entry becomes RESERVED) and `CreatePipeDone` or
`CreatePipeFail`, the OSAL call with the region after it; a deletion is the removal of all routes, the
drain of the queue, OS_QueueDelete and the release of the entry; a transmission is
one locked region that finds the destinations and counts a reference for each,
one `QueuePut` for each of them in any order, the region `UndoPut` for every write that failed, and
the release of the sender's reference; a reception is a get, then the region that makes the buffer
the last one of the pipe.

Abstracted: a destination list is a set (its order is planned), validation and
the search for destinations are one region, sequence counts and error counters are
left out; freed memory is a blank buffer. `Queue` goes on holding what was on a
queue when OS_QueueDelete threw it away, so that the accounting of references is a plain
count. The clean up assumes that the tasks of the application no longer
call SB (ES deletes them after it, see the plan). A pipe has one receiver
at a time (the code relies on it, `cfe_sb_priv.c:1359-1374`), and a task
has at most one zero-copy buffer unsent.

### TableLoad

`Active`, `Prev`, `Next` and `PendingVal` are the buffer ids and the validation
request of a registry record; `Buffers` are the load buffers, two places for
each table and the shared ones, with id, `IsValid`, `ActivateReq` and content; `Acc` are
access descriptors, `Val` the validation results, `LastLoadBuffId` the
serial of the shared buffers. `ptr[a][t]` is history: the buffer into which
application a holds a pointer. `op[p]` is the call task p is in.

A ground load is: find or reserve a buffer (locked, `LoadCmd`), open and read the file (`ReadBegin`, `ReadEnd`; the buffer passes
through `Junk`), set the flags from the file's header (`SetMetaDataFromFileHeader`: valid only without a validation function, not asked to be
activated), all but the first without the lock. Each of these steps looks the buffer of the load up again, so that an update or a verdict
between them counts. Validation is a
request, taken up by the owner's CFE_TBL_Manage, which runs the validation
function unlocked and reports (locked); so is activation. CFE_TBL_Load and
CFE_TBL_Update (`Api`) do it all in the owner's task.

A dump takes a control block (`DumpControlBlocks`, locked) and a shared buffer (unlocked). The table task copies at
once, and unlocked, the buffer whose id the block has; for a dump-only table it leaves the block in `DumpControlId` to the owner, whose
CFE_TBL_Manage copies under the lock (`DumpToBuffer`). `SendHkCmd` writes and frees what was copied. The owner of a dump-only table
writes to it in place (`Modify`, `Modified`), which is external to cFE, and passes through `Junk`.

An image is a model value, in `Good` or not. Serial numbers repeat after
`Wrap` turns where the code's repeat at CFE_RESOURCEID_MAX. `Patient` is an
assumption on operators: the ground awaits the
result of a validation before it sends the next command. Left out:
tables at an address of the application, critical tables, registration, and the clean up of the dumps of an application.

### TableRegistry

`Registry`, `Handles` and `CritReg` are the arrays of CFE_TBL_Global, `Link` the Next and Prev of access descriptors
and of the AccessList of each record, `pool` the room for buffers; `SavedCritReg` and `Cds` are the copies in the
Critical Data Store, one store for each name. `op` is the call that holds the registry's mutex between its copies to the store,
`copying[a]` an application that copies, or loads, without the mutex (CFE_TBL_Modified, CFE_TBL_Load), `deleting` the command between the
deletion of a store and that of its entry. `may` is history: the images that a registration of each name may recover.

A registration takes a record, a descriptor and buffers in one locked region (`Register`); for a critical table
`RegisterCds` gets or makes its store and restores its image, and `RegisterWithCriticalTableRegistry` takes an entry for it. `Release` is
the same for `Unregister` and for each turn of `CleanUpApp`. An update is three steps: the image becomes active, is copied to the store, and the entry
is saved. `Reset` may come at any of them, and tears the copy it falls into.

Entries are named by themselves: an id of a former use of an entry is refused before anything changes. An image is
a model value; how it was loaded and validated is in `TableLoad`. StopApp assumes that the
application makes no more calls. Left out: dump-only tables, tables at an address of the application, and the second registration by
an owner, which returns the handle there is.

### CriticalDataStore

`Marks`, `SavedRegistry`, `Desc`, `Crc` and `Data` are in the memory that a
processor reset keeps: signatures and sizes, the registry's image, block descriptors,
and of each block the header and the data. `Registry`, `TailPosition`
and `FirstOffset` are in RAM. A mutex serialises the calls; the adversary is the reset
(`Reset`, at the steps in `Resets`) and the failing write (at the steps in
`Fails`). An action ends with at most one write to the memory, and a reset in the middle of a
write leaves torn data, or any subset of the registry records; records,
headers and descriptors are written whole, and a write that fails leaves
memory as it was. `CriticalDataStoreInv` adds the variable `whole`: no registration, resize or
deletion was cut short so far, the condition under which the fate of data and blocks is promised. A boot is `Validate` and, if the memory is not accepted, the steps that format it
one by one; then `Rebuild` of the free lists from the descriptors.

The checksum of data is the data: a CRC without collisions. An application
has one store; to register again with the same size, or with arguments the code
refuses, changes nothing and is left out, as are counters and
the direct registrations of TBL.

### EsApps

`AppTable`, `TaskTable`, `LibTable` and the two counters are the tables of
`CFE_ES_Global`; `os` is OSAL's view of every task: none, before its first
delay ends (`Entry`), running, creating a child (`Start`, `Record`), leaving
(`Exiting`, `Exited`). `create[c]` is the start in progress at loader c, a command or the
start-up script, or at the background task for a restart; `bg` is where the background task is
in its scan and clean up. `told` and `waited` are history: the last request, and the
scans since it.

A start is: reserve an entry (the name is checked), load the module, create the task,
write the task record, publish the application. A clean up is: take the request, list
the tasks, one by one sweep what they created and delete them, free the
records; then, if so asked, start anew. `Ask` stands for commands and API
calls that stop or restart, a reload being a restart with another file. `RunLoop`,
`ExitApp`, `Return` and the child task calls are what applications do.

INIT stands for all states before RUNNING. A deleted task is not inside a locked region of ES.
`Prompt` is a timing assumption: a new task does not get through its first calls before the call that
creates it returned, and no child is in creation when its application is
cleaned up. Left out: core applications, the clean up in other services, memory
pools, counters by id, files.

### EventServices, EventLog, EventQueue

`data[a]` is the record of an application (EVS_AppData_t), one filter of it and its tokens;
`call[t]` is where task t is in CFE_EVS_SendEvent or CFE_EVS_SendEventWithAppID; `log` is the ring in
the reset area; `writing` is the EVS task at the file of the log, its mutex taken and given.
A filter is three steps: a look at the counter (`EVS_IsFiltered`), its
load and its store, since the code takes no lock for them. The tokens
(`EVS_CheckAndIncrementSquelchTokens`) are a locked step, after which the event about the flood is sent.
`AddLogUpTo` adds an event to the log word by word, `ClearLogUpTo` clears it in the same way; `ProcessorReset` may come after any of the words, and
keeps what `Restored` (CFE_EVS_EarlyInit) accepts. A log that is not accepted is cleared, which a further reset may cut short in turn. The
log begins as a power-on boot that was completed leaves it.

`EventQueue` is what the log promises: a bounded queue. `LogIsQueue` maps the ring to the sequence of
its entries from the oldest, and a log that a reset left in the middle of an addition or a clear (`spoilt`) to the spoilt queue; one that is empty by its
three words (`Emptied`) is an empty queue whatever is in its entries. `allowance`
is an ideal bucket of tokens, the reference definition for the rate; `squelching` says that the last event was
dropped for it. Both are kept for EVS as well, whose events about floods are charged to its own account.

Token counts, masks and the counter's limit are small; time passes as `elapsed` of an account. Left out:
ports, formats, packets, counters in telemetry and the file of application data.

### TimeReference, TimeRegister, TimeTone

`TimeReference` takes every word of shared memory as one step. The TIME task clears the version of the next
buffer, writes the words that change, and publishes the version (`StartReferenceUpdate`, `WriteWord`,
`FinishReferenceUpdate`). A reader takes the last version, latches the clock, copies word by word, and compares
versions (`GetReference` ... `ReturnReference`). `TimeRegister` is the abstract specification: a register
written in one step. The refinement maps its value to the buffer last published; `during` holds the values
published since a read began, one of which the read must give. Memory is sequentially consistent; the code has
no barriers.

`TimeTone` has true time `now`, whose whole seconds are the tones, and a local clock that rolls over at `MaxLocal`. `ref` is the reference
of one node, `tone` and `prev` are what CFE_TIME_ToneVerify compares, `packets` are data packets on their way. Tones may
not strike; packets may be lost, wait for up to `MaxDelay` and be handled twice. The node is a server, which
counts tones (`VirtualMET`), or a client, which believes packets. `synced` and `missed` are history: whether what
the node was told suffices to know the time (`Informed`). The packet follows its tone
(CFE_MISSION_TIME_AT_TONE_WAS) and tones are hardware tones. `RollOverAssumption` relates the start of
flywheeling and its updates to the range of the local clock; without it no code could tell the time.

### PerfLog, FileDump, BackgroundTask

`MetaData`, `DataBuffer` and `PerfDataMutex` are the log, `adding[t]` is where a task is in
CFE_ES_PerfLogAdd: the look at the state without the mutex, the entry, the trigger and its count with it. `dump` is the
state machine of the dump; a step is one iteration of its loop, which enters the pending state and then finishes
it or writes a block. An entry is its number in the capture. `capture` is history: what was recorded, which entry was the trigger, whether the log stopped itself, and whether a
reset cut the last entry short; `file` is the content of the dump until the mutex is given back.

`Entries`, `RequestCount`, `CompleteCount` and `IsPending` are the queue of file writes. Requests are one step:
the flag, which is read before the lock, is only raised by the task that owns the object.

`BackgroundTask` interleaves the two jobs in the turns of their task with writers, commands, requests and
resets. Work credits are a choice: a turn may end after any iteration, and must at the delay of the dump. A dump that wants the mutex
waits for it and keeps its turn.

## 4. Runs: questions, bounds, fairness

Times are those of two workers on a small machine. Deadlock is checked in all runs but `time_ref`
and `time_tone`, where time is bounded and a behaviour ends at its bound.

| Run | Question | Instance | Distinct states |
|---|---|---|---|
| `sb_reuse` | Do use counts and depths stay exact when pipes follow each other in one table entry? Does every call end? | 3 tasks of 2 applications, 1 entry, 2 serials, 2 buffers, depth 1, fair | 245 thousand, 1 min |
| `sb_fanout` | The same with one message on two pipes: is the message limit kept, is a clean up complete? | 2 tasks, 2 entries, depth 2, limit 1 | 1.7 million, 75 s |
| `tbl_ops` | Are only valid images activated? Is the shared load buffer owned, the reader's image stable, an update noticed, a dump true? | a single buffered table with a validation function and a dump-only one, 1 shared buffer and control block, patient ground without aborts | 2.1 million, 85 s |
| `tbl_live` | Are validations and activations carried out? | 1 double buffered table, impatient ground, aborts, owner loads and updates itself, reader that never lets go, fair | 370 thousand, 70 s |
| `tbl_registry` | Are records, handles and buffers given back with the last handle and not before? Is the right image recovered? | 2 applications with a critical table each, one double buffered, 3 descriptors, 1 critical entry, 1 store, resets at any step | 1.2 million, 100 s |
| `cds` | Do pool and registry stay sound, and is what was copied what is restored? | 3 stores, 2 entries, blocks of 2 and 3, pool of 8, three sizes, 2 values, resets at any step, failing writes but of the registry | 819 thousand, 90 s |
| `es_tables` | Do tables, counters and OSAL agree? | 2 names, one a library, 2 loaders, 2 applications, 2 tasks, failures, children, `Prompt` | 2.8 million, 70 s |
| `es_live` | Is a stop or restart carried out, and nothing else? | 1 name, 2 entries, 3 tasks, children that return, not `Prompt`, fair | 358 thousand, 70 s |
| `time_ref` | Does a reader get data that belong together, with a clock latched after their tone? | 1 reader, ring of 2 buffers, 2 retries, 6 updates | 2.3 million, 22 s |
| `time_tone` | Is the time right, or does the clock say that it flies? | seconds of 3 ticks, a clock that rolls over after 14, start of flywheeling after 2 seconds, 8 seconds | 5.0 million, 33 s |
| `evs` | Is the log a queue that outlives resets, the rate bounded, a flood announced once, a file told whole whole? | 2 tasks of one application, log of 2, burst of 1, an event costs 2 units of time | 2.6 million, 80 s |
| `es_background` | Is a dump the window that its mode promises, are file writes served once, do both jobs end? | 2 writers, log of 4, 5 records, 3 writes on a queue of 2 places, fair | 815 thousand, 2.5 min |

**Why the bounds are enough.** A table of two entries with serials up to 2 or 3 has every kind
of succession: an entry in use, in transition, reused, and an old id that
points into the entry of a new one. Two tasks, or one and the background, suffice for each
hazard listed; the third task of `sb_reuse` lets a sender, a receiver and a
deletion overlap. Queues of depth 1 or 2 and limits of 1 are full after
one message. In `cds` the pool of two small blocks and one large shows a full pool, reuse, a
request too large, the room at its end too small for one size and enough for the other, and two sizes in one bucket, so that
header and record can differ. Three descriptors give lists with a first, a middle and a last handle; with one critical entry
and one store between two tables, each is refused, reused by the other table, or left with a stale entry. `KillTimeout` is 1: longer ones are more scans of the
same kind. Tables need no more than two loads before the start (`Loaded`, `Reloaded`)
to have used each of their two buffers. The one shared buffer of `tbl_ops` is wanted by the loads and dumps of one table and the dumps of another. A reader of the reference with two retries on a ring of two buffers meets
every outcome of a comparison, and four buffers only make collisions rarer. The local clock of `time_tone` rolls over twice in the
time that is modelled, in and out of flywheel mode. A log of two
or four entries wraps around with the third or fifth.

**Symmetry** is used for names and values that nothing orders: buffers and the two
tasks of `sb_fanout` with their applications, names and data of the stores, records, descriptors and images of
`tbl_registry`, names and loaders of applications, the tasks of `evs`, the valid images of `tbl_ops`. Runs with liveness properties have none; `sb_fanout`, `tbl_ops`,
`tbl_registry` and `evs` have temporal properties about single steps only.

**Limits of the model, by name.** `MaxSerial` (pipes created), `MaxAppId` and
`MaxTaskId` (applications and tasks started), after which creation is refused as with a
full table; `Wrap`, after which the ids of buffers and control blocks repeat, the latter not while a table has them; `MaxStores`, ids of stores that exist at once; `MaxVersion` and `MaxClock`
(updates of the reference, ticks that a reader can tell); `MaxNow` and `MaxDelay` (true time, and how long a packet waits); `MaxCommands`
(commands to EVS); `MaxRecords` (entries of a capture); `CountMod`, after which the counts of file writes come round.
No other counter is cut off.

**Fairness.**

- `SoftwareBus`: a task inside a call that is not a wait goes on (weak fairness
  of `Continue(t)`): the scheduler runs it and neither OSAL nor the mutex holds it
  for ever. Nothing says that tasks call, or that messages come.
- `TableLoad`: the same for calls; and the owner calls CFE_TBL_Manage for
  each of its tables again and again, as the documentation of TBL asks of
  every application, which is strong fairness of `Manage`: the owner is inside other
  calls in between, which disables the action.
- `EsApps`: the background task runs (its loop waits with a timeout,
  `cfe_es_backgroundtask.c`), and a start goes on. None for tasks of
  applications: `RequestServed` holds although they never call ES again.
- `BackgroundTask`: the background task goes on with what it is at, and a writer that holds the mutex of the
  performance log gives it back (weak fairness). Strong fairness, since others disable these steps again and again, of the turn of the dump,
  which gets credit with time, and its mutex in the end; and of the end of a file after finitely many
  records. Nothing says that applications write entries or ask for files.

**Assumptions that properties need.** `OnlyValidActive` holds
for a patient ground that does not abort, and owners that do not load by themselves;
`ReaderStable` and `PendingImageStable` for tables that can be loaded, were loaded twice and owners that do not load by themselves;
`WholeBlocksOwned` and `WholeCopyRecovered` until a registration, a resize or a deletion is cut short by a reset or finds no
block; `LastImageRecovered` excepts tables that got the entry of a deleted one, and images whose copies overlapped; `NoSpuriousStop`
and `NoOrphan` are for prompt creation; `CountersExact` is if no child returns without CFE_ES_ExitChildTask; `LogIsQueue` promises
the bounds of the ring only, once a reset cut an addition or a clear short; `MetTrue` is for a node that was told enough to know the time (`Informed`); `PendingExact`
is for file objects of one task each. Each of them fails without its assumption, and section 6 says how.

`ActivationPerformed` is stated for double buffered tables: readers that overlap
can hold a single buffered table for ever.

## 5. Proofs

`tlapm` checks eight modules: `SoftwareBusProofs`, `TableLoadProofs`, `TableRegistryProofs`, `CriticalDataStoreProofs`, `EsAppsProofs`,
`EventServicesProofs`, `TimeProofs` and `BackgroundTaskProofs`. Each has the inductive invariants it needs at
its head or before their first use (those of `SoftwareBus`, `TableLoad`, `TableRegistry` and `CriticalDataStore` are in modules of their own), and, for each action that does more than one thing, a lemma about
what it does or keeps.

Software Bus:

- `SoftwareBusProofs!TypeCorrect`: `Spec => []TypeOK`, for any tasks,
  applications, buffers, pipes and messages. `TypeOK` alone is not inductive: a step of a
  multi-step call uses locals that an earlier step set, so that it would write to a
  pipe UNDEFINED or a buffer `NoBuf`. `CallLocals` says of each point of a call what
  its locals are; `TypeOK /\ CallLocals` is inductive. One lemma for each action.
- `SoftwareBusProofs!DestinationsLive`: `Spec => []NoDanglingDest`. A destination
  could be left behind if the table entry of its pipe were freed or handed out
  by another call, which `SlotOwned` (layer 2) excludes: an entry in transition is RESERVED and
  has one owner. Both are inductive together with layer 1. Most
  actions are dealt with by one lemma (`Frame`); that the next id has a free entry
  (`NextIsFree`) needs the least element of a set of numbers, by well-foundedness.
- `SoftwareBusProofs!UseCountsHold`: `Spec => []UseCountExact`. The invariant (layer 3, `Accounting`) counts who holds a
  buffer: calls, unsent zero-copy buffers, writes that were announced, queues, and the last buffer of each pipe. What makes it inductive is that no
  two of them are the same: a queue has a buffer once (`NoDuplicates`, theorem `QueuesWithoutDuplicates`), a pipe one receiver
  (`ReceiverAlone`), and a route no more destinations than a counter can count (`RouteBound` and the assumption on `MaxUseCount`).
- `SoftwareBusProofs!SlotsHold`: `Spec => []SlotsExclusive`. Layer 4 has the other direction of `SlotOwned`: an entry is RESERVED only while a call holds
  it, and an OSAL queue is there only for a pipe that is live or in deletion.
- `SoftwareBusProofs!DepthsHold`: `Spec => []DepthExact`. Layer 5: to an id that is not handed out yet, or whose pipe is being
  created, nothing has happened, so that depth 0 of a new pipe is right although the table entry had another pipe before.
- `SoftwareBusProofs!BuffCountsHold`: `Spec => []BuffCountSound`. What is on its way through a pipe for a route is split in three, messages in the queue, writes
  that were announced, and messages received whose count is still to be lowered; each step moves at most one message, in or out of one of the three. A buffer
  that somebody can reach keeps its message id, so that the count that is lowered is the one that was raised: that follows from `UseCountExact`, since only a buffer
  with one reference is handed out or named anew.
- `SoftwareBusProofs!CleanUpsComplete`: `Spec => CleanUpComplete`, an action property. `CleanUps`: the tasks of an application that is cleaned up are in no
  call, one task cleans up each, every pipe the application still has is on the list that was made of them, and what else carries its ID is
  a buffer that was never sent and has one reference, which the last step gives back.

Table Services, for any numbers of tables, applications, accessors, buffers and ids:

- `TableLoadProofs!TypeCorrect`: `Spec => []TypeOK`, without any hypothesis. Every id that is given out names a buffer, whatever the
  remainders; `CallsTyped` says what a call knows at each of its places.
- `TableLoadProofs!BuffersOwned`: `NoLoad /\ Spec => []SharedBuffersOwned`. `PlaceInv` says where calls can be; that a load in progress has its
  buffer, a shared one or the next of its table (`RecordsSound`); that a shared buffer has one holder, a load or a dump (`OneHolder`); what the second
  region of CFE_TBL_AbortLoadCmd may find (`AbortSound`); and which dump control block is whose (`BlocksSound`, `DumpSound`, `DumpsLinked`).
  An abort frees its buffer after it let go of the lock: `AbortSound` says that nobody can have taken it since, as only the table task gives shared buffers
  out while no application calls CFE_TBL_Load.
- `TableLoadProofs!UpdatesNoticed`: `NoLoad /\ Spec => []NoMissedUpdate`. It is inductive with `PlaceInv`.
- `TableLoadProofs!DumpsTrue`: `NoLoad /\ Spec => DumpTrue`. `OwnInv` adds that the image of a dump-only table is whole except while its owner changes it
  (`ImagesWhole`), and that its snapshots are (`SnapshotsWhole`).
- `TableLoadProofs!ActiveValid`: `Waits /\ Spec => []OnlyValidActive`. `WaitInv` says that the table task does nothing while a validation is under way
  (`TaskWaits`), that there is one at a time, on a buffer that its table still has (`OneRequest`), that a load is not valid while its file is read and that an owner that is about
  to update has what is to become active (`LoadsSound`); and that what is valid, or was found valid and is not marked yet, is accepted (`ValidSound`).
- `TableLoadProofs!PendingKept`: `Waits /\ Spec => PendingImageStable`, from the same invariant: of all that writes to buffers, a load takes one that
  nobody has, a file is read into a load that is not valid, and a commit writes to its own table.
- `TableLoadProofs!ReadersStable`: `Waits /\ LoadedTwice /\ Spec => ReaderStable`. `ReadersInv`: the address of a reader is a buffer of the table that it has
  locked, in use, and neither the next to be filled nor the one of the load. That ids come round is what could break it; two turns of the buffers do not
  (lemma `Turns`, `Wrap` of at least 2).

`NoLoad` (no application calls CFE_TBL_Load), `Waits` (the ground awaits validations and aborts nothing, owners call neither CFE_TBL_Load nor
CFE_TBL_Update) and `LoadedTwice` (a table that can be loaded has two buffers or was loaded twice) are conditions on constants, which the run `tbl_ops` fulfils. Each is
there because the code breaks the property without it: CFE_TBL_Load works without the lock, `Patient = FALSE`, aborts and CFE_TBL_Update let images become active that nobody validated, and
the buffer of a single buffered table has no id after its first load (section 6).

Table registry, for any numbers of applications, records, descriptors, names and blocks, and any resets:

- `TableRegistryProofs!ListsHold`: `Spec => []ListsSound`. The list of a record is a ring in both directions through all its handles. That it reaches
  all of them is not a statement about steps along it but about sets: in every set of its handles that is not
  empty there is one whose successor is not in the set. In this form the insertion and the removal of a link keep it. `RingsInv` adds what the region that inserts or removes relies on:
  an entry that is not in use is as new (`EntriesInv`), a call is of an application that has a handle on the record (`CallsInv`).
- `TableRegistryProofs!RegistryWhole`: `Spec => []NothingLost`. Registry, handles and buffers agree at each step of a clean up, and the room in the pool and
  the blocks that records have make up the pool: the sum over all records changes by the blocks of one record at a time.
- `TableRegistryProofs!ImagesRecovered`: `Spec => LastImageRecovered`, an action property. `CriticalInv`: stores and entries belong together by their ids
  (`StoresInv`), a registration is alone with its record (`RegistrationInv`), a copy that none has raced with has copied what is active
  (`CopiesInv`), and the two states a registration could find, in RAM now and in the store after a reset, give images that are promised (`PromiseInv`).

Critical Data Store:

- `CriticalDataStoreProofs!TypeCorrect`: `Spec => []TypeOK`. That the tail of
  the pool stays in the memory is not obvious: an allocation tests for room, but a
  rebuild walks over whatever descriptors it finds. `TypeInv` adds `BlocksFit`: each
  descriptor in an accepted memory describes a block that ends within the pool, which formats,
  allocations, torn writes and failing writes keep; and `CallLocals`, that a size has a bucket when
  one is asked for.
- `CriticalDataStoreProofs!RegistryKept`: `Spec => []RegistrySaved`, provided that no
  write of the registry itself fails. `SavedInv` says at which steps inside a
  call saved and working registry agree; the other steps end in a write of it. Resets may come at any step of any
  call or boot, and any other write may fail.
- `CriticalDataStoreProofs!PoolHolds`: `Spec => []PoolSound`, with any resets and failing writes. `PoolInv` sees the pool as a set of blocks, each
  at the start or behind another (`TilesInv`), the last one ending at the tail (`TailInv`), and the list of a block size as a sequence of its free blocks without repetition
  (`ListsInv`). During a rebuild the lists have the blocks that were counted, whatever links the descriptors had. `PoolSound` itself
  is in terms of two recursive functions, `Blocks` along the pool and `Walk` along a list; lemmas `BlocksAre` and `Walks` identify them with
  the sets and sequences, by the least offset, or step, at which they would differ.
- `CriticalDataStoreProofs!BlocksHold` and `CopiesHold`: `WholeSpec => []WholeBlocksOwned` and `=> []WholeCopyRecovered`, provided that no write of
  the registry itself fails. `WholeInv` is about the registry that counts, the saved one until a boot has read it: signatures are there from the end
  of the first formatting on, and no record before (`SignedInv`); each record but that of the call in progress has a block of its own, of its size, and each allocated
  block a record (`OwnInv`); the header of that block is of the last copy, and so are the data once the copy has ended (`CopyInv`).

ES applications:

- `EsAppsProofs!RequestsServed`: `Spec => []Served`. `AppInv` says that an application's record is where its id points, that a RESERVED record belongs to one
  start or to the clean up (`IdsInv`), that the record holds the last request, and that timer and scans so far make up
  the time the application is given (`RequestInv`). An application on the list of the scan stays due, since requests are only
  taken from running ones: so what the background task does after it let go of the lock is still right.
- `EsAppsProofs!MainTasksSafe`: `Spec => MainSafe`, an action property. `TaskInv` says that a task is recorded once, for its application, at its place (`RecordInv`); that one without a
  record has not run yet and is in the hands of one start or creation (`PendingInv`); that main tasks belong to their applications,
  have no creator, and that what is on the list of a clean up has lost its record (`MainInv`).
- `EsAppsProofs!TasksOwned` and `StopsAsked`: `Prompt /\ Spec => []NoOrphan` and `=> []NoSpuriousStop`. `PromptInv` says that a
  task that runs is known with its application, or is on the list of the clean up of that application. `Prompt` is a constant of the
  model, TRUE in the run `es_tables`; without it both are false (section 6).
- `EsAppsProofs!CountersHold`: `Prompt /\ ~Returns /\ Spec => []CountersExact`. `LiveInv` adds that each record is that of a task that exists, and that
  a task belongs to the application of its creator: the sweep of what a task created then ends no task of another application, which would
  leave its record behind. The clean up subtracts as many as it lists: its tasks and their records are in bijection.

Event Services:

- `EventServicesProofs!TypeCorrect`: `Spec => []TypeOK`, for any tasks, applications and sizes. What is not a matter of form in it is the
  ring of the log: whichever word of an addition or a clear a reset falls after, the index of the next entry stays in the
  ring and the count within its size, or CFE_EVS_EarlyInit throws the log away; and accounts of tokens stay between their thresholds.
- `EventServicesProofs!RateHolds`: `Spec => []RateBounded`, no application sends more than an ideal bucket of tokens lets through. An account
  is credited only when an event is sent, with all the time since the last credit, so that comparing its tokens with the bucket is not
  inductive. `Covered` compares with the bucket what the account has and what it is still to be credited for, up to a full account.
- `EventServicesProofs!LogImplementsQueue`: `Spec => LogIsQueue`, the ring implements the queue of `EventQueue`, resets included. `LogOrder` is the
  invariant: unless a reset left the log in the middle of an addition or a clear, flag, count and index of the ring agree. `RestoredType`
  says what a reset leaves: a log with its mode, or one that is empty by its three words. A step of the ring is an addition to the queue, a
  clear, a change of mode, a spoiling or none; the wrap of the index is arithmetic on the sequence from the oldest entry on.
- `EventServicesProofs!SquelchHolds`: `Spec => SquelchAnnounced`, an action property for applications and EVS. `SquelchInv`: the account of an
  application whose last event was dropped is not above the cost of an event below zero, and otherwise it is above; it jumps over the gap
  when the event about the flood is due.
- `EventServicesProofs!ReportHolds`: `Spec => []ReportedWhole`. `ReportInv`: a file that lacks entries has fewer than the log, as long as no command or reset
  takes any out of it, so that the comparison after the mutex was given back finds it.

Time Services:

- `TimeProofs!LatchHolds`: `Spec => []LatchAfterTone`, a reader never combines a clock with a later tone, for any number of
  readers, buffers, retries and updates.
- `TimeProofs!ReferenceIsRegister`: `Spec => ActsAsRegister`, a copy in words with a version before and after is a read of a register
  (`TimeRegister`). The inductive invariant `RefInv` says that the last `Depth` versions are kept, but for the oldest while an update
  takes its buffer (`VersionsKept`); that no buffer has a tone of the future (`LatchesPast`); that a version published during a call has its value as long as its
  buffer shows it (`BuffersTrue`), and so has what was copied of it (`CopyTrue`); and that each failed attempt is paid for
  by `Depth - 1` publications (`AttemptsPaid`), whence the register may refuse a read for which that many values went by.

- `TimeProofs!MetHolds`: `ToneSpec => []MetTrue`, for any length of a second, any range of the local clock, any number of seconds. `TimeInv` says that the
  latch of the last tone tells the second in which it struck (`ToneInv`), that the latch of the reference is moved on before the local clock comes round
  to it (`LatchInv`), and that a packet is of a second not too long ago and, unless a tone was missed, says which one (`PacketInv`).
- `TimeProofs!FlywheelHolds`: `ToneSpec => []FlywheelSoon`, from `LatchInv`.

Background task, with the performance log and file writes:

- `BackgroundTaskProofs!RequestsHold`: `Spec => []PendingExact`, for any length of the queue and counters that come round at any number. `FileInv`:
  the ring has the objects that are pending, each once, and the open file is that of the oldest. The arithmetic of places in a ring is in lemmas.
- `BackgroundTaskProofs!DumpsHold`: `Spec => []DumpIsWindow`, for any buffer of two entries or more and any position of the trigger. `PerfInv`: who adds an entry or
  dumps holds the mutex (`MutexHeld`), the ring has the last entries of the capture (`RingExact`), the entries after the trigger are counted (`TriggerExact`), the
  states of the dump follow each other (`Ordered`), and what is written is the beginning of what is wanted (`Written`).

**Assumptions.** All use the assumptions stated with the constants, which TLC evaluates in
each run; hypotheses beside them are those of `RegistryKept`, `BlocksHold` and `CopiesHold` (no write of the registry fails), of three theorems of `EsAppsProofs` and of six of `TableLoadProofs`, which are conditions on how the system is used
(see section 4). Where a proof needed more of a constant than a run does, it is what the configuration of the flight software gives: the counter of
buffer uses can count all destinations of a route and the sender (`MaxUseCount`, 0x7FFF at `cfe_sb_buf.c:166`, against the 16 of
CFE_PLATFORM_SB_MAX_DEST_PER_PKT); the performance log has at least two entries (`cfe_es_verify.h:141` refuses fewer than 1025 at compile time);
a packet is accepted within less than a second after its tone (`Window`: CFE_MISSION_TIME_MAX_ELAPSED is in subseconds); the local clock rolls over
later than flywheeling begins and moves its latch (`RollOverAssumption`); the table registry is an array of a fixed size (`IsFiniteSet(Records)`). One is not of the code but of its surroundings: a data packet
is handled, or lost, before the next tone strikes (`MaxDelay < Second`). A packet does not say which tone it is for, and one that waited for
longer would be matched with the wrong tone.

Each of these properties but the type invariants is checked by a run as well, on a small instance. The inductive invariants were model-checked
before they were proved; to do so again, name `IInv` of `SoftwareBusInv`, `TypeInv`, `OwnInv`, `WaitInv` and `ReadersInv` of `TableLoadInv`, `RingsInv` and `CriticalInv` of `TableRegistryInv`, or
`PoolInv`, `SavedInv` and `WholeInv` of `CriticalDataStoreInv` as an INVARIANT of `sb_fanout`, `tbl_ops`, `tbl_registry` or `cds`.

**Only model-checked.** Every safety property of the runs is proved. The liveness
properties (`EveryCallEnds`, `ValidationPerformed`, `ActivationPerformed`, `RequestServed`, `Restarted`, `JobsEnd`) stay with TLC: the provers have no rule for fairness and ENABLED.
The induction theorems of the library take an operator as parameter, which the backends cannot instantiate; where a fact is about a recursive function
(`Blocks`, `Walk`) or about all members of a finite set, the proof takes a least counterexample instead. No module
declares a RECURSIVE operator, since the SMT backend is lost where one is reachable.

## 6. Disagreements between code and documents

They were met while the models were written. Where a property of a module fails because of one, the constants with which it fails are given.

SB:

- `cfe_sb_api.c:393` says that with the route removed no new messages are written to
  the pipe. A transmission that found its destinations before writes after it
  (`QueuePut` while the deletion is at "drain"); if the write falls
  between the last get of the drain and OS_QueueDelete, the reference is lost with
  the queue. The model keeps it in `Queue`.
- `cfe_sb_api.c:1055` starts BuffCount of a new subscription at 0, so that after
  an unsubscription and a new subscription more than MsgLim messages can be on the pipe
  (`cfe_sb.h:255`). `BuffCountSound` is therefore an upper bound.
- `cfe_sb_priv.c:1070` raises the peak depth before the write, which may fail;
  the peak can exceed the depth of the queue (`default_cfe_sb_msgdefs.h:122`).

TBL, load and activation:

- `cfe_tbl_internal.c:554`: after its first load a single buffered table counts its own
  buffer as unused, so that an update overwrites the image a reader holds (`cfe_tbl.h:538`; `ReaderStable` with tables loaded once).
- `cfe_tbl_api.c:306`: CFE_TBL_Load works without the lock, since "all ops are confined
  to this registry entry alone" (304), which readers and the table task use too: with `Api = {"Load"}`, `ReaderStable` fails on a single
  buffered table, a load by command at the same time leaks a shared buffer
  (`SharedBuffersOwned`), and an accessor that asks for the address before the load is committed records the id of the new
  image while the buffer has the old one (`NoMissedUpdate`, until the commit).
- `cfe_tbl_internal.c:480`, `cfe_tbl.dox:164-166`: CFE_TBL_Update activates a
  load that nobody validated (`OnlyValidActive`, `Api = {"Update"}`).
- `cfe_tbl_api.c:633`: a validation that was requested before another image
  was loaded marks the new one valid (`Patient = FALSE`).
- `cfe_tbl_internal.c:435`: the flags IsValid and ActivateReq of an aborted load of a table that was never active
  are kept for the next load, which may be activated while its file is read. They are set anew only after the read
  (`cfe_tbl_load.c:342`), and not at all if it fails (`OnlyValidActive`, with aborts).
- `cfe_tbl_load.c:302`: when the file is read the buffer of the load is looked up again, without the lock. If an update by the owner ended the load
  meanwhile there is none, and the copy (`cfe_tbl_loadbuff.c:303`) is made to a null pointer, where the step after it allows for that
  (`cfe_tbl_load.c:326-328`). In the model such a read ends without a copy.
- `cfe_tbl_api.c:763`: an abort with a new load between the look at the update
  request and the update itself (`ReaderStable`, double buffered, with aborts).
- `cfe_tbl.dox:349-350` says that loads of the same table without an activation
  or abort between them overwrite each other; an application's load during a load by
  command is refused with CFE_TBL_ERR_LOAD_IN_PROGRESS (`cfe_tbl_load.c:778`).

TBL, dumps:

- `cfe_tbl_task_cmds.c:527`: when no shared buffer is free, or the source of the dump was replaced since it was selected, the buffer is given back
  (`cfe_tbl_dump.c:319`) but not the control block. After CFE_PLATFORM_TBL_MAX_SIMULTANEOUS_LOADS such failures no table can be dumped until the next boot (`PrepareDump`, `SnapshotBegin`).
- `cfe_tbl_internal.c:554`: the buffer of a single buffered table that was loaded once has no id, so that a dump of its active image finds no source, fails, and keeps a block (tables loaded once).
- `cfe_tbl_api.c:904`: DumpControlId stays when the snapshot is taken; until the file is written and the owner calls CFE_TBL_Manage once more, a dump of the table is refused as pending.
- `cfe_tbl_dump.c:306-310`: the snapshot of a table that can be loaded is taken without the lock, and an update may fall into it (`SnapshotEnd`, two shared buffers).
- `cfe_tbl_internal.c:612-618`: the clean up of an application frees the blocks of its pending dumps and not their buffers (not modelled).

TBL, registration:

- `cfe_tbl_registry.c:348`: an owner that was reloaded is refused its table, with
  CFE_TBL_ERR_DUPLICATE_NOT_OWNED, for as long as an application that shared the old one has a handle (`cfe_tbl.dox:333-339`).
- `cfe_tbl_api.c:105`: a registration that finds no descriptor or no room for a buffer leaves its record, its
  descriptor, which belongs to no application, and the first of two buffers (`RegisterFails`); `NothingLost` excepts them.
- `cfe_tbl_api.c:145-148` says that records without an owner are not checked to see if they match names. CFE_TBL_LocateRegRecByName
  (`cfe_tbl_regrec.c:133`) does match them, so that a table without an owner can still be shared.
- `cfe_tbl_internal.c:991-995` treats a store that cannot be restored like a new one; but the load that was begun for it stays in
  progress, and the owner's first CFE_TBL_Load is refused (`cfe_tbl_load.c:778`).
- Each registration of a critical table that was never loaded takes another entry of the critical registry (`cfe_tbl_internal.c:1057`).
- `cfe_tbl_task_cmds.c:1049` frees the entry of a deleted store without saving the critical registry, and leaves its TableLoadedOnce. The table that takes the entry, or
  gets the store's id after a boot (ids begin anew, `cfe_es_cds.c:70`), may recover what its block had in it (`LastImageRecovered` without the exceptions for `LoadedOnce`
  in `RegisterCds` and `RegisterWithCriticalTableRegistry`).
  The command works without the mutex: a registration between its two steps may lose its own entry (`FreeEntry`).
- `cfe_tbl_api.c:999`: copies by CFE_TBL_Modified and CFE_TBL_Update or CFE_TBL_Load that overlap may leave the older image in the store (`raced`).
- `cfe_tbl_internal.c:124-140`: a critical registry whose copy is torn fails to be restored, and what was copied of it is used all the same.
- `cfe_tbl_regrec.c:87` looks for a free record among CFE_PLATFORM_TBL_MAX_NUM_HANDLES ids, not MAX_NUM_TABLES: harmless unless there are fewer handles than tables.

ES, Critical Data Store and applications:

- `cfe_es_cds.c:403` and `:890` free the block before the registry is
  written (`:444`, `:906`). A reset in between leaves a saved record of a
  free block, and two stores may come to share one (`cfe_es.h:1034`). A reset after a block was taken and before the
  registry is saved leaks it. `WholeBlocksOwned` and `WholeCopyRecovered` fail when `whole` is left out of them.
- `cfe_es_cds.c:420`, `cfe_es_cds_mempool.c:185`: a resize that finds no block returns with the registry
  unsaved and the old block freed; after a reset the old record is back (the same).
- `cfe_es_api.c:1290`: a child task created during the clean up of its
  application outlives it (`cfe_es.dox:293`; `NoOrphan`, `Prompt = FALSE`).
- `cfe_es_apps.c:1452`: a child recorded after its application's tasks were
  listed stays in the task table (`cfe_es.dox:321-323`, `Prompt = FALSE`).
- `cfe_es_apps.c:869`: a main task that runs before its application is
  published is told by CFE_ES_RunLoop to stop (`NoSpuriousStop`, `Prompt = FALSE`; `cfe_es.h:361-363`).
- `cfe_es_apps.c:708`: a child that returns leaves its record; the count of
  registered tasks is too high from then on (`CountersExact`, `Returns = TRUE`; `default_cfe_es_msgdefs.h:318`).
- `cfe_es_apps.c:774-777`: an application may take the name of a library; names are unique among applications only.
- An application that never reaches RUNNING cannot be stopped:
  `LockUserAppRecord` (`cfe_es_apps.c:66-105`) refuses the request and the scan (`:1139`) passes
  it over. `RequestServed` is about applications that run.
- A restart loses its application when another start takes the name or the last
  slot between clean up and creation; `Restarted` exempts a full table.

ES, performance log, and FS:

- `cfe_es_perf.c:648-651` relies on the state being IDLE while the dump waits for the mutex. The stop command sets it without the mutex, and a writer in its
  locked region may store TRIGGERED after it (`:689`): the capture goes on during the dump, and after it.
- A reset between the entry and the count of a full log makes the newest entry the first of the next dump; time stamps are taken before the mutex, so that
  entries may be out of order by them.
- `cfe_fs_api.c:877`: the flag of a request is read before the lock; two tasks that share one object may both be accepted.

EVS:

- `cfe_evs_utils.c:220`, `:223`: the counter of a filter is tested and raised without the mutex. Of two tasks of one application the second may pass the test before, and
  raise after, the first one has locked the filter: the counter rolls over to 0 and the filter is open again, which the lock is to prevent (`cfe_evs.dox:210-212`).
- `cfe_evs_utils.c:203`: an event sent for another application is passed by the type switches of the caller (`cfe_evs.dox:147-152`).
- `cfe_evs_log.c:208`: a file that holds the whole log is reported as failed when an event was added after the mutex was given back.
- In discard mode a log that is full by its count and not by its flag, as a reset can leave it, is overwritten once more (`cfe_evs.dox:391-394`).
- `cfe_evs_log.c:93-95` clears Next, the count and the flag one after the other, and `cfe_evs_task.c:141` ("Clear event log if power-on reset or bad contents")
  looks at the ranges of Next, the flag and the mode only. A reset after the first write leaves Next at 0 with the old count, so that the file
  has old and new events out of order; a reset after the second one leaves a log without entries that is full by its flag, which in discard mode drops every
  later event (`ClearLogUpTo`; `LogIsQueue` with `spoilt` left at FALSE by a reset).

TIME:

- `cfe_time_tone.c:693`: packets are matched with tones by their times alone; that the tone was good (`cfe_time.dox:204-206`) is not looked at.
- `cfe_time_utils.c:594-613`: a copy that was whole on the last retry is thrown away, and the reader gets zeros.

## 7. What is not covered

- The parts marked "not_modelled" in `PROJECT.json`, with their reasons: some
  are planned, some have no state (MSG, resource ids) or only decode commands and write files.
- Data: message content and lengths, file formats, checksums, telemetry.
- Time: timeouts are a choice (a receive may give up at any time) or a count of scans.
- Memory ordering: shared data is accessed under mutexes, and unlocked accesses are
  single actions, but for the reading and filling of table buffers, whose intermediate
  states are `Junk`, and the reference time, read and written word by word in program order.
- Failure of a mutex, OSAL errors other than a full or missing resource, and
  calls of SB and TBL by tasks whose application is being cleaned up.
- TIME: commands that set or adjust the time, external sources, the simulated tone, packets ahead of the tone, callbacks, arithmetic. EVS: two applications at
  once, so that no event is sent for another than the caller's. FS: several tasks with one object.

## 8. Plan

In order of importance. What a module can be proved about has no RECURSIVE
operator and states its parameters' assumptions.

| Module | What it models | Properties |
|---|---|---|
| `DurableStore` | what the CDS promises: a set of named blocks with the last data copied or none | implemented by `CriticalDataStore`, which `TableRegistry` could then use in place of its own stores |
| `AppCleanUp` | `EsApps` with the clean up of `SoftwareBus` and `TableRegistry`: order of services and tasks | what tasks create during the clean up is given back too |
| `RouteMap`, `MemPool`, `SysLog`, `ResetLog` | hash map, memory pools, log over resets, reset counting | against reference definitions |

Proofs to come: `ActiveValid` and `ReadersStable` with owners that call CFE_TBL_Update on loads that were validated; of the CDS, which blocks a
registration, resize or deletion that a reset cuts short can lose, in place of the condition `whole`.
