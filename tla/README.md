# Formal models of the FOnline engine

TLA+ models, TLC runs and TLAPS proofs for the parts of the engine
(`Source/`, C++) whose correctness depends on the order in which things happen:
threads, callbacks, messages, crashes. `PROJECT.json` maps every definition to
the lines it models and lists the runs, the mutated definitions that each
property catches, the hazards and the theorems.

## 1. The system

A *server* process owns the game world (locations, maps, critters, items,
players), runs the scripts and stores the entities in a data base of records.
*Clients* connect over TCP, WebSockets or, in the same process, an
"interthread" link; before anything else they bring their resource files up to
date. The engine's own code is in `Source/{Common,Server,Client,Scripting,
Tools,Frontend,Applications,Singleplayer}`; the rest of the repository is
vendored code, build scripts and data.

### Threads of a server

| thread | runs | shares |
|---|---|---|
| `ServerStarter` (`_starter`) | the jobs that bring the server up, once | everything, before the main worker has jobs |
| `ServerWorker` (`_mainWorker`) | the loop: sync point, frame time, scripts, unlogined and logined players, critters, maps, deferred calls, data base commit, statistics; each is a periodic job with no delay | the world; nobody else may touch it |
| `ServerHealthWriter` (`_healthWriter`) | writes a health file once in a while | its own data |
| `DataBaseCommiter` (`_commitThread`) | the batches of `DataBase::CommitChanges` | the storage, with the main worker's reads |
| network threads (Asio, WebSockets) | accept, read, write | `_newConnections`, the in and out buffers of connections |
| the window's thread | `DrawGui`, and `~FOServer` | the world, under `Lock`/`Unlock` |

The first four are `WorkThread` objects.

### Components

Every component is listed in `PROJECT.json`, with its sources and its status.
The ones with behaviour of their own; all of them are modelled except the
life cycle of the server, the registry of entities and the pure algorithms
(section 6 says why):

| component | state | operations | with whom | what is hard | what makes it correct |
|---|---|---|---|---|---|
| **WorkThread** (`Common.h/.cpp`) | `_jobs`, `_jobActive`, `_clearJobs`, `_finish`, handler, two condition variables | `AddJob`, `Clear`, `Wait`, `SetExceptionHandler`, `~WorkThread`; `ThreadEntry` | any caller thread against the worker | the lock is given up in the middle of a round; repeating, delayed and throwing jobs; notifications outside the lock | no job lost or run early; order of jobs; `Wait`, `Clear` and the destructor mean what they say and return |
| **DataBase** (`DataBase.cpp`) | pending changes, new and deleted records, the jobs of the commit thread, the storage | `Get`, `Insert`, `Update`, `Delete`, `CommitChanges`, `ClearChanges`, `GetAllIds` | main worker and commit thread | a record's value is spread over four places; batches are not atomic in the storage; crashes, storage errors, a limit on jobs | reads see all writes; batches in order; legal calls never make a commit fail; a flush saves everything |
| **Sync point** (`Server.cpp` `Lock`, `Unlock`, `SyncPoint`) | `_syncRequest`, `_syncPointReady` | the three functions | window thread against main worker | time-outs, several clients, spurious wake-ups | exclusion; everybody gets on |
| **Resource update** (`Updater.cpp`, `Process_Handshake`, `Process_UpdateFile`, `Process_UpdateFileData`) | server: file index and portion of a connection; client: list of files, temporary file, local files | the request/response exchange, file replacement | client and server over a connection | two sides count independently; breaks, file system errors, restarts | a ready client is complete; no torn file; never stuck |
| **Connections** (`Networking.cpp`, `ClientConnection.cpp`, `NetBuffer.cpp`, `ServerConnection.cpp`) | buffers, `_writePending`, `_isDisconnected`, ping state | dispatch, receive, graceful and hard disconnect, framing | network threads and main worker | two threads dispatch one buffer; disconnect against pending writes | every byte written is sent once, in order; nobody waits for his own lock |
| **Sessions** (`Process_Register`, `Process_Login`, `ProcessUnloginedPlayer`, `ProcessPlayer`) | unlogined and logined players, their connections | register, login, reconnect (connections are swapped), logout | connections, registry, data base | kicks, refusals and disconnects between two messages | a dead or dismissed connection is always removed (within `Connection`; two connections of one player are left out) |
| **Server life cycle** (`FOServer::FOServer`, `~FOServer`) | `_started`, the workers | starter jobs, loop jobs, stop | WorkThread, DataBase | failure in the middle of the start; stopping while jobs repeat | everything committed when the server stops; the stop ends |
| **Deferred calls** (`DeferredCalls.cpp`, `ServerDeferredCalls.cpp`) | list of calls, saved calls, last identifier | add, cancel, process, load | scripts (re-entrant), game time, data base | calls that add or cancel calls or set the clock while the list is walked; restarts, crashes between two records | no call runs early, or again if it does not repeat; a pass ends; the records are the calls to be saved |
| **Game time** (`Timer.cpp`, `FrameTimeJob`, `SetGameTime`) | start of the clock, full second, the date in the game's record | frame, set, load | deferred calls, data base | carries over the ends of day, month and year; 32 bit products and milliseconds; a clock set in the middle of a pass | the date advances with the clock |
| **Entity registry** (`EntityManager.cpp`) | all entities by identifier, last identifier | register, unregister, load, destroy | every manager, data base | destruction re-entered from script callbacks; crash between records | identifiers are unique; records and entities agree |
| **Items** (`ItemManager`, `Item`) | owners, lists of holders, counts | create, move, split, merge, destroy | critters, maps, scripts | scripts run in the middle of updates of two-sided relations, on counts and holders read before | an item is where its owner says and nowhere else; coins are neither made nor lost; destruction ends |
| **Critters, maps** (`CritterManager`, `MapManager` and their entities) | place of a critter, list of a map, who sees whom, attachments, transfers | transit, look, attach, destroy, unload, clear a location | items, scripts | scripts run between every two steps of a transfer or a destruction; transfers that call transfers | lists agree with places; who is attached goes along; nobody is left on a destroyed map or half destroyed |
| **Pure algorithms** (`GeometryHelper`, `LineTracer`, `TwoBitMask`, path finding) | none | functions | maps | boundaries | agreement with reference definitions |

The client's drawing, sound and effects, the frontend, the tools, the script
bindings and the conversions of properties have no protocol or shared state:
they are listed with the reason they are left out.

## 2. The modules

| module | models | kind |
|---|---|---|
| `JobSchedule` | what a `WorkThread` promises: one job at a time, overtaken only by earlier fire times | abstract specification |
| `WorkThread` | `WorkThread` and its callers | detailed specification |
| `WorkThreadProofs` | lemmas on the list of jobs; theorems, the refinement of `JobSchedule` among them | proofs |
| `RecordStore` | what the data base promises: records, commits, what a crash leaves | abstract specification |
| `DataBase` | `DataBase`, `DataBaseImpl`, the commit thread's jobs, a storage | detailed specification |
| `DataBaseProofs` | theorems, the refinement of `RecordStore` among them | proofs |
| `ServerSync` | `FOServer::Lock`, `Unlock`, `SyncPoint` | specification |
| `ServerSyncProofs` | theorems | proofs |
| `UpdateTransfer` | `Updater` and the server's handlers of updates, with the connection between them | specification |
| `UpdateTransferProofs` | theorems | proofs |
| `MessageChannel` | what a connection promises who writes to it: each message once, in order; a break loses an end | abstract specification |
| `Connection` | `ClientConnection`, `NetConnectionImpl`, `NetConnectionAsio`, the jobs that serve a connection, the client at the far end | detailed specification |
| `ConnectionProofs` | theorems, the refinement of `MessageChannel` among them | proofs |
| `GameCalendar` | the conversions of `Timer.cpp` between dates and full time, and the calendar as people know it | functions with a reference definition |
| `DeferredCalls` | deferred calls, the game time and their records; its data base is an instance of `RecordStore` | detailed specification, a composition |
| `DeferredCallsProofs` | theorems about the calendar and the deferred calls | proofs |
| `Items` | `ItemManager` and the holders of items, with scripts that call back | specification |
| `ItemsProofs` | theorems about `Items` | proofs |
| `Critters` | `MapManager`, `CritterManager` and attachments, with scripts that call back | specification |
| `CrittersProofs` | theorems about `Critters` | proofs |
| `MCWorkThread`, `MCDataBase`, `MCServerSync`, `MCUpdateTransfer`, `MCConnection`, `MCDeferredCalls`, `MCItems`, `MCCritters` | small instances | for TLC |

Before some definitions there is one with a longer name (`Take_Leaves`,
`MergeReplaces`): a plausible mistake in the same code. Nothing uses it but
`PROJECT.json`, which says which property finds it when it takes the place of
the right definition.

### WorkThread

A step is one critical section of `_dataLocker`, one notification outside of it,
or one run of a job. `wpc` is the place of the worker in `ThreadEntry`: `top`
(before line 659), `announce` (lock given up, before `notify_all`), `relock`
(before it is taken again), `waiting` and `woken` (in and after
`_workSignal.wait`), `run`, `repeat` (the job has answered with a delay), `exit`.
`cpc` is the place of each caller in `AddJob`, `Clear`, `Wait` or the
destructor. A notification wakes only who waits at that moment; spurious
wake-ups are steps of their own. `Take` is the search for the first entry that is
due, `InsertJob` the insertion of `AddJobInternal`. `fate`, `addedBy` and
`atCall` are history: they record what became of a job, who added it, and what
was pending when `Clear` was called.

A caller may call anything until the destructor is called, which needs all
callers out of their calls, as the lifetime rules of C++ do. A job object is
handed over once. `GetJobsCount` has no step: its two terms are `jobs` and
`jobActive`, and `DataBase` uses them.

`ScheduleSpec` maps the list to the abstract set of waiting jobs and the order
of the list to the abstract relation "has to run before"; the abstract `Start`
may take only a due job that nothing waiting has to precede. It is this promise
that lets `DataBase` treat the commit thread as a queue.

### DataBase

One thread calls, as `DataBase` demands: the steps of `Get` and `CommitChanges`
up to `_commitThread.Wait()` and after it are separate, everything else is one
step. The commit thread's jobs are a queue (`WorkThread` proves or checks what is
used of it: order, one at a time, a throwing job is dropped, `Wait`).
A batch is applied record by record, in any order, as the loop over an unordered
map does; deletions follow. `DbJson` makes the new contents of a record, empties
its file and writes it: `BeginWrite` and `EndWrite`. Between them (`open`) a crash
or a storage error leaves the record `Torn` (`DiskNow`); `GetRecord` then ends with
an exception, since `bson_init_from_json` cannot read what is left, and the caller
has no answer. A crash takes memory, queue and batch away and leaves the rest of
the storage. The storage is what `DbJson`, `DbUnQLite` and `DbMemory` agree on:
each refuses an empty document, the insertion of a record that exists and the
update or deletion of one that does not; `InsertDocs` holds no empty document
(section 5 names the one caller that inserts one). The guards `Exists` and `Legal`
are the callers' side: `EntityManager` and the other callers insert new records and
change existing ones, and a record that was torn in an earlier life, which they
cannot load, they do not change. `Updates` are the keys and values of updates.

A document is a function from a few keys to values or `Absent`; an empty
document is also "no record". `store` and `snaps` are history: the records as
the calls define them and their values at each commit; `RecordStore` is stated
over them, so that `StoreSpec` says: every answer of `Get` is the value of the
last write, and every state of the storage lies record by record between two
neighbouring commits, but for at most one record that a crash has torn in the
middle of its writing. The promise ends at the first storage error: then the rest
of a batch is lost and later batches may be refused.

What a crash may do to other records than the one being written depends on the
storage. `DbJson` has a file for each record, and what the operating system has
taken stays (the process dies, not the machine); `DbMongo` replaces documents one
by one. `DbUnQLite` is opened with `UNQLITE_OPEN_OMIT_JOURNALING`
(`DataBase.cpp:1065`) and writes pages that hold several records: a crash inside
`unqlite_commit` may damage any of them, and no promise of this project covers
that.

### ServerSync

`Lock`, `Unlock` and `SyncPoint` at the granularity of the critical sections of
`_syncLocker`. Some clients (`Timed`) pass a `max_wait_time`; a time-out may come
at any moment of the wait, also after a notification, as `wait_for` allows.
The main worker calls `SyncPoint` in every round of its loop.

### UpdateTransfer

The whole exchange: handshake, list of files, `NETMSG_GET_UPDATE_FILE`,
portions, replacement of the file (delete, then rename), to `Process` saying the
client is ready. `toUpdate` is the list of the files to fetch, of which the front
is the one under way, `remaining` what is missing of it; the server's
`updFile` and `portion` are its own count of the same. Contents are sequences of
bytes that tell file and position, so that a file that was put together wrongly
shows. The connection is a pair of queues that keep their order and
vanish when it breaks. `FileSystemError` stands for each of the file operations
that the client checks; `Restart` for a client that is closed or killed and
started again, keeping its files. Sizes count units of which a portion has
`SendSize`.

### Connection

One TCP connection from the accepted socket to the removal of its player. Two
threads share it: `main`, the main worker, and `io`, which runs the completion
handlers. `at[t]` is the place of thread `t` in `Dispatch` and `DispatchImpl`:
`dispatch` (before the test of `OutBuf`), `claim` (before the exchange on
`_writePending`), `send` (in `SendCallback`), `release` (`SendCallback` had
nothing, `_writePending` not yet reset). A step is a critical section of
`OutBufLocker`, one access of an atomic flag, or an event of the network, the
clock or the client; what `main` does with `InBufLocker` locked goes from
`TakeMessage` to `Handled`, and `io` cannot deliver input in between. `stage` is
the place of the main worker: `jobs` (anything up to `ProcessConnection`),
`player` (the decision of `ProcessUnloginedPlayer` or `ProcessPlayer`), `loop`
(the `while` of `ProcessPlayer`). `todo` is what the handler or job under way has
yet to write, one `CONNECTION_OUTPUT_BEGIN/END` block or `HardDisconnect` after
the other.

Messages are their kinds and arrive whole; sizes (`FloodSize`, the window of the
network) count messages. What a client sends before or after the handshake is
any sequence of kinds, an unknown one among them; encryption, compression and
the framing of bytes are left out, except that the compressor may leave the end
of the buffer for the next write. A client's own pings count among its
messages (`MaxSends`). The inactivity limit may strike at any time: nothing else
depends on when. The status query locks a mutex that its thread holds, which is
undefined: `Process_Status` lets the thread hang, as the usual libraries do, or
go on. `AsyncRead` deletes the socket on an error while others may still use it;
no outcome of that is modelled but the failure of the write.

`ChannelSpec` maps the queue of `MessageChannel` to what is on its way: in the
network, in the write under way, in `OutBuf`. Once the link is down only what is
in the network can still arrive.

### DeferredCalls, GameCalendar

`DeferredCalls` composes three parts that the code couples: the list of calls
with the loop of `ProcessDeferredCalls`, the game time with `FrameTimeJob` and
`SetGameTime`, and the records, for which it takes an instance `DB` of
`RecordStore`: a commit is a snapshot, the commit thread stores it record by
record, a crash keeps what the storage has (`CleanCrash`). That `DataBase`
implements `RecordStore` is proved, so that nothing of the data base has to be
modelled twice. Crashes that tear a record are left out here: loading it throws,
and a server whose record of the game or of a call cannot be read does not start.

The loop stops wherever a script runs: `pc` is `idle` (between the jobs of the
main worker), `loop` (before the search for the next due call, which starts at
the front each time) or `script`. In `script`, as in `idle`, scripts add calls
(repeating, single or saved), cancel them and set the clock. `passFull` and
`skip` are the locals of the loop, read before and used after scripts. `Restart`
is a regular stop and start, `Crash` a start from what the storage has;
`InitGameLogic` loads the saved calls in any order and sets the clock to the
stored date; the order of the scripts of the start is not kept apart. `full`, the
milliseconds of `FullSeconds` and the products of `Span` are 32 bit numbers in the
code; `Word` is their range. `Moments` are the milliseconds since the clock was
set at which a frame may come, `StartTime` and `Times` what scripts set. The world that the model starts with has been
generated and its scripts have set the time.

`left`, `done`, `last`, `stale` and `skewed` are history: the game seconds that a call
still has to wait (none for a delay that does not fit the code's numbers; a clock
that falls back does not lengthen the wait), the calls that must not run again,
the call that runs, and the two situations in which the code promises less (the
clock was set in the pass under way; a crash between the record of the game and
that of a call).

`GameCalendar` holds the conversions as functions, with a calendar counted day by
day as the reference; `CalendarAgrees` (an assumption that TLC evaluates)
compares them for the ends of February and of the year from 2000 to 2100,
`DateAdvances` compares two dates in the game's record with the seconds that the
clock has gone on between them. It says nothing of the first second after the
clock was set, in which the code loses the day of the month (section 5).
`CalendarTheorem` proves the agreement for every date and every span.

### Items, Critters

Both managers have one difficulty: every operation runs scripts in the middle of
its work, and those may start any other operation on the same entities. Both
modules model it in one way. `stack` holds the calls under way, the innermost
first; a frame is the rest of a C++ function: `pc` the place where it goes on, the
other fields its locals. An action takes the frame on top, does what the function
does up to the next callback or call, and replaces it by what comes next
(`GoTo`). A `script` frame is a callback that runs: there, or with an empty stack
(any other job of the main worker), `Scripts` may start an operation
(`Call`), `MaxCalls` times in all; `ScriptReturns` takes the frame away. An
exception (a failed assertion, `NotFound`) drops the frames down to the callback
that made the call, as `FireEvent` does (`Throw`, `Fail`, `Abort`).

What a function relies on across a callback is often neither enforced nor said:
that the item it is about to move has not been moved meanwhile, that the location
is not destroyed under a critter in transit. `Held` writes this contract down,
frame by frame; `broken` is set when a script changes something that is held
by a call under way, and the properties that need the contract say `~broken`.
Nothing is in it for good measure: with an element taken out TLC finds a property
violated. `Together` of `Critters` needs no contract at all.

`Items` covers `MoveItem` with the checks of scripts, `SplitItem`, the stacking of
coins, `AddItemToCritter`, `Map::AddItem`, `AddItemToContainer`, the three
`Remove...`, and `DestroyItem` with its rounds. `asked` is history: the coins
that scripts have asked for. Left out: radios, statistics, hexes, hidden items,
loops over several items that do not stack.

`Critters` covers `Transit` with the convoy of attached critters,
`AddCritterToMap`, `RemoveCritterFromMap`, `ProcessVisibleCritters` with both
directions of every look, `AttachToCritter`, `DetachFromCritter`,
`MoveAttachedCritters`, `DestroyCritter` with its rounds, `UnloadCritter`, and
`DestroyLocation` with `DestroyMapContent` and `KickPlayersToGlobalMap`. Whether a
critter sees another one is any answer, the order in which it looks around is any
order. Left out: hexes, groups on the global map, triggers, items on the map,
what is sent to players, creation and loading.

## 3. The runs

| run | question | bounds, and why they are enough |
|---|---|---|
| `worker` | do the list, the hand-over of jobs, `Wait`, `Clear` and the destructor do what they promise; does the schedule implement `JobSchedule`; do jobs get settled and `Wait` and the destructor return? | two callers, so that one can wait while the other adds or clears; a job that runs once and one that repeats (hand-over), which may have equal fire times; delays 0 and 1 and a clock of two values give equal, earlier and later fire times. 596 thousand states. |
| `worker_clear` | does `Clear` return? **No**, see 5. | one job, two callers. |
| `database` | do reads, batches, flushes and crashes keep the promise; does a legal sequence of calls ever make a commit fail; do the calls return, also after a storage error? | two records, so that a batch can be half applied; two keys, one written by insertions and one by updates, so that an update changes a record and the pending changes, a batch and the storage may each hold a part of it; a batch in the queue besides the one being applied and the pending changes, so that a record can be new, changed and deleted in different batches; a limit of one job; one crash and one storage error, at any moment, also in the middle of writing a record. 999 thousand states. `DataBaseProofs` covers any number of records, keys and batches. |
| `sync_lock` | exclusion, the assertion of `Unlock`, who waits gets on | two clients of each kind: a time-out can meet another client's wait, lock or unlock. |
| `sync_timeout` | does the worker always go on? **No**, see 5. | one client with a time limit is enough. |
| `update_transfer` | are the two sides in step, is a ready client complete, are files never torn, is nobody stuck? | files of no byte, of two portions and a half, and of two whole portions; old files absent, too short, and of the right size; one break, one file system error, two restarts, so that a second attempt can meet the remains of a first one. 41 thousand states. |
| `update_even` | is an updater ever told that its call is wrong? **Yes**, see 5. | one file of one portion. |
| `connection` | one write at a time; messages in order; goodbye is final; nothing stays in the buffer; useless and broken connections are removed | two messages of any kind from the client (the handshake and a login, or two strange ones), its answers to pings without bound, one write or kick by another job, so that a dispatch meets a write under way and its completion; a window of one message, so that a client that does not read blocks the write; a flood limit of three, which two messages behind a read one exceed. 628 thousand states. |
| `connection_status` | is the status query answered? **No**, see 5. | one message, nothing else. |
| `calls` | are calls not early, run once and for certain; does every pass end; are the records the calls to be saved; does the date advance with the clock? | two calls of any kind; delays of none and of 410 ms, which is 20500 s of a clock fifty thousand times as fast. That clock is set to the end of 2003 (the code makes 1 December of it); its first frame comes after 0.4 s (20000 s of the game), its second when the milliseconds have wrapped, 60 days of the game later: over the ends of a day, a month and the year to January, and, if the server was started again there, over the leap February to March. `Word` is 20591920, which sets the moment of the wrap. Once the clock may be set to 29 February 2000, forty thousand times as fast, between any two steps of a pass: with it the second frame finds a second that has wrapped too and is smaller than the first one's. One restart or crash, one commit in flight. 2.3 million states. |
| `items` | is every item where its owner says, does no assertion fail, are coins kept, does every call return (whatever scripts do, but for the one loop of section 5)? | three stacks of coins (moved, met and split off), two containers, a critter and a map; stacks of two, operations with one or two coins; three operations, one inside the other at any callback: the innermost can disturb what two outer ones rely on. 869 thousand states. |
| `critters` | do maps, identifiers and visibility agree whatever scripts do; does a transfer take the convoy; is nobody left halfway? | a critter that leads two others, a player and an NPC, so that an attached critter can be disturbed while the other follows; two maps of a location and the global map; two operations, one inside the other at any callback (a transfer or a destruction starts many calls of its own, so that two are enough for any pair to meet). 4.0 million states. |

`CHECK_DEADLOCK FALSE` is used where the modelled system ends: the destructor has
returned, the updater is done, the player is gone, the bounded operations of
scripts are used up, or (in `calls`) the storage has refused a record, where what
`DeferredCalls` describes ends. The time bound of `WorkThread` is kept by the
guards of `AddJob`, `RunRepeat`, `RepeatJob` and `Tick`; `MaxBatches` by the
guard of `CommitChanges`, `MaxFaults` and `MaxCrashes` by `StorageError` and `Crash`; `MaxSends` and `MaxWrites` by `ClientSends`, `JobWrites`
and `KickedByCommand`; the bounds of `UpdateTransfer` by the guards of the
faults they count; `MaxCalls` by `Call`; `MaxAdds`, `MaxResets`, `MaxStarts`
and `MaxSnaps` by `Added`, `FrameTimeJob`, `SetGameTime`, `InitGameLogic` and
`CommitChanges`.

### Fairness

* `WorkThread`: weak fairness of the worker, of each caller inside a call, and of
  the clock. The operating system schedules threads that can run, jobs end, time
  passes. Nothing is assumed of callers starting calls, of spurious wake-ups, or
  of the lock: a step is a whole critical section, and no thread keeps the lock
  while it waits.
* `DataBase`: weak fairness of the commit thread and of the return of a call.
  Storage errors and crashes need not come.
* `ServerSync`: weak fairness of the worker, whose `SyncPoint` job repeats with no
  delay, and of a client inside `Lock`/`Unlock`; `DrawGui` unlocks in the same
  function that locks.
* `UpdateTransfer`: weak fairness of the server's and of the client's handling of
  what has arrived. Both are polled by loops that do not stop.
* `Connection`: weak fairness of the two threads, of the coming of the ping time
  (the clock) and of the failure of a write on a socket that is no longer
  connected (the operating system reports it). Nothing is assumed of the client
  or of the network while it holds: a client may hang and a write may never
  complete.
* `DeferredCalls`: weak fairness of the pass over the calls: the job repeats
  without delay, and scripts return. Nothing is assumed of the clock, of commits,
  restarts or scripts that add calls.
* `Items`: weak fairness of the functions under way, scripts that return among
  them. Scripts that start the next operation from every callback for ever are
  excluded by `MaxCalls`.

## 4. The proofs

All theorems hold for every value of the constants that satisfies the
assumptions of the module: finite or infinite sets of jobs, delays, records, keys
and values, any number of callers, files of any sizes, any bound on faults. (The
clients of `ServerSync` and the critters of `Critters` are finite sets.)

**WorkThread.** `IInv` is the conjunction of

* `TypeOK`;
* `ListInv`: the list is sorted, a job is in it at most once, and the pending jobs
  are exactly those in the list and the one in the worker's hands;
* `WorkerInv`: the worker holds a job exactly while it runs it or puts it back,
  `jobActive` covers all of that time, and it leaves only an empty list;
* `CallerInv`: once the destructor runs nobody is in another call; inside `Clear`,
  once the flag has fallen, no job of `atCall` is pending, and none of them ever
  was new again.

`JobsKept` alone is not inductive: that a job in the worker's hands is pending
and is not in the list needs the worker's position, and what `Wait` promises needs
that a job that is pending is either listed or covered by `jobActive`. The lemmas
on lists at the head of the module say what insertion and removal do to a list (order, which
entries it has, uniqueness); they rest on the definitions of `InsertAt`,
`RemoveAt` and on the choice of the first position. Proved: `TypeTheorem`,
`SortedTheorem`, `JobsKeptTheorem` (invariants), `CallsServedTheorem` (an action
property, from the same invariant).

`ScheduleTheorem` proves `Spec => ScheduleSpec`. The
mapping is `EntriesOf` (the set of the entries of the list) and `BeforeIn` (the
pairs of jobs of which one stands before the other). Two facts carry it. The list
is sorted, so that when the worker takes the first entry that is due it takes the
first entry: nothing that has to run before waits. And insertion behind the last
entry that fires no later adds exactly the pairs of the abstract `Add`, because the
entries it passes are those that fire later. `DelayInv` adds that the delay a
repeating job has answered with is one of `Delays`; it is what the abstract step
needs when the job is put back.

**DataBase.** The invariant follows every record on its way to the storage.
`Leads(from, batch, to, id)` says that a batch takes a record from one state to
another and that the storage accepts each step of it. `WaitingChained`: from the
storage through every batch in the commit thread's list, the one half applied
first, each batch leads from the state before it to the snapshot of its commit.
`PendingChained`: the pending changes lead from the newest commit to the records as
the callers know them. `Typed` adds that there are as many snapshots as batches,
`Calling` what the calls that wait have found in memory before they wait. Both
chains hold until the first storage error, after which the rest of a batch is lost
and nothing is promised. Then `Get` answers the last write because a record that
is not in memory is, batch for batch, what the chain makes of the storage, which
`Wait` has let run dry; the storage refuses nothing because a batch inserts
exactly the records that are empty before it and leaves torn ones alone; a flush
leaves an empty chain. `Opened` says that the one file that may be empty is that of
a record of the batch under way, which its commit does not delete: this is what
`TornCrash` of `RecordStore` allows to be torn. Proved:
`TypeTheorem`, `NeverRefusedTheorem`, `FlushSavesTheorem`, and `RefinementTheorem`
(`Spec => StoreSpec`, every step mapped to a step of `RecordStore` or to none).

**ServerSync.** The invariant says that `syncRequest` is the number of clients
between their request and its withdrawal, and that a client that holds the lock
has the worker stopped with `syncPointReady` set. Exclusion follows because the
worker leaves only at a count of 0. Proved: `TypeTheorem`, `HolderSafeTheorem`.

**UpdateTransfer.** `Session` says that while the connection is up exactly one
message is on its way, or none at the points where nobody expects one: the
greeting, the list, the request for a file, the request for data, a portion, the
dismissal. For each it says where the two counters stand: a portion on its way
holds the bytes that follow those the client has got, and the server stands behind
them (`ServerAt`), either in the file or, when the last portion is out, at none.
This is an equation over `portion * SendSize`, `remaining` and the size of the
file, and it is the reason that a wrong call can only happen in a file of whole
portions. `Fetching` says that the temporary file is the beginning of the current
one and that the other files are there. The front of the set of files is its least
element, which exists by well-founded induction. Proved: `TypeTheorem`,
`NeverTornTheorem`, `ReadyIsCompleteTheorem`, `InStepTheorem`.

**Connection.** `IInv` is `TypeOK`, `OneWriter` and "a connection that this side
has given up is closed". `OneWriter` is an equivalence: `_writePending` is raised
exactly while a thread is between the exchange and the hand-over to asio, or a
write is under way, and at most one of these holds; as an implication it would
not be inductive. `ChannelTheorem` proves `Spec => ChannelSpec` by mapping each
step: `Output` puts a message, or on a broken link changes nothing; `Claim`, `Send`
and `Release` only move messages inside the queue (`Send` needs `OneWriter`: there
is nothing in `sending` that it would overwrite); `ClientReads` takes;
`Disconnect`, `LinkBreaks` and the goodbye lose an end. `GoodbyeTheorem` needs no
invariant: it goes through the steps of both threads and shows that every handler
of a message looks at `IsGracefulDisconnected` before it takes one
(`MessagesAreDropped`), and that no step takes a goodbye back. Proved:
`TypeTheorem`, `OneWriterTheorem`, `ChannelTheorem`, `GoodbyeTheorem`.

**Critters.** `TogetherTheorem` proves `Spec => []Together` without any contract for
scripts, for calls nested to any depth. The delicate steps are the arrival of a
critter, which must be nowhere then or it would be on two maps, and the end of
`UnloadCritter`, which must not destroy a critter that is on a map. Both wait
under the call that makes the critter leave. So the invariant is one on the
stack: whatever is directly above a frame of `Behind` is a frame of `Leaving` for
the same critter (`Inside`), in every position, and when such a frame is on top its
critter is alive and nowhere. It is kept because a call that makes a critter leave
ends only by removing it or by an exception, and an exception takes every frame
down to a callback along: `Inside` says that no callback lies directly above a
frame of `Behind`. `FrameOK` says what the frames hold at each place of the code.
The lemmas on stacks (`ConcatGood`, `TailGood`, `GoToLemma`, `AbortLemma`) are stated
once and used by every action. `TypeTheorem` adds `SortInv` and `Unique`: no two
transfers of one critter are under way, because `Transit` looks for the others in
the stack (`LockMapTransfers`) and every later frame of it takes the place of an
earlier one (`Bound`). It needs no contract either.

`OrderlyTheorem` is the theorem under the contract (`broken` is false). Its
invariant `Sound` says

* `Promise(f)`: what the state must be like for the call `f` to go on;
* `Chain`: which call can be right above which (`Near`), which somewhere above
  which (`Order`), and which with no callback between them (`Run`);
* `Covers` and `Cleared`: whatever is half destroyed is so on account of one call
  under way, and a location that is destroyed holds nobody;
* `AtTop`: everybody who is alive is somewhere and attached properly (`Calm`), but
  for the one critter that the innermost call is moving or taking apart
  (`Halfway`).

The calls under a callback are protected by the contract: `HeldLemma` turns
`~Touches` into "what they hold is unchanged", in the form their promises use.
The calls above the topmost callback, which no contract covers, are few:
`LooseLemma` says that of these only the innermost can be anything but a convoy,
a look, the end of the location or a call that waits for its critter to leave.
What follows for the code: under the contract no assertion of these functions
fails, the detector of endless loops of `DestroyMapContent` (`Refuse` in
`ClearMap`) is never needed, `DestroyCritter` never needs a second round after its
critter is torn off, and a refused transfer (`TransitLocked`) leaves nothing
halfway although it takes calls down with it (`AbortSound`). The convoys with
which a run starts must be proper ones (`StartAssumption`): together, and without
convoys of convoys.

`WholeTheorem` (an action property) adds `Tale` for the transfers that are
undisturbed, those after whose beginning no script has called anything. `Guarded`:
above such a transfer are only callbacks that return, looks and the removal of its
critter, or right above it the transfer of one that follows. `OnTheWay`: its
critter and those that were attached are alive and alone, those still to be
fetched are on the map it came from, those that were fetched are where it goes or
on top in a transfer of their own. `Descent` says once for all steps that the
frames they add are new or go on for the innermost call, so that no step makes a
transfer undisturbed that was not; `CallTale` says that any call of a script
disturbs them all. `Calm` of `Sound` is what says that those who are detached at
the beginning are alive and on the same map. Proved: `TogetherTheorem`,
`TypeTheorem`, `OrderlyTheorem` (invariants), `WholeTheorem`.

**Deferred calls.** `CalendarTheorem` is about the conversions alone: the date that
`FullTimeToDateTime` makes of a full time so many seconds after another one is the
one that the reference calendar (`DateAfter`, day by day) makes of the first day of
that month. The invariant has three layers, each proved on top of the one before.
`IInv` is about records: types (`Typed`), the origin of the ids that memory and
records share (`OriginInv`), what the last commit holds (`SavedInv`) and that the
records of calls are those of the list until a crash has torn the two apart
(`MatchInv`). `DateInv` is about the clock: once a second has passed, the date is the
one that belongs to the full second, wherever a reset or a setting of the time has
left it; two such dates are as far apart as their seconds because the days of two
full times are counted by the same calendar (`DateAfterLemma`). `TimeInv` adds what a
pass over the list has read and not yet compared (`PassInv`) and that a call that
waits is not early by the clock (`CallsInv`). The assumptions on the constants say
that times and delays are numbers, that dates are dates, that the bounds are
numbers and that the markers of an empty and of a torn record are no records;
nothing is assumed about how long the clock runs, and `FullSeconds` wraps where the
code does. Proved: `TypeTheorem`, `SavedMatchTheorem` (invariants),
`DateAdvancesTheorem` and `RunsRightTheorem` (action properties).

**Items.** `TypeInv` gives every frame the item, the holder and the count that its
function goes on with. `Orderly` holds as long as scripts leave alone what the
calls under way rely on (`broken` is false), and so does the second part of the
invariant, `Sound`, which says three things about the stack. `Promises`: what the
state must be like for each call under way to go on, which covers the items
that it has taken from one list and not yet put into the next, and those it is
about to destroy. `Chain`: which call can be directly above which, with callbacks of
scripts between them. `Covers`: whatever is out of order in the state (an item in
no list, a holder half destroyed) is so on account of one call under way.
`HeldLemma` is the step at which the scripts' restraint is used: `Touches` is
false, so what the frames under a callback hold is unchanged, and that is all that
their promises speak of. A step of the call on top is then looked at only for
itself and for the call right under it. `TypeTheorem` needs none of this and holds
for scripts without restraint.

`CoinsKept` says something of the moments without a call only, and in between it
is false: `SplitItem` creates the new stack before the scripts and takes its coins
from the old one after them, and a stack that joins another is destroyed before
its coins are added. `Ledger` says what is true at every step: the coins of all
items, less those that splits under way have given out twice (the function `p`),
plus those that the merge on top is about to add (`Owing`), are `asked`. `Books`
is what the frames must say for that: `Entry`, what a split has in hand; `Link`,
that `DestroyItem` for coins that join others (`n = 0`) is right above their
merge and no other is; and that nobody puts an item somewhere while a call below is
destroying it. `MoveBooks` is the step at which the scripts' restraint is used: the
counts that a split or a destruction under a callback has read are the same after
it. Each action then has its lemma (`MergeBalance`, `SplitDoneBalance`, ...), which
changes the worth of one item or of two (`WorthOne`).

The sum is `FoldFunctionOnSet`, a recursive function on the subsets of the coins.
That it exists, that one item can be taken out of it (`TakeOut`), and so that a
change of one item changes it by as much (`TotalChange`), is shown once, for any
finite set: a least size of a subset at which it failed would contradict the
equation that defines it. `CoinsAssumption`, that the items that there may be are
finitely many, is the only assumption this needs; identifiers of entities have 32
bits. Proved: `TypeTheorem`, `OrderlyTheorem`, `CoinsTheorem`.

**Only model-checked**: the liveness properties, `DueRuns`, `PassEnds` and `Returns`
among them (fairness and ENABLED are beyond the prover here).

## 5. Where the code does not do what it says

Each of these four is the subject of a run that TLC must find violated, and of a
finding in `PROJECT.json` with the lines.

1. `WorkThread::Clear` can wait for ever (`worker_clear`): its notification can
   fall between the worker's `notify_all` and its wait; the worker resets the flag
   and does not tell anybody. `~FOServer` calls `Clear` three times.
2. A `Lock` that times out may leave the main loop standing still (`sync_timeout`).
3. A resource file whose size is a positive multiple of `UpdateFileSendSize` can
   never be fetched (`update_even`). `update_transfer` checks, and `InStepTheorem`
   proves, that these are the only files with that fate.
4. A query of the server's status stops the main worker (`connection_status`):
   `ClientConnection::DisableCompression` calls `Dispatch`, whose mutex the caller
   has locked.

Met while modelling, where no sentence of the repository says otherwise. The
models follow the code in each of them, or leave the detail out as noted.

*Data base and registry*
* The game's own record is inserted with an empty document (`Server.cpp:413`), which
  every storage refuses; the rest of that batch is lost. It needs that no
  property of the game is changed before the first commit. `InsertDocs` leaves it
  out.
* The last entity identifier is in another record than the entities
  (`EntityManager.cpp:893`): a crash between the two lets an identifier be given out
  again. The same holds for deferred calls, where `skewed` stands for it.
* `DbJson` empties the file of a record before it writes it (`DataBase.cpp:743`,
  `796`): a process that dies in between leaves a record that cannot be read, and
  the server does not start again. The model has it (`Torn`). `DbUnQLite` has no
  journal (`DataBase.cpp:1065`, section 2).
* `GetAllIds` (`DataBase.cpp:118`) reads the storage without the pending changes;
  it is called before there are any.

*Time and deferred calls*
* The day of the month is added in microseconds and so lost when a date is set
  (`Timer.cpp:302`), although `Timer.h:45` says `Day; // 1 .. 31` and `SetGameTime`
  asserts that range: the date falls back to the first of its month with the next
  second. `DateAdvances` leaves that first second out.
* After `Reset` the full second starts at 0 while calls keep the seconds of the old
  clock: they run late by all that it had counted (`Timer.cpp:64-66`). This is so
  for every saved call after a restart.
* The elapsed milliseconds are converted to 32 bits before they are divided
  (`Timer.cpp:100`): 49.7 days after the clock was set the full second falls back to
  0, and calls that wait for a later second never run while the server does (at a
  multiplier of 1; at 50000 the seconds wrap after about a day). No property
  promises that a call is on time.
* A delay times the multiplier is a product of 32 bit numbers
  (`DeferredCalls.cpp:91`); a call with a longer one runs early. `RunsRight` leaves
  such delays out.
* A pass compares with the second it has read before its scripts set the clock; a
  repeating call gets its next time from there. `RunsRight` leaves that pass out.
* A call that schedules a new one with no delay each time is due at once, so that
  the loop never ends (`DeferredCalls.cpp:141`). `PassEnds` is checked with `MaxAdds`
  calls.

*Items and critters*
* `DestroyItem` of a container can loop for ever: `while (item->HasInnerItems())`
  (`ItemManager.cpp:186-188`) destroys the first item inside, which does nothing
  (`171`) if that item is being destroyed already. It is enough that a script in
  `OnItemFinish` of a coin destroys the bag it lies in; or that the callbacks of a
  move destroy the item that `MoveItem` (`306-333`) then puts into the bag without a
  look. `Returns` shows that it is the only way for a call not to return
  (`Spinning`).
* The statistics of items only fall: `OnSetItemCount` runs before the value is set,
  so that its difference is 0 (`Server.cpp:3297-3309`, `ItemManager.cpp:195-196`).
* A radio that is moved is unregistered and not registered again
  (`CritterManager.cpp:109`).
* Coins that a script adds to a stack while its `OnItemFinish` runs are lost with it.
* A container may be moved into itself or into what it contains.
* `KickPlayersToGlobalMap` walks a vector from which `TransitToGlobal` erases
  (`MapManager.cpp:687`).
* The second round of `DestroyCritter` always fails the assertion at
  `CritterManager.cpp:257` (`Registered` and `place` in `TearOff`).
* If a script destroys a critter in `OnGlobalMapCritterOut`, the pointer to its group
  is null when `RemoveCritterFromMap` goes on (`MapManager.cpp:1664`).
* `DestroyMapContent` walks a copy of pointers to NPCs that scripts may have
  destroyed (`MapManager.cpp:389`).

*Elsewhere, not modelled*
* `Process_Login` swaps the connections of two players (`Server.cpp:2639`).
* A periodic job that throws is dropped for good (`Common.cpp:732`; in `WorkThread`
  it is, what the server does without it is not modelled).
* A file of the same size is taken as up to date whatever its content
  (`Updater.cpp:278`): `ReadyIsComplete` promises the bytes only of fetched files.
* Pings are judged late by a worker that was busy itself (`Server.cpp:1232`); the
  flood test adds what has come to the read position (`Networking.cpp:269`); the
  socket is deleted in its read handler (`Networking.cpp:438`).

## 6. Not modelled, and why

* **Life cycle of the server**: it is the composition of `WorkThread`, `DataBase` and
  the loop's jobs and has no state of its own but `_started`; a model would have
  the product of their states.
* **Two connections of one player**: needs two copies of `Connection`, which has 628
  thousand states for one. What a login does to its own connection is in
  `Connection`.
* **Entity registry**: maps from identifiers to entities that follow the managers,
  whose models hold the same sets.
* **Hexes, path finding, tracing, look distances**: functions over coordinates and
  map data; the models take any answer for them.
* **Groups on the global map, triggers, items that critters see**: each would add
  a callback of the same form at the same places of `Critters`, whose instance
  already needs four million states.
* **Dialogs, properties and their serialisation, files, configuration, script
  bindings, the client's drawing and sound, the frontend, tools**: input, output,
  conversion or generated code without a protocol or shared state.
* **Vendored libraries** (most of the lines of the repository): other projects'
  code.

Where a model allows more than the code: `Rejoin` of `Critters` gives up the lock of
the transfer before the last looks, the code after them. Where it allows less:
`ClearMap` turns to the NPCs when no player is left on the map, and walks the players
cleanly (the vector of the code is named in section 5); `DeferredCalls` has no crash
that tears a record (section 2).

Liveness of `Critters` is not stated: the code ends its loops by detectors
of endless loops, which throw (`ClearMap` takes that way out as `Refuse`, which by
the proof of `OrderlyTheorem` needs a script that breaks the contract); `Orderly`
says instead that no call is left halfway.
