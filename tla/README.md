# TLA+ models of the ownCloud iOS SDK

This project models and verifies the core logic of the ownCloud iOS SDK: the
sync engine that carries out the user's changes on the server, the item list
that follows the server's changes, and what the app and its extensions share to
do both together. The modules are translated from the source; `PROJECT.json` maps every definition to its lines.

Paths below are relative to `src/ownCloudSDK/`.

## 1. The system

An app keeps an `OCCore` per account. Local changes (upload, move, delete, ...)
are *sync actions*. The core wraps each in a *sync record*, stores it in the
journal and carries it out on the server when its turn comes. Meanwhile it keeps
a cached file tree current by listing folders ("item list work"). App and
extensions (file provider, share extension) run a core each, on the same stores.

| Component | State | Operations | Hard parts |
|---|---|---|---|
| Sync engine (`Core/Sync`) | sync journal, lanes, records under way, cancelled progress objects | submit, process (the pass), handle event, reschedule, deschedule, cancel, resolve issue | records, events, cancellations and terminations interleave with a pass of many steps; requests are sent inside a transaction that may be rolled back |
| Event delivery (`Events`, `HTTP/Pipeline`, KVS, events table) | finished requests, `OCEventQueue` with used UUIDs, rows of the events table | queue, transfer, clear, handle, remove | three stores, no common transaction, several processes, terminations in between |
| Scheduling of passes (`Core/Sync`, `Core/ItemList`, `Core/Connection Status`) | `_needsToProcessSyncRecords`, blocks on the core's queue, deferral window and timer, bulk depth | set needs, run if needed, defer, begin/end bulk import, wake up | four reasons to hold a pass back, each with its own wake-up |
| Upload action (`Core/Sync/Actions/Upload`) | record in the journal, instances in memory, temporary copy, checksum jobs | schedule, handle result, complete, deschedule, restart stuck records | checksum and completion run outside the core's queue; termination between the event and the completion; health check of another process |
| Wait conditions, issues, message queue | conditions of a record, messages and responses | evaluate, respond, recover | an answer may arrive before, twice or after the record is gone |
| Item list (`Core/ItemList`) | update jobs, running tasks, cache and server sets, sync anchor, coordinated scans | schedule, update, merge, finish | a listing races with local changes and with other processes' changes |
| Database (`Vaults/Database`) | tables of items, journal, lanes, events, jobs | exclusive transactions, nested ones | busy database, rollback, termination |
| HTTP pipeline (`HTTP/Pipeline`) | queued, running and finished requests on disk | enqueue, schedule per group, deliver, remove | background sessions outlive the process |
| Remote trigger (`Core/Sync`, `Toolkit/OCProcess*`) | state files, sessions, active cores, acknowledgements, exempted records | ping, trigger, acknowledge, time out | acknowledgement races with the time-out; a process is suspended or ends with work in hand |
| Lock manager (`Lock Manager`) | locks with an expiration date in the key value store, requests, timers | request, release, update, keep alive | expiry while a process is suspended; lost notifications; release during an update |
| Key value store, signals, claims | values shared by the processes, signals, claims on local copies | read, update, post, consume | values changed by another process meanwhile |
| Core manager, bookmark manager | reference counts, offline operations | request, return, schedule offline operation | request and return while a core starts or stops |
| Queries, data sources | cached and processed results, snapshots | update, compute changes, subscribe | changes while a change set is computed |
| Connection, authentication, TUS | connection state, tokens, upload offset | connect, refresh token, send segment | refreshes shared by requests; a segment's lost response |
| Item policies, resources, sharing, search, XML, Graph API, settings, logging, UI | mostly data or I/O | | little or no protocol |

What makes them correct, in a sentence each:

- *Sync engine*: conflicting actions never run at the same time, run in the
  order they were submitted, within the budgets; no record is lost; every record
  is eventually carried out or given up.
- *Event delivery*: the answer to a request reaches its action, exactly once.
- *Scheduling*: whenever there is work for the engine, somebody will run a pass.
- *Upload*: one request at a time, none after the file arrived, the copy is kept
  while it is needed, and the record leaves the journal.
- *Item list*: the cache ends up equal to the server's tree, and no listing
  takes away local work that was not carried out yet.
- *Remote trigger*: a record is carried out by its own process while that works,
  and by another one when it does not.
- *Locks*: one holder at a time, no lock outlives its holder, every client is
  answered.
- *Claims, signals*: a claimed copy is not removed; a signal reaches its consumer
  once.
- *Core manager*: no core is used after it was stopped, and none stays for ever.

### How the modelled components interact

```
 app threads          core queue                       HTTP pipeline queue
 submitSyncRecord --> setNeedsToProcessSyncRecords
                        | block
                      processSyncRecordsIfNeeded  (gates: offline, query work)
                        |
                      processSyncRecords
                        transfer events  <---- KVS queue <---- queueSyncEvent:
                        clear KVS                                    ^
                        [deferral gate]                              |
                        exclusive transaction                    response
                          phase 1: lanes in progress                 ^
                          phase 2: lanes with a Ready head           |
                            handle events, schedule records ---> request
                        commit
 item list work done, timer, import ended, back online --> setNeeds...
```

`SyncEngine` models the middle in full detail, with the stores around it
reduced to what they deliver. `SyncEvents` models the right-hand side in detail,
with the pass as one step. `SyncTrigger` models what is above and below the
pass, and of the pass itself when it gives way, with uploads only. `UploadRecord` follows one record
through passes, pipeline, stores and the jobs outside the queue, with several
processes. `RemoteTrigger` models which process's pass carries a record out.
Each takes as a step what another one refines.

`ItemList` models the other half of the core, which shares the database with the
engine: the sync engine appears in it as local changes and results that write
the same rows. `LockManager` is used by the coordinated scan of the item list
and by the refresh of tokens, both through `-requestLock:` and
`-releaseLock`.

```
   app                                          extension
   core -- pass -- journal, events, rows -- pass -- core
    |  \_ item list task -- rows, update jobs -- task _/ |
    |                                                   |
   process manager -- state files, pings, sessions -- process manager
    |__ trigger, acknowledgement, active cores (KVS) ___|
   lock manager ------- locks (KVS) ------------ lock manager
```

## 2. Modules

| Module | Models | Kind |
|---|---|---|
| `SyncEngine` | `OCCore+SyncEngine.m`, `OCSyncLane`, `OCSyncRecord`, journal, lane and event tables | specification, invariants, liveness |
| `SyncEngineProofs` | | TLAPS proofs about `SyncEngine` |
| `SyncEngineLoadProofs` | | TLAPS proofs about the requests and budgets of `SyncEngine` |
| `EventDelivery` | what `-queueSyncEvent:sender:` promises | abstract specification |
| `SyncEvents` | pipeline delivery, `OCEventQueue`, event transfer | specification that implements `EventDelivery` |
| `SyncEventsProofs` | | TLAPS proofs about `SyncEvents`, with the refinement |
| `SyncTrigger` | `-setNeedsToProcessSyncRecords`, `-processSyncRecordsIfNeeded`, deferral, bulk imports | specification, invariants, liveness |
| `SyncTriggerProofs` | | TLAPS proofs about `SyncTrigger` |
| `UploadRecord` | `OCSyncActionUpload`, `-restartStuckSyncRecordsWithFilter:`, cached instances of the record | specification, invariants, action property, liveness |
| `UploadRecordProofs` | | TLAPS proofs about `UploadRecord` |
| `LockManager` | `OCLockManager`, `OCLock`, `OCLockRequest` | specification, invariants, liveness |
| `LockManagerProofs` | | TLAPS proofs about `LockManager` |
| `ItemList` | `OCCore+ItemList.m`, `OCCoreItemListTask`, update jobs, `-incrementSyncAnchorWithProtectedBlock:` | specification, invariant, action property, liveness |
| `ItemListProofs` | | TLAPS proofs about `ItemList` |
| `RemoteTrigger` | `OCProcessManager`, origin check, trigger and acknowledgement of `OCCore+SyncEngine.m` | specification, invariants, liveness |
| `RemoteTriggerProofs` | | TLAPS proofs about `RemoteTrigger` |
| `MCSyncEngine`, `MCSyncEvents`, `MCSyncTrigger`, `MCUploadRecord`, `MCLockManager`, `MCItemList`, `MCRemoteTrigger` | | constants for TLC |

### 2.1 SyncEngine

State. `journal`, `lanes` and `events` are the tables of `OCDatabase`; a record
keeps its action, lane, state, whether `inProgressSince` is set (`started`) and
whether an `OCWaitConditionIssue` is unresolved (`issue`). `snapshot` is the
database as of the last commit. `kvs` and `requests` live outside the database
and survive a rollback. `phase`, `heads`, `lane`, `last`, `current`,
`instruction` and `running` are the local variables of `-processSyncRecords`.
`done`, `withdrawn` and the counters are history.

Steps. A pass is `StartPass`, then visits to lanes (`VisitInProgress`,
`VisitReady`), each a walk: `FetchRecord`, any number of `HandleEvent`, then one
of `DeleteLast`, `CancelRecord`, `Sideline`, `Wait`, `Schedule`, `ScheduleLocal`
in the order of the branches of `-processSyncRecord:error:`, and finally
`LeaveLane` or a stop. `FinishPass` commits. `Respond`, `Cancel` and `Crash`
happen at any point of it. `Submit` and `Answer` need the transaction or the
core's queue and wait for its end.

Lane tags are model values related by `Related`, which says for which pairs
`-coversTags:` finds a prefix in either direction. The root path, which
`-coversTags:` skips, is `RootTag`: as in the code a record with that tag never
finds its tags "identical" to those of a lane.

What is abstracted or left out:

- `YieldPass` stands for every reason to end a pass early (item list work, bulk
  import, and the check in `ProcessLane` before an upload is scheduled); when
  they apply is the subject of `SyncTrigger`.
- A record whose preflight fails leaves no trace, so `Submit` is the other case.
- Issues are the only wait conditions. A retry is either the user's choice or
  not at all; the upload's own steps are in `UploadRecord`.
- One process. The origin session check is in `SyncEvents` and `RemoteTrigger`.
- The health check at start (`-restartStuckSyncRecordsWithFilter:`) finds nothing
  here, as a record in progress always has a request or an event; it is modelled
  in `UploadRecord`, where that is not so.
- `maximumSyncLanes` has its default 0 (no limit). Errors of the database other
  than termination, exceptions thrown by actions and the state Failed are left
  out.
- After a crash `cancelled'` is any subset of what it was: whether a cancelled
  flag was written with its record depends on later updates of the record.

### 2.2 EventDelivery and SyncEvents

`EventDelivery` has pending events, a count of how often each was handled and
the open records. `SyncEvents` has the three stores and the steps of the queues
that move an event along, each write a step of its own. The refinement mapping:
pending events are those in any store that were not handled yet (`Pending`), and
`count` is `handled`. A hand-over is a stutter of `EventDelivery`, whether it is
completed, repeated or interrupted. The pass is one step here, since its
transaction is exclusive and a termination rolls it back as a whole.

`UsedMax` is the number of UUIDs an `OCEventQueue` remembers: 100 in the code, 3
in the run, so that it is not the limit for three events. With a smaller value a
response that is delivered again after `UsedMax` others would be handled twice.

The queue and the events table keep no order here, and a pass handles all rows of
a record it reaches. `db` counts the rows of an event, so that a second row would
be seen. The UUIDs are remembered in order, because the oldest is forgotten first;
one pass may add its UUIDs in any order.

Two simplifications concern several processes. A process reads the key value
store as it is, where the code reads a copy that a notification brings up to
date later; a stale copy can only add to what `events_twice` shows, and for one
process the two are the same. Errors of the transfer's transaction are left out.

### 2.3 SyncTrigger

`upload` says of each upload where it is: Ready, `inFlight`, its event `queued`
(in the KVS) or `stored` (in the database), `done`. `lane` is its lane, chosen at
the start. `blocks` counts the blocks of `-processSyncRecordsIfNeeded` on the
core's queue; `MaxBlocks` or more are not told apart, which can only take
wake-ups away. `window` and `wakeUp` are the deferral window and its timer; a
timer armed for a window that was reset meanwhile is `outdated` and may fire at
any time. Item list work begins (`StartWork`), stops to count as pending
(`EndWork`) and has its completion handled (`FinishWork`), which wakes the engine
if nothing else is pending. `EndBulk` and `FlushBulk` are two steps because
`-endBulkLocalMutations` leaves its lock between them.

The pass is one transaction but not one step, since item list work, imports,
timers and the connection do not wait for it. `BeginPass` reads the lanes' first
records into `heads`; lanes in progress are visited first (`IsNext`). The pass
asks in two places whether to give way, and they differ:

- At a head (`YieldPass`, lines 1302 and 1321): no lane is visited any more and
  the flag is set.
- In the lane, before a Ready upload (`LeaveUpload`, lines 1164-1169): only this
  lane is left, the flag stays as it is.

`VisitLane` is the first check alone; `record` is what the loop over the lane has
fetched. `HandleEvent` deletes the record and fetches the lane's next one,
`AwaitResult` stops at an upload under way, `ScheduleUpload` and `LeaveUpload`
are the two outcomes of the second check. Work that begins between the checks is
thus met in the lane, and such a pass ends with uploads left and the flag
cleared. Which lanes wait for others and which budgets are used up is the subject
of `SyncEngine`; here a Ready head may be passed over (`PassOver`), or its upload
left, whenever a lane that was visited before still has a record (`HeldBack`).
An error of the upload, its issue and its retry are left out.

`GoOnline` is the change of the status, which the gate reads. The pass is asked
for later: by a block on the core's queue that queues one on the connectivity
queue, which queues a third on the core's queue. `reconnects` counts these
chains, `Reconnected` is the end of one. That block asks only if the core's state
is Running; the core of this module has connected before, and it stays Running
when its connection is lost.

### 2.4 UploadRecord

One upload, from its first scheduling to its removal. `row` is its row in the
journal, `copy` the temporary copy that is sent, `where` says which of the three
stores hold each request or its event (as in `SyncEvents`), `cur` the instance
each process has in its cache, with the row's revision it was read at. `jobs`
are the two checksums computed outside the core's queue, which keep the instance
they were started with: `inst = {}` while that is still the cached one. `step`
and `block` are the blocks on the core's queue that take several writes.

`Schedule` parks the record in Processing with a checksum job (`-schedule...`);
`StartUpload` sends the request when the checksum is known and `StoreStarted`
updates the record. `HandleEvents` is `-handleResultWithContext:` for all events
of the record, then verification job, `FinishUpload`, `StoreCompleted`,
`RemoveCompleted`. `CheckRequests`, `CheckQueue` and `CheckRecords` are the
health check of a core that starts: it reads the pipeline, the key value store
and the database one after the other in an exclusive transaction, which holds up
other transactions (`Locked`) but not the pipeline.

Consequences the properties account for:

- The health check of one process may restart a record whose checksum another is
  computing, since there is no request yet: then two requests go out. The
  history variable `foreign` records it.
- A job that stores an old instance of the record replaces what another process
  wrote: the row can return to Processing with nothing under way, until the next
  start heals it. It also gives the row the revision after that of the old
  instance, which another process may have in its cache with other contents: that
  cache counts as current again, and a record it says is Ready is scheduled beside
  the request under way. This takes four processes, so no run reaches it; the
  history variable `overwritten` records that a job stored an old instance. If a health check still sees the request of an event that
  was just handled, it is the start after that.
- `FinishUpload` deletes the copy before the record is written as completed: a
  termination between the two leaves a record without a file to send, which only
  the user's cancellation ends.
- The cancelled flag is in the memory of one process.

Left out: what the record's item looks like, resumable uploads (an upload is one
request), and the choices "keep both" and "replace", which are retries here. A
restarted record makes a request of its own; two requests are told apart.

### 2.5 LockManager

One resource and its lock, which is identified by the request it was made for.
`db` is the value in the key value store with the time the lock has left.
`Modify` and `Notify` are the two halves of `-_updateLocks`: the modifier, atomic
across processes, and what follows on the lock queue, with clients and timers in
between. `tracked`, `released`, `stale`, `given` and `denied` are the sets the
code keeps for the two halves. Time passes by `Tick`, when no awake process has
something due: a queue that does not get to run in time is a process that
sleeps. Any process may sleep at any point, also between the halves. A
notification of a change reaches any subset of the other processes.

`Interval` stands for the four seconds of the code, and has to be even because
keep-alive runs after half of it. Left out: `-invalidate` and `lockNeededHandler`,
which no code uses; the forced keep-alive, which only prolongs; the order in
which waiting requests are served (any).

What is not in the model because `OCLock` instances are not: `-keepAlive:`
extends the instance decoded from the store and not the one the client was
handed, whose `isValid` becomes NO after four seconds. The item list's scan asks
that instance (`OCCore+ItemList.m:2016`, `:2126`).

### 2.6 ItemList

The root, one folder in it and one file in the folder. `server` counts the
changes of the file; a change gives all three a new ETag, so a row's ETag is the
count it was compared with. `rows` are the rows of the database, `task` the item
list tasks of each process and location: `pc` says where the task is, `copy` is
its cached set, `snap` the server's answer, `fresh` whether the anchor it read is
still the current one. `stored` and `queued` are update jobs in the table and in
memory.

A task reads the items, then the anchor (`ReadAnchor`), and gets the listing
(`ServerLists`, `HandleListing`). `Merge` and `Outdated` are the two outcomes of
the protected block in `-handleUpdatedTask:`. `MergedItem` is the case analysis of
the merge for the one file, with local work in the cached row or the current one.
`Refreshes` compares the folder's row with the listing and stores an update job.
`Scan` is the PROPFIND of depth 0 and its comparison; `LocalChange` and
`HandleResult` are the preflight and the result of an upload or a deletion;
`Crash` and `Launch` a process that ends and one whose core takes up stored jobs.

Consequences the properties account for:

- A task does not notice a change of another process between its two reads
  ("slipped rows").
- A listing that was taken before a newer one was merged puts old rows back
  ("older listing"), so does the result of an upload that arrives after a newer
  listing ("older upload").
- An error other than a network failure removes the update job with the task
  ("failed listing"), and an update job about to be removed stands for the new
  one ("finished job"). In all four the root's ETag then says that all is well.
- The attempt to merge at an old anchor raises the anchor itself, as its
  transaction commits: tasks can outdate each other again and again
  (`Contended`). `-incrementSyncAnchor...` also sets `_latestSyncAnchor` before
  anything is replayed, so that nothing is; results of queries are not modelled.

Abstractions: the first reads of the cache are delivered before the listing is
processed; scan answer and comparison are one step; only the last change removes
the file; `work` stands for `locallyModified` and the active sync records of an
item. Left out: the coordination of scans, folders that are moved or answer 404,
lookup of parents, drives, the number of parallel tasks, tasks queued while
offline, a second task for another query of the same folder, upload conflicts,
errors of the database (`-performUpdates...` ignores them). A job left in the
table by a process that ended keeps other processes from scanning the location
until a core starts: `Launch` is fair.

### 2.7 RemoteTrigger

The journal again, with the question which process carries a record out. On disk
are `stateFile`, the session in each process's state file, and
`activeProcessCores`. Each process has a `session`, the `sessions` it last read, a
`core`, `timedOut` (records exempted from the origin check) and `checks`, the
acknowledgements it awaits. Notifications are sets: `updates`, `pings`,
`triggers`, `acks`; a suspended process gets them when it goes on.

`LeftToOwner` is the first part of `-processSyncRecord:error:`; `SessionStored`
and `Responds` are `-isAnyInstanceOfSessionProcessRunning:` with its preference
for the session list, the state file and, for extensions, the ping. `Pass` walks
all lanes in one step, since the transaction is exclusive: it removes answered
records, sends requests for ready ones, and triggers the owners of records it
leaves. `Acknowledge`, `ReceiveAck` and `CheckAck` follow. `Orphaned` says when
the pipeline of another process may deliver or restart a request.

Time is not counted. `Due` says that no seven seconds pass while an awake process
has a notification to answer; a suspended process may find its timers expired
before it gets the acknowledgements (`Resume`). Left out: gates and budgets of
the pass, several checks of one record under way at a time (merged), and the
boot time in a session.

Consequences the properties account for:

- An app is judged by its state file alone, so one that was terminated without
  notice counts as running until a trigger is not acknowledged.
- A timed-out check takes the owner off the list for all processes, until its
  next pass, and exempts the record for the life of the core. If the check was
  of a record submitted before the owner was away, the owner may be back by then
  and its other records are taken over all the same; they are in `absences`, too.
- The own, older list of sessions precedes the newer session in the record; with
  an outdated list another process takes a healthy owner's record over. These
  cases are in `absences` (`NotNoticed`).
- A process that has acknowledged and then goes away before its pass, or goes
  away after an event was left to it, leaves the record to nobody: no check
  waits for it. These cases are in `abandoned`, and end with the next pass of
  any process that finds it.
- Two processes with a record each in progress trigger one another at each pass,
  as the origin check precedes the check of the record's state; this goes on
  until one of the requests ends.

## 3. Runs

| Run | Bounds | Distinct states | Shows |
|---|---|---|---|
| `engine_order` | 3 records of update/delete `/p/` and move out of `/p/`, 1 failure, 1 cancel, 1 yield, 1 crash | 2.77 million | `TypeOK`, `NoConflictingActivity`, `OvertakesOnlyFromOlderLane`, `NothingLost`, `DuplicateRequestsAfterCrashOnly`, `Inductive`, `RequestInv` |
| `engine_live` | 2 records of two uploads, an update and a local deletion, budget 1, 1 failure, cancel, crash, fair | 392 thousand | `LoadInv`, `ReadyLanesStayInBudget`, `RecordsSettle`, `EmptyLanesDropped` |
| `engine_overtaking` | 3 records, no faults | violation | `NoOvertaking` (finding 1) |
| `engine_retry` | 2 uploads, 1 failure | violation | `BudgetRespected` (finding 2) |
| `events_once` | 1 process, 3 events of 2 records, 2 terminations, 1 yield, fair | 96 thousand | `TypeOK`, `AtMostOnce`, `ImplementsDelivery`, `EventsSettle` |
| `events_twice` | 2 processes, 2 events, no termination | violation | `AtMostOnce` (finding 3) |
| `trigger_wakeup` | 2 uploads on 1 or 2 lanes, a query's and a background piece of work, 1 import, 1 outage, fair | 996 thousand | `TypeOK`, `NoLostWakeUp`, `UploadsScheduled` |
| `trigger_starved` | 1 upload, background work that goes on | violation | `DeferralBounded` (finding 4) |
| `trigger_remote` | app and extension, a record each on one lane, 2 suspensions, terminations or stopped cores, fair | 450 thousand | `TypeOK`, `TakenOverOnlyAfterAbsence`, `LeftRecordsServed` |
| `upload_recover` | 1 upload, 2 processes, 2 requests, 1 failure, 1 cancel, 1 termination, fair | 1.13 million | `TypeOK`, `OverlapOnlyAfterInterference`, `CopyKeptUntilUploaded`, `ReuploadOnlyAfterTermination`, `UploadSettles` |
| `lock_hold` | 2 processes, 3 requests of one resource, 1 suspension, 1 termination, any notification lost, fair | 842 thousand | `TypeOK`, `HeldUnlessSuspended`, `NoAbandonedLock`, `ClientsAreTold` |
| `items_merge` | 2 processes, 2 folders, 1 file, 2 changes on the server, 1 event (folder opened, local change, failed listing, termination), fair | 897 thousand | `TypeOK`, `RootETagVouches`, `LocalWorkKept`, `CatchesUp` |

Why the bounds are enough to be interesting. Three records are what it takes for
one to join an old lane past a newer conflicting lane. One failure gives an
issue with either answer, one crash rolls back any prefix of a pass, one yield
leaves any part of it undone. Two terminations interrupt the recovery from the
first. Two pieces of item list work can end in either order and overlap with
each other's completion; one of them may begin between the two checks of a pass
and the other serve a query. Two uploads share a lane, so that the second is met
in the lane after the first one's event, or have a lane each, so that one keeps
the other's budget. The invariants and action properties of
the passing runs are proved for all bounds as well (section 5).

The liveness run of the engine has no yield: with one it would be too large, and
that a pass that yields is followed by another is the subject of
`trigger_wakeup`. One termination of an upload cuts in at any of its steps, and
the second process starts at any of them; two requests are enough to overlap.
Three requests of two processes give a holder, one that waits in the other
process and one that does not wait; an `Interval` of 2 ticks has a moment
at half of it, when keep-alive is due. Two changes on the server let one fall
between a listing and its merge and one after it. Two absences let a process
that took over go away too.

Deadlock is not checked in any run: once the bounded number of records, failures
and so on is used up and all is settled, the modelled system rests. That it does
not rest too early is what the liveness properties say.

### Fairness

- Steps of the pass (`WF(Pass)`, `WF(CoreQueue)`, `WF` of transfer, clear and
  process): a dispatch queue runs the blocks queued on it.
- Responses (`WF(Network)`, `WF(Complete)`, `WF(QueueEvent)`, `WF(Answer)`):
  requests end with a response, an error or a time-out, and the pipeline delivers
  what it stored.
- Answers (`WF(User)`, `Resolve` in `Pass` of `UploadRecord`): issues are
  answered. Without it a record that waits for one stays.
- Timers, ends of imports, the return of the connection and the blocks it queues
  (`SyncTrigger`).
- Relaunch (`WF(Start)`, `WF(Launch)`): an app that was terminated is started
  again. `UploadRecord` also has `WF(Quit)`: an app that rests is closed at some
  time, since the health check runs only at a start.
- `EndWork` is fair for query work in `BusySpec`, for all work in `FairSpec`.
  `BusySpec` is the situation the comment on the deferral window is about.
- `LockManager`: the lock queue of an awake process runs, time passes, clients
  release. Nothing makes a suspended process go on or a terminated one start.
- `ItemList`: queues are served, listings are answered, the server carries
  actions out. A merge that finds the anchor moved is served, too, so fairness
  does not rule out that tasks outdate each other.
- `RemoteTrigger`: what is queued in an awake process, its timers, answers of the
  server, and the user's return to the app. Nothing brings an extension back, and
  nothing brings the app back while answers of the server go on arriving.

`YieldPass`, `Crash`, `Sleep`, `Suspend`, `Terminate`, `Submit`, `Cancel`,
failures and changes by others have no fairness: they may or may not happen. All
fairness is weak.

## 4. What the runs found

1. **Overtaking** (`engine_overtaking`). `doc/SYNCENGINE.md` says a record
   waits for earlier ones with conflicting tags. `_laneForTags` puts a record
   on the newest lane with identical tags, though a newer lane may conflict with
   it: update `/p/`; move `/p/x` away; delete `/p/`. The deletion joins the
   update's lane and precedes the move. What does hold, and is proved:
   conflicting records never run at the same time (`NoConflictingActivity`), and
   a record overtakes only from an older lane (`OvertakesOnlyFromOlderLane`).
2. **Budget exceeded** (`engine_retry`). A record that waits for an answer gives
   its budget back; retried, it is scheduled in phase 1 beside the one that took
   its place. A record that follows one of another category on a lane in progress
   is started in phase 1, too, before the other lanes are counted (this takes
   three records). What does hold, and is proved: phase 2 never exceeds a budget
   (`ReadyLanesStayInBudget`).
3. **Event handled twice** (`events_twice`). The comment in
   `-processSyncRecords` relies on the queue being cleared under the sync
   engine's lock; it is cleared after that was released. What one process has
   transferred and not yet cleared, a second process may handle, remove from the
   table, find in the queue again and handle again. With one process the goal is
   met (`events_once`).
4. **Deferral without bound** (`trigger_starved`). The deferral window has a
   timer so that item list work holds uploads back for five seconds at most. The
   gate for query work has none, and the end of the query's task wakes nobody
   while background work goes on.

The properties of the other modules hold with exceptions they name, each of which
TLC needs: without it there is a behaviour of the code that breaks the property.
They are in 2.4, 2.6 and 2.7: an upload sent twice after a health check of
another process or after a job stored an outdated instance, an upload repeated
after a termination, the ways a folder's change is hidden by the root's ETag,
tasks that outdate each other, a record taken over though its owner works, and
a record left to a process that went away. They are not listed as findings, as
no document promises the opposite.

## 5. Proofs

TLAPS checks all of `SyncEngineProofs`, `SyncEngineLoadProofs`,
`SyncEventsProofs`, `SyncTriggerProofs`, `UploadRecordProofs`,
`LockManagerProofs`, `ItemListProofs` and `RemoteTriggerProofs`. They assume only the named assumptions on the constants,
which TLC evaluates in every run, and, in `SyncEventsProofs`, the two conditions
its theorems state.

**SyncEngine** (`BoundsAssumption`, `TagAssumption`, `ActionAssumption`), for any
tags, actions, budgets and bounds:

- `TypeCorrect`: `Spec => []TypeOK`
- `ConflictsExcluded`: `Spec => []NoConflictingActivity`
- `OvertakingExplained`: `Spec => []OvertakesOnlyFromOlderLane`
- `NothingIsLost`: `Spec => []NothingLost`

All follow from `InductiveHolds` (`Spec => []Inductive`). `NoConflictingActivity`
is not inductive, because it does not say why a second record cannot start. The
argument:

- `LanesHold`: a record's lane holds its tags; of two lanes with conflicting
  tags the newer comes after the older; lanes come only after older ones.
- `StartedInOrder`: a record that was ever scheduled is on a lane that waits for
  no existing lane; a Processing record is the oldest of its lane.
- So two Processing records that conflict would be on two conflicting lanes, of
  which the newer waits for the older, which exists; or on the same lane, both
  the oldest.
- `WalkInv` carries `StartedInOrder` through the pass: lanes to be visited in
  phase 1 and the lane being walked wait for none, and the records before the
  current one have left it.
- A crash returns to `snapshot`, so `DBInv` is also kept of the last commit.
  `IDsUsed` says that lane and record IDs are not used again (AUTOINCREMENT),
  so a rollback does not give an old `after` a new meaning.
- `HistoryInv`: what an event, an instruction or a cancelled flag says of a
  record is what happened to it; this gives `NothingLost`.

`SyncEngineLoadProofs` adds, under the same assumptions and from `Inductive`:

- `RequestsCounted`: `Spec => []RequestInv`
- `DuplicatesExplained`: `Spec => []DuplicateRequestsAfterCrashOnly`
- `LoadCounted`: `Spec => []LoadInv`
- `ReadyLanesWithinBudget`: `Spec => ReadyLanesStayInBudget`

That a record has at most one request is not inductive, because it does not say
that a retry follows only when the last request has ended. `OneRequest` counts
the requests of a record together with the outcomes in `Mail`, the events in the
database followed by those in the key value store: until a crash there is at most
one of the two, and a record that has one is Processing without an issue.
An answer to an issue, which makes the record Ready, therefore finds neither. A
crash ends this: it takes the journal back, but not the requests.

The budgets are counted by a pass as it goes, so the argument follows it:

- `BudgetInv`: the charges of the pass cover `Counted`, the records in progress
  on lanes that were looked at, the current one included when it is charged. One
  lane is walked at a time, and what a walk charges for a record it takes back only
  when that record is not in progress any more or waits for an answer.
- `VisitInv`: a lane is visited once, by the phase its head belongs to, and phase 2
  begins when phase 1 has looked at all its lanes. `ReadyInv`: on the lanes of
  phase 2 no record but the current one is in progress.
- So in phase 2 all that is under way is counted when a record is started, and
  `ShouldRun` compares the budget with that. In phase 1 it compares with part of
  it: the two ways to exceed a budget of finding 2.

**SyncEvents** (`EventAssumption`), for any events and records and any number of
terminations and yields:

- `TypeCorrect`: `Spec => []TypeOK`, for any processes and any `UsedMax`
- `HandledOnce`: `Spec => []AtMostOnce`
- `DeliveryImplemented`: `Spec => ImplementsDelivery`

The last two hold under `Alone` (there is one process) and `Remembers` (the queue
remembers as many UUIDs as there are events). Neither can be left out:
`events_twice` is the counterexample without `Alone` (finding 3), and without
`Remembers` a response that is delivered again late is handled again. The code
remembers 100. The argument, with `InductiveHolds` under the same conditions:

- `Remembered`: what has entered the database is still queued or remembered, never
  both. So a response that is delivered again is recognised in the queue.
- `Clearing`: what is to be removed from the queue has entered the database, and
  when a pass handles events, none of them is still queued. A termination
  between transfer and removal leaves an event in both stores; the next pass
  transfers it without a second row and removes it before it handles it. A
  second process could remove and handle the event in between: this is where
  `Alone` is needed.
- `Delivering`: a request that is about to be removed has its event queued or
  remembered, so its removal loses nothing.
- `StepSimulation`: the arrival of a response, the events a pass handles and the
  end of a record map to steps of `EventDelivery`; every hand-over, removal,
  termination and start maps to a stutter.

**SyncTrigger** (`TriggerAssumption`), for any number of uploads, any lanes, any
item list work, and any number of imports and outages:

- `TypeCorrect`: `Spec => []TypeOK`
- `WakeUpsKept`: `Spec => []NoLostWakeUp`

`NoLostWakeUp` is not that the flag is set, which a pass that leaves an upload in
its lane does not see to. It is that something is bound to set the flag and to
queue a block, or has done so (`Awaited`): a block that will find the flag, the
end of item list work or of an import, the return of the connection. A Ready
upload may also be left to an upload under way. The timer is in none of the
cases: the work it was armed for wakes the engine when it ends, and the timer
only makes that sooner. Both theorems follow from `InductiveHolds`, which says what a pass leaves behind:

- `LanesInOrder`: only the first record of a lane is under way or has an event,
  and what a pass visits is the first record of its lane.
- `LateEventsAwaited`: an event queued while a pass runs belongs to the next pass,
  which is already due.
- `LeftAwaited`: an upload or event the pass has not dealt with is on a lane it
  has yet to visit, or is `Awaited`, or another upload is under way. When the
  last lane is left, the first case is gone, and the rest is `NoLostWakeUp`.

`AwaitedKept` is the lemma all of them use: no step but the start of a pass takes
the last of these reasons away, as whoever gives one up sets the flag and queues
a block, or leaves that to an import.

**UploadRecord** (`UploadAssumption`), for any processes and requests, any number
of failures, and terminations at any point:

- `TypeCorrect`: `Spec => []TypeOK`
- `CopyKept`: `Spec => []CopyKeptUntilUploaded`
- `OverlapExplained`: `Spec => []OverlapOnlyAfterInterference`
- `ReuploadExplained`: `Spec => ReuploadOnlyAfterTermination`

The first two follow from `InductiveHolds`. That the row speaks of a copy only if there is
one is not inductive, because a job may store the instance it was started with
over the row, and a pass the one in its cache. The argument:

- `CopiesBacked`: as long as the row exists, no copy of the record anywhere (the
  row, a process's cache, a job or its block) says there is a temporary file
  unless there is one, the server has its contents or the user gave up.
- `Justified`: what deletes the file knows it may. A verification, and the answer
  it follows, exist only for an upload that succeeded; a deschedule that a
  termination cuts short had a cancelled record. The deschedule of an issue and
  the handling of a finished upload remove the row in the same transaction.
- `Jobs`, `Blocks`: a job that uses the cached instance finds one, since a load
  that replaces it leaves the old one to the jobs (`DetachedFit`).

The other two follow from a second invariant on top of it (`AttemptsHold`). That
one request at most is outstanding is not inductive, because it does not say why
no process schedules the record meanwhile. The argument:

- `Alone`: an upload has one job, or one outstanding request, or one block that
  completes it. `Parked`: as long as it has one, its row is Processing without an
  issue, so a pass that sees the row leaves it alone.
- `Latest`: every instance of the record, in a cache or kept by a job, is older
  than the row or equal to it. So a cache that counts as current holds the row
  (`LoadedIsRow`), and so does a job whose instance has the row's revision. A job
  that stores another instance ends this (`overwritten`).
- `Stores`, `Looked`: a result is handled once, and what a health check has not
  found in a store does not get there later while it looks at the next one, since
  events move on in one direction and transactions wait. So it restarts a record
  only if no request, job or block is there (`RestartsAtRest`), unless they are
  those of another process (`foreign`).
- `OriginWorks`: until a termination the process that submitted the record does all
  the work, with the row as its instance. `NotAtRest`: a parked record always has
  something under way, so that process is not closed as if it rested.
- `Completing`: then what is under way for a file the server has is its
  verification, its result or its completion; a job that would send it again is
  none of these.

**LockManager** (`LockAssumption`), for any processes, requests and interval, any
number of suspensions and terminations, and any lost notifications:

- `TypeCorrect`: `Spec => []TypeOK`
- `LocksHeld`: `Spec => []HeldUnlessSuspended`
- `NothingAbandoned`: `Spec => []NoAbandonedLock`

All follow from `InductiveHolds`. That a held lock is in the store is not
inductive, because it does not say how much time it has left. The argument:

- `InTime`: a held lock of a process that was not suspended has more time left
  than the keep-alive timer takes to fire; `Running`: there is such a timer,
  unless an update is queued or under way.
  An update leaves an own lock with 80% of the interval or more, and the timer
  is set to half of it.
- Time passes only when no awake process has something due. So when the timer
  fires, the update runs before the next tick, and the lock does not run out.
- Another process purges only what ran out or what it released itself. The own
  update judges locks by `stale`, the locks it tracked when it began: `Stale`
  says which of them can still be in it when the handlers are called, and that
  a lock given in between is not among them.
- `IDs` and `Clients`: a request is in one place only, a lock in the store has
  the identity of a request that was made, and a lock that was released is not
  given again. `Suspended`: a lock whose process sleeps is one its history calls
  doubtful.

**ItemList** (`TaskAssumption`, `BoundAssumption`), for any processes, tasks and
places of their folders, any number of changes on the server, local changes,
failed listings and terminations:

- `TypeCorrect`: `Spec => []TypeOK`
- `RootETagHolds`: `Spec => []RootETagVouches`
- `LocalWorkIsKept`: `Spec => LocalWorkKept`

All follow from `InductiveHolds`. That the root's ETag vouches for the file is
not inductive, because it does not say why a task that merges an old listing or
removes an update job hides nothing. The argument:

- `CopiesAgree`: what a task read of the cache is still there when it may merge,
  unless rows slipped in between its two reads: its own process's transactions
  wait for the reads of a block, and those of others raise the anchor, which the
  merge looks at. So a merge compares its listing with the rows as they are and
  leaves local work alone.
- `JobsStand`: as long as there is no excuse, the folder's ETag is as new as the
  root's, and the file's row as new as the folder's ETag unless the folder has an
  update job. A merge
  that takes a newer ETag for the folder stores the job with it, and a task that
  is about to remove the job leaves rows that do not need it.
- `OneBlock`: a process runs one block of the core's queue at a time. It is the
  part of `TypeOK` about two tasks, stated for pairs.

**RemoteTrigger** (`TriggerAssumption`), for any apps, extensions and records, any
order of records, and any number of suspensions, terminations and stopped cores:

- `TypeCorrect`: `Spec => []TypeOK`
- `OwnersServe`: `Spec => []TakenOverOnlyAfterAbsence`

Both follow from `InductiveHolds`. Who handled a record says nothing of who will,
so the invariant says of every record outside `absences` why others leave it:

- `Healthy`: its owner is at work and on the list of active cores, its state file
  and every other process's list name its session, which is that of the record,
  and no other process exempts the record. A pass of another process then finds
  it `LeftToOwner`, and a ping is answered in time.
- What could take the owner off the list is a check that runs out. `Noted`: the
  check of such a record is acknowledged, or its trigger or acknowledgement is
  under way; the processes at both ends are awake, so that is `Due`, and no time
  passes before it. `Asleep` covers a process that is suspended while it waits.
- `Known`, `Waiting` and the rest of `TypeOK` (`Others`, `Down`): only submitted
  records are waited for, by processes with a core other than the owner, which
  is why the acknowledgement reaches them. `Counted`: each session of a process
  but the first follows an absence, which bounds the numbers of sessions.

**Only model-checked**: liveness (`RecordsSettle`, `EmptyLanesDropped`,
`EventsSettle`, `UploadsScheduled`, `UploadSettles`, `ClientsAreTold`,
`CatchesUp`, `LeftRecordsServed`), which is out of the prover's reach. Every
invariant and every action property of a passing run is proved, those of
`events_once` under the two conditions named above.

## 6. Mutants

Each property of a passing run has a faulty variant of a definition beside the
original (their comments begin with "faulty"), which breaks the property under
the same bounds: prefixes ignored when lanes are compared, `afterLanes` ignored,
a whole lane deleted instead of a record, a wake-up forgotten, a health check
that reads one store less, a keep-alive that waits too long, a release that
forgets the store, an anchor raised for one process only, an acknowledgement
that is not looked up, and so on.

## 7. Plan

Done: the engine, its events, its wake-ups, the upload, the lock manager, the item
list and the trigger between processes, with proofs of each. Next, in this order:

1. Proofs: `AtMostOnce` for several processes, with what they may do to each
   other as an excuse; an abstract specification of an upload that
   `UploadRecord` implements.
2. `Claims`, `Signals`: claims by process, core run and time limit on local
   copies; signals and consumers in the key value store.
3. `HTTPPipeline`: scheduling per group, background sessions, relaunch, and that
   every request gets one response; refines the `Receive` of `SyncEvents`.
4. The coordination of scans, on top of `LockManager`, with the instance of the
   lock the scan holds.
5. `CoreManager`, token refresh, `AsyncQueue`/`RateLimiter`, nested transactions
   of the SQLite wrapper, message queue, queries, resumable uploads (segments,
   offsets, lost responses).

### Not modelled

- Planned, as listed above: claims, signals, most of the HTTP pipeline,
  coordinated scans, core and bookmark manager, token refresh, queries, data
  sources, message queue, item policies, TUS, and the remaining sync actions
  (delete, copy/move, download, create folder), whose control is that of
  `SyncEngine`'s generic actions but whose changes to items are not.
- Not planned: parsing (XML, Graph API), data containers, settings, logging and
  the user interface, which keep no protocol of several steps; the contents of
  files and items; thumbnails and avatars.
