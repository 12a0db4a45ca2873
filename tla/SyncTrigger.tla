---------------------------- MODULE SyncTrigger ----------------------------
(***************************************************************************)
(* When the sync engine runs a pass: the flag _needsToProcessSyncRecords,  *)
(* the blocks of -processSyncRecordsIfNeeded on the core's queue, and what *)
(* holds a pass back: no connection, a bulk import, item list work for a   *)
(* query, and item list work of any kind for at most a deferral window.    *)
(* Whatever is held back has to be woken up again by somebody.             *)
(*                                                                         *)
(* A pass asks twice whether to give way: at the head of each lane, where  *)
(* giving way sets the flag, and in the lane before a Ready upload, where  *)
(* it does not.  Uploads wait on their lanes, are scheduled, and end with  *)
(* an event.  That a lane waits for another or that a budget is used up is *)
(* a choice here (see SyncEngine for when).                                *)
(***************************************************************************)
EXTENDS Integers

CONSTANTS
  Work,         \* pieces of item list work: tasks, queued jobs, scans
  QueryWork,    \* those that serve a query
  MaxUploads,   \* bound: uploads submitted
  MaxWork,      \* bound: pieces of item list work started
  MaxImports,   \* bound: bulk imports
  MaxOutages,   \* bound: times the connection is lost
  MaxBlocks     \* bound: blocks queued at a time that are told apart

ASSUME TriggerAssumption ==
  /\ QueryWork \subseteq Work
  /\ MaxUploads \in Nat /\ MaxWork \in Nat /\ MaxImports \in Nat
  /\ MaxOutages \in Nat /\ MaxBlocks \in Nat \ {0}

VARIABLES
  needs,      \* _needsToProcessSyncRecords
  blocks,     \* blocks of -processSyncRecordsIfNeeded on the core's queue
  step,       \* "idle", or the step of -processSyncRecords that comes next
  heads,      \* first records of the lanes this pass has not visited yet
  record,     \* the record that the loop over a lane has fetched, or 0
  online,     \* connectionStatus
  reconnects, \* returns online whose blocks have not all run yet
  bulk,       \* _bulkLocalMutationDepth
  flushing,   \* calls of -endBulkLocalMutations that flush the buffers
  work,       \* item list work that is pending
  finishing,  \* item list work whose completion is being handled
  window,     \* _uploadDeferralStartTime: not set, running or too long ago
  wakeUp,     \* _uploadDeferralWakeUpScheduled, and for which window
  upload,     \* of each upload: where it or its event is
  lane,       \* of each upload: its lane, named by its first upload
  uploads, starts, imports, outages   \* counters of the bounds

pass       == <<step, heads, record>>
engine     == <<pass, window, wakeUp, upload, lane, uploads>>
connection == <<online, reconnects, outages>>
importing  == <<bulk, flushing, imports>>
listing    == <<work, finishing, starts>>
world      == <<connection, importing, listing, lane, uploads>>

vars == <<needs, blocks, step, heads, record, online, reconnects, bulk,
          flushing, work, finishing, window, wakeUp, upload, lane, uploads,
          starts, imports, outages>>

Uploads == 1 .. MaxUploads

\* Not submitted yet; Ready; under way; its event in the key value store; its
\* event in the database; gone.
Places == {"none", "ready", "inFlight", "queued", "stored", "done"}

Init ==
  /\ needs = FALSE /\ blocks = 0
  /\ step = "idle" /\ heads = {} /\ record = 0
  /\ online = TRUE /\ reconnects = 0 /\ bulk = 0 /\ flushing = 0
  /\ work = {} /\ finishing = {}
  /\ window = "none" /\ wakeUp = "none"
  /\ upload = [u \in Uploads |-> "none"]
  /\ lane \in [Uploads -> Uploads]
  /\ \A u \in Uploads : lane[u] <= u /\ lane[lane[u]] = lane[u]
  /\ uploads = 0 /\ starts = 0 /\ imports = 0 /\ outages = 0

-----------------------------------------------------------------------------
More(n) == IF n < MaxBlocks THEN n + 1 ELSE n

\* -setNeedsToProcessSyncRecords: in a bulk import only the flag is set.
SetNeeds ==
  /\ needs' = TRUE
  /\ blocks' = IF bulk > 0 THEN blocks ELSE More(blocks)

\* The upload's record is written in a transaction, so not during the pass's.
Submit ==
  /\ step \notin {"heads", "lane"} /\ uploads < MaxUploads
  /\ uploads' = uploads + 1
  /\ upload' = [upload EXCEPT ![uploads + 1] = "ready"]
  /\ SetNeeds
  /\ UNCHANGED <<pass, window, wakeUp, lane, connection, importing, listing>>

\* An upload ends: its event is queued.
Complete(u) ==
  /\ upload[u] = "inFlight"
  /\ upload' = [upload EXCEPT ![u] = "queued"]
  /\ SetNeeds
  /\ UNCHANGED <<pass, window, wakeUp, world>>

-----------------------------------------------------------------------------
(* Item list work *)

StartWork(w) ==
  /\ w \notin work \cup finishing /\ starts < MaxWork
  /\ work' = work \cup {w}
  /\ starts' = starts + 1
  /\ UNCHANGED <<needs, blocks, engine, connection, importing, finishing>>

\* The response arrived: from here on it does not count as pending.
EndWork(w) ==
  /\ w \in work
  /\ work' = work \ {w}
  /\ finishing' = finishing \cup {w}
  /\ UNCHANGED <<needs, blocks, engine, connection, importing, starts>>

\* Faulty: the end of item list work wakes nobody.
FinishQuietly(w) ==
  /\ w \in finishing
  /\ finishing' = finishing \ {w}
  /\ UNCHANGED <<needs, blocks, engine, connection, importing, work, starts>>

\* _finishedItemListTask, _finishedUpdateScanWithError: the last one wakes up.
FinishWork(w) ==
  /\ w \in finishing
  /\ finishing' = finishing \ {w}
  /\ IF work = {} THEN SetNeeds ELSE UNCHANGED <<needs, blocks>>
  /\ UNCHANGED <<engine, connection, importing, work, starts>>

-----------------------------------------------------------------------------
(* Bulk imports and the connection *)

BeginBulk ==
  /\ imports < MaxImports
  /\ imports' = imports + 1
  /\ bulk' = bulk + 1
  /\ UNCHANGED <<needs, blocks, engine, connection, listing, flushing>>

\* Faulty: without the check for an end that has no beginning.
EndBulkUnmatched ==
  /\ bulk' = bulk - 1
  /\ flushing' = IF bulk = 1 THEN flushing + 1 ELSE flushing
  /\ UNCHANGED <<needs, blocks, engine, connection, listing, imports>>

\* The outermost end leaves the lock, flushes the buffers, then asks for a pass.
EndBulk ==
  /\ bulk > 0
  /\ bulk' = bulk - 1
  /\ flushing' = IF bulk = 1 THEN flushing + 1 ELSE flushing
  /\ UNCHANGED <<needs, blocks, engine, connection, listing, imports>>

\* Faulty: leaves what was submitted during the import to the next trigger.
FlushQuietly ==
  /\ flushing > 0
  /\ flushing' = flushing - 1
  /\ UNCHANGED <<needs, blocks, engine, connection, listing, bulk, imports>>

FlushBulk ==
  /\ flushing > 0
  /\ flushing' = flushing - 1
  /\ SetNeeds
  /\ UNCHANGED <<engine, connection, listing, bulk, imports>>

GoOffline ==
  /\ online /\ outages < MaxOutages
  /\ online' = FALSE /\ outages' = outages + 1
  /\ UNCHANGED <<needs, blocks, engine, importing, listing, reconnects>>

\* The status changes at once; the pass is asked for at the end of blocks on
\* the core's queue, the connectivity queue and the core's queue again.
GoOnline ==
  /\ ~ online
  /\ online' = TRUE /\ reconnects' = reconnects + 1
  /\ UNCHANGED <<needs, blocks, engine, importing, listing, outages>>

\* The last of these blocks.  The core's state is Running, as it has connected.
Reconnected ==
  /\ reconnects > 0 /\ step = "idle"
  /\ reconnects' = reconnects - 1
  /\ SetNeeds
  /\ UNCHANGED <<engine, importing, listing, online, outages>>

-----------------------------------------------------------------------------
(* The deferral window *)

\* -shouldDeferUploadSchedulingForItemListWork and its side effects.
ShouldDefer == work # {} /\ window # "expired"

Consult ==
  /\ window' = IF work = {} THEN "none"
               ELSE IF window = "none" THEN "running" ELSE window
  /\ wakeUp' = IF ShouldDefer /\ wakeUp = "none" THEN "armed"
               ELSE IF work = {} /\ wakeUp = "armed" THEN "outdated" ELSE wakeUp

Expire ==
  /\ window = "running"
  /\ window' = "expired"
  /\ UNCHANGED <<needs, blocks, pass, wakeUp, upload, world>>

\* The timer of a window that was reset may fire during a later one.
WakeUp ==
  /\ wakeUp = "outdated" \/ (wakeUp = "armed" /\ window = "expired")
  /\ wakeUp' = "none"
  /\ SetNeeds
  /\ UNCHANGED <<pass, window, upload, world>>

-----------------------------------------------------------------------------
(* The core's queue *)

At(place) == {u \in Uploads : upload[u] = place}

NextBlock == step = "idle" /\ blocks > 0 /\ blocks' = blocks - 1

\* Nothing to do, or no connection, which keeps the flag.
SkipBlock ==
  /\ NextBlock
  /\ ~ (online /\ needs)
  /\ UNCHANGED <<needs, engine, world>>

\* A query waits for its item list: the flag is set again, and that is all.
YieldToQuery ==
  /\ NextBlock
  /\ online /\ needs
  /\ work \cap QueryWork # {}
  /\ UNCHANGED <<needs, engine, world>>

StartPass ==
  /\ NextBlock
  /\ online /\ needs
  /\ work \cap QueryWork = {}
  /\ needs' = FALSE
  /\ step' = "transfer"
  /\ UNCHANGED <<heads, record, window, wakeUp, upload, world>>

TransferEvents ==
  /\ step = "transfer"
  /\ upload' = [u \in Uploads |-> IF upload[u] = "queued" THEN "stored"
                                 ELSE upload[u]]
  /\ step' = IF At("queued") = {} THEN "defer" ELSE "begin"
  /\ UNCHANGED <<needs, blocks, heads, record, window, wakeUp, world>>

\* A pass without new events gives way to item list work before it begins.
DeferPass ==
  /\ step = "defer"
  /\ Consult
  /\ step' = IF ShouldDefer THEN "idle" ELSE "begin"
  /\ needs' = (needs \/ ShouldDefer)
  /\ UNCHANGED <<blocks, heads, record, upload, world>>

-----------------------------------------------------------------------------
(* The pass: one transaction, in which lane after lane is visited *)

Pending == At("ready") \cup At("inFlight") \cup At("queued") \cup At("stored")

OnLaneOf(u) == {v \in Pending : lane[v] = lane[u]}

IsFirst(u) == u \in Pending /\ \A v \in OnLaneOf(u) : u <= v

BeginPass ==
  /\ step = "begin"
  /\ step' = "heads"
  /\ heads' = {u \in Uploads : IsFirst(u)}
  /\ UNCHANGED <<needs, blocks, record, window, wakeUp, upload, world>>

\* What is asked at each head and before each Ready upload.
GivesWay == bulk > 0 \/ ShouldDefer
Ask == IF bulk > 0 THEN UNCHANGED <<window, wakeUp>> ELSE Consult

\* At a head: no further lane is visited, and the flag is set.
YieldPass ==
  /\ step = "heads" /\ heads # {}
  /\ GivesWay /\ Ask
  /\ step' = "idle" /\ heads' = {}
  /\ needs' = TRUE
  /\ UNCHANGED <<blocks, record, upload, world>>

\* Lanes in progress come first.
IsNext(h) == upload[h] = "ready" => heads \subseteq At("ready")

VisitLane(h) ==
  /\ step = "heads" /\ IsNext(h)
  /\ ~ GivesWay /\ Ask
  /\ step' = "lane" /\ heads' = heads \ {h} /\ record' = h
  /\ UNCHANGED <<needs, blocks, upload, world>>

\* A record on a lane visited before uses up the budget, or its lane is one
\* that the upload's lane comes after.
HeldBack(u) ==
  \E v \in Pending : lane[v] # lane[u] /\ \A g \in heads : lane[g] # lane[v]

\* A Ready head is passed over, or with every budget used up all of them are.
PassOver(h) ==
  /\ step = "heads" /\ IsNext(h) /\ upload[h] = "ready"
  /\ ~ GivesWay /\ Ask
  /\ HeldBack(h)
  /\ heads' \in {heads \ {h}, {}}
  /\ UNCHANGED <<needs, blocks, step, record, upload, world>>

LeaveLane == step' = "heads" /\ record' = 0

\* The event is handled, the record deleted and the lane's next one fetched.
HandleEvent ==
  /\ step = "lane" /\ upload[record] = "stored"
  /\ upload' = [upload EXCEPT ![record] = "done"]
  /\ LET others == OnLaneOf(record) \ {record}
     IN \/ others = {} /\ LeaveLane
        \/ \E v \in others : /\ \A w \in others : v <= w
                             /\ record' = v /\ step' = step
  /\ UNCHANGED <<needs, blocks, heads, window, wakeUp, world>>

\* The upload is still under way.
AwaitResult ==
  /\ step = "lane" /\ upload[record] \in {"inFlight", "queued"}
  /\ LeaveLane
  /\ UNCHANGED <<needs, blocks, heads, window, wakeUp, upload, world>>

ScheduleUpload ==
  /\ step = "lane" /\ upload[record] = "ready"
  /\ ~ GivesWay /\ Ask
  /\ upload' = [upload EXCEPT ![record] = "inFlight"]
  /\ LeaveLane
  /\ UNCHANGED <<needs, blocks, heads, world>>

\* In the lane: only this lane is left, and the flag stays as it is.
LeaveUpload ==
  /\ step = "lane" /\ upload[record] = "ready"
  /\ GivesWay \/ HeldBack(record)
  /\ Ask
  /\ LeaveLane
  /\ UNCHANGED <<needs, blocks, heads, upload, world>>

FinishPass ==
  /\ step = "heads" /\ heads = {}
  /\ step' = "idle"
  /\ UNCHANGED <<needs, blocks, heads, record, window, wakeUp, upload, world>>

Pass ==
  \/ BeginPass \/ YieldPass \/ FinishPass
  \/ \E h \in heads : VisitLane(h) \/ PassOver(h)
  \/ HandleEvent \/ AwaitResult \/ ScheduleUpload \/ LeaveUpload

CoreQueue ==
  SkipBlock \/ YieldToQuery \/ StartPass \/ TransferEvents \/ DeferPass \/ Pass

Next ==
  \/ Submit \/ \E u \in Uploads : Complete(u)
  \/ \E w \in Work : StartWork(w) \/ EndWork(w) \/ FinishWork(w)
  \/ BeginBulk \/ EndBulk \/ FlushBulk
  \/ GoOffline \/ GoOnline \/ Reconnected
  \/ Expire \/ WakeUp
  \/ CoreQueue

Spec == Init /\ [][Next]_vars

\* Queues run, timers fire, an import ends, a connection comes back, and item
\* list work for queries is answered.
EngineFairness ==
  /\ WF_vars(CoreQueue) /\ \A u \in Uploads : WF_vars(Complete(u))
  /\ WF_vars(Expire) /\ WF_vars(WakeUp)
  /\ WF_vars(EndBulk) /\ WF_vars(FlushBulk)
  /\ WF_vars(GoOnline) /\ WF_vars(Reconnected)
  /\ \A w \in Work : WF_vars(FinishWork(w))
  /\ \A w \in QueryWork : WF_vars(EndWork(w))

\* Background scans may go on and on.
BusySpec == Spec /\ EngineFairness

\* Every piece of item list work is answered.
FairSpec == BusySpec /\ \A w \in Work : WF_vars(EndWork(w))

-----------------------------------------------------------------------------
(* Properties *)

\* Every variable holds a value of its type.
TypeOK ==
  /\ needs \in BOOLEAN /\ blocks \in 0 .. MaxBlocks
  /\ step \in {"idle", "transfer", "defer", "begin", "heads", "lane"}
  /\ heads \subseteq Uploads /\ record \in 0 .. MaxUploads
  /\ (record # 0) = (step = "lane")
  /\ online \in BOOLEAN /\ reconnects \in Nat
  /\ bulk \in Nat /\ flushing \in Nat
  /\ work \subseteq Work /\ finishing \subseteq Work
  /\ window \in {"none", "running", "expired"}
  /\ wakeUp \in {"none", "armed", "outdated"}
  /\ upload \in [Uploads -> Places] /\ lane \in [Uploads -> Uploads]
  /\ uploads \in 0 .. MaxUploads
  /\ starts \in Nat /\ imports \in Nat /\ outages \in Nat

Events == At("queued") \cup At("stored")
Due == Events \cup At("ready") # {}

\* Something that is bound to happen and sets the flag and queues a block, or
\* has done so.  The timer is not among them: nothing is left to it alone, as
\* the work it cuts short wakes the engine at its end as well.
Awaited ==
  \/ needs /\ blocks > 0             \* a block on the core's queue
  \/ ~ online \/ reconnects > 0      \* the connection that comes back
  \/ bulk > 0 \/ flushing > 0        \* the end of the import
  \/ work \cup finishing # {}        \* the end of item list work

\* No wake-up is lost: when no pass runs, whatever was left for later is taken
\* up again by a block that finds the flag set, or by something that will set it
\* and queue one.  For uploads that are left that may also be an upload that is
\* under way: it keeps a lane or a budget and ends with an event.  The flag
\* alone says nothing, as a pass that leaves uploads in their lanes clears it.
NoLostWakeUp ==
  step = "idle" =>
    /\ Events # {} => Awaited
    /\ At("ready") # {} => Awaited \/ At("inFlight") # {}

\* What keeps NoLostWakeUp inductive.  Only a lane's first record is under way,
\* and records are visited from the first on.
InProgress == At("inFlight") \cup Events
AtHand == heads \cup ({record} \ {0})

LanesInOrder ==
  /\ \A u \in Uploads : u > uploads => upload[u] = "none"
  /\ \A u \in InProgress \cup AtHand : IsFirst(u)
  /\ record \notin heads

\* An event that is queued while a pass runs is for the next one, which is
\* already asked for.
LateEventsAwaited ==
  (step \in {"defer", "begin", "heads", "lane"} /\ At("queued") # {}) => Awaited

\* What a pass has not dealt with is on a lane it is yet to visit or visits,
\* or was left to something that will ask for the next pass.
LeftAwaited ==
  step \in {"heads", "lane"} =>
    \A u \in At("ready") \cup At("stored") :
      \/ \E h \in AtHand : lane[h] = lane[u]
      \/ Awaited
      \/ upload[u] = "ready" /\ At("inFlight") # {}

Inductive ==
  TypeOK /\ NoLostWakeUp /\ LanesInOrder /\ LateEventsAwaited /\ LeftAwaited

\* Every upload is scheduled once item list work, imports and outages are over.
UploadsScheduled == Due ~> ~ Due

\* OCCore+SyncEngine.m: "Longest continuous period uploads yield to pending
\* item list work. [...] an unbounded deferral could starve uploads."  While
\* the connection stands and neither an import nor a query is in the way, a
\* waiting upload is scheduled although background scans go on.  The gate for
\* queries, which arms no timer, breaks it.
DeferralBounded ==
  At("ready") # {} ~>
    At("ready") = {} \/ ~ online \/ bulk > 0 \/ work \cap QueryWork # {}
=============================================================================
