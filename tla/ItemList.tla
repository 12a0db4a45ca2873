------------------------------ MODULE ItemList ------------------------------
(***************************************************************************)
(* The item list tasks of Core/ItemList: a task lists one folder on the    *)
(* server, reads the rows the database has for it, and merges the listing  *)
(* into the rows.  Several tasks, in several processes, share one database *)
(* with the sync engine, which writes local changes to the same rows.      *)
(* A transaction of any of them raises the sync anchor, and a task merges  *)
(* only rows read at the current anchor.                                   *)
(*                                                                         *)
(* A scan asks for the ETag of the root folder alone.  When it differs     *)
(* from the row of the root, an update job for the root is stored; merging *)
(* the root's listing stores an update job for each folder whose ETag      *)
(* changed.                                                                *)
(*                                                                         *)
(* The tree is the root, one folder in it and one file in the folder.  The *)
(* server counts its changes: a change to the file gives both folders a    *)
(* new ETag.                                                               *)
(***************************************************************************)
EXTENDS Naturals, FiniteSets

CONSTANTS
    Process,       \* processes with a core on the same vault
    Task,          \* the pairs of a process and a location it lists
    Scanner,       \* processes that look for updates by themselves
    Killable,      \* processes that may end at any time
    Opened,        \* tasks a user starts by opening the folder
    MaxRev,        \* changes of the file on the server
    MaxEvents      \* folders opened, files changed by the user, failed
                   \* listings and crashes, taken together

Location == {"root", "folder"}

ASSUME TaskAssumption ==
    /\ Scanner \X Location \subseteq Task
    /\ Task \subseteq Process \X Location
    /\ Opened \subseteq Task
    /\ Killable \subseteq Scanner
    /\ Scanner \subseteq Process
ASSUME BoundAssumption == MaxRev \in Nat /\ MaxEvents \in Nat

VARIABLES
    server,     \* number of changes made to the file, and whether it is gone
    rows,       \* metaData: the ETags of both folders and the file's row
    op,         \* the journal's record of the local change, with its process
    task,       \* _itemListTasksByLocationString of every process
    stored,     \* updateJobs table: locations with an update job
    queued,     \* update jobs a process has yet to schedule
    up,         \* processes with a running core
    spent,      \* events so far
    excuse      \* history: ways in which the rows fell behind the ETags

vars == <<server, rows, op, task, stored, queued, up, spent, excuse>>

Rev == 0..MaxRev
Listing == [rev : Rev, gone : BOOLEAN]
Work == {"none", "edit", "delete"}

(* ver is the change of the server the row was last compared with, gone    *)
(* the removed flag of the row, work the sync activity recorded in it.     *)
Item == [ver : Rev, gone : BOOLEAN, work : Work]
Rows == [root : Rev, folder : Rev, item : Item]

(* The items of the cache are read when a place with an anchor to read is  *)
(* entered; the core's queue is held from reanchor on.                     *)
PC == {"closed", "anchor", "waiting", "reanchor", "merge", "finish"}

TaskState ==
    [pc : PC,
     list : {"asked", "answered", "ready"},   \* retrievedSet
     snap : Listing,                          \* what the server answered
     copy : Rows,                             \* cachedSet
     fresh : BOOLEAN,      \* syncAnchorAtStart is the database's anchor
     job : BOOLEAN,        \* representedJobIDs names the stored update job
     slipped : BOOLEAN]    \* rows changed between the two reads of the cache

-----------------------------------------------------------------------------
NoCopy == [root |-> 0, folder |-> 0,
           item |-> [ver |-> 0, gone |-> FALSE, work |-> "none"]]
Closed == [pc |-> "closed", list |-> "asked",
           snap |-> [rev |-> 0, gone |-> FALSE], copy |-> NoCopy,
           fresh |-> FALSE, job |-> FALSE, slipped |-> FALSE]
NoOp == [kind |-> "none", sent |-> 0, by |-> "nobody"]

(* The device is in step with the server, and both processes run.          *)
Init ==
    /\ server = [rev |-> 0, gone |-> FALSE]
    /\ rows = NoCopy
    /\ op = NoOp
    /\ task = [t \in Task |-> Closed]
    /\ stored = {}
    /\ queued = [p \in Process |-> {}]
    /\ up = Process
    /\ spent = 0
    /\ excuse = {}

Of(p) == {t \in Task : t[1] = p}
At(t, places) == task[t].pc \in places

\* Faulty: leaves the queue to others while the rows are reloaded.
CoreFreeInReload(p) == \A t \in Of(p) : ~At(t, {"merge", "finish"})
\* The core's serial queue is free for the next block.
CoreFree(p) == \A t \in Of(p) : ~At(t, {"reanchor", "merge", "finish"})

(* The database thread of a process serves its statements in order: a      *)
(* transaction waits for the reads queued before it.                       *)
DatabaseFree(p) == \A t \in Of(p) : ~At(t, {"anchor", "reanchor"})

\* Faulty: only tasks of the same process learn of the new anchor.
IncrementedHere(p, new) ==
    [t \in Task |-> [task[t] EXCEPT !.fresh = @ /\ t[1] # p]]
(* incrementSyncAnchorWithProtectedBlock: no task has the latest anchor    *)
(* any more.  Rows written between the two reads of another process slip   *)
(* in unnoticed.                                                           *)
Incremented(p, new) ==
    [t \in Task |->
        [task[t] EXCEPT
            !.fresh = FALSE,
            !.slipped = @ \/ (new # rows /\ t[1] # p /\ At(t, {"anchor", "reanchor"}))]]

Happens ==
    /\ spent < MaxEvents
    /\ spent' = spent + 1

-----------------------------------------------------------------------------
(* Starting tasks.                                                         *)

(* Reading the items: of the rows at a location, the merge looks at the    *)
(* subfolder's, or the file's.  The anchor is read at the place pc.        *)
Reading(t, state, pc) ==
    [state EXCEPT !.pc = pc, !.slipped = FALSE,
                  !.copy = IF t[2] = "root"
                           THEN [NoCopy EXCEPT !.folder = rows.folder]
                           ELSE [NoCopy EXCEPT !.item = rows.item]]

Started(t, job) == Reading(t, [Closed EXCEPT !.job = job], "anchor")

(* Opening a folder starts a task for its query.                           *)
Query(t) ==
    /\ t \in Opened
    /\ t[1] \in up
    /\ At(t, {"closed"})
    /\ Happens
    /\ task' = [task EXCEPT ![t] = Started(t, FALSE)]
    /\ UNCHANGED <<server, rows, op, stored, queued, up, excuse>>

(* The answer to the request for the root alone.  An update job already    *)
(* in the table stands for the new one, whichever process stored it.       *)
Scan(p) ==
    /\ p \in up \intersect Scanner
    /\ CoreFree(p)
    /\ rows.root # server.rev
    /\ "root" \notin stored
    /\ stored' = stored \union {"root"}
    /\ queued' = [queued EXCEPT ![p] = @ \union {"root"}]
    /\ UNCHANGED <<server, rows, op, task, up, spent, excuse>>

(* A running task of the process takes the update job over.                *)
Schedule(t) ==
    /\ t[2] \in queued[t[1]]
    /\ CoreFree(t[1])
    /\ queued' = [queued EXCEPT ![t[1]] = @ \ {t[2]}]
    /\ task' = [task EXCEPT ![t] =
                   IF @.pc = "closed" THEN Started(t, t[2] \in stored)
                   ELSE [@ EXCEPT !.job = t[2] \in stored]]
    /\ UNCHANGED <<server, rows, op, stored, up, spent, excuse>>

-----------------------------------------------------------------------------
(* Reading the sync anchor, after the items.                               *)
ReadAnchor(t) ==
    /\ At(t, {"anchor", "reanchor"})
    /\ task' = [task EXCEPT ![t] =
                   [@ EXCEPT !.fresh = TRUE,
                             !.pc = IF At(t, {"anchor"}) THEN "waiting" ELSE "merge"]]
    /\ UNCHANGED <<server, rows, op, stored, queued, up, spent, excuse>>

ServerLists(t) ==
    /\ ~At(t, {"closed", "finish"})
    /\ task[t].list = "asked"
    /\ task' = [task EXCEPT ![t].list = "answered", ![t].snap = server]
    /\ UNCHANGED <<server, rows, op, stored, queued, up, spent, excuse>>

(* The block that takes the listing over reloads outdated rows first.      *)
HandleListing(t) ==
    /\ At(t, {"waiting"})
    /\ task[t].list = "answered"
    /\ CoreFree(t[1])
    /\ LET listed == [task[t] EXCEPT !.list = "ready"]
       IN  task' = [task EXCEPT ![t] = IF listed.fresh THEN [listed EXCEPT !.pc = "merge"]
                                       ELSE Reading(t, listed, "reanchor")]
    /\ UNCHANGED <<server, rows, op, stored, queued, up, spent, excuse>>

-----------------------------------------------------------------------------
(* The merge.                                                              *)

(* The file's row after a listing l was merged with the copy c of the row. *)
(* A row the copy lacks is looked up again, removed rows included.         *)
MergedItem(c, l) ==
    LET now == [rows.item EXCEPT !.ver = l.rev]
        kept == [c EXCEPT !.ver = l.rev]
    IN  CASE ~c.gone /\ ~l.gone /\ c.work # "none"          -> kept
          [] ~c.gone /\ ~l.gone /\ c.work = "none"          ->
                IF l.rev = c.ver THEN now ELSE [kept EXCEPT !.gone = FALSE]
          [] ~c.gone /\ l.gone                              ->
                IF c.work # "none" THEN now ELSE [kept EXCEPT !.gone = TRUE]
          [] c.gone /\ ~l.gone                              ->
                [now EXCEPT !.gone = rows.item.gone /\ rows.item.work = "delete"]
          [] c.gone /\ l.gone                               -> now

Merged(t) ==
    LET l == task[t].snap
    IN  IF t[2] = "root"
        THEN [rows EXCEPT !.root = l.rev, !.folder = l.rev]
        ELSE [rows EXCEPT !.folder = l.rev,
                          !.item = MergedItem(task[t].copy.item, l)]

\* Faulty: compares with the row as the merge leaves it.
RefreshesLate(t) == t[2] = "root" /\ Merged(t).folder # task[t].snap.rev
(* Merging the root's listing asks for a scan of the folder if its ETag    *)
(* differs from that of the row read before.                               *)
Refreshes(t) == t[2] = "root" /\ task[t].copy.folder # task[t].snap.rev

(* A listing older than the row of its folder puts the rows back; rows     *)
(* that slipped in are overwritten; an update job about to be removed      *)
(* stands for the new one.                                                 *)
Excuses(t) ==
    {e \in {"older listing"} : task[t].snap.rev < rows[t[2]] \/ task[t].snap.rev < rows.folder}
    \union
    {e \in {"slipped rows"} : task[t].slipped}
    \union
    {e \in {"finished job"} : Refreshes(t) /\ \E u \in Task : /\ u[2] = "folder"
                                                              /\ task[u].job
                                                              /\ At(u, {"finish"})}

(* A merge follows the listing in the same block, or, when it is tried     *)
(* again, a later one that has taken over the rows.                        *)
Merging(t) ==
    /\ \/ At(t, {"merge"})
       \/ At(t, {"waiting"}) /\ task[t].list = "ready" /\ CoreFree(t[1])
    /\ DatabaseFree(t[1])

Merge(t) ==
    LET p == t[1]
        new == Refreshes(t) /\ "folder" \notin stored
    IN  /\ Merging(t)
        /\ task[t].fresh
        /\ rows' = Merged(t)
        /\ task' = [Incremented(p, Merged(t)) EXCEPT
                       ![t] = IF task[t].job THEN [Closed EXCEPT !.pc = "finish", !.job = TRUE]
                              ELSE Closed]
        /\ stored' = IF new THEN stored \union {"folder"} ELSE stored
        /\ queued' = IF new THEN [queued EXCEPT ![p] = @ \union {"folder"}] ELSE queued
        /\ excuse' = excuse \union Excuses(t)
        /\ UNCHANGED <<server, op, up, spent>>

(* The anchor moved on: the attempt raises it once more, and the rows are  *)
(* read again.                                                             *)
Outdated(t) ==
    /\ Merging(t)
    /\ ~task[t].fresh
    /\ task' = [Incremented(t[1], rows) EXCEPT ![t] = Reading(t, @, "anchor")]
    /\ UNCHANGED <<server, rows, op, stored, queued, up, spent, excuse>>

\* Faulty: leaves the update job in the table.
EndedWithJob(t) ==
    /\ task' = [task EXCEPT ![t] = Closed]
    /\ UNCHANGED stored
(* _finishedItemListTask: the update job the task stands for is removed.   *)
Ended(t) ==
    /\ stored' = IF task[t].job THEN stored \ {t[2]} ELSE stored
    /\ task' = [u \in Task |->
                   IF u = t THEN Closed
                   ELSE [task[u] EXCEPT !.job = @ /\ ~(u[2] = t[2] /\ task[t].job)]]

Finish(t) ==
    /\ At(t, {"finish"})
    /\ Ended(t)
    /\ UNCHANGED <<server, rows, op, queued, up, spent, excuse>>

(* An error other than a network failure ends the task and its update job. *)
ListingFails(t) ==
    /\ At(t, {"waiting"})
    /\ task[t].list = "asked"
    /\ CoreFree(t[1])
    /\ Happens
    /\ Ended(t)
    /\ excuse' = excuse \union {e \in {"failed listing"} : task[t].job}
    /\ UNCHANGED <<server, rows, op, queued, up>>

-----------------------------------------------------------------------------
(* The sync engine and the server.                                         *)

(* The preflight of an upload or a deletion.  The bound leaves the server  *)
(* a change to execute it with.                                            *)
LocalChange(p, kind) ==
    /\ p \in up
    /\ CoreFree(p)
    /\ DatabaseFree(p)
    /\ op = NoOp
    /\ ~rows.item.gone
    /\ Happens
    /\ server.rev < MaxRev
    /\ op' = [kind |-> kind, sent |-> 0, by |-> p]
    /\ rows' = [rows EXCEPT !.item.work = kind, !.item.gone = (kind = "delete")]
    /\ task' = Incremented(p, rows')
    /\ UNCHANGED <<server, stored, queued, up, excuse>>

ServerExecutes ==
    /\ op.kind # "none"
    /\ op.sent = 0
    /\ server.rev < MaxRev
    /\ server' = [rev |-> server.rev + 1, gone |-> op.kind = "delete"]
    /\ op' = [op EXCEPT !.sent = server.rev + 1]
    /\ UNCHANGED <<rows, task, stored, queued, up, spent, excuse>>

(* The process that made the change handles the result, or another one if  *)
(* it is gone.  The result replaces the row, whatever listings brought.    *)
HandleResult(p) ==
    /\ p \in up
    /\ CoreFree(p)
    /\ DatabaseFree(p)
    /\ op.sent # 0
    /\ op.by = p \/ op.by \notin up
    /\ op' = NoOp
    /\ rows' = [rows EXCEPT !.item = [ver |-> op.sent, gone |-> op.kind = "delete",
                                      work |-> "none"]]
    /\ task' = Incremented(p, rows')
    /\ excuse' = excuse \union {e \in {"older upload"} : op.sent < rows.item.ver}
    /\ UNCHANGED <<server, stored, queued, up, spent>>

(* Another client.  Only the last change removes the file, and the last    *)
(* change is left to the device's own action, if there is one.             *)
RemoteChange(gone) ==
    /\ gone => server.rev + 1 = MaxRev
    /\ server.rev + (IF op.kind # "none" /\ op.sent = 0 THEN 1 ELSE 0) < MaxRev
    /\ server' = [rev |-> server.rev + 1, gone |-> gone]
    /\ UNCHANGED <<rows, op, task, stored, queued, up, spent, excuse>>

Crash(p) ==
    /\ p \in up \intersect Killable
    /\ Happens
    /\ up' = up \ {p}
    /\ task' = [t \in Task |-> IF t[1] = p THEN Closed ELSE task[t]]
    /\ queued' = [queued EXCEPT ![p] = {}]
    /\ UNCHANGED <<server, rows, op, stored, excuse>>

(* recoverPendingUpdateJobs takes up every stored job, also one a task of  *)
(* another process is busy with.                                           *)
Launch(p) ==
    /\ p \notin up
    /\ up' = up \union {p}
    /\ queued' = [queued EXCEPT ![p] = stored]
    /\ UNCHANGED <<server, rows, op, task, stored, spent, excuse>>

-----------------------------------------------------------------------------
TaskRuns(t) ==
    \/ Schedule(t) \/ ReadAnchor(t) \/ ServerLists(t) \/ HandleListing(t)
    \/ Merge(t) \/ Outdated(t) \/ Finish(t)

ProcessRuns(p) == Scan(p) \/ HandleResult(p) \/ Launch(p)

Event ==
    \/ \E t \in Task : Query(t) \/ ListingFails(t)
    \/ \E p \in Process, kind \in Work \ {"none"} : LocalChange(p, kind)
    \/ \E p \in Process : Crash(p)
    \/ \E gone \in BOOLEAN : RemoteChange(gone)

Next ==
    \/ \E t \in Task : TaskRuns(t)
    \/ \E p \in Process : ProcessRuns(p)
    \/ ServerExecutes
    \/ Event

Spec == Init /\ [][Next]_vars

(* Queues are served, the server answers, and a process that ended is      *)
(* started again.  Users, other clients and failures owe nothing.          *)
Fairness ==
    /\ \A t \in Task : WF_vars(TaskRuns(t))
    /\ \A p \in Process : WF_vars(ProcessRuns(p))
    /\ WF_vars(ServerExecutes)

FairSpec == Spec /\ Fairness

-----------------------------------------------------------------------------
(* Every variable has its type, and a process runs one block of its core's *)
(* queue at a time: a reload of the rows keeps the queue to the merge.     *)
TypeOK ==
    /\ server \in Listing
    /\ rows \in Rows
    /\ op \in [kind : Work, sent : Rev, by : Process \union {"nobody"}]
    /\ task \in [Task -> TaskState]
    /\ stored \subseteq Location
    /\ queued \in [Process -> SUBSET Location]
    /\ up \subseteq Process
    /\ spent \in 0..MaxEvents
    /\ excuse \subseteq {"older listing", "failed listing",
                         "older upload", "finished job", "slipped rows"}
    /\ \A p \in Process :
          Cardinality({t \in Of(p) : At(t, {"reanchor", "merge", "finish"})}) <= 1

(* Pending work recorded in a row ends with the result of its action; a    *)
(* merge ends it only if another process wrote between its two reads.      *)
LocalWorkKept ==
    [][rows.item.work # "none" /\ rows'.item.work = "none" =>
          \/ op # NoOp /\ op' = NoOp
          \/ \E t \in Task : Merging(t) /\ task[t].slipped]_vars

(* The ETag of the root is what stops scans.  Without an update job in the *)
(* table the file's row is as new as that ETag, unless a listing failed,   *)
(* a listing or an upload's result was older than the row it replaced, or  *)
(* an update job was removed after it had stood for a newer one.           *)
RootETagVouches ==
    excuse = {} /\ stored = {} => rows.item.ver >= rows.root

InStep ==
    /\ rows.root = server.rev
    /\ rows.item = [ver |-> server.rev, gone |-> server.gone, work |-> "none"]

(* Tasks that retry a merge raise the anchor for one another.              *)
Contended ==
    \E t, u \in Task : t # u /\ task[t].list = "ready" /\ task[u].list = "ready"

(* Once changes end, scans bring the rows to the state of the server,      *)
(* unless one of the excuses occurred or tasks outdate one another for     *)
(* ever.                                                                   *)
CatchesUp == <>[](InStep \/ excuse # {}) \/ []<>Contended
=============================================================================
