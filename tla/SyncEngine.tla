----------------------------- MODULE SyncEngine -----------------------------
(***************************************************************************)
(* The sync engine of an OCCore: the journal of sync records, the lanes    *)
(* that order records touching the same items, and the pass               *)
(* (-processSyncRecords) that walks the lanes inside one exclusive         *)
(* database transaction, delivers events, schedules Ready records within   *)
(* the concurrency budgets and drops empty lanes.                          *)
(*                                                                         *)
(* A pass is a sequence of steps here, since responses, cancellations and  *)
(* crashes happen while it runs.  Other writers of the journal wait for    *)
(* its transaction.  A crash rolls the database back to the last commit    *)
(* (`snapshot`), but neither the HTTP requests the pass issued nor the     *)
(* events in the key value store.                                          *)
(***************************************************************************)
EXTENDS Integers, Sequences, FiniteSets, SequencesExt

CONSTANTS
  Action,       \* kinds of sync action that are submitted
  Tag,          \* lane tags: local IDs and paths
  RootTag,      \* the path "/", which lanes ignore
  Related,      \* pairs of different tags of which one is a prefix of the other
  LaneTags,     \* the tags of an action's record
  LocalAction,  \* actions that complete when scheduled, without a request
  Category,     \* action categories
  Categories,   \* the categories of an action
  Budget,       \* concurrency budget of a category, 0 for no limit
  MaxRecords,   \* bound: records submitted
  MaxFailures,  \* bound: requests that fail
  MaxCancels,   \* bound: records the user cancels
  MaxYields,    \* bound: passes that give way to item list work
  MaxCrashes    \* bound: process terminations

RecordID == 1 .. MaxRecords
LaneID   == 1 .. MaxRecords

ASSUME BoundsAssumption ==
  /\ MaxRecords \in Nat /\ MaxFailures \in Nat /\ MaxCancels \in Nat
  /\ MaxYields \in Nat /\ MaxCrashes \in Nat

\* OCSyncLane's prefix test asks both directions, so Related is symmetric.
ASSUME TagAssumption ==
  /\ RootTag \in Tag
  /\ Related \in SUBSET (Tag \X Tag)
  /\ \A s, t \in Tag : <<s, t>> \in Related => <<t, s>> \in Related

ASSUME ActionAssumption ==
  /\ LaneTags \in [Action -> SUBSET Tag]
  /\ LocalAction \subseteq Action
  /\ Categories \in [Action -> SUBSET Category]
  /\ Budget \in [Category -> Nat]

VARIABLES
  \* the OCDatabase
  journal,     \* sync records by ID
  lanes,       \* sync lanes by ID
  events,      \* event rows, oldest first
  snapshot,    \* journal, lanes and events as of the last commit
  nextRecord,  \* AUTOINCREMENT values
  nextLane,
  \* kept outside the database
  kvs,         \* events queued in the key value store
  requests,    \* HTTP requests under way for a record
  \* in memory
  needs,       \* _needsToProcessSyncRecords
  cancelled,   \* records whose progress is cancelled
  phase,       \* "idle", or the phase of the pass that is running
  heads,       \* lanes the phases "inProgress" and "ready" still have to visit
  lane,        \* lane being walked, 0 if none
  last,        \* lastSyncRecordID of that walk
  kept,        \* the walk passed a record that DeleteLast did not remove
  current,     \* record being processed, 0 if none
  instruction, \* last instruction returned by one of its events
  running,     \* runningActionsByCategory
  \* history
  done,        \* records whose action was carried out
  withdrawn,   \* records the user gave up
  failures, yields, crashes

database == <<journal, lanes, events>>
walk     == <<lane, last, kept, current, instruction>>
history  == <<done, withdrawn, failures, yields, crashes>>
vars     == <<journal, lanes, events, snapshot, nextRecord, nextLane, kvs,
              requests, needs, cancelled, phase, heads, lane, last, kept,
              current, instruction, running, done, withdrawn,
              failures, yields, crashes>>

State   == {"Ready", "Processing", "Completed"}
Outcome == {"success", "failure"}
Choice  == {"retry", "cancel"}

Record == [action : Action, lane : LaneID, state : State,
           started : BOOLEAN,   \* inProgressSince is set
           issue   : BOOLEAN]   \* an OCWaitConditionIssue is unresolved
Lane   == [tags : SUBSET Tag, after : SUBSET LaneID]
Event  == [record : RecordID, kind : Outcome \cup Choice]

-----------------------------------------------------------------------------
(* Lanes *)

Overlap(s, t)      == s = t \/ <<s, t>> \in Related
TagsConflict(A, B) == \E s \in A \ {RootTag}, t \in B \ {RootTag} : Overlap(s, t)

\* coversTags: "/" is skipped among the tags asked for, and is never stored.
CoversSameTags(l, tags) == tags \cap lanes[l].tags # {}       \* faulty: no prefixes
CoversTags(l, tags)    == TagsConflict(tags, lanes[l].tags)
IdenticalTags(l, tags) == tags \subseteq lanes[l].tags

Covering(tags)  == {l \in DOMAIN lanes : CoversTags(l, tags)}
Identical(tags) == {l \in Covering(tags) : IdenticalTags(l, tags)}

OnLane(l)  == {r \in DOMAIN journal : journal[r].lane = l}
LaneHead(l) == Min(OnLane(l))
NeverBlocked(l)  == FALSE                   \* faulty: afterLanes is not asked
AlwaysBlocked(l) == lanes[l].after # {}     \* faulty: counts lanes that are gone
Blocked(l) == lanes[l].after \cap DOMAIN lanes # {}

Without(f, S) == [x \in DOMAIN f \ S |-> f[x]]
With(f, k, v) == [x \in DOMAIN f \cup {k} |-> IF x = k THEN v ELSE f[x]]

-----------------------------------------------------------------------------
(* Budgets *)

Zero == [c \in Category |-> 0]

Count(a, change) ==
  [c \in Category |-> running[c] + (IF c \in Categories[a] THEN change ELSE 0)]

ShouldRunOneMore(a) ==                       \* faulty: one more than the budget
  \A c \in Categories[a] : Budget[c] = 0 \/ running[c] <= Budget[c]

ShouldRun(a) ==
  \A c \in Categories[a] : Budget[c] = 0 \/ running[c] < Budget[c]

AnyLimitedBudgetRemaining ==
  \E c \in Category : Budget[c] > 0 /\ running[c] < Budget[c]

-----------------------------------------------------------------------------
Init ==
  /\ journal = << >> /\ lanes = << >> /\ events = << >>
  /\ snapshot = database
  /\ nextRecord = 1 /\ nextLane = 1
  /\ kvs = << >>
  /\ requests = [r \in RecordID |-> 0]
  /\ needs = FALSE /\ cancelled = {}
  /\ phase = "idle" /\ heads = [inProgress |-> {}, ready |-> {}]
  /\ lane = 0 /\ last = 0 /\ kept = FALSE /\ current = 0
  /\ instruction = "None"
  /\ running = Zero
  /\ done = {} /\ withdrawn = {}
  /\ failures = 0 /\ yields = 0 /\ crashes = 0

(***************************************************************************)
(* -submitSyncRecord: the record is added, passes preflight and is put on  *)
(* a lane in one transaction: the last lane holding all of its tags, or a  *)
(* new lane after every lane that overlaps it.  A record that fails        *)
(* preflight is removed by the same transaction and leaves no trace.       *)
(***************************************************************************)
Submit(a) ==
  /\ phase = "idle"
  /\ nextRecord <= MaxRecords
  /\ LaneTags[a] # {}
  /\ LET tags == LaneTags[a]
         same == Identical(tags)
         into == IF same # {} THEN Max(same) ELSE nextLane
         new  == [tags |-> tags \ {RootTag}, after |-> Covering(tags)]
     IN  /\ lanes' = IF same # {} THEN lanes ELSE With(lanes, nextLane, new)
         /\ nextLane' = IF same # {} THEN nextLane ELSE nextLane + 1
         /\ journal' = With(journal, nextRecord,
                            [action |-> a, lane |-> into, state |-> "Ready",
                             started |-> FALSE, issue |-> FALSE])
  /\ nextRecord' = nextRecord + 1
  /\ snapshot' = <<journal', lanes', events>>
  /\ needs' = TRUE
  /\ UNCHANGED <<events, kvs, requests, cancelled, phase, heads, walk, running,
                 history>>

-----------------------------------------------------------------------------
(* What happens around a pass *)

\* The server answers a request: the event is queued in the key value store.
Respond(r, outcome) ==
  /\ requests[r] > 0
  /\ outcome = "failure" => failures < MaxFailures
  /\ requests' = [requests EXCEPT ![r] = @ - 1]
  /\ kvs' = Append(kvs, [record |-> r, kind |-> outcome])
  /\ needs' = TRUE
  /\ IF outcome = "success"
     THEN done' = done \cup {r} /\ UNCHANGED failures
     ELSE failures' = failures + 1 /\ UNCHANGED done
  /\ UNCHANGED <<journal, lanes, events, snapshot, nextRecord, nextLane,
                 cancelled, phase, heads, walk, running, withdrawn, yields,
                 crashes>>

Answered(r) ==
  \E i \in DOMAIN events : events[i].record = r /\ events[i].kind \in Choice
AnswerQueued(r) ==
  \E i \in DOMAIN kvs : kvs[i].record = r /\ kvs[i].kind \in Choice

\* The user answers the issue a record waits for.
Answer(r, choice) ==
  /\ phase = "idle"
  /\ r \in DOMAIN journal /\ journal[r].issue
  /\ ~ Answered(r) /\ ~ AnswerQueued(r)
  /\ kvs' = Append(kvs, [record |-> r, kind |-> choice])
  /\ needs' = TRUE
  /\ withdrawn' = IF choice = "cancel" THEN withdrawn \cup {r} ELSE withdrawn
  /\ UNCHANGED <<journal, lanes, events, snapshot, nextRecord, nextLane,
                 requests, cancelled, phase, heads, walk, running, done,
                 failures, yields, crashes>>

\* The user cancels a record's progress.  Only memory knows.
Cancel(r) ==
  /\ r \in DOMAIN journal \ withdrawn
  /\ Cardinality(withdrawn) < MaxCancels
  /\ cancelled' = cancelled \cup {r}
  /\ withdrawn' = withdrawn \cup {r}
  /\ needs' = TRUE
  /\ UNCHANGED <<journal, lanes, events, snapshot, nextRecord, nextLane, kvs,
                 requests, phase, heads, walk, running, done, failures, yields,
                 crashes>>

(***************************************************************************)
(* The process is terminated and started again.  The open transaction is   *)
(* rolled back.  A cancelled flag survives where the record was written    *)
(* since.  A core that reaches "running" asks for a pass.                  *)
(***************************************************************************)
Crash ==
  /\ crashes < MaxCrashes
  /\ crashes' = crashes + 1
  /\ journal' = snapshot[1] /\ lanes' = snapshot[2] /\ events' = snapshot[3]
  /\ cancelled' \in SUBSET cancelled
  /\ needs' = TRUE
  /\ phase' = "idle" /\ heads' = [inProgress |-> {}, ready |-> {}]
  /\ lane' = 0 /\ last' = 0 /\ kept' = FALSE /\ current' = 0
  /\ instruction' = "None"
  /\ running' = Zero
  /\ UNCHANGED <<snapshot, nextRecord, nextLane, kvs, requests, done, withdrawn,
                 failures, yields>>

-----------------------------------------------------------------------------
(* The pass *)

\* Events move to the database (their own transaction), then the pass opens
\* its transaction, sorts the lane heads and drops lanes without records.
StartPass ==
  /\ phase = "idle" /\ needs
  /\ LET used == {journal[r].lane : r \in DOMAIN journal}
         begun == {l \in used : journal[LaneHead(l)].started}
     IN  /\ lanes' = Without(lanes, DOMAIN lanes \ used)
         /\ heads' = [inProgress |-> begun, ready |-> used \ begun]
  /\ events' = events \o kvs
  /\ kvs' = << >>
  /\ snapshot' = <<journal, lanes, events'>>
  /\ needs' = FALSE
  /\ phase' = "inProgress"
  /\ running' = Zero
  /\ UNCHANGED <<journal, nextRecord, nextLane, requests, cancelled, walk,
                 history>>

Between == phase # "idle" /\ lane = 0

Visit(l) ==
  /\ lane' = l /\ last' = 0 /\ kept' = FALSE /\ current' = 0
  /\ instruction' = "None"

\* Phase 1: lanes whose head was scheduled before, whatever they come after.
VisitInProgress ==
  /\ Between /\ phase = "inProgress" /\ heads.inProgress # {}
  /\ LET l == Min(heads.inProgress)
     IN  /\ heads' = [heads EXCEPT !.inProgress = @ \ {l}]
         /\ Visit(l)
  /\ UNCHANGED <<journal, lanes, events, snapshot, nextRecord, nextLane, kvs,
                 requests, needs, cancelled, phase, running, history>>

EndInProgress ==
  /\ Between /\ phase = "inProgress" /\ heads.inProgress = {}
  /\ phase' = "ready"
  /\ UNCHANGED <<journal, lanes, events, snapshot, nextRecord, nextLane, kvs,
                 requests, needs, cancelled, heads, walk, running, history>>

HasEvents(r) == \E i \in DOMAIN events : events[i].record = r

\* Phase 2: lanes with a Ready head that waits for no other lane and whose
\* category has budget left, or which has events to handle.
VisitReady ==
  /\ Between /\ phase = "ready" /\ heads.ready # {}
  /\ AnyLimitedBudgetRemaining
  /\ LET l == Min(heads.ready)
     IN  /\ heads' = [heads EXCEPT !.ready = @ \ {l}]
         /\ IF /\ ~ Blocked(l)
               /\ ShouldRun(journal[LaneHead(l)].action) \/ HasEvents(LaneHead(l))
            THEN Visit(l)
            ELSE UNCHANGED walk
  /\ UNCHANGED <<journal, lanes, events, snapshot, nextRecord, nextLane, kvs,
                 requests, needs, cancelled, phase, running, history>>

Commit ==
  /\ snapshot' = database
  /\ phase' = "idle"
  /\ heads' = [inProgress |-> {}, ready |-> {}]
  /\ running' = Zero
  /\ UNCHANGED <<journal, lanes, events, nextRecord, nextLane, kvs, requests,
                 cancelled, walk, done, withdrawn, failures, crashes>>

FinishPass ==
  /\ Between /\ phase = "ready"
  /\ heads.ready = {} \/ ~ AnyLimitedBudgetRemaining
  /\ Commit
  /\ UNCHANGED <<needs, yields>>

\* Item list work or a bulk import is pending: the pass stops and stays due.
YieldPass ==
  /\ Between
  /\ yields < MaxYields
  /\ IF phase = "ready" THEN heads.ready # {} ELSE heads.inProgress # {}
  /\ Commit
  /\ needs' = TRUE
  /\ yields' = yields + 1

-----------------------------------------------------------------------------
(* Walking a lane (ProcessLane) *)

Following == {r \in OnLane(lane) : r > last}

StopLane == lane' = 0 /\ last' = 0 /\ kept' = FALSE /\ current' = 0
            /\ instruction' = "None"
AdvanceTooFar(keep) ==                       \* faulty: skips an ID
  /\ last' = current + 1 /\ current' = 0 /\ kept' = (kept \/ keep)
  /\ instruction' = "None" /\ UNCHANGED lane
Advance(keep) == /\ last' = current /\ current' = 0 /\ kept' = (kept \/ keep)
                 /\ instruction' = "None" /\ UNCHANGED lane

\* Take the next record, unless it is Ready and its budget is used up.
FetchRecord ==
  /\ lane # 0 /\ current = 0 /\ Following # {}
  /\ LET r == Min(Following)
         a == journal[r].action
     IN  IF journal[r].state = "Ready" /\ ~ ShouldRun(a)
         THEN StopLane /\ UNCHANGED running
         ELSE /\ current' = r /\ instruction' = "None"
              /\ running' = Count(a, 1)
              /\ UNCHANGED <<lane, last, kept>>
  /\ UNCHANGED <<journal, lanes, events, snapshot, nextRecord, nextLane, kvs,
                 requests, needs, cancelled, phase, heads, history>>

\* No record left: a lane whose records were all deleted is dropped.
LeaveLane ==
  /\ lane # 0 /\ current = 0 /\ Following = {}
  /\ lanes' = IF ~ kept /\ OnLane(lane) = {} THEN Without(lanes, {lane}) ELSE lanes
  /\ StopLane
  /\ UNCHANGED <<journal, events, snapshot, nextRecord, nextLane, kvs, requests,
                 needs, cancelled, phase, heads, running, history>>

UpdateUnstarted(r, fields) ==               \* faulty: loses inProgressSince
  [journal EXCEPT ![r] = [fields EXCEPT !.started = FALSE]]
Update(r, fields) == [journal EXCEPT ![r] = fields]

(***************************************************************************)
(* The oldest event of the current record is handled and its row removed.  *)
(* A success completes the record; a failure raises an issue; Retry makes  *)
(* the record Ready again, leaving inProgressSince set; Cancel deschedules *)
(* it.  An answer to an issue the record no longer has is dropped.         *)
(***************************************************************************)
HandleEvent ==
  /\ current # 0 /\ HasEvents(current)
  /\ LET i == Min({j \in DOMAIN events : events[j].record = current})
         kind == events[i].kind
         live == current \in DOMAIN journal
         rec  == journal[current]
     IN  /\ events' = RemoveAt(events, i)
         /\ \/ /\ kind = "success" /\ live
               /\ journal' = Update(current, [rec EXCEPT !.state = "Completed",
                                                         !.issue = FALSE])
               /\ instruction' = "DeleteLast"
               /\ UNCHANGED needs
            \/ /\ kind = "failure" /\ live
               /\ journal' = Update(current, [rec EXCEPT !.state = "Processing",
                                                         !.started = TRUE,
                                                         !.issue = TRUE])
               /\ UNCHANGED <<instruction, needs>>
            \/ /\ kind = "retry" /\ live /\ rec.issue
               /\ journal' = Update(current, [rec EXCEPT !.state = "Ready",
                                                         !.issue = FALSE])
               /\ needs' = TRUE
               /\ UNCHANGED instruction
            \/ /\ kind = "cancel" /\ live /\ rec.issue
               /\ journal' = Without(journal, {current})
               /\ needs' = TRUE
               /\ UNCHANGED instruction
            \/ /\ ~ (live /\ (kind \in Choice => rec.issue))
               /\ UNCHANGED <<journal, instruction, needs>>
  /\ UNCHANGED <<lanes, snapshot, nextRecord, nextLane, kvs, requests,
                 cancelled, phase, heads, lane, last, kept, current, running,
                 history>>

\* The rest of -processSyncRecord: the branches are in the order of the code.
Handled == current # 0 /\ ~ HasEvents(current)

\* Faulty: deletes by lane instead of by record.
DeleteLane ==
  /\ Handled /\ instruction = "DeleteLast"
  /\ journal' = Without(journal, OnLane(lane))
  /\ running' = IF current \in DOMAIN journal
                THEN Count(journal[current].action, -1) ELSE running
  /\ Advance(FALSE)
  /\ UNCHANGED <<lanes, events, snapshot, nextRecord, nextLane, kvs, requests,
                 needs, cancelled, phase, heads, history>>

DeleteLast ==
  /\ Handled /\ instruction = "DeleteLast"
  /\ journal' = Without(journal, {current})
  /\ running' = IF current \in DOMAIN journal
                THEN Count(journal[current].action, -1) ELSE running
  /\ Advance(FALSE)
  /\ UNCHANGED <<lanes, events, snapshot, nextRecord, nextLane, kvs, requests,
                 needs, cancelled, phase, heads, history>>

\* Faulty: does not ask for another pass.
CancelQuietly ==
  /\ Handled /\ instruction # "DeleteLast" /\ current \in cancelled
  /\ journal' = Without(journal, {current})
  /\ Advance(TRUE)
  /\ UNCHANGED <<lanes, events, snapshot, nextRecord, nextLane, kvs, requests,
                 needs, cancelled, phase, heads, running, history>>

\* A cancelled record is descheduled and stays counted (ProcessNext).
CancelRecord ==
  /\ Handled /\ instruction # "DeleteLast" /\ current \in cancelled
  /\ journal' = Without(journal, {current})
  /\ needs' = TRUE
  /\ Advance(TRUE)
  /\ UNCHANGED <<lanes, events, snapshot, nextRecord, nextLane, kvs, requests,
                 cancelled, phase, heads, running, history>>

Undecided == Handled /\ instruction # "DeleteLast" /\ current \notin cancelled

\* A record waiting for an answer gives its budget back (StopAndSideline).
Sideline ==
  /\ Undecided /\ current \in DOMAIN journal /\ journal[current].issue
  /\ running' = Count(journal[current].action, -1)
  /\ StopLane
  /\ UNCHANGED <<journal, lanes, events, snapshot, nextRecord, nextLane, kvs,
                 requests, needs, cancelled, phase, heads, history>>

WaitSidelined ==                             \* faulty: gives the budget back, too
  /\ Undecided /\ current \in DOMAIN journal
  /\ ~ journal[current].issue /\ journal[current].state = "Processing"
  /\ running' = Count(journal[current].action, -1)
  /\ StopLane
  /\ UNCHANGED <<journal, lanes, events, snapshot, nextRecord, nextLane, kvs,
                 requests, needs, cancelled, phase, heads, history>>

\* A record that is Processing, or was descheduled by an answer, ends the walk.
Wait ==
  /\ Undecided
  /\ \/ current \notin DOMAIN journal
     \/ /\ current \in DOMAIN journal
        /\ ~ journal[current].issue /\ journal[current].state = "Processing"
  /\ StopLane
  /\ UNCHANGED <<journal, lanes, events, snapshot, nextRecord, nextLane, kvs,
                 requests, needs, cancelled, phase, heads, running, history>>

SchedulingAgain ==                           \* faulty: whatever the state
  Undecided /\ current \in DOMAIN journal /\ ~ journal[current].issue

Scheduling ==
  /\ Undecided /\ current \in DOMAIN journal
  /\ ~ journal[current].issue /\ journal[current].state = "Ready"

\* Schedule a Ready record: its request is sent while the transaction is open.
Schedule ==
  /\ Scheduling /\ journal[current].action \notin LocalAction
  /\ journal' = Update(current, [journal[current] EXCEPT !.state = "Processing",
                                                         !.started = TRUE])
  /\ requests' = [requests EXCEPT ![current] = @ + 1]
  /\ StopLane
  /\ UNCHANGED <<lanes, events, snapshot, nextRecord, nextLane, kvs, needs,
                 cancelled, phase, heads, running, history>>

\* An action without a request is carried out and its record deleted.
ScheduleLocal ==
  /\ Scheduling /\ journal[current].action \in LocalAction
  /\ journal' = Without(journal, {current})
  /\ done' = done \cup {current}
  /\ running' = Count(journal[current].action, -1)
  /\ Advance(FALSE)
  /\ UNCHANGED <<lanes, events, snapshot, nextRecord, nextLane, kvs, requests,
                 needs, cancelled, phase, heads, withdrawn, failures, yields,
                 crashes>>

-----------------------------------------------------------------------------
Walking == FetchRecord \/ LeaveLane \/ HandleEvent \/ DeleteLast \/ CancelRecord
           \/ Sideline \/ Wait \/ Schedule \/ ScheduleLocal

Pass == StartPass \/ VisitInProgress \/ EndInProgress \/ VisitReady \/ FinishPass
        \/ Walking

Network == \E r \in RecordID, outcome \in Outcome : Respond(r, outcome)
User    == \E r \in RecordID, choice \in Choice : Answer(r, choice)

Next ==
  \/ \E a \in Action : Submit(a)
  \/ \E r \in RecordID : Cancel(r)
  \/ Network \/ User \/ Pass \/ YieldPass \/ Crash

Spec == Init /\ [][Next]_vars

\* The core queue runs what is queued, requests end, issues are answered.
FairSpec == Spec /\ WF_vars(Pass) /\ WF_vars(Network) /\ WF_vars(User)

-----------------------------------------------------------------------------
(* Properties *)

DB(j, l, e) ==
  /\ DOMAIN j \subseteq RecordID /\ DOMAIN l \subseteq LaneID
  /\ j \in [DOMAIN j -> Record]
  /\ l \in [DOMAIN l -> Lane]
  /\ e \in Seq(Event)

\* Every variable holds a value of the type its declaration promises.
TypeOK ==
  /\ DB(journal, lanes, events)
  /\ DB(snapshot[1], snapshot[2], snapshot[3])
  /\ nextRecord \in 1 .. MaxRecords + 1 /\ nextLane \in 1 .. nextRecord
  /\ kvs \in Seq(Event)
  /\ requests \in [RecordID -> Nat]
  /\ needs \in BOOLEAN /\ cancelled \subseteq RecordID
  /\ phase \in {"idle", "inProgress", "ready"}
  /\ heads \in [inProgress : SUBSET LaneID, ready : SUBSET LaneID]
  /\ lane \in LaneID \cup {0} /\ last \in RecordID \cup {0}
  /\ kept \in BOOLEAN /\ current \in RecordID \cup {0}
  /\ instruction \in {"None", "DeleteLast"}
  /\ running \in [Category -> Int]
  /\ done \subseteq RecordID /\ withdrawn \subseteq RecordID
  /\ failures \in Nat /\ yields \in Nat /\ crashes \in Nat

Tags(r) == LaneTags[journal[r].action]
Conflict(r, s) == r # s /\ TagsConflict(Tags(r), Tags(s))
Active(r) == journal[r].state = "Processing"

\* Two records that touch the same item or a folder around it are never in
\* progress at the same time, whatever lanes, retries and crashes did.
NoConflictingActivity ==
  \A r, s \in DOMAIN journal : Active(r) /\ Active(s) => ~ Conflict(r, s)

\* A record is in progress before an older conflicting one has left the
\* journal only if it joined a lane older than the lane of that record.
OvertakesOnlyFromOlderLane ==
  \A r, s \in DOMAIN journal :
    (Active(s) /\ r < s /\ Conflict(r, s)) => journal[s].lane < journal[r].lane

\* doc/SYNCENGINE.md: no record runs while an earlier one with conflicting
\* tags is still to be carried out ("Once Action A is finished, Action B is
\* performed").  Joining a lane by identical tags breaks it.
NoOvertaking ==
  \A r, s \in DOMAIN journal : (Active(s) /\ r < s) => ~ Conflict(r, s)

Transferring(c) ==
  {r \in DOMAIN journal : /\ Active(r) /\ ~ journal[r].issue
                          /\ c \in Categories[journal[r].action]}

\* OCCore.m: the budgets limit how many actions of a category are under way at
\* a time ("Limit number of concurrent upload transfers to 3").  A record that
\* is retried breaks it, and so does one that follows a record of another
\* category on a lane in progress: phase 1 starts them before it has counted
\* the other lanes.
BudgetRespected ==
  \A c \in Category : Budget[c] > 0 => Cardinality(Transferring(c)) <= Budget[c]

\* Phase 2 never exceeds a budget: when it starts a record, everything that is
\* under way was counted, though the count is begun anew in every pass and
\* records are cancelled, sidelined, retried and rolled back meanwhile.
ReadyLanesStayInBudget ==
  [][\A r \in RecordID : phase = "ready" /\ requests'[r] > requests[r] =>
       \A c \in Categories[journal'[r].action] :
         Budget[c] > 0 => Cardinality(Transferring(c)') <= Budget[c]]_vars

\* A record leaves the journal only after its action was carried out or its
\* user gave it up: neither rollback nor rescheduling loses one.
NothingLost ==
  \A r \in 1 .. nextRecord - 1 : r \in DOMAIN journal \cup done \cup withdrawn

\* Two requests of one record are under way only after a crash, which rolls
\* back the pass that sent the first of them.
DuplicateRequestsAfterCrashOnly ==
  \A r \in RecordID : requests[r] > 1 => crashes > 0

\* Every submitted record eventually leaves the journal: no wake-up is lost
\* and no lane waits forever for one that is gone.
RecordsSettle ==
  \A r \in RecordID : r \in DOMAIN journal ~> r \notin DOMAIN journal

\* A lane that lost its last record is dropped, unless it is used again.
EmptyLanesDropped ==
  \A l \in LaneID :
    (l \in DOMAIN lanes /\ OnLane(l) = {})
      ~> (l \notin DOMAIN lanes \/ OnLane(l) # {})

-----------------------------------------------------------------------------
(***************************************************************************)
(* The inductive invariant behind the safety properties.  Its parts about  *)
(* the database hold of the live one and of the last commit, to which a    *)
(* crash returns.                                                          *)
(***************************************************************************)

\* Records are on lanes that hold their tags; a lane comes after every older
\* lane it conflicts with and only after older ones.
LanesHold(j, l) ==
  /\ \A r \in DOMAIN j : /\ j[r].lane \in DOMAIN l
                         /\ LaneTags[j[r].action] \ {RootTag} \subseteq l[j[r].lane].tags
  /\ \A x, y \in DOMAIN l : x < y /\ TagsConflict(l[x].tags, l[y].tags) => x \in l[y].after
  /\ \A x \in DOMAIN l : \A y \in l[x].after : y < x

\* A record that was scheduled is on a lane that waits for none, and one that
\* is Processing is the oldest of its lane.
StartedInOrder(j, l) ==
  /\ \A r \in DOMAIN j : j[r].started => l[j[r].lane].after \cap DOMAIN l = {}
  /\ \A r \in DOMAIN j : j[r].state = "Processing" => j[r].started
  /\ \A r, s \in DOMAIN j :
       j[r].state = "Processing" /\ j[s].lane = j[r].lane => r <= s

IDsUsed(j, l) == /\ \A r \in DOMAIN j : r < nextRecord
                 /\ \A x \in DOMAIN l : x < nextLane

DBInv(j, l) == LanesHold(j, l) /\ StartedInOrder(j, l) /\ IDsUsed(j, l)

\* The lanes phase 1 visits and the lane being walked wait for none, and the
\* records before the current one are gone from that lane.
WalkInv ==
  /\ phase = "idle" => lane = 0 /\ heads.inProgress = {}
  /\ lane = 0 => current = 0
  /\ \A l \in (heads.inProgress \cup {lane}) \cap DOMAIN lanes : ~ Blocked(l)
  /\ current = 0 => \A r \in OnLane(lane) : last < r
  /\ current # 0 => \A r \in OnLane(lane) : current <= r
  /\ current \in DOMAIN journal => journal[current].lane = lane

\* What an event, an instruction or a cancelled progress says of a record is
\* what happened to it.
Truthful(e) ==
  \A i \in DOMAIN e : /\ e[i].kind = "success" => e[i].record \in done
                      /\ e[i].kind = "cancel" => e[i].record \in withdrawn

Settled(j) == \A r \in 1 .. nextRecord - 1 : r \in DOMAIN j \cup done \cup withdrawn

HistoryInv ==
  /\ Truthful(events) /\ Truthful(snapshot[3]) /\ Truthful(kvs)
  /\ instruction = "DeleteLast" => current \in done
  /\ cancelled \subseteq withdrawn
  /\ Settled(journal) /\ Settled(snapshot[1])

\* The conjunction that every step preserves.
Inductive ==
  TypeOK /\ DBInv(journal, lanes) /\ DBInv(snapshot[1], snapshot[2]) /\ WalkInv /\ HistoryInv

(***************************************************************************)
(* What the pass counts, and which requests and outcomes a record has.     *)
(***************************************************************************)

\* Lanes of which a pass has not counted the record in progress, if any.
Uncounted == heads.inProgress \cup (IF current = 0 THEN {lane} ELSE {})

\* Records the budgets of a pass were charged for and not given back.
Counted(c) ==
  {r \in DOMAIN journal : /\ c \in Categories[journal[r].action]
                          /\ journal[r].lane \notin Uncounted
                          /\ r = current \/ (Active(r) /\ ~ journal[r].issue)}

\* A lane is visited once, by the phase its head belongs to.
VisitInv ==
  /\ phase = "idle" => heads.ready = {}
  /\ phase = "ready" => heads.inProgress = {}
  /\ heads.inProgress \cap heads.ready = {}
  /\ lane \notin heads.inProgress \cup heads.ready

\* On the lanes of phase 2 all but the current record are Ready: none is in
\* progress, and a completed one is current and about to be deleted.
ReadyInv ==
  /\ \A r \in DOMAIN journal :
       journal[r].state = "Completed" => r = current /\ instruction = "DeleteLast"
  /\ \A r \in DOMAIN snapshot[1] : snapshot[1][r].state # "Completed"
  /\ \A r \in DOMAIN journal : journal[r].lane \in heads.ready => ~ Active(r)
  /\ \A r \in DOMAIN journal :
       phase = "ready" /\ journal[r].lane = lane /\ r # current => ~ Active(r)

\* The charges of a pass cover what is counted, and phase 2 took the current
\* record only where its budgets had room.
BudgetInv ==
  /\ phase # "idle" => \A c \in Category : Cardinality(Counted(c)) <= running[c]
  /\ phase = "ready" /\ current \in DOMAIN journal =>
       \A c \in Categories[journal[current].action] :
         Budget[c] > 0 => running[c] <= Budget[c]

\* What a pass charged to the budgets covers the records in progress on all
\* lanes it has looked at (runningActionsByCategory).
LoadInv == VisitInv /\ ReadyInv /\ BudgetInv

\* Events that were not handled yet, oldest first.
Mail == events \o kvs

AwaitsOutcome(r) == r \in DOMAIN journal => Active(r) /\ ~ journal[r].issue

\* Without a crash, a record that has a request under way or an outcome to
\* handle has one of the two, once, and waits for it.
OneRequest ==
  /\ \A r \in RecordID :
       requests[r] > 0 => requests[r] = 1 /\ r < nextRecord /\ AwaitsOutcome(r)
  /\ \A r \in RecordID, i \in DOMAIN Mail :
       Mail[i].record = r /\ Mail[i].kind \in Outcome =>
         requests[r] = 0 /\ r < nextRecord /\ AwaitsOutcome(r)
  /\ \A i, j \in DOMAIN Mail :
       (Mail[i].kind \in Outcome /\ Mail[j].kind \in Outcome /\ Mail[i].record = Mail[j].record)
         => i = j

\* The requests, their outcomes and the journal agree until a crash rolls the
\* journal back (-processSyncRecord:, OCEventQueue).
RequestInv == crashes = 0 => OneRequest
=============================================================================
