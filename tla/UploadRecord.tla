---------------------------- MODULE UploadRecord ----------------------------
(***************************************************************************)
(* The life of one upload's sync record from its first scheduling to its   *)
(* removal from the journal (OCSyncActionUpload), with the two jobs that   *)
(* run outside the core's queue: the checksum of the copy that is sent,    *)
(* for which the record is parked in Processing before there is a request, *)
(* and the checksum of the local file after the upload, which goes on when *)
(* the event is already consumed.  A job dies with its process; the health *)
(* check of a core that starts (-restartStuckSyncRecordsWithFilter:) finds *)
(* the records that were left in Processing.                               *)
(*                                                                         *)
(* The processes share the journal, the pipeline and the key value store.  *)
(* Each has its own instance of the record: the one in the cache is        *)
(* replaced when the row's revision differs, while jobs keep the instance  *)
(* they were started with.  Stopping a core is modelled as a termination.  *)
(***************************************************************************)
EXTENDS Integers, FiniteSets

CONSTANTS
  Process,      \* the app and its extensions
  Origin,       \* originProcessSession of the record
  Request,      \* HTTP requests of the record that are told apart
  MaxFailures,  \* bound: requests and schedulings that end with an issue
  MaxCrashes    \* bound: process terminations

ASSUME UploadAssumption ==
  Origin \in Process /\ MaxFailures \in Nat /\ MaxCrashes \in Nat

VARIABLES
  \* on disk
  row,        \* the record's row in the journal: none or one
  copy,       \* the temporary copy of the file exists
  where,      \* stores that hold the request or its event
  answer,     \* how the request ended, until its event is handled
  \* memory of the processes
  up,         \* processes that run a core
  cur,        \* the cached instance of the record: none or one
  jobs,       \* checksums being computed; inst = {} is the cached instance
  step,       \* what the core's queue does next
  block,      \* the job whose completion runs on the queue
  found,      \* the health check saw a request or an event of the record
  cancelled,  \* syncRecord.progress.cancelled
  \* history
  uploaded,   \* the server has the file
  givenUp,    \* the user cancelled the upload
  foreign,    \* a health check met the work of another process
  overwritten,  \* a job's block stored an instance older than the row
  failures, crashes

disk    == <<row, copy, where, answer>>
memory  == <<up, cur, jobs, step, block, found, cancelled>>
history == <<uploaded, givenUp, foreign, overwritten, failures, crashes>>
vars == <<row, copy, where, answer, up, cur, jobs, step, block, found,
          cancelled, uploaded, givenUp, foreign, overwritten, failures, crashes>>

Data == [state : {"ready", "processing", "completed"},
         wait : {"none", "retry", "cancel"},  \* choices of the record's issue
         copied : BOOLEAN,                    \* importFileIsTemporaryAlongsideCopy
         sum : BOOLEAN,                       \* importFileChecksum is set
         rev : Nat]                           \* revision
Job == [proc : Process, kind : {"hash", "verify"}, inst : SUBSET Data]
Place == {"http", "kvs", "db"}

The(S) == CHOOSE x \in S : TRUE

Init ==
  /\ row = {[state |-> "ready", wait |-> "none", copied |-> FALSE,
             sum |-> FALSE, rev |-> 0]}
  /\ copy = FALSE
  /\ where = [a \in Request |-> {}] /\ answer = [a \in Request |-> "none"]
  /\ up = {Origin}
  /\ cur = [p \in Process |-> {}] /\ jobs = {}
  /\ step = [p \in Process |-> "idle"] /\ block = [p \in Process |-> {}]
  /\ found = [p \in Process |-> FALSE] /\ cancelled = [p \in Process |-> FALSE]
  /\ uploaded = FALSE /\ givenUp = FALSE
  /\ foreign = FALSE /\ overwritten = FALSE
  /\ failures = 0 /\ crashes = 0

-----------------------------------------------------------------------------
(* Instances of the record *)

\* The cache is good while the row has the instance's revision.
CacheValid(p) == \E d \in cur[p] : \A r \in row : d.rev = r.rev
Loaded(p) == IF CacheValid(p) THEN The(cur[p]) ELSE The(row)

\* Jobs of p keep the instance that leaves the cache.
Detached(p) ==
  {IF j.proc = p /\ j.inst = {} THEN [j EXCEPT !.inst = cur[p]] ELSE j : j \in jobs}
JobsAfterLoad(p) == IF CacheValid(p) THEN jobs ELSE Detached(p)

InstanceOf(j) == IF j.inst = {} THEN The(cur[j.proc]) ELSE The(j.inst)

Next1(d) == [d EXCEPT !.rev = @ + 1]

\* updateSyncRecords: of the loaded instance, with its next revision.
Store(p, d) ==
  /\ row' = {Next1(d)}
  /\ cur' = [cur EXCEPT ![p] = {Next1(d)}]

\* The same from a job's block: the row may be gone, the instance be stale.
StoreInstance(j, d) ==
  /\ row' = IF row = {} THEN {} ELSE {Next1(d)}
  /\ cur' = IF j.inst = {} THEN [cur EXCEPT ![j.proc] = {Next1(d)}] ELSE cur
  /\ overwritten' = (overwritten \/ \E r \in row : InstanceOf(j).rev # r.rev)

\* removeSyncRecords: jobs of the instance that is marked as removed return
\* without an effect.
Remove(p, current) ==
  /\ row' = {}
  /\ cur' = [cur EXCEPT ![p] = {}]
  /\ jobs' = IF current THEN {j \in jobs : ~ (j.proc = p /\ j.inst = {})}
             ELSE Detached(p)

-----------------------------------------------------------------------------
(* The pass *)

\* The health check holds the database's exclusive lock.
Locked == \E q \in Process : step[q] \in {"kvs", "db"}

\* Records of another running process are left to it.
Visit(p) == /\ p \in up /\ step[p] = "idle" /\ ~ Locked
            /\ row # {}
            /\ p = Origin \/ Origin \notin up

Events == {a \in Request : "db" \in where[a]}
Waits(p) == Loaded(p).wait # "none"

\* The action's deschedule deletes the copy, the engine the record.
Deschedule(p) == copy' = FALSE /\ Remove(p, CacheValid(p))

\* The copy is made once; the record is parked until the checksum is known.
Schedule(p) ==
  /\ Visit(p) /\ Events = {} /\ ~ cancelled[p] /\ ~ Waits(p)
  /\ Loaded(p).state = "ready"
  /\ copy' = (copy \/ ~ Loaded(p).copied)
  /\ Store(p, [Loaded(p) EXCEPT !.state = "processing", !.copied = TRUE])
  /\ jobs' = JobsAfterLoad(p)
               \cup {[proc |-> p, kind |-> "hash", inst |-> {}]}
  /\ UNCHANGED <<where, answer, up, step, block, found, cancelled, history>>

\* The file cannot be copied, or the name is taken: an issue.
ScheduleFails(p) ==
  /\ Visit(p) /\ Events = {} /\ ~ cancelled[p] /\ ~ Waits(p)
  /\ Loaded(p).state = "ready" /\ failures < MaxFailures
  /\ \/ /\ ~ Loaded(p).copied
        /\ Store(p, [Loaded(p) EXCEPT !.state = "processing", !.wait = "cancel"])
        /\ UNCHANGED copy
     \/ /\ copy' = (copy \/ ~ Loaded(p).copied)
        /\ Store(p, [Loaded(p) EXCEPT !.state = "processing", !.copied = TRUE,
                                      !.wait = "retry"])
  /\ jobs' = JobsAfterLoad(p)
  /\ failures' = failures + 1
  /\ UNCHANGED <<where, answer, up, step, block, found, cancelled, uploaded,
                 givenUp, foreign, overwritten, crashes>>

\* Faulty: deletes the copy whatever the answer is.
CopyAfterAnyAnswer(success, verified) == copy /\ success /\ verified
\* Without a checksum to verify the upload is completed at once.
CopyAfter(success, verified) == copy /\ ~ (success /\ ~ verified)

\* handleResult: all events of the record, and they are removed.
HandleEvents(p) ==
  /\ Visit(p) /\ Events # {}
  /\ LET is(o) == \E a \in Events : answer[a] = o
         d == Loaded(p)
     IN  \/ is("cancelled") /\ Deschedule(p)
         \/ /\ ~ is("cancelled")
            /\ copy' = CopyAfter(is("ok"), d.sum)
            /\ IF is("ok") /\ ~ d.sum THEN Remove(p, CacheValid(p))
               ELSE /\ jobs' = JobsAfterLoad(p) \cup
                         IF is("ok") THEN {[proc |-> p, kind |-> "verify", inst |-> {}]}
                         ELSE {}
                    /\ IF is("failed")
                       THEN Store(p, [d EXCEPT !.state = "processing", !.wait = "retry"])
                       ELSE cur' = [cur EXCEPT ![p] = {d}] /\ UNCHANGED row
  /\ where' = [a \in Request |-> where[a] \ {"db"}]
  /\ answer' = [a \in Request |-> IF a \notin Events THEN answer[a]
                                  ELSE IF where[a] = {"db"} THEN "none"
                                  ELSE "handled"]
  /\ UNCHANGED <<up, step, block, found, cancelled, history>>

\* Cancelled by the user: seen once there are no events left.
Cancel(p) ==
  /\ Visit(p) /\ Events = {} /\ cancelled[p]
  /\ Deschedule(p)
  /\ UNCHANGED <<where, answer, up, step, block, found, cancelled, history>>

\* The user's answer to the issue.
Resolve(p) ==
  /\ Visit(p) /\ Events = {} /\ ~ cancelled[p] /\ Waits(p)
  /\ \/ Deschedule(p) /\ givenUp' = TRUE
     \/ /\ Loaded(p).wait = "retry"
        /\ Store(p, [Loaded(p) EXCEPT !.state = "ready", !.wait = "none"])
        /\ jobs' = JobsAfterLoad(p)
        /\ UNCHANGED <<copy, givenUp>>
  /\ UNCHANGED <<where, answer, up, step, block, found, cancelled, uploaded,
                 foreign, overwritten, failures, crashes>>

\* A completed record that is still there.
DeleteCompleted(p) ==
  /\ Visit(p) /\ Events = {} /\ ~ cancelled[p] /\ ~ Waits(p)
  /\ Loaded(p).state = "completed"
  /\ Remove(p, CacheValid(p))
  /\ UNCHANGED <<copy, where, answer, up, step, block, found, cancelled, history>>

Pass(p) == \/ Schedule(p) \/ ScheduleFails(p) \/ HandleEvents(p)
           \/ Cancel(p) \/ Resolve(p) \/ DeleteCompleted(p)

-----------------------------------------------------------------------------
(* The checksum of the copy was computed: a block on the core's queue *)

Begin(j) == j.proc \in up /\ step[j.proc] = "idle" /\ jobs' = jobs \ {j}
Goes(j) == ~ cancelled[j.proc] /\ InstanceOf(j).state = "processing"

StartUpload(j) ==
  /\ j.kind = "hash" /\ Begin(j) /\ Goes(j) /\ copy
  /\ LET free == {a \in Request : where[a] = {}}
     IN  free # {} /\ where' = [where EXCEPT ![The(free)] = {"http"}]
  /\ step' = [step EXCEPT ![j.proc] = "started"]
  /\ block' = [block EXCEPT ![j.proc] = {j}]
  /\ foreign' = (foreign \/ Locked)
  /\ UNCHANGED <<row, copy, answer, up, cur, found, cancelled, uploaded, givenUp,
                 overwritten, failures, crashes>>

\* The copy disappeared after its checksum was computed: no request, but the
\* event of an upload that failed, and no progress.
StartWithoutCopy(j) ==
  /\ j.kind = "hash" /\ Begin(j) /\ Goes(j) /\ ~ copy
  /\ failures < MaxFailures /\ failures' = failures + 1
  /\ LET free == {a \in Request : where[a] = {}}
     IN  /\ free # {} /\ where' = [where EXCEPT ![The(free)] = {"kvs"}]
         /\ answer' = [answer EXCEPT ![The(free)] = "failed"]
  /\ step' = [step EXCEPT ![j.proc] = "started"]
  /\ block' = [block EXCEPT ![j.proc] = {j}]
  /\ foreign' = (foreign \/ Locked)
  /\ UNCHANGED <<row, copy, up, cur, found, cancelled, uploaded, givenUp,
                 overwritten, crashes>>

\* ... and the record is updated with the checksum.
StoreStarted(p) ==
  /\ step[p] = "started" /\ ~ Locked
  /\ \E j \in block[p] :
       StoreInstance(j, [InstanceOf(j) EXCEPT !.wait = "none", !.sum = TRUE])
  /\ step' = [step EXCEPT ![p] = "idle"]
  /\ block' = [block EXCEPT ![p] = {}]
  /\ UNCHANGED <<copy, where, answer, up, jobs, found, cancelled, uploaded, givenUp,
                 foreign, failures, crashes>>

\* Without the copy there is no checksum: an issue that can only be cancelled.
ChecksumFails(j) ==
  /\ j.kind = "hash" /\ Begin(j) /\ Goes(j) /\ ~ copy /\ ~ Locked
  /\ StoreInstance(j, [InstanceOf(j) EXCEPT !.wait = "cancel"])
  /\ UNCHANGED <<copy, where, answer, up, step, block, found, cancelled,
                 uploaded, givenUp, foreign, failures, crashes>>

SkipUpload(j) ==
  /\ j.kind = "hash" /\ Begin(j) /\ ~ Goes(j)
  /\ UNCHANGED <<disk, up, cur, step, block, found, cancelled, history>>

-----------------------------------------------------------------------------
(* The checksum of the uploaded file was computed *)

\* The copy is deleted, then the record is completed, then removed.
FinishUpload(j) ==
  /\ j.kind = "verify" /\ Begin(j)
  /\ copy' = (copy /\ ~ InstanceOf(j).copied)
  /\ step' = [step EXCEPT ![j.proc] = "finished"]
  /\ block' = [block EXCEPT ![j.proc] = {j}]
  /\ UNCHANGED <<row, where, answer, up, cur, found, cancelled, history>>

StoreCompleted(p) ==
  /\ step[p] = "finished" /\ ~ Locked
  /\ \E j \in block[p] :
       StoreInstance(j, [InstanceOf(j) EXCEPT !.state = "completed", !.wait = "none"])
  /\ step' = [step EXCEPT ![p] = "remove"]
  /\ UNCHANGED <<copy, where, answer, up, jobs, block, found, cancelled,
                 uploaded, givenUp, foreign, failures, crashes>>

RemoveCompleted(p) ==
  /\ step[p] = "remove" /\ ~ Locked
  /\ \E j \in block[p] : Remove(p, j.inst = {})
  /\ step' = [step EXCEPT ![p] = "idle"]
  /\ block' = [block EXCEPT ![p] = {}]
  /\ UNCHANGED <<copy, where, answer, up, found, cancelled, history>>

-----------------------------------------------------------------------------
(* The request and its event: from the pipeline to the key value store and *)
(* from there to the database (see SyncEvents)                             *)

Answer(a) ==
  /\ "http" \in where[a] /\ answer[a] = "none"
  /\ \E o \in {"ok", "failed", "cancelled"} :
       /\ o = "failed" => failures < MaxFailures
       /\ o = "cancelled" => \E p \in Process : cancelled[p]
       /\ answer' = [answer EXCEPT ![a] = o]
       /\ uploaded' = (uploaded \/ o = "ok")
       /\ failures' = failures + IF o = "failed" THEN 1 ELSE 0
  /\ UNCHANGED <<row, copy, where, memory, givenUp, foreign, overwritten, crashes>>

QueueEvent(a) ==
  /\ up # {} /\ where[a] = {"http"} /\ answer[a] \notin {"none", "handled"}
  /\ where' = [where EXCEPT ![a] = {"http", "kvs"}]
  /\ UNCHANGED <<row, copy, answer, memory, history>>

RemoveRequest(a) ==
  /\ up # {} /\ "http" \in where[a]
  /\ where[a] # {"http"} \/ answer[a] = "handled"
  /\ where' = [where EXCEPT ![a] = @ \ {"http"}]
  /\ answer' = [answer EXCEPT ![a] = IF @ = "handled" THEN "none" ELSE @]
  /\ UNCHANGED <<row, copy, memory, history>>

Transfer(a) ==
  /\ \E p \in up : step[p] = "idle"
  /\ ~ Locked /\ "kvs" \in where[a]
  /\ where' = [where EXCEPT ![a] = (@ \ {"kvs"}) \cup {"db"}]
  /\ UNCHANGED <<row, copy, answer, memory, history>>

-----------------------------------------------------------------------------
(* The health check of a core that starts *)

\* (Bound: no launches and terminations once the record is gone.)
Launch(p) ==
  /\ p \notin up /\ row # {}
  /\ up' = up \cup {p}
  /\ step' = [step EXCEPT ![p] = "check"]
  /\ UNCHANGED <<disk, cur, jobs, block, found, cancelled, history>>

Holds(s) == \E a \in Request : s \in where[a]

\* Faulty: does not look at the pipeline.
CheckNoRequests(p) ==
  /\ step[p] = "check" /\ ~ Locked
  /\ step' = [step EXCEPT ![p] = "kvs"]
  /\ UNCHANGED <<disk, up, cur, jobs, block, found, cancelled, history>>

\* In the exclusive transaction: requests first ...
CheckRequests(p) ==
  /\ step[p] = "check" /\ ~ Locked
  /\ found' = [found EXCEPT ![p] = Holds("http")]
  /\ step' = [step EXCEPT ![p] = "kvs"]
  /\ UNCHANGED <<disk, up, cur, jobs, block, cancelled, history>>

\* Faulty: knows only the events of the database.
CheckNoQueue(p) ==
  /\ step[p] = "kvs"
  /\ step' = [step EXCEPT ![p] = "db"]
  /\ UNCHANGED <<disk, up, cur, jobs, block, found, cancelled, history>>

\* ... then queued events ...
CheckQueue(p) ==
  /\ step[p] = "kvs"
  /\ found' = [found EXCEPT ![p] = @ \/ Holds("kvs")]
  /\ step' = [step EXCEPT ![p] = "db"]
  /\ UNCHANGED <<disk, up, cur, jobs, block, cancelled, history>>

\* Faulty: takes a parked record for one that has a request.
StuckAfterStart(p) ==
  \E d \in row : d.state = "processing" /\ d.wait = "none" /\ d.sum /\ ~ found[p]
Stuck(p) ==
  \E d \in row : d.state = "processing" /\ d.wait = "none" /\ ~ found[p]

\* ... then events in the database and the records.
CheckRecords(p) ==
  /\ step[p] = "db"
  /\ IF Stuck(p) /\ ~ Holds("db")
     THEN /\ Store(p, [Loaded(p) EXCEPT !.state = "ready"])
          /\ jobs' = JobsAfterLoad(p)
          /\ foreign' = (\/ foreign
                         \/ \E q \in up \ {p} : block[q] # {}
                         \/ \E j \in jobs : j.proc # p)
     ELSE UNCHANGED <<row, cur, jobs, foreign>>
  /\ step' = [step EXCEPT ![p] = "idle"]
  /\ found' = [found EXCEPT ![p] = FALSE]
  /\ UNCHANGED <<copy, where, answer, up, block, cancelled, uploaded, givenUp,
                 overwritten, failures, crashes>>

HealthCheck(p) == CheckRequests(p) \/ CheckQueue(p) \/ CheckRecords(p)

-----------------------------------------------------------------------------
(* The user, terminations and restarts *)

\* (Bound: once.)
CancelByUser(p) ==
  /\ Visit(p) /\ ~ givenUp
  /\ cancelled' = [cancelled EXCEPT ![p] = TRUE]
  /\ givenUp' = TRUE
  /\ UNCHANGED <<disk, up, cur, jobs, step, block, found, uploaded, foreign,
                 overwritten, failures, crashes>>

\* Faulty: jobs outlive their process.
LosesAllButJobs(p) ==
  /\ up' = up \ {p}
  /\ cur' = [cur EXCEPT ![p] = {}]
  /\ jobs' = Detached(p)
  /\ step' = [step EXCEPT ![p] = "idle"]
  /\ block' = [block EXCEPT ![p] = {}]
  /\ found' = [found EXCEPT ![p] = FALSE]
  /\ cancelled' = [cancelled EXCEPT ![p] = FALSE]

\* All that a process keeps in memory is gone.
LosesMemory(p) ==
  /\ up' = up \ {p}
  /\ cur' = [cur EXCEPT ![p] = {}]
  /\ jobs' = {j \in jobs : j.proc # p}
  /\ step' = [step EXCEPT ![p] = "idle"]
  /\ block' = [block EXCEPT ![p] = {}]
  /\ found' = [found EXCEPT ![p] = FALSE]
  /\ cancelled' = [cancelled EXCEPT ![p] = FALSE]

\* A transaction that is cut short is rolled back, but a file that its
\* deschedule deleted stays deleted.
Crash(p) ==
  /\ p \in up /\ crashes < MaxCrashes /\ row # {}
  /\ crashes' = crashes + 1
  /\ copy' \in {copy} \cup IF Visit(p) /\ Events = {} /\ cancelled[p]
                           THEN {FALSE} ELSE {}
  /\ LosesMemory(p)
  /\ UNCHANGED <<row, where, answer, uploaded, givenUp, foreign, overwritten,
                 failures>>

\* Nothing is under way for the record, and no pass would do anything.
AtRest ==
  /\ \A a \in Request : where[a] = {}
  /\ jobs = {} /\ \A q \in up : step[q] = "idle" /\ ~ (Visit(q) /\ cancelled[q])
  /\ \E d \in row : d.state = "processing" /\ d.wait = "none"

\* An app that is at rest is closed at some time.
Quit(p) ==
  /\ p \in up /\ AtRest
  /\ LosesMemory(p)
  /\ UNCHANGED <<disk, history>>

Next ==
  \/ \E p \in Process :
       \/ Pass(p) \/ StoreStarted(p) \/ StoreCompleted(p) \/ RemoveCompleted(p)
       \/ Launch(p) \/ HealthCheck(p) \/ CancelByUser(p) \/ Crash(p)
       \/ Quit(p)
  \/ \E j \in jobs :
       \/ StartUpload(j) \/ StartWithoutCopy(j) \/ ChecksumFails(j)
       \/ SkipUpload(j) \/ FinishUpload(j)
  \/ \E a \in Request :
       Answer(a) \/ QueueEvent(a) \/ RemoveRequest(a) \/ Transfer(a)

Spec == Init /\ [][Next]_vars

\* The queues run what is queued on them, checksums are computed, requests
\* end, the user answers issues, and apps are closed and launched again.
Fairness ==
  /\ \A p \in Process :
       /\ WF_vars(Pass(p))
       /\ WF_vars(StoreStarted(p) \/ StoreCompleted(p) \/ RemoveCompleted(p))
       /\ WF_vars(Quit(p)) /\ WF_vars(Launch(p)) /\ WF_vars(HealthCheck(p))
       /\ WF_vars(\E j \in jobs : /\ j.proc = p
                                  /\ \/ StartUpload(j) \/ StartWithoutCopy(j)
                                     \/ ChecksumFails(j) \/ SkipUpload(j)
                                     \/ FinishUpload(j))
  /\ \A a \in Request :
       /\ WF_vars(Answer(a)) /\ WF_vars(QueueEvent(a))
       /\ WF_vars(RemoveRequest(a)) /\ WF_vars(Transfer(a))

FairSpec == Spec /\ Fairness

-----------------------------------------------------------------------------
(* Properties *)

\* Every variable holds a value of its type, jobs and blocks belong to running
\* processes, and one that uses the cached instance finds it there.
TypeOK ==
  /\ row \subseteq Data /\ Cardinality(row) <= 1 /\ copy \in BOOLEAN
  /\ where \in [Request -> SUBSET Place]
  /\ answer \in [Request -> {"none", "ok", "failed", "cancelled", "handled"}]
  /\ up \subseteq Process
  /\ \A p \in Process : cur[p] \subseteq Data /\ Cardinality(cur[p]) <= 1
  /\ \A p \in Process : \A j \in jobs \cup block[p] :
       /\ j.proc \in up /\ j.kind \in {"hash", "verify"}
       /\ j.inst \subseteq Data /\ Cardinality(j.inst) <= 1
       /\ j.inst = {} => cur[j.proc] # {}
  /\ step \in [Process -> {"idle", "started", "finished", "remove", "check",
                           "kvs", "db"}]
  /\ found \in [Process -> BOOLEAN] /\ cancelled \in [Process -> BOOLEAN]
  /\ failures \in 0..MaxFailures /\ crashes \in 0..MaxCrashes

\* Requests without a result that was handled.
Outstanding == {a \in Request : where[a] # {} /\ answer[a] # "handled"}

\* "Park the record in Processing so the scheduler does not re-enter schedule
\* while the checksum runs off-queue": a second request is made while one is
\* outstanding only if the health check of a process that starts restarted the
\* record while another process had a job for it, or one that sends the request
\* meanwhile, or when a job's block stored the instance it was started with over
\* what other processes wrote since, which can give a revision a second meaning;
\* neither terminations nor the moments of the check's reads are enough.
OverlapOnlyAfterInterference ==
  foreign \/ overwritten \/ Cardinality(Outstanding) <= 1

\* The copy an open record depends on disappears only when the server has its
\* contents or the user gave the upload up, wherever a termination cuts in.
CopyKeptUntilUploaded ==
  \A d \in row : d.copied /\ ~ copy => uploaded \/ givenUp

\* A file the server already has is uploaded again only after a termination
\* (which took the verification of an upload whose event was consumed) or when a
\* health check restarted the record under the feet of another process; not
\* because the event was on its way between the stores while one looked.
ReuploadOnlyAfterTermination ==
  [][\A a \in Request :
       where[a] = {} /\ where'[a] # {} /\ uploaded => crashes > 0 \/ foreign]_vars

\* Every upload leaves the journal: a record whose job died with its process,
\* before there was a request or after its event was consumed, is restarted by
\* a health check: if that of the next start still sees the request of an event
\* that was handled, or if a job stored its old instance over what another
\* process wrote, by the one after.
UploadSettles == <>[](row = {})
=============================================================================
