------------------------- MODULE UploadRecordProofs -------------------------
(***************************************************************************)
(* For any processes, requests, failures and terminations: the copy an     *)
(* upload depends on is kept until the server has its contents or the user *)
(* gives up (Inductive); an upload has one attempt at a time, and a file   *)
(* the server has is not sent again, unless what the history variables     *)
(* name came between (Attempts).                                           *)
(***************************************************************************)
EXTENDS UploadRecord, FiniteSetTheorems, TLAPS

Single(S) == \A x, y \in S : x = y

\* The parts of TypeOK, with the types of whole functions.
Instances ==
  /\ row \subseteq Data /\ Single(row) /\ copy \in BOOLEAN
  /\ cur \in [Process -> SUBSET Data]
  /\ \A p \in Process : Single(cur[p])
Requests ==
  /\ where \in [Request -> SUBSET Place]
  /\ answer \in [Request -> {"none", "ok", "failed", "cancelled", "handled"}]
Processes ==
  /\ up \subseteq Process
  /\ step \in [Process -> {"idle", "started", "finished", "remove", "check",
                           "kvs", "db"}]
  /\ found \in [Process -> BOOLEAN] /\ cancelled \in [Process -> BOOLEAN]
Bounds == failures \in 0..MaxFailures /\ crashes \in 0..MaxCrashes

Fits(j) ==
  /\ j \in Job /\ j.proc \in up /\ Single(j.inst)
  /\ j.inst = {} => cur[j.proc] # {}
Jobs ==
  /\ \A j \in jobs : Fits(j)
  /\ block \in [Process -> SUBSET Job]
  /\ \A p \in Process : \A j \in block[p] : Fits(j) /\ j.proc = p
\* Only steps of a block have one.
Blocks ==
  \A p \in Process : block[p] # {} => step[p] \in {"started", "finished", "remove"}

-----------------------------------------------------------------------------
(* The inductive invariant *)

\* The copy may be missing for an instance that says there is one.
Spare == copy \/ uploaded \/ givenUp

\* Wherever an instance of the record is kept, it speaks of a copy only if there
\* is one, or none is needed: a stale instance can be stored like the others.
CopiesBacked ==
  row # {} /\ ~ Spare =>
    /\ \A d \in row : ~ d.copied
    /\ \A p \in Process : \A d \in cur[p] : ~ d.copied
    /\ \A j \in jobs : \A d \in j.inst : ~ d.copied
    /\ \A p \in Process : \A j \in block[p] : \A d \in j.inst : ~ d.copied

\* What deletes the copy knows that the upload succeeded or was cancelled.
Justified ==
  /\ \A j \in jobs : j.kind = "verify" => uploaded
  /\ \A a \in Request : answer[a] = "ok" => uploaded
  /\ \A p \in Process : cancelled[p] => givenUp

Work == Instances /\ Jobs /\ CopiesBacked
Inductive == Work /\ Requests /\ Processes /\ Blocks /\ Bounds /\ Justified

-----------------------------------------------------------------------------
(* One attempt at a time *)

\* Answers and the stores they are in: a result is handled once.
Stores ==
  \A a \in Request :
    /\ where[a] = {} => answer[a] = "none"
    /\ answer[a] = "handled" => where[a] = {"http"}
    /\ where[a] \cap {"kvs", "db"} # {} => answer[a] # "none"
    /\ "db" \in where[a] => "kvs" \notin where[a]

\* Steps of a block have one, a process that checks has just started, and one
\* that does not run does nothing.
Starting ==
  \A p \in Process :
    /\ step[p] \in {"started", "finished", "remove"} => block[p] # {}
    /\ step[p] \in {"check", "kvs", "db"} => \A j \in jobs : j.proc # p
    /\ step[p] # "idle" => p \in up

\* What a check has not found in one store is not in the next one later.
Looked ==
  ~ foreign =>
    \A p \in Process : ~ found[p] =>
      /\ step[p] = "kvs" => \A a \in Request : "http" \notin where[a]
      /\ step[p] = "db" => \A a \in Request : where[a] \cap {"http", "kvs"} = {}

\* All instances of the record, on disk and in memory.
Known ==
  row \cup (UNION {cur[p] : p \in Process}) \cup (UNION {j.inst : j \in jobs})
      \cup (UNION {UNION {j.inst : j \in block[p]} : p \in Process})

\* An instance with the revision of the row is the row; others are older.
Latest == \A d \in Known, r \in row : d.rev < r.rev \/ d = r

\* There is one job, or one request whose result is not handled, or one block
\* that finishes the upload.
Finishing == {p \in Process : step[p] = "finished"}
Alone ==
  /\ Single(jobs) /\ Single(Outstanding) /\ Single(Finishing)
  /\ jobs # {} => Outstanding = {} /\ Finishing = {}
  /\ Outstanding # {} => Finishing = {}

\* As long as there is one, the record is parked in Processing.
UnderWay == jobs # {} \/ Outstanding # {} \/ Finishing # {}
Parked == UnderWay => \A r \in row : r.state = "processing" /\ r.wait = "none"

Undisturbed == Latest /\ Alone /\ Parked
OneAttempt == ~ foreign /\ ~ overwritten => Undisturbed

\* Until a termination the process that submitted the record does all the work,
\* with the row as its instance.
OriginWorks ==
  /\ Origin \in up /\ ~ overwritten
  /\ \A j \in jobs : j.proc = Origin
  /\ \A p \in Process \ {Origin} : block[p] = {}
  /\ row # {} /\ (jobs # {} \/ block[Origin] # {}) =>
       /\ cur[Origin] = row
       /\ \A j \in jobs \cup block[Origin] : j.inst = {}

\* A parked record is not at rest.
NotAtRest ==
  /\ step[Origin] = "started" => Outstanding # {}
  /\ \A r \in row : r.state = "processing" /\ r.wait = "none" =>
       UnderWay \/ cancelled[Origin]

\* What is under way for a file the server has is its completion.
Completing ==
  uploaded =>
    /\ \A j \in jobs : j.kind = "verify"
    /\ \A a \in Outstanding : answer[a] = "ok"
    /\ UnderWay \/ \A r \in row : r.state = "completed" /\ r.wait = "none"

Calm == OriginWorks /\ NotAtRest /\ Completing
OneUpload == crashes = 0 /\ ~ foreign => Calm

Attempts == Stores /\ Starting /\ Looked /\ OneAttempt /\ OneUpload

-----------------------------------------------------------------------------
(* Types *)

LEMMA SingleCounted ==
  ASSUME NEW S, Single(S)
  PROVE  Cardinality(S) <= 1
<1>1. CASE S = {}
  <2>1. Cardinality(S) = 0
    BY <1>1, FS_EmptySet, Zenon
  <2> QED BY <2>1, SMT
<1>2. CASE S # {}
  <2>1. PICK x \in S : TRUE
    BY <1>2, Zenon
  <2>2. S = {x}
    BY <2>1, Zenon DEF Single
  <2>3. Cardinality({x}) = 1
    BY FS_Singleton, Zenon
  <2> QED BY <2>2, <2>3, SMT
<1> QED BY <1>1, <1>2, Zenon

LEMMA Typed ==
  ASSUME Inductive
  PROVE  TypeOK
<1>1. Cardinality(row) <= 1 /\ \A p \in Process : Cardinality(cur[p]) <= 1
  BY SingleCounted, Zenon DEF Inductive, Work, Instances
<1>2. \A p \in Process : cur[p] \subseteq Data
  BY SMT DEF Inductive, Work, Instances
<1>3. ASSUME NEW p \in Process, NEW j \in jobs \cup block[p]
      PROVE  /\ j.proc \in up /\ j.kind \in {"hash", "verify"}
             /\ j.inst \subseteq Data /\ Cardinality(j.inst) <= 1
             /\ j.inst = {} => cur[j.proc] # {}
  <2>1. Fits(j)
    BY <1>3, Zenon DEF Inductive, Work, Jobs
  <2>2. Cardinality(j.inst) <= 1
    BY <2>1, SingleCounted, Zenon DEF Fits
  <2> QED BY <2>1, <2>2, SMT DEF Fits, Job
<1> QED
  BY <1>1, <1>2, <1>3, Zenon
  DEF TypeOK, Inductive, Work, Instances, Requests, Processes, Bounds

LEMMA TheIn ==
  ASSUME NEW S, S # {}
  PROVE  The(S) \in S
BY Zenon DEF The

\* The loaded instance is that of the cache or that of the row.
LEMMA LoadedIsKept ==
  ASSUME Work, NEW p \in Process, row # {}
  PROVE  /\ Loaded(p) \in Data
         /\ ~ Spare => ~ Loaded(p).copied
<1>1. CASE CacheValid(p)
  <2>1. cur[p] # {}
    BY <1>1, Zenon DEF CacheValid
  <2>2. Loaded(p) \in cur[p]
    BY <1>1, <2>1, TheIn, Zenon DEF Loaded
  <2> QED BY <2>2, SMT DEF Work, Instances, CopiesBacked
<1>2. CASE ~ CacheValid(p)
  <2>1. Loaded(p) \in row
    BY <1>2, TheIn, Zenon DEF Loaded
  <2> QED BY <2>1, SMT DEF Work, Instances, CopiesBacked
<1> QED BY <1>1, <1>2, Zenon

\* So is the instance of a job.
LEMMA JobsInstanceIsKept ==
  ASSUME Work, NEW j, j \in jobs \/ \E p \in Process : j \in block[p],
         up \subseteq Process
  PROVE  /\ InstanceOf(j) \in Data
         /\ row # {} /\ ~ Spare => ~ InstanceOf(j).copied
<1>1. Fits(j) /\ j.proc \in Process
  BY Zenon DEF Work, Jobs, Fits
<1>2. CASE j.inst = {}
  <2>1. InstanceOf(j) \in cur[j.proc]
    BY <1>1, <1>2, TheIn, Zenon DEF InstanceOf, Fits
  <2> QED BY <1>1, <2>1, SMT DEF Work, Instances, CopiesBacked
<1>3. CASE j.inst # {}
  <2>1. InstanceOf(j) \in j.inst
    BY <1>3, TheIn, Zenon DEF InstanceOf
  <2>2. j.inst \subseteq Data
    BY <1>1, SMT DEF Fits, Job
  <2>3. row # {} /\ ~ Spare => \A d \in j.inst : ~ d.copied
    BY Zenon DEF Work, CopiesBacked
  <2> QED BY <2>1, <2>2, <2>3, SMT
<1> QED BY <1>2, <1>3, Zenon

LEMMA NextRevision ==
  ASSUME NEW d \in Data
  PROVE  Next1(d) \in Data /\ Next1(d).copied = d.copied
BY SMT DEF Next1, Data

\* What the engine, the action and its jobs write into an instance.
LEMMA Edits ==
  ASSUME NEW d \in Data
  PROVE  /\ d.copied \in BOOLEAN
         /\ [d EXCEPT !.state = "processing", !.copied = TRUE] \in Data
         /\ [d EXCEPT !.state = "processing", !.copied = TRUE, !.wait = "retry"] \in Data
         /\ [d EXCEPT !.state = "processing", !.wait = "cancel"] \in Data
         /\ [d EXCEPT !.state = "processing", !.wait = "cancel"].copied = d.copied
         /\ [d EXCEPT !.state = "processing", !.wait = "retry"] \in Data
         /\ [d EXCEPT !.state = "processing", !.wait = "retry"].copied = d.copied
         /\ [d EXCEPT !.state = "ready", !.wait = "none"] \in Data
         /\ [d EXCEPT !.state = "ready", !.wait = "none"].copied = d.copied
         /\ [d EXCEPT !.wait = "none", !.sum = TRUE] \in Data
         /\ [d EXCEPT !.wait = "none", !.sum = TRUE].copied = d.copied
         /\ [d EXCEPT !.wait = "cancel"] \in Data
         /\ [d EXCEPT !.wait = "cancel"].copied = d.copied
         /\ [d EXCEPT !.state = "completed", !.wait = "none"] \in Data
         /\ [d EXCEPT !.state = "completed", !.wait = "none"].copied = d.copied
         /\ [d EXCEPT !.state = "ready"] \in Data
         /\ [d EXCEPT !.state = "ready"].copied = d.copied
<1>1. /\ d.copied \in BOOLEAN
      /\ [d EXCEPT !.state = "processing", !.copied = TRUE] \in Data
  BY Zenon DEF Data
<1>2. [d EXCEPT !.state = "processing", !.copied = TRUE, !.wait = "retry"] \in Data
  BY Zenon DEF Data
<1>3. /\ [d EXCEPT !.state = "processing", !.wait = "cancel"] \in Data
      /\ [d EXCEPT !.state = "processing", !.wait = "cancel"].copied = d.copied
  BY Zenon DEF Data
<1>4. /\ [d EXCEPT !.state = "processing", !.wait = "retry"] \in Data
      /\ [d EXCEPT !.state = "processing", !.wait = "retry"].copied = d.copied
  BY Zenon DEF Data
<1>5. /\ [d EXCEPT !.state = "ready", !.wait = "none"] \in Data
      /\ [d EXCEPT !.state = "ready", !.wait = "none"].copied = d.copied
  BY Zenon DEF Data
<1>6. /\ [d EXCEPT !.wait = "none", !.sum = TRUE] \in Data
      /\ [d EXCEPT !.wait = "none", !.sum = TRUE].copied = d.copied
  BY Zenon DEF Data
<1>7. /\ [d EXCEPT !.wait = "cancel"] \in Data
      /\ [d EXCEPT !.wait = "cancel"].copied = d.copied
  BY Zenon DEF Data
<1>8. /\ [d EXCEPT !.state = "completed", !.wait = "none"] \in Data
      /\ [d EXCEPT !.state = "completed", !.wait = "none"].copied = d.copied
  BY Zenon DEF Data
<1>9. /\ [d EXCEPT !.state = "ready"] \in Data
      /\ [d EXCEPT !.state = "ready"].copied = d.copied
  BY Zenon DEF Data
<1> QED BY <1>1, <1>2, <1>3, <1>4, <1>5, <1>6, <1>7, <1>8, <1>9, Zenon

\* Jobs that keep the instance which leaves the cache.
LEMMA DetachedFit ==
  ASSUME Work, NEW p \in Process, NEW k \in Detached(p)
  PROVE  /\ \E j \in jobs : /\ k.proc = j.proc /\ k.kind = j.kind
                            /\ k.inst = j.inst \/ k.inst = cur[p]
         /\ Fits(k) /\ k.proc = p => k.inst # {}
         /\ Fits(k)
<1>1. PICK j \in jobs : k = IF j.proc = p /\ j.inst = {}
                            THEN [j EXCEPT !.inst = cur[p]] ELSE j
  BY Zenon DEF Detached
<1>2. Fits(j)
  BY Zenon DEF Work, Jobs
<1>3. CASE j.proc = p /\ j.inst = {}
  <2>1. k = [j EXCEPT !.inst = cur[p]]
    BY <1>1, <1>3, Zenon
  <2>2. cur[p] # {} /\ cur[p] \subseteq Data /\ Single(cur[p])
    BY <1>2, <1>3, SMT DEF Fits, Work, Instances
  <2>3. k.proc = j.proc /\ k.kind = j.kind /\ k.inst = cur[p] /\ k \in Job
    BY <1>2, <2>1, <2>2, SMT DEF Fits, Job
  <2> QED BY <1>2, <2>2, <2>3, Zenon DEF Fits
<1>4. CASE ~ (j.proc = p /\ j.inst = {})
  <2>1. k = j
    BY <1>1, <1>4, Zenon
  <2> QED BY <1>2, <1>4, <2>1, Zenon
<1> QED BY <1>3, <1>4, Zenon

LEMMA LoadedJobsFit ==
  ASSUME Work, NEW p \in Process, NEW k \in JobsAfterLoad(p)
  PROVE  /\ \E j \in jobs : /\ k.proc = j.proc /\ k.kind = j.kind
                            /\ k.inst = j.inst \/ k.inst = cur[p]
         /\ Fits(k)
<1>1. CASE CacheValid(p)
  BY <1>1, Zenon DEF JobsAfterLoad, Work, Jobs
<1>2. CASE ~ CacheValid(p)
  BY <1>2, DetachedFit, Zenon DEF JobsAfterLoad
<1> QED BY <1>1, <1>2, Zenon

-----------------------------------------------------------------------------
(* What changes instances *)

\* A pass gives the record an instance of its process and may add jobs for it.
LEMMA Updating ==
  ASSUME Work, up \subseteq Process, NEW p \in Process, row # {},
         NEW d \in Data, NEW N, N # {} => p \in up,
         \A j \in N : j \in Job /\ j.proc = p /\ j.inst = {},
         row' = row \/ row' = {d},
         cur' = [cur EXCEPT ![p] = {d}],
         jobs' = JobsAfterLoad(p) \cup N,
         copy' \in BOOLEAN, up' = up, block' = block,
         Spare => Spare',
         d.copied => Spare'
  PROVE  Work'
<1>1. Instances'
  BY SMT DEF Instances, Work, Single
<1>2. ASSUME NEW j, Fits(j)
      PROVE  Fits(j)'
  <2>1. \A q \in Process : cur[q] # {} => cur'[q] # {}
    BY SMT DEF Work, Instances
  <2> QED BY <1>2, <2>1, Zenon DEF Fits, Single
<1>3. ASSUME NEW j \in N
      PROVE  Fits(j)'
  <2>1. cur'[p] = {d}
    BY SMT DEF Work, Instances
  <2>2. p \in up
    BY <1>3, Zenon
  <2>3. j \in Job /\ j.proc = p /\ j.inst = {}
    BY <1>3, Zenon
  <2>4. cur'[p] # {} /\ j.proc \in up'
    BY <2>1, <2>2, <2>3, Zenon
  <2> QED BY <2>3, <2>4, Zenon DEF Fits, Single
<1>4. Jobs'
  BY <1>2, <1>3, LoadedJobsFit, Zenon DEF Work, Jobs
<1>5. ASSUME ~ Spare'
      PROVE  /\ \A e \in row' : ~ e.copied
             /\ \A q \in Process : \A e \in cur'[q] : ~ e.copied
             /\ \A j \in jobs' : \A e \in j.inst : ~ e.copied
             /\ \A q \in Process : \A j \in block'[q] : \A e \in j.inst : ~ e.copied
  <2>1. ~ Spare /\ ~ d.copied
    BY <1>5, Zenon
  <2>2. \A q \in Process : \A e \in cur[q] : ~ e.copied
    BY <2>1, Zenon DEF Work, CopiesBacked
  <2>3. \A e \in row' : ~ e.copied
    BY <2>1, Zenon DEF Work, CopiesBacked
  <2>4. \A q \in Process : \A e \in cur'[q] : ~ e.copied
    BY <2>1, <2>2, SMT DEF Work, Instances
  <2>5. \A j \in jobs' : \A e \in j.inst : ~ e.copied
    <3>1. ASSUME NEW j \in JobsAfterLoad(p)
          PROVE  \A e \in j.inst : ~ e.copied
      BY <2>1, <2>2, LoadedJobsFit, Zenon DEF Work, CopiesBacked
    <3> QED BY <3>1, Zenon
  <2>6. \A q \in Process : \A j \in block'[q] : \A e \in j.inst : ~ e.copied
    BY <2>1, Zenon DEF Work, CopiesBacked
  <2> QED BY <2>3, <2>4, <2>5, <2>6, Zenon
<1>6. CopiesBacked'
  BY <1>5, Zenon DEF CopiesBacked
<1> QED BY <1>1, <1>4, <1>6, Zenon DEF Work

LEMMA UpdatingOnly ==
  ASSUME Work, up \subseteq Process, NEW p \in Process, row # {},
         NEW d \in Data, Store(p, d), jobs' = JobsAfterLoad(p),
         copy' \in BOOLEAN, up' = up, block' = block,
         Spare => Spare',
         d.copied => Spare'
  PROVE  Work'
<1> DEFINE N == {}
<1>1. /\ \A j \in N : j \in Job /\ j.proc = p /\ j.inst = {}
      /\ N # {} => p \in up
      /\ jobs' = JobsAfterLoad(p) \cup N
  BY Zenon
<1>2. Next1(d) \in Data /\ (Next1(d).copied => Spare')
  BY NextRevision, Zenon
<1>3. row' = {Next1(d)} /\ cur' = [cur EXCEPT ![p] = {Next1(d)}]
  BY Zenon DEF Store
<1> HIDE DEF N
<1> QED BY <1>1, <1>2, <1>3, Updating, Zenon

\* A job's block may store its instance, and jobs and blocks may end or change
\* places.
LEMMA JobStoring ==
  ASSUME Work, up \subseteq Process,
         NEW p \in up, NEW j, j.proc = p, Fits(j),
         NEW d \in Data,
         StoreInstance(j, d),
         jobs' \subseteq jobs, copy' \in BOOLEAN, up' = up,
         block' \in [Process -> SUBSET Job],
         \A q \in Process : block'[q] \subseteq block[q],
         Spare => Spare',
         row # {} /\ d.copied => Spare'
  PROVE  Work'
<1> DEFINE e == Next1(d)
<1>1. e \in Data /\ e.copied = d.copied
  BY NextRevision, Zenon
<1>2. /\ row' = IF row = {} THEN {} ELSE {e}
      /\ cur' = IF j.inst = {} THEN [cur EXCEPT ![p] = {e}] ELSE cur
  BY Zenon DEF StoreInstance
<1> HIDE DEF e
<1>3. Instances'
  BY <1>1, <1>2, SMT DEF Instances, Work, Single
<1>4. \A q \in Process : cur[q] # {} => cur'[q] # {}
  BY <1>2, SMT DEF Work, Instances
<1>5. ASSUME NEW k, Fits(k)
      PROVE  Fits(k)'
  BY <1>4, <1>5, Zenon DEF Fits, Single
<1>6. Jobs'
  BY <1>5, Zenon DEF Work, Jobs
<1>7. ASSUME row' # {}, ~ Spare'
      PROVE  /\ \A x \in row' : ~ x.copied
             /\ \A q \in Process : \A x \in cur'[q] : ~ x.copied
             /\ \A k \in jobs' : \A x \in k.inst : ~ x.copied
             /\ \A q \in Process : \A k \in block'[q] : \A x \in k.inst : ~ x.copied
  <2>1. ~ Spare /\ row # {} /\ ~ e.copied
    BY <1>1, <1>2, <1>7, Zenon
  <2>2. \A x \in row' : ~ x.copied
    BY <1>2, <2>1, Zenon
  <2>3. \A q \in Process : \A x \in cur[q] : ~ x.copied
    BY <2>1, Zenon DEF Work, CopiesBacked
  <2>4. \A q \in Process : \A x \in cur'[q] : ~ x.copied
    BY <1>2, <2>1, <2>3, SMT DEF Work, Instances
  <2>5. /\ \A k \in jobs' : \A x \in k.inst : ~ x.copied
        /\ \A q \in Process : \A k \in block'[q] : \A x \in k.inst : ~ x.copied
    BY <2>1, Zenon DEF Work, CopiesBacked
  <2> QED BY <2>2, <2>4, <2>5, Zenon
<1>8. CopiesBacked'
  BY <1>7, Zenon DEF CopiesBacked
<1> QED BY <1>3, <1>6, <1>8, Zenon DEF Work

\* The record is removed; blocks of the process end.
LEMMA Removing ==
  ASSUME Work, up \subseteq Process, NEW p \in up, NEW c, Remove(p, c),
         copy' \in BOOLEAN, up' = up,
         block' = [block EXCEPT ![p] = {}]
  PROVE  Work'
<1>1. row' = {} /\ cur' = [cur EXCEPT ![p] = {}]
  BY Zenon DEF Remove
<1>2. Instances'
  BY <1>1, SMT DEF Instances, Work, Single
<1>3. ASSUME NEW j, Fits(j), j.proc = p => j.inst # {}
      PROVE  Fits(j)'
  <2>1. \A q \in Process : q # p => cur'[q] = cur[q]
    BY <1>1, SMT DEF Work, Instances
  <2> QED BY <1>3, <2>1, Zenon DEF Fits, Single
<1>4. ASSUME NEW j \in jobs'
      PROVE  Fits(j)'
  <2>1. CASE c
    <3>1. j \in jobs /\ ~ (j.proc = p /\ j.inst = {})
      BY <1>4, <2>1, Zenon DEF Remove
    <3> QED BY <1>3, <3>1, Zenon DEF Work, Jobs
  <2>2. CASE ~ c
    <3>1. j \in Detached(p)
      BY <1>4, <2>2, Zenon DEF Remove
    <3> QED BY <1>3, <3>1, DetachedFit, Zenon
  <2> QED BY <2>1, <2>2, Zenon
<1>5. /\ block' \in [Process -> SUBSET Job]
      /\ \A q \in Process : block'[q] = IF q = p THEN {} ELSE block[q]
  BY SMT DEF Work, Jobs
<1>6. ASSUME NEW q \in Process, NEW j \in block'[q]
      PROVE  Fits(j)' /\ j.proc = q
  <2>1. q # p /\ j \in block[q]
    BY <1>5, <1>6, Zenon
  <2> QED BY <1>3, <2>1, Zenon DEF Work, Jobs
<1>7. Jobs'
  BY <1>4, <1>5, <1>6, Zenon DEF Jobs
<1>8. CopiesBacked'
  BY <1>1, Zenon DEF CopiesBacked
<1> QED BY <1>2, <1>7, <1>8, Zenon DEF Work

\* Instances stay as they are; jobs may end, or become the block of their
\* process.
LEMMA Keeping ==
  ASSUME Work, up \subseteq Process, row' = row, cur' = cur, up \subseteq up',
         jobs' \subseteq jobs, copy' \in BOOLEAN,
         block' \in [Process -> SUBSET Job],
         \A q \in Process : \A j \in block'[q] :
            j \in block[q] \/ (j \in jobs /\ j.proc = q),
         Spare => Spare'
  PROVE  Work'
<1>1. Instances'
  BY Zenon DEF Instances, Work, Single
<1>2. \A j : Fits(j) => Fits(j)'
  BY Zenon DEF Fits, Single
<1>3. Jobs'
  BY <1>2, Zenon DEF Work, Jobs
<1>4. CopiesBacked'
  BY Zenon DEF Work, CopiesBacked
<1> QED BY <1>1, <1>3, <1>4, Zenon DEF Work

-----------------------------------------------------------------------------
(* The pass *)

LEMMA VisitFacts ==
  ASSUME Inductive, NEW p \in Process, Visit(p)
  PROVE  /\ Work /\ p \in up /\ up \subseteq Process /\ row # {}
         /\ block[p] = {} /\ block = [block EXCEPT ![p] = {}]
         /\ Loaded(p) \in Data /\ (~ Spare => ~ Loaded(p).copied)
         /\ copy \in BOOLEAN
<1>1. Work /\ p \in up /\ up \subseteq Process /\ row # {} /\ step[p] = "idle"
  BY Zenon DEF Inductive, Processes, Visit
<1>2. block[p] = {}
  BY <1>1, Zenon DEF Inductive, Blocks
<1>3. block = [block EXCEPT ![p] = {}]
  BY <1>2, SMT DEF Inductive, Work, Jobs
<1> QED BY <1>1, <1>2, <1>3, LoadedIsKept, Zenon DEF Work, Instances

\* What neither answers requests nor adds jobs to verify leaves them justified.
LEMMA JustifiedStays ==
  ASSUME Inductive, uploaded => uploaded', givenUp => givenUp',
         \A j \in jobs' : j.kind = "verify" => \E k \in jobs : k.kind = "verify",
         \A a \in Request : answer'[a] = "ok" => answer[a] = "ok",
         \A p \in Process : cancelled'[p] => cancelled[p]
  PROVE  Justified'
BY Zenon DEF Inductive, Justified

LEMMA LoadedKinds ==
  ASSUME Inductive, NEW p \in Process, NEW k \in JobsAfterLoad(p), k.kind = "verify"
  PROVE  \E j \in jobs : j.kind = "verify"
BY LoadedJobsFit, Zenon DEF Inductive

LEMMA RemovedKinds ==
  ASSUME Inductive, NEW p \in Process, NEW c, Remove(p, c),
         NEW k \in jobs', k.kind = "verify"
  PROVE  \E j \in jobs : j.kind = "verify"
<1>1. k \in jobs \/ k \in Detached(p)
  BY Zenon DEF Remove
<1> QED BY <1>1, DetachedFit, Zenon DEF Inductive

LEMMA ScheduleKeeps ==
  ASSUME Inductive, NEW p \in Process, Schedule(p)
  PROVE  Inductive'
<1> DEFINE d == [Loaded(p) EXCEPT !.state = "processing", !.copied = TRUE]
           N == {[proc |-> p, kind |-> "hash", inst |-> {}]}
<1>1. Visit(p)
  BY Zenon DEF Schedule
<1>2. /\ Work /\ p \in up /\ up \subseteq Process /\ row # {}
      /\ Loaded(p) \in Data /\ (~ Spare => ~ Loaded(p).copied) /\ copy \in BOOLEAN
  BY <1>1, VisitFacts, Zenon
<1>3. d \in Data /\ Next1(d) \in Data
  <2>1. d \in Data
    BY <1>2, Edits, Zenon
  <2> QED BY <2>1, NextRevision, Zenon
<1>4. \A j \in N : j \in Job /\ j.proc = p /\ j.inst = {} /\ j.kind # "verify"
  BY <1>2, SMT DEF Job
<1>5. row' = {Next1(d)} /\ cur' = [cur EXCEPT ![p] = {Next1(d)}]
  BY Zenon DEF Schedule, Store
<1>6. /\ copy' = (copy \/ ~ Loaded(p).copied) /\ jobs' = JobsAfterLoad(p) \cup N
      /\ UNCHANGED <<where, answer, up, step, block, found, cancelled, uploaded,
                     givenUp, failures, crashes>>
  BY Zenon DEF Schedule, history
<1>7. copy' \in BOOLEAN /\ Spare'
  <2>1. Spare'
    BY <1>2, <1>6, Zenon DEF Spare
  <2>2. (copy \/ ~ Loaded(p).copied) \in BOOLEAN
    BY <1>2, Zenon
  <2> QED BY <1>6, <2>1, <2>2, Zenon
<1> HIDE DEF d, N
<1>8. Work'
  BY <1>2, <1>3, <1>4, <1>5, <1>6, <1>7, Updating, Zenon
<1>9. Justified'
  BY <1>2, <1>4, <1>6, LoadedKinds, JustifiedStays, Zenon
<1> QED BY <1>6, <1>8, <1>9, Zenon
        DEF Inductive, Requests, Processes, Blocks, Bounds

LEMMA ScheduleFailsKeeps ==
  ASSUME Inductive, NEW p \in Process, ScheduleFails(p)
  PROVE  Inductive'
<1>1. Visit(p)
  BY Zenon DEF ScheduleFails
<1>2. /\ Work /\ p \in up /\ up \subseteq Process /\ row # {}
      /\ Loaded(p) \in Data /\ (~ Spare => ~ Loaded(p).copied) /\ copy \in BOOLEAN
  BY <1>1, VisitFacts, Zenon
<1>3. /\ jobs' = JobsAfterLoad(p)
      /\ failures' = failures + 1 /\ failures < MaxFailures
      /\ UNCHANGED <<where, answer, up, step, block, found, cancelled, uploaded,
                     givenUp, crashes>>
  BY Zenon DEF ScheduleFails
<1>4. PICK d \in Data :
         /\ Store(p, d) /\ copy' \in BOOLEAN
         /\ Spare => Spare'
         /\ d.copied => Spare'
  <2>1. CASE /\ ~ Loaded(p).copied
             /\ Store(p, [Loaded(p) EXCEPT !.state = "processing", !.wait = "cancel"])
             /\ UNCHANGED copy
    <3> DEFINE d == [Loaded(p) EXCEPT !.state = "processing", !.wait = "cancel"]
    <3>1. d \in Data /\ d.copied = Loaded(p).copied
      BY <1>2, Edits, Zenon
    <3>2. Store(p, d)
      BY <2>1, Zenon
    <3> HIDE DEF d
    <3>3. Spare => Spare'
      BY <1>3, <2>1, Zenon DEF Spare
    <3> QED BY <1>2, <2>1, <3>1, <3>2, <3>3, Zenon
  <2>2. CASE /\ copy' = (copy \/ ~ Loaded(p).copied)
             /\ Store(p, [Loaded(p) EXCEPT !.state = "processing", !.copied = TRUE,
                                           !.wait = "retry"])
    <3> DEFINE d == [Loaded(p) EXCEPT !.state = "processing", !.copied = TRUE,
                                      !.wait = "retry"]
    <3>1. d \in Data /\ (copy \/ ~ Loaded(p).copied) \in BOOLEAN
      <4>1. d \in Data
        BY <1>2, Edits, Zenon
      <4> QED BY <1>2, <4>1, Zenon
    <3>2. Store(p, d)
      BY <2>2, Zenon
    <3> HIDE DEF d
    <3>3. Spare'
      BY <1>2, <1>3, <2>2, Zenon DEF Spare
    <3> QED BY <2>2, <3>1, <3>2, <3>3, Zenon
  <2> QED BY <2>1, <2>2, Zenon DEF ScheduleFails
<1>5. Work'
  BY <1>2, <1>3, <1>4, UpdatingOnly, Zenon
<1>6. Justified'
  BY <1>3, LoadedKinds, JustifiedStays, Zenon
<1>7. Bounds'
  BY <1>3, UploadAssumption, SMT DEF Inductive, Bounds
<1> QED BY <1>3, <1>5, <1>6, <1>7, Zenon
        DEF Inductive, Requests, Processes, Blocks

\* A record whose events are handled is removed, or its instance loaded or
\* updated.
LEMMA HandleEventsKeeps ==
  ASSUME Inductive, NEW p \in Process, HandleEvents(p)
  PROVE  Inductive'
<1> DEFINE is(o) == \E a \in Events : answer[a] = o
           d == Loaded(p)
           N == IF is("ok") THEN {[proc |-> p, kind |-> "verify", inst |-> {}]} ELSE {}
<1>1. Visit(p)
  BY Zenon DEF HandleEvents
<1>2. /\ Work /\ p \in up /\ up \subseteq Process /\ row # {}
      /\ block = [block EXCEPT ![p] = {}]
      /\ d \in Data /\ (~ Spare => ~ d.copied) /\ copy \in BOOLEAN
  BY <1>1, VisitFacts, Zenon
<1>3. UNCHANGED <<up, step, block, found, cancelled, uploaded, givenUp, failures,
                  crashes>>
  BY Zenon DEF HandleEvents, history
<1>4. /\ where' = [a \in Request |-> where[a] \ {"db"}]
      /\ answer' = [a \in Request |-> IF a \notin Events THEN answer[a]
                                      ELSE IF where[a] = {"db"} THEN "none"
                                      ELSE "handled"]
  BY Zenon DEF HandleEvents
<1>5. Requests'
  BY <1>4, SMT DEF Inductive, Requests
<1>6. \A a \in Request : answer'[a] = "ok" => answer[a] = "ok"
  BY <1>4, SMT
<1>7. is("ok") => uploaded
  BY Zenon DEF Inductive, Justified, Events
<1>8. \/ is("cancelled") /\ Deschedule(p)
      \/ /\ ~ is("cancelled")
         /\ copy' = CopyAfter(is("ok"), d.sum)
         /\ IF is("ok") /\ ~ d.sum THEN Remove(p, CacheValid(p))
            ELSE /\ jobs' = JobsAfterLoad(p) \cup N
                 /\ IF is("failed")
                    THEN Store(p, [d EXCEPT !.state = "processing", !.wait = "retry"])
                    ELSE cur' = [cur EXCEPT ![p] = {d}] /\ UNCHANGED row
  BY Zenon DEF HandleEvents
<1>9. \A j \in N : j \in Job /\ j.proc = p /\ j.inst = {} /\ (j.kind = "verify" => is("ok"))
  BY <1>2, SMT DEF Job
<1>10. CASE (\E c : Remove(p, c)) /\ copy' \in BOOLEAN
  <2>1. Work'
    BY <1>2, <1>3, <1>10, Removing, Zenon
  <2>2. Justified'
    BY <1>3, <1>6, <1>10, RemovedKinds, JustifiedStays, Zenon
  <2> QED BY <1>3, <1>5, <2>1, <2>2, Zenon DEF Inductive, Processes, Blocks, Bounds
<1>11. CASE /\ copy' = copy /\ jobs' = JobsAfterLoad(p) \cup N
            /\ IF is("failed")
               THEN Store(p, [d EXCEPT !.state = "processing", !.wait = "retry"])
               ELSE cur' = [cur EXCEPT ![p] = {d}] /\ UNCHANGED row
  <2> DEFINE r == [d EXCEPT !.state = "processing", !.wait = "retry"]
  <2>1. r \in Data /\ r.copied = d.copied
    BY <1>2, Edits, Zenon
  <2>2. Next1(r) \in Data /\ Next1(r).copied = d.copied
    BY <2>1, NextRevision, Zenon
  <2>3. Spare' <=> Spare
    BY <1>3, <1>11, Zenon DEF Spare
  <2> HIDE DEF r, N, d, is
  <2>4. Work'
    <3>1. CASE is("failed")
      <4>1. row' = {Next1(r)} /\ cur' = [cur EXCEPT ![p] = {Next1(r)}]
        BY <1>11, <3>1, Zenon DEF Store, r
      <4>2. Next1(r).copied => Spare'
        BY <1>2, <2>2, <2>3, Zenon
      <4> QED BY <1>2, <1>3, <1>9, <1>11, <2>2, <2>3, <4>1, <4>2, Updating, Zenon
    <3>2. CASE ~ is("failed")
      BY <1>2, <1>3, <1>9, <1>11, <2>3, <3>2, Updating, Zenon
    <3> QED BY <3>1, <3>2, Zenon
  <2>5. \A j \in jobs' : j.kind = "verify" => uploaded
    <3>1. \A j \in N : j.kind = "verify" => uploaded
      BY <1>7, <1>9, Zenon
    <3>2. \A j \in JobsAfterLoad(p) : j.kind = "verify" => uploaded
      BY LoadedKinds, Zenon DEF Inductive, Justified
    <3> QED BY <1>11, <3>1, <3>2, Zenon
  <2>6. Justified'
    BY <1>3, <1>6, <2>5, Zenon DEF Inductive, Justified
  <2> QED BY <1>3, <1>5, <2>4, <2>6, Zenon DEF Inductive, Processes, Blocks, Bounds
<1>12. CASE is("cancelled") /\ Deschedule(p)
  <2>1. Remove(p, CacheValid(p)) /\ copy' = FALSE
    BY <1>12, Zenon DEF Deschedule
  <2> QED BY <1>10, <2>1, Zenon
<1>13. CASE /\ copy' = CopyAfter(is("ok"), d.sum)
            /\ is("ok") /\ ~ d.sum /\ Remove(p, CacheValid(p))
  <2>1. copy' \in BOOLEAN
    BY <1>2, <1>13, SMT DEF CopyAfter
  <2> QED BY <1>10, <1>13, <2>1, Zenon
<1>14. ~ (is("ok") /\ ~ d.sum) => (CopyAfter(is("ok"), d.sum) <=> copy)
  BY Zenon DEF CopyAfter
<1>15. CopyAfter(is("ok"), d.sum) \in BOOLEAN
  BY <1>2, SMT DEF CopyAfter
<1> HIDE DEF N, d, is
<1>16. ~ (is("ok") /\ ~ d.sum) => CopyAfter(is("ok"), d.sum) = copy
  BY <1>2, <1>14, <1>15, SMT
<1> QED BY <1>8, <1>11, <1>12, <1>13, <1>16, Zenon

LEMMA CancelKeeps ==
  ASSUME Inductive, NEW p \in Process, Cancel(p)
  PROVE  Inductive'
<1>1. Visit(p) /\ Remove(p, CacheValid(p)) /\ copy' = FALSE
  BY Zenon DEF Cancel, Deschedule
<1>2. UNCHANGED <<where, answer, up, step, block, found, cancelled, uploaded,
                  givenUp, failures, crashes>>
  BY Zenon DEF Cancel, history
<1>3. /\ Work /\ p \in up /\ up \subseteq Process
      /\ block = [block EXCEPT ![p] = {}]
  BY <1>1, VisitFacts, Zenon
<1>4. Work'
  BY <1>1, <1>2, <1>3, Removing, Zenon
<1>5. Justified'
  BY <1>1, <1>2, RemovedKinds, JustifiedStays, Zenon
<1> QED BY <1>2, <1>4, <1>5, Zenon
        DEF Inductive, Requests, Processes, Blocks, Bounds

LEMMA ResolveKeeps ==
  ASSUME Inductive, NEW p \in Process, Resolve(p)
  PROVE  Inductive'
<1> DEFINE d == [Loaded(p) EXCEPT !.state = "ready", !.wait = "none"]
<1>1. Visit(p)
  BY Zenon DEF Resolve
<1>2. UNCHANGED <<where, answer, up, step, block, found, cancelled, uploaded,
                  failures, crashes>>
  BY Zenon DEF Resolve
<1>3. /\ Work /\ p \in up /\ up \subseteq Process /\ row # {}
      /\ block = [block EXCEPT ![p] = {}]
      /\ Loaded(p) \in Data /\ (~ Spare => ~ Loaded(p).copied) /\ copy \in BOOLEAN
  BY <1>1, VisitFacts, Zenon
<1>4. CASE Deschedule(p) /\ givenUp' = TRUE
  <2>1. Remove(p, CacheValid(p)) /\ copy' = FALSE
    BY <1>4, Zenon DEF Deschedule
  <2>2. Work'
    BY <1>2, <1>3, <2>1, Removing, Zenon
  <2>3. Justified'
    BY <1>2, <1>4, <2>1, RemovedKinds, JustifiedStays, Zenon
  <2> QED BY <1>2, <2>2, <2>3, Zenon
          DEF Inductive, Requests, Processes, Blocks, Bounds
<1>5. CASE Store(p, d) /\ jobs' = JobsAfterLoad(p) /\ UNCHANGED <<copy, givenUp>>
  <2>1. d \in Data /\ d.copied = Loaded(p).copied
    BY <1>3, Edits, Zenon
  <2> HIDE DEF d
  <2>2. copy' \in BOOLEAN /\ (Spare' <=> Spare)
    BY <1>2, <1>3, <1>5, Zenon DEF Spare
  <2>3. d.copied => Spare'
    BY <1>3, <2>1, <2>2, Zenon
  <2>4. Work'
    BY <1>2, <1>3, <1>5, <2>1, <2>2, <2>3, UpdatingOnly, Zenon
  <2>5. Justified'
    BY <1>2, <1>5, LoadedKinds, JustifiedStays, Zenon
  <2> QED BY <1>2, <2>4, <2>5, Zenon
          DEF Inductive, Requests, Processes, Blocks, Bounds
<1> QED BY <1>4, <1>5, Zenon DEF Resolve

LEMMA DeleteCompletedKeeps ==
  ASSUME Inductive, NEW p \in Process, DeleteCompleted(p)
  PROVE  Inductive'
<1>1. Visit(p) /\ Remove(p, CacheValid(p))
  BY Zenon DEF DeleteCompleted
<1>2. UNCHANGED <<copy, where, answer, up, step, block, found, cancelled, uploaded,
                  givenUp, failures, crashes>>
  BY Zenon DEF DeleteCompleted, history
<1>3. /\ Work /\ p \in up /\ up \subseteq Process /\ copy' \in BOOLEAN
      /\ block' = [block EXCEPT ![p] = {}]
  BY <1>1, <1>2, VisitFacts, Zenon
<1>4. Work'
  BY <1>1, <1>2, <1>3, Removing, Zenon
<1>5. Justified'
  BY <1>1, <1>2, RemovedKinds, JustifiedStays, Zenon
<1> QED BY <1>2, <1>4, <1>5, Zenon
        DEF Inductive, Requests, Processes, Blocks, Bounds

LEMMA PassKeeps ==
  ASSUME Inductive, NEW p \in Process, Pass(p)
  PROVE  Inductive'
BY ScheduleKeeps, ScheduleFailsKeeps, HandleEventsKeeps, CancelKeeps, ResolveKeeps,
   DeleteCompletedKeeps, Zenon DEF Pass

-----------------------------------------------------------------------------
(* Checksums and the blocks they end with *)

LEMMA JobFacts ==
  ASSUME Inductive, NEW j \in jobs
  PROVE  /\ j \in Job /\ Fits(j) /\ j.proc \in up /\ j.proc \in Process
         /\ InstanceOf(j) \in Data
         /\ row # {} /\ ~ Spare => ~ InstanceOf(j).copied
         /\ copy \in BOOLEAN /\ up \subseteq Process /\ Work
<1>1. up \subseteq Process /\ Work /\ copy \in BOOLEAN
  BY Zenon DEF Inductive, Processes, Work, Instances
<1>2. j \in Job /\ Fits(j) /\ j.proc \in up
  BY Zenon DEF Inductive, Work, Jobs, Fits
<1> QED BY <1>1, <1>2, JobsInstanceIsKept, Zenon

LEMMA BlockFacts ==
  ASSUME Inductive, NEW p \in Process, NEW j \in block[p]
  PROVE  /\ Fits(j) /\ j.proc = p /\ p \in up
         /\ InstanceOf(j) \in Data
         /\ row # {} /\ ~ Spare => ~ InstanceOf(j).copied
         /\ copy \in BOOLEAN /\ up \subseteq Process /\ Work
<1>1. up \subseteq Process /\ Work /\ copy \in BOOLEAN
  BY Zenon DEF Inductive, Processes, Work, Instances
<1>2. Fits(j) /\ j.proc = p /\ p \in up
  BY Zenon DEF Inductive, Work, Jobs, Fits
<1> QED BY <1>1, <1>2, JobsInstanceIsKept, Zenon

\* The next step of a process, with a block that is one of its jobs.
LEMMA BlockBegins ==
  ASSUME Inductive, NEW j \in jobs, NEW s \in {"started", "finished"},
         block' = [block EXCEPT ![j.proc] = {j}],
         step' = [step EXCEPT ![j.proc] = s]
  PROVE  /\ block' \in [Process -> SUBSET Job]
         /\ \A q \in Process : \A k \in block'[q] :
               k \in block[q] \/ (k \in jobs /\ k.proc = q)
         /\ Blocks'
         /\ step' \in [Process -> {"idle", "started", "finished", "remove", "check",
                                   "kvs", "db"}]
<1>1. j \in Job /\ j.proc \in Process
  BY JobFacts, Zenon
<1>2. block' \in [Process -> SUBSET Job]
  BY <1>1, SMT DEF Inductive, Work, Jobs
<1>3. \A q \in Process : block'[q] = IF q = j.proc THEN {j} ELSE block[q]
  BY <1>1, SMT DEF Inductive, Work, Jobs
<1>4. \A q \in Process : step'[q] = IF q = j.proc THEN s ELSE step[q]
  BY <1>1, SMT DEF Inductive, Processes
<1>5. step' \in [Process -> {"idle", "started", "finished", "remove", "check",
                             "kvs", "db"}]
  BY <1>1, SMT DEF Inductive, Processes
<1>6. Blocks'
  BY <1>3, <1>4, SMT DEF Inductive, Blocks
<1>7. \A q \in Process : \A k \in block'[q] :
         k \in block[q] \/ (k \in jobs /\ k.proc = q)
  <2>1. ASSUME NEW q \in Process, NEW k \in block'[q]
        PROVE  k \in block[q] \/ (k \in jobs /\ k.proc = q)
    <3>1. CASE q = j.proc
      <4>1. block'[q] = {j}
        BY <1>3, <3>1, Zenon
      <4> QED BY <2>1, <3>1, <4>1, Zenon
    <3>2. CASE q # j.proc
      BY <1>3, <2>1, <3>2, Zenon
    <3> QED BY <3>1, <3>2, Zenon
  <2> QED BY <2>1, Zenon
<1> QED BY <1>2, <1>5, <1>6, <1>7, Zenon

\* A process whose block ends is idle.
LEMMA BlockEnds ==
  ASSUME Inductive, NEW p \in Process,
         block' = [block EXCEPT ![p] = {}],
         step' = [step EXCEPT ![p] = "idle"]
  PROVE  /\ block' \in [Process -> SUBSET Job]
         /\ \A q \in Process : block'[q] \subseteq block[q]
         /\ Blocks'
         /\ step' \in [Process -> {"idle", "started", "finished", "remove", "check",
                                   "kvs", "db"}]
<1>1. block' \in [Process -> SUBSET Job]
  BY SMT DEF Inductive, Work, Jobs
<1>2. \A q \in Process : block'[q] = IF q = p THEN {} ELSE block[q]
  BY SMT DEF Inductive, Work, Jobs
<1>3. \A q \in Process : step'[q] = IF q = p THEN "idle" ELSE step[q]
  BY SMT DEF Inductive, Processes
<1>4. step' \in [Process -> {"idle", "started", "finished", "remove", "check",
                             "kvs", "db"}]
  BY SMT DEF Inductive, Processes
<1>5. Blocks'
  BY <1>2, <1>3, SMT DEF Inductive, Blocks
<1> QED BY <1>1, <1>2, <1>4, <1>5, Zenon

\* Steps that keep the answers, jobs of their kind and who cancelled.
LEMMA FewerJobs ==
  ASSUME Inductive, jobs' \subseteq jobs, UNCHANGED <<uploaded, givenUp>>,
         \A a \in Request : answer'[a] = "ok" => answer[a] = "ok",
         \A p \in Process : cancelled'[p] => cancelled[p]
  PROVE  Justified'
BY JustifiedStays, Zenon

LEMMA StartUploadKeeps ==
  ASSUME Inductive, NEW j \in jobs, StartUpload(j)
  PROVE  Inductive'
<1> DEFINE free == {a \in Request : where[a] = {}}
<1>1. /\ UNCHANGED <<row, copy, answer, up, cur, found, cancelled, uploaded, givenUp,
                     failures, crashes>>
      /\ jobs' \subseteq jobs
      /\ step' = [step EXCEPT ![j.proc] = "started"]
      /\ block' = [block EXCEPT ![j.proc] = {j}]
      /\ free # {} /\ where' = [where EXCEPT ![The(free)] = {"http"}]
  BY SMT DEF StartUpload, Begin
<1>2. /\ block' \in [Process -> SUBSET Job]
      /\ \A q \in Process : \A k \in block'[q] :
            k \in block[q] \/ (k \in jobs /\ k.proc = q)
      /\ Blocks'
      /\ step' \in [Process -> {"idle", "started", "finished", "remove", "check",
                                "kvs", "db"}]
  BY <1>1, BlockBegins, Zenon
<1>3. copy' \in BOOLEAN /\ (Spare => Spare') /\ up \subseteq up' /\ up \subseteq Process
      /\ Work
  BY <1>1, JobFacts, Zenon DEF Spare
<1>4. Work'
  BY <1>1, <1>2, <1>3, Keeping, Zenon
<1>5. Requests'
  <2>1. {"http"} \in SUBSET Place
    BY SMT DEF Place
  <2> HIDE DEF free
  <2> DEFINE a == The(free)
  <2> HIDE DEF a
  <2>2. where' = [where EXCEPT ![a] = {"http"}] /\ answer' = answer
    BY <1>1, Zenon DEF a
  <2> QED BY <2>1, <2>2, Zenon DEF Inductive, Requests
<1>6. Justified'
  BY <1>1, FewerJobs, Zenon
<1> QED BY <1>1, <1>2, <1>4, <1>5, <1>6, Zenon
        DEF Inductive, Processes, Bounds

LEMMA StartWithoutCopyKeeps ==
  ASSUME Inductive, NEW j \in jobs, StartWithoutCopy(j)
  PROVE  Inductive'
<1> DEFINE free == {a \in Request : where[a] = {}}
<1>1. /\ UNCHANGED <<row, copy, up, cur, found, cancelled, uploaded, givenUp, crashes>>
      /\ jobs' \subseteq jobs
      /\ failures < MaxFailures /\ failures' = failures + 1
      /\ step' = [step EXCEPT ![j.proc] = "started"]
      /\ block' = [block EXCEPT ![j.proc] = {j}]
      /\ free # {} /\ where' = [where EXCEPT ![The(free)] = {"kvs"}]
      /\ answer' = [answer EXCEPT ![The(free)] = "failed"]
  BY SMT DEF StartWithoutCopy, Begin
<1>2. /\ block' \in [Process -> SUBSET Job]
      /\ \A q \in Process : \A k \in block'[q] :
            k \in block[q] \/ (k \in jobs /\ k.proc = q)
      /\ Blocks'
      /\ step' \in [Process -> {"idle", "started", "finished", "remove", "check",
                                "kvs", "db"}]
  BY <1>1, BlockBegins, Zenon
<1>3. copy' \in BOOLEAN /\ (Spare => Spare') /\ up \subseteq up' /\ up \subseteq Process
      /\ Work
  BY <1>1, JobFacts, Zenon DEF Spare
<1>4. Work'
  BY <1>1, <1>2, <1>3, Keeping, Zenon
<1>5. Requests'
  <2>1. {"kvs"} \in SUBSET Place
    BY SMT DEF Place
  <2> HIDE DEF free
  <2> DEFINE a == The(free)
  <2> HIDE DEF a
  <2>2. where' = [where EXCEPT ![a] = {"kvs"}] /\ answer' = [answer EXCEPT ![a] = "failed"]
    BY <1>1, Zenon DEF a
  <2> QED BY <2>1, <2>2, Zenon DEF Inductive, Requests
<1>6. \A a \in Request : answer'[a] = "ok" => answer[a] = "ok"
  BY <1>1, SMT DEF Inductive, Requests
<1>7. Justified'
  BY <1>1, <1>6, FewerJobs, Zenon
<1>8. Bounds'
  BY <1>1, UploadAssumption, SMT DEF Inductive, Bounds
<1> QED BY <1>1, <1>2, <1>4, <1>5, <1>7, <1>8, Zenon
        DEF Inductive, Processes

LEMMA StoreStartedKeeps ==
  ASSUME Inductive, NEW p \in Process, StoreStarted(p)
  PROVE  Inductive'
<1>1. /\ UNCHANGED <<copy, where, answer, up, jobs, found, cancelled, uploaded,
                     givenUp, failures, crashes>>
      /\ step' = [step EXCEPT ![p] = "idle"]
      /\ block' = [block EXCEPT ![p] = {}]
  BY Zenon DEF StoreStarted
<1>2. PICK j \in block[p] :
         StoreInstance(j, [InstanceOf(j) EXCEPT !.wait = "none", !.sum = TRUE])
  BY Zenon DEF StoreStarted
<1> DEFINE d == [InstanceOf(j) EXCEPT !.wait = "none", !.sum = TRUE]
<1>3. /\ Fits(j) /\ j.proc = p /\ p \in up /\ copy \in BOOLEAN
      /\ up \subseteq Process /\ Work
  BY BlockFacts, Zenon
<1>4. d \in Data /\ (Spare => Spare') /\ (row # {} /\ d.copied => Spare')
  BY <1>1, BlockFacts, Edits, Zenon DEF Spare
<1>5. StoreInstance(j, d)
  BY <1>2, Zenon
<1> HIDE DEF d
<1>6. /\ block' \in [Process -> SUBSET Job]
      /\ \A q \in Process : block'[q] \subseteq block[q]
      /\ Blocks'
      /\ step' \in [Process -> {"idle", "started", "finished", "remove", "check",
                                "kvs", "db"}]
  BY <1>1, BlockEnds, Zenon
<1>7. Work'
  BY <1>1, <1>3, <1>4, <1>5, <1>6, JobStoring, Zenon
<1>8. Justified'
  BY <1>1, FewerJobs, Zenon
<1> QED BY <1>1, <1>6, <1>7, <1>8, Zenon
        DEF Inductive, Requests, Processes, Bounds

LEMMA ChecksumFailsKeeps ==
  ASSUME Inductive, NEW j \in jobs, ChecksumFails(j)
  PROVE  Inductive'
<1> DEFINE d == [InstanceOf(j) EXCEPT !.wait = "cancel"]
<1>1. /\ UNCHANGED <<copy, where, answer, up, step, block, found, cancelled, uploaded,
                     givenUp, failures, crashes>>
      /\ StoreInstance(j, d)
      /\ jobs' \subseteq jobs
  BY SMT DEF ChecksumFails, Begin
<1>2. /\ Fits(j) /\ j.proc \in up /\ copy \in BOOLEAN
      /\ up \subseteq Process /\ Work
  BY JobFacts, Zenon
<1>3. d \in Data /\ (Spare => Spare') /\ (row # {} /\ d.copied => Spare')
  BY <1>1, JobFacts, Edits, Zenon DEF Spare
<1> HIDE DEF d
<1>4. block' \in [Process -> SUBSET Job] /\ \A q \in Process : block'[q] \subseteq block[q]
  BY <1>1, Zenon DEF Inductive, Work, Jobs
<1>5. Work'
  BY <1>1, <1>2, <1>3, <1>4, JobStoring, Zenon
<1>6. Justified'
  BY <1>1, FewerJobs, Zenon
<1> QED BY <1>1, <1>5, <1>6, Zenon
        DEF Inductive, Requests, Processes, Blocks, Bounds

LEMMA SkipUploadKeeps ==
  ASSUME Inductive, NEW j \in jobs, SkipUpload(j)
  PROVE  Inductive'
<1>1. /\ UNCHANGED <<row, copy, where, answer, up, cur, step, block, found, cancelled,
                     uploaded, givenUp, failures, crashes>>
      /\ jobs' \subseteq jobs
  BY SMT DEF SkipUpload, Begin, disk, history
<1>2. copy' \in BOOLEAN /\ (Spare => Spare') /\ up \subseteq up' /\ up \subseteq Process
      /\ Work /\ block' \in [Process -> SUBSET Job]
  BY <1>1, JobFacts, Zenon DEF Spare, Work, Jobs
<1>3. \A q \in Process : \A k \in block'[q] :
         k \in block[q] \/ (k \in jobs /\ k.proc = q)
  <2>1. block' = block
    BY <1>1, Zenon
  <2> QED BY <2>1, Zenon
<1>4. Work'
  BY <1>1, <1>2, <1>3, Keeping, Zenon
<1>5. Justified'
  BY <1>1, FewerJobs, Zenon
<1> QED BY <1>1, <1>4, <1>5, Zenon
        DEF Inductive, Requests, Processes, Blocks, Bounds

\* The copy is deleted here, for an upload that succeeded.
LEMMA FinishUploadKeeps ==
  ASSUME Inductive, NEW j \in jobs, FinishUpload(j)
  PROVE  Inductive'
<1>1. /\ UNCHANGED <<row, where, answer, up, cur, found, cancelled, uploaded, givenUp,
                     failures, crashes>>
      /\ j.kind = "verify" /\ jobs' \subseteq jobs
      /\ copy' = (copy /\ ~ InstanceOf(j).copied)
      /\ step' = [step EXCEPT ![j.proc] = "finished"]
      /\ block' = [block EXCEPT ![j.proc] = {j}]
  BY SMT DEF FinishUpload, Begin, history
<1>2. /\ block' \in [Process -> SUBSET Job]
      /\ \A q \in Process : \A k \in block'[q] :
            k \in block[q] \/ (k \in jobs /\ k.proc = q)
      /\ Blocks'
      /\ step' \in [Process -> {"idle", "started", "finished", "remove", "check",
                                "kvs", "db"}]
  BY <1>1, BlockBegins, Zenon
<1>3. Spare'
  BY <1>1, Zenon DEF Inductive, Justified, Spare
<1>4. copy' \in BOOLEAN
  <2>1. InstanceOf(j).copied \in BOOLEAN /\ copy \in BOOLEAN
    BY JobFacts, Edits, Zenon
  <2> QED BY <1>1, <2>1, Zenon
<1>5. Work /\ up \subseteq Process /\ up \subseteq up'
  BY <1>1, JobFacts, Zenon
<1>6. Work'
  BY <1>1, <1>2, <1>3, <1>4, <1>5, Keeping, Zenon
<1>7. Justified'
  BY <1>1, FewerJobs, Zenon
<1> QED BY <1>1, <1>2, <1>6, <1>7, Zenon
        DEF Inductive, Requests, Processes, Bounds

LEMMA StoreCompletedKeeps ==
  ASSUME Inductive, NEW p \in Process, StoreCompleted(p)
  PROVE  Inductive'
<1>1. /\ UNCHANGED <<copy, where, answer, up, jobs, block, found, cancelled, uploaded,
                     givenUp, failures, crashes>>
      /\ step' = [step EXCEPT ![p] = "remove"]
  BY Zenon DEF StoreCompleted
<1>2. PICK j \in block[p] :
         StoreInstance(j, [InstanceOf(j) EXCEPT !.state = "completed", !.wait = "none"])
  BY Zenon DEF StoreCompleted
<1> DEFINE d == [InstanceOf(j) EXCEPT !.state = "completed", !.wait = "none"]
<1>3. /\ Fits(j) /\ j.proc = p /\ p \in up /\ copy \in BOOLEAN
      /\ up \subseteq Process /\ Work
  BY BlockFacts, Zenon
<1>4. d \in Data /\ (Spare => Spare') /\ (row # {} /\ d.copied => Spare')
  BY <1>1, BlockFacts, Edits, Zenon DEF Spare
<1>5. StoreInstance(j, d)
  BY <1>2, Zenon
<1> HIDE DEF d
<1>6. block' \in [Process -> SUBSET Job] /\ \A q \in Process : block'[q] \subseteq block[q]
  BY <1>1, <1>3, Zenon DEF Work, Jobs
<1>7. Work'
  BY <1>1, <1>3, <1>4, <1>5, <1>6, JobStoring, Zenon
<1>8. Processes'
  BY <1>1, SMT DEF Inductive, Processes
<1>9. Blocks'
  <2>1. \A q \in Process : step'[q] = IF q = p THEN "remove" ELSE step[q]
    BY <1>1, SMT DEF Inductive, Processes
  <2> QED BY <1>1, <2>1, SMT DEF Inductive, Blocks
<1>10. Justified'
  BY <1>1, FewerJobs, Zenon
<1> QED BY <1>1, <1>7, <1>8, <1>9, <1>10, Zenon
        DEF Inductive, Requests, Bounds

LEMMA RemoveCompletedKeeps ==
  ASSUME Inductive, NEW p \in Process, RemoveCompleted(p)
  PROVE  Inductive'
<1>1. /\ UNCHANGED <<copy, where, answer, up, found, cancelled, uploaded, givenUp,
                     failures, crashes>>
      /\ step' = [step EXCEPT ![p] = "idle"]
      /\ block' = [block EXCEPT ![p] = {}]
  BY Zenon DEF RemoveCompleted, history
<1>2. PICK j \in block[p] : Remove(p, j.inst = {})
  BY Zenon DEF RemoveCompleted
<1>3. p \in up /\ up \subseteq Process /\ Work /\ copy \in BOOLEAN
  BY BlockFacts, Zenon
<1>4. Work'
  BY <1>1, <1>2, <1>3, Removing, Zenon
<1>5. Blocks' /\ step' \in [Process -> {"idle", "started", "finished", "remove",
                                        "check", "kvs", "db"}]
  BY <1>1, BlockEnds, Zenon
<1>6. Justified'
  BY <1>1, <1>2, RemovedKinds, JustifiedStays, Zenon
<1> QED BY <1>1, <1>4, <1>5, <1>6, Zenon
        DEF Inductive, Requests, Processes, Bounds

-----------------------------------------------------------------------------
(* Requests and events *)

\* What leaves the journal, the jobs and the processes alone.
LEMMA WorkStays ==
  ASSUME Inductive, UNCHANGED <<row, copy, cur, jobs, up, block>>, Spare => Spare'
  PROVE  Work'
<1>1. copy' \in BOOLEAN /\ up \subseteq up' /\ up \subseteq Process /\ jobs' \subseteq jobs
  BY Zenon DEF Inductive, Work, Instances, Processes
<1>2. block' = block /\ block' \in [Process -> SUBSET Job]
  BY Zenon DEF Inductive, Work, Jobs
<1>3. \A q \in Process : \A k \in block'[q] :
         k \in block[q] \/ (k \in jobs /\ k.proc = q)
  BY <1>2, Zenon
<1> QED BY <1>1, <1>2, <1>3, Keeping, Zenon DEF Inductive

\* The end of a request; one that succeeded has uploaded the file.
LEMMA AnswerKeeps ==
  ASSUME Inductive, NEW a \in Request, Answer(a)
  PROVE  Inductive'
<1>1. UNCHANGED <<row, copy, where, up, cur, jobs, step, block, found, cancelled,
                  givenUp, crashes>>
  BY Zenon DEF Answer, memory
<1>2. PICK o \in {"ok", "failed", "cancelled"} :
         /\ o = "failed" => failures < MaxFailures
         /\ answer' = [answer EXCEPT ![a] = o]
         /\ uploaded' = (uploaded \/ o = "ok")
         /\ failures' = failures + IF o = "failed" THEN 1 ELSE 0
  BY Zenon DEF Answer
<1>3. Work'
  BY <1>1, <1>2, WorkStays, Zenon DEF Spare
<1>4. Requests'
  BY <1>1, <1>2, SMT DEF Inductive, Requests
<1>5. Bounds'
  BY <1>1, <1>2, UploadAssumption, SMT DEF Inductive, Bounds
<1>6. \A b \in Request : answer'[b] = "ok" => uploaded'
  <2>1. \A b \in Request : answer'[b] = IF b = a THEN o ELSE answer[b]
    BY <1>2, SMT DEF Inductive, Requests
  <2>2. uploaded \/ o = "ok" => uploaded'
    BY <1>2, Zenon
  <2> QED BY <2>1, <2>2, SMT DEF Inductive, Justified
<1>7. uploaded => uploaded'
  BY <1>2, Zenon
<1>8. Justified'
  BY <1>1, <1>6, <1>7, Zenon DEF Inductive, Justified
<1> QED BY <1>1, <1>3, <1>4, <1>5, <1>8, Zenon DEF Inductive, Processes, Blocks

\* Hand-overs between the stores.
LEMMA DeliveryKeeps ==
  ASSUME Inductive, NEW a \in Request,
         QueueEvent(a) \/ RemoveRequest(a) \/ Transfer(a)
  PROVE  Inductive'
<1>1. UNCHANGED <<row, copy, up, cur, jobs, step, block, found, cancelled, uploaded,
                  givenUp, failures, crashes>>
  BY Zenon DEF QueueEvent, RemoveRequest, Transfer, memory, history
<1>2. Requests' /\ \A b \in Request : answer'[b] = "ok" => answer[b] = "ok"
  <2>1. CASE QueueEvent(a)
    <3>1. {"http", "kvs"} \in SUBSET Place
      BY SMT DEF Place
    <3>2. where' = [where EXCEPT ![a] = {"http", "kvs"}] /\ answer' = answer
      BY <2>1, Zenon DEF QueueEvent
    <3> QED BY <3>1, <3>2, Zenon DEF Inductive, Requests
  <2>2. CASE RemoveRequest(a)
    <3>1. /\ where' = [where EXCEPT ![a] = @ \ {"http"}]
          /\ answer' = [answer EXCEPT ![a] = IF @ = "handled" THEN "none" ELSE @]
      BY <2>2, Zenon DEF RemoveRequest
    <3> QED BY <3>1, SMT DEF Inductive, Requests
  <2>3. CASE Transfer(a)
    <3>1. where' = [where EXCEPT ![a] = (@ \ {"kvs"}) \cup {"db"}] /\ answer' = answer
      BY <2>3, Zenon DEF Transfer
    <3>2. {"db"} \subseteq Place
      BY SMT DEF Place
    <3> QED BY <3>1, <3>2, SMT DEF Inductive, Requests
  <2> QED BY <2>1, <2>2, <2>3, Zenon
<1>3. Work'
  BY <1>1, WorkStays, Zenon DEF Spare
<1>4. Justified'
  BY <1>1, <1>2, FewerJobs, Zenon
<1> QED BY <1>1, <1>2, <1>3, <1>4, Zenon DEF Inductive, Processes, Blocks, Bounds

-----------------------------------------------------------------------------
(* Starts, health checks and terminations *)

LEMMA LaunchKeeps ==
  ASSUME Inductive, NEW p \in Process, Launch(p)
  PROVE  Inductive'
<1>1. /\ UNCHANGED <<row, copy, where, answer, cur, jobs, block, found, cancelled,
                     uploaded, givenUp, failures, crashes>>
      /\ p \notin up /\ up' = up \cup {p}
      /\ step' = [step EXCEPT ![p] = "check"]
  BY Zenon DEF Launch, disk, history
<1>2. /\ copy' \in BOOLEAN /\ up \subseteq Process /\ up \subseteq up' /\ Work
      /\ block' = block /\ block' \in [Process -> SUBSET Job] /\ (Spare => Spare')
  BY <1>1, Zenon DEF Inductive, Processes, Work, Instances, Jobs, Spare
<1>3. \A q \in Process : \A k \in block'[q] :
         k \in block[q] \/ (k \in jobs /\ k.proc = q)
  BY <1>2, Zenon
<1>4. Work'
  BY <1>1, <1>2, <1>3, Keeping, Zenon
<1>5. Processes'
  BY <1>1, SMT DEF Inductive, Processes
<1>6. block[p] = {}
  BY <1>1, Zenon DEF Inductive, Work, Jobs, Fits
<1>7. Blocks'
  <2>1. \A q \in Process : step'[q] = IF q = p THEN "check" ELSE step[q]
    BY <1>1, SMT DEF Inductive, Processes
  <2> QED BY <1>1, <1>6, <2>1, SMT DEF Inductive, Blocks
<1>8. Justified'
  BY <1>1, FewerJobs, Zenon
<1> QED BY <1>1, <1>4, <1>5, <1>7, <1>8, Zenon DEF Inductive, Requests, Bounds

LEMMA HealthCheckKeeps ==
  ASSUME Inductive, NEW p \in Process, HealthCheck(p)
  PROVE  Inductive'
<1>1. block[p] = {}
  <2>1. step[p] = "check" \/ step[p] = "kvs" \/ step[p] = "db"
    BY Zenon DEF HealthCheck, CheckRequests, CheckQueue, CheckRecords
  <2> QED BY <2>1, SMT DEF Inductive, Blocks
<1>2. PICK s \in {"kvs", "db", "idle"}, x \in BOOLEAN :
         step' = [step EXCEPT ![p] = s] /\ found' = [found EXCEPT ![p] = x]
  <2>1. CASE CheckRequests(p)
    <3>1. Holds("http") \in BOOLEAN
      BY Zenon DEF Holds
    <3> QED BY <2>1, <3>1, Zenon DEF CheckRequests
  <2>2. CASE CheckQueue(p)
    <3>1. found' = [found EXCEPT ![p] = (found[p] \/ Holds("kvs"))]
      BY <2>2, Zenon DEF CheckQueue
    <3>2. (found[p] \/ Holds("kvs")) \in BOOLEAN
      BY Zenon DEF Inductive, Processes, Holds
    <3> QED BY <2>2, <3>1, <3>2, Zenon DEF CheckQueue
  <2>3. CASE CheckRecords(p)
    BY <2>3, Zenon DEF CheckRecords
  <2> QED BY <2>1, <2>2, <2>3, Zenon DEF HealthCheck
<1>3. Processes' /\ Blocks'
  <2>1. up' = up /\ cancelled' = cancelled /\ block' = block
    BY Zenon DEF HealthCheck, CheckRequests, CheckQueue, CheckRecords, disk, history
  <2>2. Processes'
    BY <1>2, <2>1, SMT DEF Inductive, Processes
  <2>3. \A q \in Process : step'[q] = IF q = p THEN s ELSE step[q]
    BY <1>2, SMT DEF Inductive, Processes
  <2> QED BY <1>1, <2>1, <2>2, <2>3, SMT DEF Inductive, Blocks
<1>4. UNCHANGED <<copy, where, answer, up, block, cancelled, uploaded, givenUp,
                  failures, crashes>>
  BY Zenon DEF HealthCheck, CheckRequests, CheckQueue, CheckRecords, disk, history
<1>5. CASE UNCHANGED <<row, cur, jobs>>
  <2>1. Work'
    BY <1>4, <1>5, WorkStays, Zenon DEF Spare
  <2>2. Justified'
    BY <1>4, <1>5, FewerJobs, Zenon
  <2> QED BY <1>3, <1>4, <2>1, <2>2, Zenon DEF Inductive, Requests, Bounds
<1>6. CASE /\ row # {} /\ jobs' = JobsAfterLoad(p)
           /\ Store(p, [Loaded(p) EXCEPT !.state = "ready"])
  <2> DEFINE d == [Loaded(p) EXCEPT !.state = "ready"]
  <2>1. Work /\ up \subseteq Process /\ copy' \in BOOLEAN
    BY <1>4, Zenon DEF Inductive, Processes, Work, Instances
  <2>2. Spare' <=> Spare
    BY <1>4, Zenon DEF Spare
  <2>3. d \in Data /\ (d.copied => Spare')
    BY <1>6, <2>1, <2>2, LoadedIsKept, Edits, Zenon
  <2>4. Store(p, d)
    BY <1>6, Zenon
  <2> HIDE DEF d
  <2>5. Work'
    BY <1>4, <1>6, <2>1, <2>2, <2>3, <2>4, UpdatingOnly, Zenon
  <2>6. Justified'
    BY <1>4, <1>6, LoadedKinds, JustifiedStays, Zenon
  <2> QED BY <1>3, <1>4, <2>5, <2>6, Zenon DEF Inductive, Requests, Bounds
<1>7. CASE ~ UNCHANGED <<row, cur, jobs>>
  <2>1. /\ Stuck(p) /\ Store(p, [Loaded(p) EXCEPT !.state = "ready"])
        /\ jobs' = JobsAfterLoad(p)
    BY <1>7, Zenon DEF HealthCheck, CheckRequests, CheckQueue, CheckRecords, disk
  <2>2. row # {}
    BY <2>1, Zenon DEF Stuck
  <2> QED BY <1>6, <2>1, <2>2, Zenon
<1> QED BY <1>5, <1>7, Zenon

\* A process that ends takes its jobs and its block with it.
LEMMA LosesMemoryKeeps ==
  ASSUME Inductive, NEW p \in Process, LosesMemory(p), row' = row,
         copy' \in BOOLEAN, UNCHANGED <<uploaded, givenUp, answer>>,
         Spare => Spare'
  PROVE  Work' /\ Processes' /\ Blocks' /\ Justified'
<1>1. /\ up' = up \ {p} /\ cur' = [cur EXCEPT ![p] = {}]
      /\ jobs' = {j \in jobs : j.proc # p}
      /\ step' = [step EXCEPT ![p] = "idle"] /\ block' = [block EXCEPT ![p] = {}]
      /\ found' = [found EXCEPT ![p] = FALSE]
      /\ cancelled' = [cancelled EXCEPT ![p] = FALSE]
  BY Zenon DEF LosesMemory
<1>2. /\ block' \in [Process -> SUBSET Job]
      /\ \A q \in Process : block'[q] \subseteq block[q]
      /\ Blocks'
      /\ step' \in [Process -> {"idle", "started", "finished", "remove", "check",
                                "kvs", "db"}]
  BY <1>1, BlockEnds, Zenon
<1>3. Processes'
  BY <1>1, <1>2, SMT DEF Inductive, Processes
<1>4. \A q \in Process : cur'[q] = IF q = p THEN {} ELSE cur[q]
  BY <1>1, SMT DEF Inductive, Work, Instances
<1>5. Instances'
  BY <1>1, SMT DEF Inductive, Work, Instances, Single
<1>6. ASSUME NEW j, Fits(j), j.proc # p
      PROVE  Fits(j)'
  <2>1. j.proc \in up' /\ j.proc \in Process
    BY <1>1, <1>6, Zenon DEF Inductive, Processes, Fits
  <2>2. cur'[j.proc] = cur[j.proc]
    BY <1>4, <1>6, <2>1, Zenon
  <2> QED BY <1>6, <2>1, <2>2, Zenon DEF Fits, Single
<1>7. block'[p] = {}
  BY <1>1, SMT DEF Inductive, Work, Jobs
<1>8. \A j \in jobs' : Fits(j)'
  BY <1>1, <1>6, Zenon DEF Inductive, Work, Jobs
<1>9. ASSUME NEW q \in Process, NEW j \in block'[q]
      PROVE  Fits(j)' /\ j.proc = q
  <2>1. q # p /\ j \in block[q]
    BY <1>2, <1>7, <1>9, Zenon
  <2> QED BY <1>6, <2>1, Zenon DEF Inductive, Work, Jobs
<1>10. Jobs'
  BY <1>2, <1>8, <1>9, Zenon DEF Jobs
<1>11. ASSUME row' # {}, ~ Spare'
       PROVE  /\ \A d \in row' : ~ d.copied
              /\ \A q \in Process : \A d \in cur'[q] : ~ d.copied
              /\ \A j \in jobs' : \A d \in j.inst : ~ d.copied
              /\ \A q \in Process : \A j \in block'[q] : \A d \in j.inst : ~ d.copied
  <2>1. CopiesBacked /\ row # {} /\ ~ Spare
    BY <1>11, Zenon DEF Inductive, Work
  <2>2. \A q \in Process : cur'[q] \subseteq cur[q]
    BY <1>4, SMT
  <2>3. jobs' \subseteq jobs
    BY <1>1, SMT
  <2> QED BY <1>2, <2>1, <2>2, <2>3, Zenon DEF CopiesBacked
<1>12. CopiesBacked'
  BY <1>11, Zenon DEF CopiesBacked
<1>13. \A q \in Process : cancelled'[q] => cancelled[q]
  BY <1>1, SMT DEF Inductive, Processes
<1>14. jobs' \subseteq jobs
  BY <1>1, SMT
<1>15. Justified'
  BY <1>13, <1>14, FewerJobs, Zenon
<1> QED BY <1>2, <1>3, <1>5, <1>10, <1>12, <1>15, Zenon DEF Work

\* A deschedule that is cut short may have deleted the copy, for a user who
\* cancelled.
LEMMA CrashKeeps ==
  ASSUME Inductive, NEW p \in Process, Crash(p)
  PROVE  Inductive'
<1>1. /\ LosesMemory(p) /\ crashes < MaxCrashes /\ crashes' = crashes + 1
      /\ UNCHANGED <<row, where, answer, uploaded, givenUp, failures>>
  BY Zenon DEF Crash
<1>2. copy' = copy \/ (copy' = FALSE /\ cancelled[p])
  BY Zenon DEF Crash
<1>3. copy' \in BOOLEAN
  BY <1>2, Zenon DEF Inductive, Work, Instances
<1>4. Spare => Spare'
  BY <1>1, <1>2, Zenon DEF Spare, Inductive, Justified
<1>5. Bounds'
  BY <1>1, UploadAssumption, SMT DEF Inductive, Bounds
<1>6. Work' /\ Processes' /\ Blocks' /\ Justified'
  BY <1>1, <1>3, <1>4, LosesMemoryKeeps, Zenon
<1> QED BY <1>1, <1>5, <1>6, Zenon DEF Inductive, Requests

LEMMA QuitKeeps ==
  ASSUME Inductive, NEW p \in Process, Quit(p)
  PROVE  Inductive'
<1>1. /\ LosesMemory(p)
      /\ UNCHANGED <<row, copy, where, answer, uploaded, givenUp, failures, crashes>>
  BY Zenon DEF Quit, disk, history
<1>2. copy' \in BOOLEAN /\ (Spare => Spare')
  BY <1>1, Zenon DEF Inductive, Work, Instances, Spare
<1>3. Work' /\ Processes' /\ Blocks' /\ Justified'
  BY <1>1, <1>2, LosesMemoryKeeps, Zenon
<1> QED BY <1>1, <1>3, Zenon DEF Inductive, Requests, Bounds

LEMMA CancelByUserKeeps ==
  ASSUME Inductive, NEW p \in Process, CancelByUser(p)
  PROVE  Inductive'
<1>1. /\ UNCHANGED <<row, copy, where, answer, up, cur, jobs, step, block, found,
                     uploaded, failures, crashes>>
      /\ cancelled' = [cancelled EXCEPT ![p] = TRUE] /\ givenUp' = TRUE
  BY Zenon DEF CancelByUser, disk
<1>2. Work'
  BY <1>1, WorkStays, Zenon DEF Spare
<1>3. Processes'
  BY <1>1, SMT DEF Inductive, Processes
<1>4. Justified'
  BY <1>1, Zenon DEF Inductive, Justified
<1> QED BY <1>1, <1>2, <1>3, <1>4, Zenon DEF Inductive, Requests, Blocks, Bounds

-----------------------------------------------------------------------------
(* Theorems *)

LEMMA InitInductive == ASSUME Init PROVE Inductive
<1>1. [state |-> "ready", wait |-> "none", copied |-> FALSE, sum |-> FALSE,
       rev |-> 0] \in Data
  BY SMT DEF Data
<1>2. Instances
  <2>1. row \subseteq Data /\ Single(row) /\ copy \in BOOLEAN
    BY <1>1, Zenon DEF Init, Single
  <2>2. cur \in [Process -> SUBSET Data] /\ \A p \in Process : cur[p] = {}
    BY SMT DEF Init
  <2>3. \A p \in Process : Single(cur[p])
    BY <2>2, Zenon DEF Single
  <2> QED BY <2>1, <2>2, <2>3, Zenon DEF Instances
<1>3. Jobs
  BY SMT DEF Init, Jobs
<1>4. CopiesBacked
  BY SMT DEF Init, CopiesBacked
<1>5. Requests
  BY SMT DEF Init, Requests
<1>6. Processes
  BY UploadAssumption, SMT DEF Init, Processes
<1>7. Blocks
  BY SMT DEF Init, Blocks
<1>8. Bounds
  BY UploadAssumption, SMT DEF Init, Bounds
<1>9. Justified
  BY SMT DEF Init, Justified
<1> QED BY <1>2, <1>3, <1>4, <1>5, <1>6, <1>7, <1>8, <1>9, Zenon DEF Inductive, Work

LEMMA StutterKeeps ==
  ASSUME Inductive, UNCHANGED vars
  PROVE  Inductive'
<1>1. UNCHANGED <<row, copy, where, answer, up, cur, jobs, step, block, found,
                  cancelled, uploaded, givenUp, failures, crashes>>
  BY Zenon DEF vars
<1>2. Work'
  BY <1>1, WorkStays, Zenon DEF Spare
<1>3. Justified'
  BY <1>1, FewerJobs, Zenon
<1> QED BY <1>1, <1>2, <1>3, Zenon DEF Inductive, Requests, Processes, Blocks, Bounds

\* The instances of the record, the jobs and the copy fit together for any
\* processes, requests, failures and terminations.
THEOREM InductiveHolds == Spec => []Inductive
<1>1. Init => Inductive
  BY InitInductive, Zenon
<1>2. Inductive /\ [Next]_vars => Inductive'
  <2>1. SUFFICES ASSUME Inductive, Next PROVE Inductive'
    BY StutterKeeps, Zenon
  <2>2. ASSUME NEW p \in Process,
               \/ Pass(p) \/ StoreStarted(p) \/ StoreCompleted(p) \/ RemoveCompleted(p)
               \/ Launch(p) \/ HealthCheck(p) \/ CancelByUser(p) \/ Crash(p)
               \/ Quit(p)
        PROVE  Inductive'
    BY <2>1, <2>2, PassKeeps, StoreStartedKeeps, StoreCompletedKeeps,
       RemoveCompletedKeeps, LaunchKeeps, HealthCheckKeeps, CancelByUserKeeps,
       CrashKeeps, QuitKeeps, Zenon
  <2>3. ASSUME NEW j \in jobs,
               \/ StartUpload(j) \/ StartWithoutCopy(j) \/ ChecksumFails(j)
               \/ SkipUpload(j) \/ FinishUpload(j)
        PROVE  Inductive'
    BY <2>1, <2>3, StartUploadKeeps, StartWithoutCopyKeeps, ChecksumFailsKeeps,
       SkipUploadKeeps, FinishUploadKeeps, Zenon
  <2>4. ASSUME NEW a \in Request,
               Answer(a) \/ QueueEvent(a) \/ RemoveRequest(a) \/ Transfer(a)
        PROVE  Inductive'
    BY <2>1, <2>4, AnswerKeeps, DeliveryKeeps, Zenon
  <2> QED BY <2>1, <2>2, <2>3, <2>4, Zenon DEF Next
<1> QED BY <1>1, <1>2, PTL DEF Spec

\* Every variable of the upload keeps its type, jobs belong to running
\* processes, and one that uses the cached instance finds it.
THEOREM TypeCorrect == Spec => []TypeOK
<1>1. Inductive => TypeOK
  BY Typed, Zenon
<1> QED BY <1>1, InductiveHolds, PTL

\* Wherever a termination cuts in, and whatever instance a job stores, the copy
\* of an open upload disappears only when it is not needed any more.
THEOREM CopyKept == Spec => []CopyKeptUntilUploaded
<1>1. Inductive => CopyKeptUntilUploaded
  BY Zenon DEF Inductive, Work, CopiesBacked, CopyKeptUntilUploaded, Spare
<1> QED BY <1>1, InductiveHolds, PTL

-----------------------------------------------------------------------------
(* History *)

LEMMA Raised ==
  ASSUME NEW a, NEW b, NEW c, b = (a \/ c)
  PROVE  /\ a => b
         /\ c => b
         /\ b => a \/ c
BY Zenon

LEMMA StoringMarks ==
  ASSUME NEW j, NEW d, StoreInstance(j, d)
  PROVE  /\ overwritten => overwritten'
         /\ ~ overwritten' => \A r \in row : InstanceOf(j).rev = r.rev
<1>1. overwritten' = (overwritten \/ \E r \in row : InstanceOf(j).rev # r.rev)
  BY Zenon DEF StoreInstance
<1> QED BY <1>1, Raised, Zenon

\* What disturbs an upload stays known.
LEMMA ForeignStays ==
  ASSUME Inductive, Next
  PROVE  /\ foreign => foreign'
         /\ overwritten => overwritten'
         /\ crashes' = 0 => crashes = 0
<1>1. ASSUME NEW p \in Process, Pass(p)
      PROVE  UNCHANGED <<foreign, overwritten, crashes>>
  BY <1>1, Zenon DEF Pass, Schedule, ScheduleFails, HandleEvents, Cancel, Resolve,
                     DeleteCompleted, history
<1>2. ASSUME NEW p \in Process, StoreStarted(p) \/ StoreCompleted(p) \/ RemoveCompleted(p)
      PROVE  (overwritten => overwritten') /\ UNCHANGED <<foreign, crashes>>
  <2>1. CASE StoreStarted(p) \/ StoreCompleted(p)
    <3>1. UNCHANGED <<foreign, crashes>> /\ \E j, d : StoreInstance(j, d)
      BY <2>1, Zenon DEF StoreStarted, StoreCompleted
    <3> QED BY <3>1, StoringMarks, Zenon
  <2>2. CASE RemoveCompleted(p)
    BY <2>2, Zenon DEF RemoveCompleted, history
  <2> QED BY <1>2, <2>1, <2>2, Zenon
<1>3. ASSUME NEW p \in Process, Launch(p) \/ CheckRequests(p) \/ CheckQueue(p)
                               \/ CancelByUser(p) \/ Quit(p)
      PROVE  UNCHANGED <<foreign, overwritten, crashes>>
  BY <1>3, Zenon DEF Launch, CheckRequests, CheckQueue, CancelByUser, Quit, history
<1>4. ASSUME NEW p \in Process, CheckRecords(p)
      PROVE  (foreign => foreign') /\ UNCHANGED <<overwritten, crashes>>
  BY <1>4, Zenon DEF CheckRecords
<1>5. ASSUME NEW p \in Process, Crash(p)
      PROVE  UNCHANGED <<foreign, overwritten>> /\ crashes' # 0
  <2>1. UNCHANGED <<foreign, overwritten>> /\ crashes' = crashes + 1
    BY <1>5, Zenon DEF Crash
  <2> QED BY <2>1, SMT DEF Inductive, Bounds
<1>6. ASSUME NEW j \in jobs, \/ StartUpload(j) \/ StartWithoutCopy(j) \/ ChecksumFails(j)
                            \/ SkipUpload(j) \/ FinishUpload(j)
      PROVE  /\ foreign => foreign'
             /\ overwritten => overwritten'
             /\ crashes' = crashes
  <2>1. CASE StartUpload(j) \/ StartWithoutCopy(j)
    <3>1. foreign' = (foreign \/ Locked) /\ UNCHANGED <<overwritten, crashes>>
      BY <2>1, Zenon DEF StartUpload, StartWithoutCopy
    <3> QED BY <3>1, Raised, Zenon
  <2>2. CASE ChecksumFails(j)
    <3>1. UNCHANGED <<foreign, crashes>> /\ \E k, d : StoreInstance(k, d)
      BY <2>2, Zenon DEF ChecksumFails
    <3> QED BY <3>1, StoringMarks, Zenon
  <2>3. CASE SkipUpload(j) \/ FinishUpload(j)
    <3>1. UNCHANGED <<foreign, overwritten, crashes>>
      BY <2>3, Zenon DEF SkipUpload, FinishUpload, history
    <3> QED BY <3>1, Zenon
  <2> QED BY <1>6, <2>1, <2>2, <2>3, Zenon
<1>7. ASSUME NEW a \in Request, Answer(a) \/ QueueEvent(a) \/ RemoveRequest(a) \/ Transfer(a)
      PROVE  UNCHANGED <<foreign, overwritten, crashes>>
  BY <1>7, Zenon DEF Answer, QueueEvent, RemoveRequest, Transfer, history
<1> QED BY <1>1, <1>2, <1>3, <1>4, <1>5, <1>6, <1>7, Zenon DEF Next, HealthCheck

-----------------------------------------------------------------------------
(* The stores of a result *)

LEMMA RequestsWritten ==
  ASSUME Next
  PROVE  \/ where' = where /\ answer' = answer
         \/ \E p \in Process : HandleEvents(p)
         \/ \E j \in jobs : StartUpload(j) \/ StartWithoutCopy(j)
         \/ \E a \in Request : Answer(a) \/ QueueEvent(a) \/ RemoveRequest(a) \/ Transfer(a)
<1>1. ASSUME NEW p \in Process, Pass(p)
      PROVE  HandleEvents(p) \/ (where' = where /\ answer' = answer)
  BY <1>1, Zenon DEF Pass, Schedule, ScheduleFails, Cancel, Resolve, DeleteCompleted
<1>2. ASSUME NEW p \in Process, StoreStarted(p) \/ StoreCompleted(p) \/ RemoveCompleted(p)
      PROVE  where' = where /\ answer' = answer
  BY <1>2, Zenon DEF StoreStarted, StoreCompleted, RemoveCompleted
<1>3. ASSUME NEW p \in Process, Launch(p) \/ HealthCheck(p) \/ CancelByUser(p) \/ Crash(p) \/ Quit(p)
      PROVE  where' = where /\ answer' = answer
  BY <1>3, Zenon DEF Launch, HealthCheck, CheckRequests, CheckQueue, CheckRecords,
                     CancelByUser, Crash, Quit, disk
<1>4. ASSUME NEW j \in jobs, ChecksumFails(j) \/ SkipUpload(j) \/ FinishUpload(j)
      PROVE  where' = where /\ answer' = answer
  BY <1>4, Zenon DEF ChecksumFails, SkipUpload, FinishUpload, disk
<1> QED BY <1>1, <1>2, <1>3, <1>4, Zenon DEF Next

LEMMA FreeRequest ==
  ASSUME NEW j \in jobs, StartUpload(j) \/ StartWithoutCopy(j)
  PROVE  \E a \in Request :
           /\ where[a] = {}
           /\ \/ /\ StartUpload(j)
                 /\ where' = [where EXCEPT ![a] = {"http"}] /\ answer' = answer
              \/ /\ StartWithoutCopy(j)
                 /\ where' = [where EXCEPT ![a] = {"kvs"}]
                 /\ answer' = [answer EXCEPT ![a] = "failed"]
<1> DEFINE free == {a \in Request : where[a] = {}}
<1>1. free # {}
  BY Zenon DEF StartUpload, StartWithoutCopy
<1>2. The(free) \in free
  BY <1>1, TheIn, Zenon
<1>3. The(free) \in Request /\ where[The(free)] = {}
  BY <1>2, Zenon
<1> QED BY <1>3, Zenon DEF StartUpload, StartWithoutCopy

\* A request is in the stores its answer calls for, and in one of the event
\* stores at most.
LEMMA StoresStep ==
  ASSUME Inductive, Stores, Next
  PROVE  Stores'
<1> USE DEF Stores
<1>1. ASSUME NEW p \in Process, HandleEvents(p)
      PROVE  Stores'
  <2>1. /\ where' = [a \in Request |-> where[a] \ {"db"}]
        /\ answer' = [a \in Request |-> IF a \notin Events THEN answer[a]
                                        ELSE IF where[a] = {"db"} THEN "none"
                                        ELSE "handled"]
    BY <1>1, Zenon DEF HandleEvents
  <2>2. ASSUME NEW a \in Request
        PROVE  /\ where'[a] = where[a] \ {"db"}
               /\ answer'[a] = IF "db" \notin where[a] THEN answer[a]
                               ELSE IF where[a] = {"db"} THEN "none" ELSE "handled"
               /\ where[a] \in SUBSET Place
    BY <2>1, SMT DEF Events, Inductive, Requests
  <2> QED BY <2>2, SMT DEF Place
<1>2. ASSUME NEW j \in jobs, StartUpload(j) \/ StartWithoutCopy(j)
      PROVE  Stores'
  BY <1>2, FreeRequest, SMT DEF Inductive, Requests
<1>3. ASSUME NEW a \in Request, Answer(a)
      PROVE  Stores'
  <2>1. /\ where' = where /\ answer[a] = "none" /\ "http" \in where[a]
        /\ \E o \in {"ok", "failed", "cancelled"} : answer' = [answer EXCEPT ![a] = o]
    BY <1>3, Zenon DEF Answer
  <2> QED BY <2>1, SMT DEF Inductive, Requests
<1>4. ASSUME NEW a \in Request, QueueEvent(a)
      PROVE  Stores'
  <2>1. /\ where[a] = {"http"} /\ answer[a] \notin {"none", "handled"}
        /\ where' = [where EXCEPT ![a] = {"http", "kvs"}] /\ answer' = answer
    BY <1>4, Zenon DEF QueueEvent
  <2> QED BY <2>1, SMT DEF Inductive, Requests
<1>5. ASSUME NEW a \in Request, RemoveRequest(a)
      PROVE  Stores'
  <2>1. /\ "http" \in where[a] /\ (where[a] # {"http"} \/ answer[a] = "handled")
        /\ where' = [where EXCEPT ![a] = where[a] \ {"http"}]
        /\ answer' = [answer EXCEPT ![a] = IF answer[a] = "handled" THEN "none"
                                           ELSE answer[a]]
    BY <1>5, Zenon DEF RemoveRequest
  <2>2. where[a] \subseteq Place
    BY SMT DEF Inductive, Requests
  <2>3. ASSUME NEW b \in Request
        PROVE  /\ where'[b] = IF b = a THEN where[a] \ {"http"} ELSE where[b]
               /\ answer'[b] = IF b = a /\ answer[a] = "handled" THEN "none" ELSE answer[b]
    BY <2>1, SMT DEF Inductive, Requests
  <2> QED BY <2>1, <2>2, <2>3, SMT DEF Place
<1>6. ASSUME NEW a \in Request, Transfer(a)
      PROVE  Stores'
  <2>1. /\ "kvs" \in where[a] /\ answer' = answer
        /\ where' = [where EXCEPT ![a] = (where[a] \ {"kvs"}) \cup {"db"}]
    BY <1>6, Zenon DEF Transfer
  <2> QED BY <2>1, SMT DEF Inductive, Requests
<1>7. CASE where' = where /\ answer' = answer
  BY <1>7, Zenon
<1> HIDE DEF Stores
<1> QED BY <1>1, <1>2, <1>3, <1>4, <1>5, <1>6, <1>7, RequestsWritten, Zenon

\* Deliveries leave open what is open.
LEMMA DeliveryOpen ==
  ASSUME Inductive, Stores,
         NEW a \in Request, Answer(a) \/ QueueEvent(a) \/ RemoveRequest(a) \/ Transfer(a)
  PROVE  Outstanding' = Outstanding
<1>1. CASE Answer(a)
  <2>1. /\ where' = where /\ answer[a] = "none"
        /\ \E o \in {"ok", "failed", "cancelled"} : answer' = [answer EXCEPT ![a] = o]
    BY <1>1, Zenon DEF Answer
  <2> QED BY <2>1, SMT DEF Inductive, Requests, Outstanding
<1>2. CASE QueueEvent(a)
  <2>1. /\ where[a] = {"http"} /\ answer' = answer
        /\ where' = [where EXCEPT ![a] = {"http", "kvs"}]
    BY <1>2, Zenon DEF QueueEvent
  <2> QED BY <2>1, SMT DEF Inductive, Requests, Outstanding
<1>3. CASE RemoveRequest(a)
  <2>1. /\ "http" \in where[a] /\ (where[a] # {"http"} \/ answer[a] = "handled")
        /\ where' = [where EXCEPT ![a] = where[a] \ {"http"}]
        /\ answer' = [answer EXCEPT ![a] = IF answer[a] = "handled" THEN "none"
                                           ELSE answer[a]]
    BY <1>3, Zenon DEF RemoveRequest
  <2>2. where[a] \subseteq Place /\ (answer[a] = "handled" => where[a] = {"http"})
    BY SMT DEF Inductive, Requests, Stores
  <2>3. ASSUME NEW b \in Request
        PROVE  /\ where'[b] = IF b = a THEN where[a] \ {"http"} ELSE where[b]
               /\ answer'[b] = IF b = a /\ answer[a] = "handled" THEN "none" ELSE answer[b]
    BY <2>1, SMT DEF Inductive, Requests
  <2>4. ASSUME NEW b \in Request
        PROVE  (where'[b] # {} /\ answer'[b] # "handled") <=> (where[b] # {} /\ answer[b] # "handled")
    BY <2>1, <2>2, <2>3, SMT DEF Place
  <2> QED BY <2>4, Zenon DEF Outstanding
<1>4. CASE Transfer(a)
  <2>1. /\ "kvs" \in where[a] /\ answer' = answer
        /\ where' = [where EXCEPT ![a] = (where[a] \ {"kvs"}) \cup {"db"}]
    BY <1>4, Zenon DEF Transfer
  <2> QED BY <2>1, SMT DEF Inductive, Requests, Outstanding
<1> QED BY <1>1, <1>2, <1>3, <1>4, Zenon

\* The events a pass handles are results of open requests, which it closes.
LEMMA HandledClosed ==
  ASSUME Inductive, Stores, NEW p \in Process, HandleEvents(p)
  PROVE  /\ Events # {} /\ Events \subseteq Outstanding
         /\ \A a \in Events : answer[a] \in {"ok", "failed", "cancelled"}
         /\ Outstanding' = Outstanding \ Events
<1>1. /\ where' = [a \in Request |-> where[a] \ {"db"}]
      /\ answer' = [a \in Request |-> IF a \notin Events THEN answer[a]
                                      ELSE IF where[a] = {"db"} THEN "none"
                                      ELSE "handled"]
      /\ Events # {}
  BY Zenon DEF HandleEvents
<1>2. ASSUME NEW a \in Request
      PROVE  /\ where'[a] = where[a] \ {"db"}
             /\ answer'[a] = IF "db" \notin where[a] THEN answer[a]
                             ELSE IF where[a] = {"db"} THEN "none" ELSE "handled"
             /\ where[a] \in SUBSET Place
             /\ answer[a] \in {"none", "ok", "failed", "cancelled", "handled"}
  BY <1>1, SMT DEF Events, Inductive, Requests
<1>3. ASSUME NEW a \in Request, "db" \in where[a]
      PROVE  answer[a] \in {"ok", "failed", "cancelled"} /\ where[a] # {}
             /\ (where'[a] = {} \/ answer'[a] = "handled")
  BY <1>2, <1>3, SMT DEF Stores
<1>4. ASSUME NEW a \in Request, "db" \notin where[a]
      PROVE  where'[a] = where[a] /\ answer'[a] = answer[a]
  <2>1. where[a] \ {"db"} = where[a]
    BY <1>4, Zenon
  <2> QED BY <1>2, <1>4, <2>1, Zenon
<1>5. Outstanding' = Outstanding \ Events
  <2>1. ASSUME NEW a \in Request
        PROVE  a \in Outstanding' <=> a \in Outstanding /\ a \notin Events
    BY <1>3, <1>4, Zenon DEF Outstanding, Events
  <2>2. Outstanding' \subseteq Request /\ Outstanding \subseteq Request
    BY Zenon DEF Outstanding
  <2> QED BY <2>1, <2>2, Zenon
<1>6. ASSUME NEW a \in Events
      PROVE  a \in Outstanding /\ answer[a] \in {"ok", "failed", "cancelled"}
  <2>1. a \in Request /\ "db" \in where[a]
    BY Zenon DEF Events
  <2>2. answer[a] # "handled"
    BY <1>3, <2>1, SMT
  <2> QED BY <1>3, <2>1, <2>2, Zenon DEF Outstanding
<1> QED BY <1>1, <1>5, <1>6, Zenon

\* A request is opened where none was.
LEMMA RequestOpens ==
  ASSUME Inductive, Stores, NEW j \in jobs, StartUpload(j) \/ StartWithoutCopy(j)
  PROVE  \E a \in Request : /\ where[a] = {} /\ a \notin Outstanding
                            /\ Outstanding' = Outstanding \cup {a}
                            /\ answer'[a] # "ok"
                            /\ \A b \in Request : b # a => answer'[b] = answer[b]
<1>1. PICK a \in Request :
           /\ where[a] = {}
           /\ \/ /\ StartUpload(j)
                 /\ where' = [where EXCEPT ![a] = {"http"}] /\ answer' = answer
              \/ /\ StartWithoutCopy(j)
                 /\ where' = [where EXCEPT ![a] = {"kvs"}]
                 /\ answer' = [answer EXCEPT ![a] = "failed"]
  BY FreeRequest, Zenon
<1>2. answer[a] = "none"
  BY <1>1, Zenon DEF Stores
<1>3. /\ where'[a] # {} /\ answer'[a] \in {"none", "failed"}
      /\ \A b \in Request : b # a => where'[b] = where[b] /\ answer'[b] = answer[b]
  BY <1>1, <1>2, SMT DEF Inductive, Requests
<1>4. a \notin Outstanding /\ Outstanding' = Outstanding \cup {a}
  BY <1>1, <1>3, SMT DEF Outstanding
<1> QED BY <1>1, <1>3, <1>4, SMT

-----------------------------------------------------------------------------
(* Steps of blocks and checks *)

\* Jobs are those before, those a load detached, and the one a pass starts.
LEMMA JobsComeFrom ==
  ASSUME Inductive, Next, NEW j \in jobs'
  PROVE  \/ \E k \in jobs : j.proc = k.proc /\ j.kind = k.kind
         \/ \E p \in Process : /\ j.proc = p /\ step[p] = "idle"
                              /\ UNCHANGED <<step, block>>
<1> DEFINE Old == \E k \in jobs : j.proc = k.proc /\ j.kind = k.kind
           New(p) == j.proc = p /\ step[p] = "idle" /\ UNCHANGED <<step, block>>
<1>1. ASSUME NEW p \in Process, j \in JobsAfterLoad(p) \/ j \in Detached(p) \/ j \in jobs
      PROVE  Old
  BY <1>1, LoadedJobsFit, DetachedFit, Zenon DEF Inductive
<1>2. ASSUME NEW p \in Process, NEW c, Remove(p, c)
      PROVE  Old
  BY <1>1, <1>2, Zenon DEF Remove
<1>3. ASSUME NEW p \in Process, Schedule(p)
      PROVE  Old \/ New(p)
  <2>1. /\ jobs' = JobsAfterLoad(p) \cup {[proc |-> p, kind |-> "hash", inst |-> {}]}
        /\ step[p] = "idle" /\ UNCHANGED <<step, block>>
    BY <1>3, Zenon DEF Schedule, Visit
  <2>2. CASE j = [proc |-> p, kind |-> "hash", inst |-> {}]
    BY <2>1, <2>2, Zenon
  <2> QED BY <1>1, <2>1, <2>2, Zenon
<1>4. ASSUME NEW p \in Process, HandleEvents(p)
      PROVE  Old \/ New(p)
  <2>1. step[p] = "idle" /\ UNCHANGED <<step, block>>
    BY <1>4, Zenon DEF HandleEvents, Visit
  <2>2. \/ \E c \in BOOLEAN : Remove(p, c)
        \/ j \in JobsAfterLoad(p)
        \/ j = [proc |-> p, kind |-> "verify", inst |-> {}]
    BY <1>4, Zenon DEF HandleEvents, Deschedule, CacheValid
  <2>3. CASE j = [proc |-> p, kind |-> "verify", inst |-> {}]
    BY <2>1, <2>3, Zenon
  <2> QED BY <1>1, <1>2, <2>2, <2>3, Zenon
<1>5. ASSUME NEW p \in Process, ScheduleFails(p) \/ Cancel(p) \/ Resolve(p) \/ DeleteCompleted(p)
      PROVE  Old
  BY <1>1, <1>2, <1>5, Zenon DEF ScheduleFails, Cancel, Resolve, DeleteCompleted, Deschedule
<1>6. ASSUME NEW p \in Process, StoreStarted(p) \/ StoreCompleted(p) \/ RemoveCompleted(p)
      PROVE  Old
  BY <1>1, <1>2, <1>6, Zenon DEF StoreStarted, StoreCompleted, RemoveCompleted
<1>7. ASSUME NEW p \in Process, Launch(p) \/ HealthCheck(p) \/ CancelByUser(p)
      PROVE  Old
  BY <1>1, <1>7, Zenon DEF Launch, HealthCheck, CheckRequests, CheckQueue, CheckRecords,
                           CancelByUser
<1>8. ASSUME NEW p \in Process, Crash(p) \/ Quit(p)
      PROVE  Old
  BY <1>1, <1>8, Zenon DEF Crash, Quit, LosesMemory
<1>9. ASSUME NEW k \in jobs, \/ StartUpload(k) \/ StartWithoutCopy(k) \/ ChecksumFails(k)
                            \/ SkipUpload(k) \/ FinishUpload(k)
      PROVE  Old
  BY <1>9, Zenon DEF StartUpload, StartWithoutCopy, ChecksumFails, SkipUpload,
                     FinishUpload, Begin
<1>10. ASSUME NEW a \in Request, Answer(a) \/ QueueEvent(a) \/ RemoveRequest(a) \/ Transfer(a)
       PROVE  Old
  BY <1>10, Zenon DEF Answer, QueueEvent, RemoveRequest, Transfer, memory
<1> QED BY <1>3, <1>4, <1>5, <1>6, <1>7, <1>8, <1>9, <1>10, Zenon DEF Next, Pass

\* What the steps of processes and their blocks are set to.
LEMMA StepsWritten ==
  ASSUME Inductive, Next
  PROVE  \/ UNCHANGED <<step, block>>
         \/ \E p \in Process, s \in {"started", "finished"}, j \in jobs :
              /\ p = j.proc /\ step[p] = "idle"
              /\ step' = [step EXCEPT ![p] = s] /\ block' = [block EXCEPT ![p] = {j}]
         \/ \E p \in Process : step[p] = "finished" /\ block' = block
                              /\ step' = [step EXCEPT ![p] = "remove"]
         \/ \E p \in Process : step' = [step EXCEPT ![p] = "idle"]
                              /\ (block' = [block EXCEPT ![p] = {}] \/ block' = block)
         \/ \E p \in Process : p \notin up /\ up' = up \cup {p} /\ block' = block
                              /\ step' = [step EXCEPT ![p] = "check"]
         \/ \E p \in Process : step[p] = "check" /\ block' = block
                              /\ step' = [step EXCEPT ![p] = "kvs"]
         \/ \E p \in Process : step[p] = "kvs" /\ block' = block
                              /\ step' = [step EXCEPT ![p] = "db"]
<1>1. ASSUME NEW p \in Process, Pass(p)
      PROVE  UNCHANGED <<step, block>>
  BY <1>1, Zenon DEF Pass, Schedule, ScheduleFails, HandleEvents, Cancel, Resolve,
                     DeleteCompleted
<1>2. ASSUME NEW a \in Request, Answer(a) \/ QueueEvent(a) \/ RemoveRequest(a) \/ Transfer(a)
      PROVE  UNCHANGED <<step, block>>
  BY <1>2, Zenon DEF Answer, QueueEvent, RemoveRequest, Transfer, memory
<1>3. ASSUME NEW k \in jobs, \/ StartUpload(k) \/ StartWithoutCopy(k) \/ FinishUpload(k)
      PROVE  \E p \in Process, s \in {"started", "finished"}, j \in jobs :
               /\ p = j.proc /\ step[p] = "idle"
               /\ step' = [step EXCEPT ![p] = s] /\ block' = [block EXCEPT ![p] = {j}]
  <2>1. k.proc \in Process
    BY JobFacts, Zenon
  <2>2. step[k.proc] = "idle"
    BY <1>3, Zenon DEF StartUpload, StartWithoutCopy, FinishUpload, Begin
  <2> QED BY <1>3, <2>1, <2>2, Zenon DEF StartUpload, StartWithoutCopy, FinishUpload
<1>4. ASSUME NEW k \in jobs, ChecksumFails(k) \/ SkipUpload(k)
      PROVE  UNCHANGED <<step, block>>
  BY <1>4, Zenon DEF ChecksumFails, SkipUpload
<1>5. ASSUME NEW p \in Process, StoreCompleted(p)
      PROVE  step[p] = "finished" /\ block' = block /\ step' = [step EXCEPT ![p] = "remove"]
  BY <1>5, Zenon DEF StoreCompleted
<1>6. ASSUME NEW p \in Process, StoreStarted(p) \/ RemoveCompleted(p) \/ Crash(p) \/ Quit(p)
      PROVE  step' = [step EXCEPT ![p] = "idle"] /\ block' = [block EXCEPT ![p] = {}]
  BY <1>6, Zenon DEF StoreStarted, RemoveCompleted, Crash, Quit, LosesMemory
<1>7. ASSUME NEW p \in Process, CheckRecords(p)
      PROVE  step[p] = "db" /\ block' = block /\ step' = [step EXCEPT ![p] = "idle"]
  BY <1>7, Zenon DEF CheckRecords
<1>8. ASSUME NEW p \in Process, Launch(p)
      PROVE  /\ p \notin up /\ up' = up \cup {p} /\ block' = block
             /\ step' = [step EXCEPT ![p] = "check"]
  BY <1>8, Zenon DEF Launch
<1>9. ASSUME NEW p \in Process, CheckRequests(p)
      PROVE  step[p] = "check" /\ block' = block /\ step' = [step EXCEPT ![p] = "kvs"]
  BY <1>9, Zenon DEF CheckRequests
<1>10. ASSUME NEW p \in Process, CheckQueue(p)
       PROVE  step[p] = "kvs" /\ block' = block /\ step' = [step EXCEPT ![p] = "db"]
  BY <1>10, Zenon DEF CheckQueue
<1>11. ASSUME NEW p \in Process, CancelByUser(p)
       PROVE  UNCHANGED <<step, block>>
  BY <1>11, Zenon DEF CancelByUser
<1>12. CASE \E p \in Process : \/ Pass(p) \/ StoreStarted(p) \/ StoreCompleted(p) \/ RemoveCompleted(p)
                               \/ Launch(p) \/ HealthCheck(p) \/ CancelByUser(p) \/ Crash(p)
                               \/ Quit(p)
  <2>1. PICK p \in Process : \/ Pass(p) \/ StoreStarted(p) \/ StoreCompleted(p)
                             \/ RemoveCompleted(p) \/ Launch(p) \/ HealthCheck(p)
                             \/ CancelByUser(p) \/ Crash(p) \/ Quit(p)
    BY <1>12, Zenon
  <2>2. CASE Pass(p) \/ CancelByUser(p)
    BY <1>1, <1>11, <2>2, Zenon
  <2>3. CASE StoreCompleted(p)
    BY <1>5, <2>3, Zenon
  <2>4. CASE StoreStarted(p) \/ RemoveCompleted(p) \/ Crash(p) \/ Quit(p)
    BY <1>6, <2>4, Zenon
  <2>5. CASE HealthCheck(p)
    BY <1>7, <1>9, <1>10, <2>5, Zenon DEF HealthCheck
  <2>6. CASE Launch(p)
    BY <1>8, <2>6, Zenon
  <2> QED BY <2>1, <2>2, <2>3, <2>4, <2>5, <2>6, Zenon
<1>13. CASE \E k \in jobs : \/ StartUpload(k) \/ StartWithoutCopy(k) \/ ChecksumFails(k)
                            \/ SkipUpload(k) \/ FinishUpload(k)
  BY <1>3, <1>4, <1>13, Zenon
<1> QED BY <1>2, <1>12, <1>13, Zenon DEF Next

LEMMA ProcessesRun ==
  ASSUME Next
  PROVE  up \subseteq up' \/ \E p \in Process : LosesMemory(p)
<1>1. ASSUME NEW p \in Process, Pass(p)
      PROVE  up' = up
  BY <1>1, Zenon DEF Pass, Schedule, ScheduleFails, HandleEvents, Cancel, Resolve,
                     DeleteCompleted
<1>2. ASSUME NEW p \in Process, \/ StoreStarted(p) \/ StoreCompleted(p) \/ RemoveCompleted(p)
                               \/ HealthCheck(p) \/ CancelByUser(p)
      PROVE  up' = up
  BY <1>2, Zenon DEF StoreStarted, StoreCompleted, RemoveCompleted, HealthCheck,
                     CheckRequests, CheckQueue, CheckRecords, CancelByUser
<1>3. ASSUME NEW p \in Process, Launch(p)
      PROVE  up' = up \cup {p}
  BY <1>3, Zenon DEF Launch
<1>4. ASSUME NEW p \in Process, Crash(p) \/ Quit(p)
      PROVE  LosesMemory(p)
  BY <1>4, Zenon DEF Crash, Quit
<1>5. ASSUME NEW j \in jobs, \/ StartUpload(j) \/ StartWithoutCopy(j) \/ ChecksumFails(j)
                            \/ SkipUpload(j) \/ FinishUpload(j)
      PROVE  up' = up
  BY <1>5, Zenon DEF StartUpload, StartWithoutCopy, ChecksumFails, SkipUpload, FinishUpload
<1>6. ASSUME NEW a \in Request, Answer(a) \/ QueueEvent(a) \/ RemoveRequest(a) \/ Transfer(a)
      PROVE  up' = up
  BY <1>6, Zenon DEF Answer, QueueEvent, RemoveRequest, Transfer, memory
<1> QED BY <1>1, <1>2, <1>3, <1>4, <1>5, <1>6, Zenon DEF Next

LEMMA StartingStep ==
  ASSUME Inductive, Starting, Next
  PROVE  Starting'
<1>1. step \in [Process -> {"idle", "started", "finished", "remove", "check", "kvs", "db"}]
      /\ block \in [Process -> SUBSET Job]
  BY Zenon DEF Inductive, Processes, Work, Jobs
<1>2. ASSUME NEW p \in Process, step'[p] \in {"started", "finished", "remove"}
      PROVE  block'[p] # {}
  BY <1>1, <1>2, StepsWritten, SMT DEF Starting
<1>3. ASSUME NEW p \in Process, step'[p] \in {"check", "kvs", "db"}, NEW j \in jobs'
      PROVE  j.proc # p
  <2>1. step[p] \in {"check", "kvs", "db"} \/ p \notin up
    BY <1>1, <1>3, StepsWritten, SMT
  <2>2. \A k \in jobs : k.proc # p
    <3>1. \A k \in jobs : k.proc \in up
      BY Zenon DEF Inductive, Work, Jobs, Fits
    <3> QED BY <2>1, <3>1, Zenon DEF Starting
  <2>3. CASE \E k \in jobs : j.proc = k.proc /\ j.kind = k.kind
    BY <2>2, <2>3, Zenon
  <2>4. CASE \E q \in Process : j.proc = q /\ step[q] = "idle" /\ UNCHANGED <<step, block>>
    BY <1>3, <2>4, SMT
  <2> QED BY <1>3, <2>3, <2>4, JobsComeFrom, Zenon
<1>4. ASSUME NEW p \in Process, step'[p] # "idle"
      PROVE  p \in up'
  <2>1. CASE up \subseteq up'
    <3>1. CASE p \in up
      BY <2>1, <3>1, Zenon
    <3>2. CASE p \notin up
      <4>1. step[p] = "idle" /\ block[p] = {} /\ \A j \in jobs : j.proc # p
        BY <3>2, SMT DEF Starting, Inductive, Work, Jobs, Fits
      <4> QED BY <1>1, <1>4, <4>1, StepsWritten, SMT
    <3> QED BY <3>1, <3>2, Zenon
  <2>2. ASSUME NEW q \in Process, LosesMemory(q)
        PROVE  p \in up'
    BY <1>1, <1>4, <2>2, SMT DEF LosesMemory, Starting
  <2> QED BY <2>1, <2>2, ProcessesRun, Zenon
<1> QED BY <1>2, <1>3, <1>4, Zenon DEF Starting

\* While a check is under way nothing is put into a store it has looked at,
\* unless a job starts a request meanwhile.
LEMMA LookedStep ==
  ASSUME Inductive, Stores, Looked, Next
  PROVE  Looked'
<1>1. step \in [Process -> {"idle", "started", "finished", "remove", "check", "kvs", "db"}]
      /\ found \in [Process -> BOOLEAN] /\ where \in [Request -> SUBSET Place]
  BY Zenon DEF Inductive, Processes, Requests
<1> DEFINE Sees(p) == ~ found[p] =>
             /\ step[p] = "kvs" => \A a \in Request : "http" \notin where[a]
             /\ step[p] = "db" => \A a \in Request : where[a] \cap {"http", "kvs"} = {}
           Off(p) == step'[p] \notin {"kvs", "db"}
           Same(p) == step'[p] = step[p] /\ found'[p] = found[p]
           Less == \A a \in Request : where'[a] \subseteq where[a]
\* Same step, and nothing new in a store.
<1>2. ASSUME NEW p \in Process, Sees(p), Same(p), Less
      PROVE  Sees(p)'
  BY <1>2, SMT
<1>3. ASSUME NEW p \in Process, Off(p)
      PROVE  Sees(p)'
  BY <1>3, Zenon
<1>4. ASSUME NEW p \in Process, Same(p), ~ Locked
      PROVE  Off(p)
  BY <1>4, SMT DEF Locked
<1>5. ASSUME where' = where
      PROVE  Less
  BY <1>5, Zenon
<1>6. ASSUME NEW q \in Process, Pass(q), NEW p \in Process
      PROVE  Off(p)
  <2>1. Same(p) /\ ~ Locked
    BY <1>6, Zenon DEF Pass, Schedule, ScheduleFails, HandleEvents, Cancel, Resolve,
                       DeleteCompleted, Visit
  <2> QED BY <1>4, <2>1, Zenon
<1>7. ASSUME NEW q \in Process, StoreStarted(q) \/ StoreCompleted(q) \/ RemoveCompleted(q),
             NEW p \in Process
      PROVE  Off(p)
  <2>1. /\ ~ Locked /\ \E s \in {"idle", "remove"} : step' = [step EXCEPT ![q] = s]
    BY <1>7, Zenon DEF StoreStarted, StoreCompleted, RemoveCompleted
  <2> QED BY <1>1, <2>1, SMT DEF Locked
<1>8. ASSUME NEW j \in jobs, StartUpload(j) \/ StartWithoutCopy(j), ~ foreign',
             NEW p \in Process
      PROVE  Off(p)
  <2>1. /\ ~ Locked /\ step' = [step EXCEPT ![j.proc] = "started"]
    BY <1>8, Zenon DEF StartUpload, StartWithoutCopy
  <2> QED BY <1>1, <2>1, SMT DEF Locked
<1>9. ASSUME NEW j \in jobs, ChecksumFails(j) \/ SkipUpload(j) \/ FinishUpload(j),
             NEW p \in Process, Sees(p)
      PROVE  Sees(p)'
  <2>1. /\ found' = found /\ where' = where
        /\ step' = step \/ step' = [step EXCEPT ![j.proc] = "finished"]
    BY <1>9, Zenon DEF ChecksumFails, SkipUpload, FinishUpload, disk
  <2>2. Same(p) \/ Off(p)
    BY <1>1, <2>1, SMT
  <2> QED BY <1>2, <1>3, <1>5, <1>9, <2>1, <2>2, Zenon
<1>10. ASSUME NEW a \in Request, Answer(a) \/ QueueEvent(a) \/ RemoveRequest(a),
              NEW p \in Process, Sees(p)
       PROVE  Sees(p)'
  <2>1. step' = step /\ found' = found
    BY <1>10, Zenon DEF Answer, QueueEvent, RemoveRequest, memory
  <2>2. CASE where' = where \/ where' = [where EXCEPT ![a] = where[a] \ {"http"}]
    <3>1. Less
      BY <1>1, <2>2, SMT
    <3> QED BY <1>2, <1>10, <2>1, <3>1, Zenon
  <2>3. CASE where[a] = {"http"} /\ where' = [where EXCEPT ![a] = {"http", "kvs"}]
    BY <1>1, <1>10, <2>1, <2>3, SMT
  <2> QED BY <1>10, <2>2, <2>3, Zenon DEF Answer, QueueEvent, RemoveRequest
<1>11. ASSUME NEW a \in Request, Transfer(a), NEW p \in Process
       PROVE  Off(p)
  BY <1>4, <1>11, Zenon DEF Transfer, memory
<1>12. ASSUME NEW q \in Process, CheckRequests(q), NEW p \in Process
       PROVE  Sees(p)'
  <2>1. /\ step[q] = "check" /\ ~ Locked /\ where' = where
        /\ found' = [found EXCEPT ![q] = Holds("http")] /\ step' = [step EXCEPT ![q] = "kvs"]
    BY <1>12, Zenon DEF CheckRequests, disk
  <2>2. CASE p = q
    BY <1>1, <2>1, <2>2, SMT DEF Holds
  <2>3. CASE p # q
    BY <1>1, <2>1, <2>3, SMT DEF Locked
  <2> QED BY <2>2, <2>3, Zenon
<1>13. ASSUME NEW q \in Process, CheckQueue(q), NEW p \in Process, Sees(p)
       PROVE  Sees(p)'
  <2>1. /\ step[q] = "kvs" /\ where' = where
        /\ found' = [found EXCEPT ![q] = found[q] \/ Holds("kvs")]
        /\ step' = [step EXCEPT ![q] = "db"]
    BY <1>13, Zenon DEF CheckQueue, disk
  <2>2. CASE p = q
    <3>1. found'[q] = (found[q] \/ Holds("kvs")) /\ step'[q] = "db"
      BY <1>1, <2>1, SMT
    <3>2. ~ found'[q] => ~ found[q] /\ ~ Holds("kvs")
      BY <3>1, Raised, Zenon
    <3>3. ~ found[q] => \A a \in Request : "http" \notin where[a]
      BY <1>13, <2>1, <2>2, Zenon
    <3>4. ~ found'[q] => \A a \in Request : where[a] \cap {"http", "kvs"} = {}
      BY <3>2, <3>3, SMT DEF Holds
    <3> QED BY <2>1, <2>2, <3>1, <3>4, SMT
  <2>3. CASE p # q
    <3>1. Same(p)
      BY <1>1, <2>1, <2>3, SMT
    <3> QED BY <1>2, <1>5, <1>13, <2>1, <3>1, Zenon
  <2> QED BY <2>2, <2>3, Zenon
<1>14. ASSUME NEW q \in Process, CheckRecords(q) \/ Launch(q) \/ Crash(q) \/ Quit(q) \/ CancelByUser(q),
              NEW p \in Process, Sees(p)
       PROVE  Sees(p)'
  <2>1. /\ where' = where
        /\ found' = found \/ found' = [found EXCEPT ![q] = FALSE]
        /\ \/ \E s \in {"idle", "check"} : step' = [step EXCEPT ![q] = s]
           \/ step' = step /\ found' = found
    BY <1>14, Zenon DEF CheckRecords, Launch, Crash, Quit, CancelByUser, LosesMemory, disk
  <2>2. Same(p) \/ Off(p)
    BY <1>1, <2>1, SMT
  <2> QED BY <1>2, <1>3, <1>5, <1>14, <2>1, <2>2, Zenon
<1>15. ~ foreign' => ~ foreign
  BY ForeignStays, Zenon
<1>16. ASSUME ~ foreign', NEW p \in Process
       PROVE  Sees(p)'
  <2>1. Sees(p)
    BY <1>15, <1>16, Zenon DEF Looked
  <2> HIDE DEF Sees, Off
  <2> QED BY <1>3, <1>6, <1>7, <1>8, <1>9, <1>10, <1>11, <1>12, <1>13, <1>14, <1>16, <2>1,
             Zenon DEF Next, HealthCheck
<1> QED BY <1>16, Zenon DEF Looked

-----------------------------------------------------------------------------
(* Instances and the row *)

LEMMA KnownIn ==
  ASSUME NEW d
  PROVE  d \in Known <=> (\/ d \in row
                          \/ \E p \in Process : d \in cur[p]
                          \/ \E j \in jobs : d \in j.inst
                          \/ \E p \in Process : \E j \in block[p] : d \in j.inst)
<1> DEFINE A == UNION {cur[p] : p \in Process}
           B == UNION {j.inst : j \in jobs}
           C(p) == UNION {j.inst : j \in block[p]}
           D == UNION {C(p) : p \in Process}
<1>1. d \in A <=> \E p \in Process : d \in cur[p]
  BY SMT
<1>2. d \in B <=> \E j \in jobs : d \in j.inst
  BY SMT
<1>3. ASSUME NEW p \in Process
      PROVE  d \in C(p) <=> \E j \in block[p] : d \in j.inst
  BY SMT
<1>4. d \in D <=> \E p \in Process : d \in C(p)
  BY Zenon
<1>5. Known = row \cup A \cup B \cup D
  BY Zenon DEF Known
<1> HIDE DEF A, B, C, D
<1>6. d \in D <=> \E p \in Process : \E j \in block[p] : d \in j.inst
  BY <1>3, <1>4, Zenon
<1>7. d \in Known <=> d \in row \/ d \in A \/ d \in B \/ d \in D
  BY <1>5, Zenon
<1> QED BY <1>1, <1>2, <1>6, <1>7, Zenon

LEMMA KnownData ==
  ASSUME Inductive
  PROVE  /\ Known \subseteq Data /\ row \subseteq Known
         /\ \A p \in Process : cur[p] \subseteq Known
         /\ \A j \in jobs : j.inst \subseteq Known
         /\ \A p \in Process : \A j \in block[p] : j.inst \subseteq Known
<1>1. /\ row \subseteq Data
      /\ \A p \in Process : cur[p] \subseteq Data
      /\ \A j \in jobs : Fits(j)
      /\ \A p \in Process : \A j \in block[p] : Fits(j)
  BY SMT DEF Inductive, Work, Instances, Jobs
<1>2. \A j : Fits(j) => j.inst \subseteq Data
  BY SMT DEF Fits, Job
<1>3. Known \subseteq Data
  BY <1>1, <1>2, KnownIn, SMT
<1>4. \A d : \/ d \in row
             \/ \E p \in Process : d \in cur[p]
             \/ \E j \in jobs : d \in j.inst
             \/ \E p \in Process : \E j \in block[p] : d \in j.inst
             => d \in Known
  BY KnownIn, Zenon
<1> QED BY <1>3, <1>4, Zenon

LEMMA KnownKept ==
  ASSUME NEW S, row' \subseteq S,
         \A p \in Process : cur'[p] \subseteq S,
         \A j \in jobs' : j.inst \subseteq S,
         \A p \in Process : \A j \in block'[p] : j.inst \subseteq S
  PROVE  Known' \subseteq S
<1> DEFINE A == UNION {cur'[p] : p \in Process}
           B == UNION {j.inst : j \in jobs'}
           C(p) == UNION {j.inst : j \in block'[p]}
           D == UNION {C(p) : p \in Process}
<1>1. Known' = row' \cup A \cup B \cup D
  BY Zenon DEF Known
<1>2. A \subseteq S
  BY SMT
<1>3. B \subseteq S
  BY SMT
<1>4. \A p \in Process : C(p) \subseteq S
  BY SMT
<1> HIDE DEF A, B, C
<1>5. D \subseteq S
  BY <1>4, SMT
<1> HIDE DEF D
<1> QED BY <1>1, <1>2, <1>3, <1>5, Zenon

LEMMA DetachedKnown ==
  ASSUME Inductive, NEW p \in Process
  PROVE  /\ \A j \in Detached(p) : j.inst \subseteq Known
         /\ \A j \in JobsAfterLoad(p) : j.inst \subseteq Known
<1>1. Work /\ cur[p] \subseteq Known /\ \A j \in jobs : j.inst \subseteq Known
  BY KnownData, Zenon DEF Inductive
<1>2. ASSUME NEW k \in Detached(p)
      PROVE  k.inst \subseteq Known
  <2>1. \E j \in jobs : k.inst = j.inst \/ k.inst = cur[p]
    BY <1>1, DetachedFit, Zenon
  <2> QED BY <1>1, <2>1, Zenon
<1>3. ASSUME NEW k \in JobsAfterLoad(p)
      PROVE  k.inst \subseteq Known
  <2>1. \E j \in jobs : k.inst = j.inst \/ k.inst = cur[p]
    BY <1>1, LoadedJobsFit, Zenon
  <2> QED BY <1>1, <2>1, Zenon
<1> QED BY <1>2, <1>3, Zenon

\* As long as the row has the last revision, a cache of that revision holds it.
LEMMA LoadedIsRow ==
  ASSUME Inductive, Latest, NEW p \in Process, row # {}
  PROVE  row = {Loaded(p)} /\ Loaded(p) \in Data
<1>1. PICK r \in row : row = {r} /\ r \in Data
  BY SMT DEF Inductive, Work, Instances, Single
<1>2. CASE CacheValid(p)
  <2>1. PICK d \in cur[p] : d.rev = r.rev
    BY <1>1, <1>2, Zenon DEF CacheValid
  <2>2. cur[p] = {d}
    BY <2>1, SMT DEF Inductive, Work, Instances, Single
  <2>3. The(cur[p]) \in cur[p]
    BY <2>1, TheIn, Zenon
  <2>4. Loaded(p) = d
    BY <1>2, <2>2, <2>3, Zenon DEF Loaded
  <2>5. d \in Known /\ d \in Data
    BY <2>1, KnownData, Zenon
  <2>6. ~ (d.rev < r.rev)
    BY <1>1, <2>1, <2>5, SMT DEF Data
  <2>7. d = r
    BY <1>1, <2>5, <2>6, Zenon DEF Latest
  <2> QED BY <1>1, <2>4, <2>7, Zenon
<1>3. CASE ~ CacheValid(p)
  <2>1. The(row) \in row /\ Loaded(p) = The(row)
    BY <1>1, <1>3, TheIn, Zenon DEF Loaded
  <2> QED BY <1>1, <2>1, Zenon
<1> QED BY <1>2, <1>3, Zenon

\* So does the instance of a job, if its revision is that of the row.
LEMMA InstanceIsRow ==
  ASSUME Inductive, Latest, row # {},
         NEW j, j \in jobs \/ \E p \in Process : j \in block[p],
         \A r \in row : InstanceOf(j).rev = r.rev
  PROVE  row = {InstanceOf(j)}
<1>1. PICK r \in row : row = {r} /\ r \in Data
  BY SMT DEF Inductive, Work, Instances, Single
<1>2. Fits(j) /\ j.proc \in Process
  BY Zenon DEF Inductive, Work, Jobs, Fits, Processes
<1>3. InstanceOf(j) \in Known
  <2>1. CASE j.inst = {}
    <3>1. InstanceOf(j) \in cur[j.proc]
      BY <1>2, <2>1, TheIn, Zenon DEF InstanceOf, Fits
    <3> QED BY <1>2, <3>1, KnownData, Zenon
  <2>2. CASE j.inst # {}
    <3>1. InstanceOf(j) \in j.inst
      BY <2>2, TheIn, Zenon DEF InstanceOf
    <3> QED BY <3>1, KnownData, Zenon
  <2> QED BY <2>1, <2>2, Zenon
<1>4. ~ (InstanceOf(j).rev < r.rev)
  BY <1>1, SMT DEF Data
<1>5. InstanceOf(j) = r
  BY <1>1, <1>3, <1>4, Zenon DEF Latest
<1> QED BY <1>1, <1>5, Zenon

\* The row gets the revision after its own, or stays, or goes.
LEMMA LatestKept ==
  ASSUME Inductive, Latest, Known' \subseteq Known \cup row',
         \/ row' = {} \/ row' = row
         \/ \E d, e \in Data : row = {d} /\ row' = {e} /\ e.rev = d.rev + 1
  PROVE  Latest'
<1>1. CASE row' = {}
  BY <1>1, Zenon DEF Latest
<1>2. CASE row' = row
  <2>1. Known' \subseteq Known
    BY <1>2, KnownData, Zenon
  <2> QED BY <1>2, <2>1, Zenon DEF Latest
<1>3. ASSUME NEW d \in Data, NEW e \in Data, row = {d}, row' = {e}, e.rev = d.rev + 1
      PROVE  Latest'
  <2>1. ASSUME NEW x \in Known
        PROVE  x.rev < e.rev
    <3>1. x \in Data /\ (x.rev < d.rev \/ x = d)
      BY <1>3, KnownData, Zenon DEF Latest
    <3>2. x.rev \in Nat /\ d.rev \in Nat
      BY <3>1, SMT DEF Data
    <3> QED BY <1>3, <3>1, <3>2, SMT
  <2>2. \A x \in Known' : x.rev < e.rev \/ x = e
    BY <1>3, <2>1, Zenon
  <2> QED BY <1>3, <2>2, Zenon DEF Latest
<1> QED BY <1>1, <1>2, <1>3, Zenon

\* A process stores what it loaded, with the next revision.
LEMMA StoredLatest ==
  ASSUME Inductive, Latest, NEW p \in Process, row # {},
         NEW d \in Data, d.rev = Loaded(p).rev, Store(p, d), block' = block,
         \A j \in jobs' : j \in JobsAfterLoad(p) \/ j.inst = {}
  PROVE  Latest' /\ row' = {Next1(d)}
<1>1. row' = {Next1(d)} /\ cur' = [cur EXCEPT ![p] = {Next1(d)}]
  BY Zenon DEF Store
<1>2. row = {Loaded(p)} /\ Loaded(p) \in Data
  BY LoadedIsRow, Zenon
<1>3. Next1(d) \in Data /\ Next1(d).rev = Loaded(p).rev + 1
  BY SMT DEF Next1, Data
<1> DEFINE S == Known \cup row'
<1>4. \A q \in Process : cur'[q] \subseteq S
  <2>1. \A q \in Process : cur'[q] = IF q = p THEN {Next1(d)} ELSE cur[q]
    BY <1>1, SMT DEF Inductive, Work, Instances
  <2> QED BY <1>1, <2>1, KnownData, Zenon
<1>5. \A j \in jobs' : j.inst \subseteq S
  BY DetachedKnown, Zenon
<1>6. \A q \in Process : \A j \in block'[q] : j.inst \subseteq S
  BY KnownData, Zenon
<1>7. row' \subseteq S
  BY Zenon
<1>8. Known' \subseteq S
  <2> HIDE DEF S
  <2> QED BY <1>4, <1>5, <1>6, <1>7, KnownKept, Zenon
<1> QED BY <1>1, <1>2, <1>3, <1>8, LatestKept, Zenon

\* A block that stores an instance of the row's revision stores the row.
LEMMA InstanceStored ==
  ASSUME Inductive, Latest, NEW j, j \in jobs \/ \E p \in Process : j \in block[p],
         NEW d \in Data, d.rev = InstanceOf(j).rev, StoreInstance(j, d), ~ overwritten',
         jobs' \subseteq jobs, \A p \in Process : block'[p] \subseteq block[p]
  PROVE  /\ Latest'
         /\ row = {} => row' = {}
         /\ row # {} => row = {InstanceOf(j)} /\ row' = {Next1(d)}
<1>1. /\ row' = IF row = {} THEN {} ELSE {Next1(d)}
      /\ cur' = IF j.inst = {} THEN [cur EXCEPT ![j.proc] = {Next1(d)}] ELSE cur
  BY Zenon DEF StoreInstance
<1>2. \A r \in row : InstanceOf(j).rev = r.rev
  BY StoringMarks, Zenon
<1>3. CASE row = {}
  BY <1>1, <1>3, Zenon DEF Latest
<1>4. CASE row # {}
  <2>1. row = {InstanceOf(j)} /\ row' = {Next1(d)}
    BY <1>1, <1>2, <1>4, InstanceIsRow, Zenon
  <2>2. InstanceOf(j) \in Data
    BY <2>1, KnownData, Zenon
  <2>3. Next1(d) \in Data /\ Next1(d).rev = InstanceOf(j).rev + 1
    BY <2>2, SMT DEF Next1, Data
  <2> DEFINE S == Known \cup row'
  <2>4. \A q \in Process : cur'[q] \subseteq S
    <3>1. \A q \in Process : cur'[q] = {Next1(d)} \/ cur'[q] = cur[q]
      BY <1>1, SMT DEF Inductive, Work, Instances
    <3> QED BY <2>1, <3>1, KnownData, Zenon
  <2>5. \A k \in jobs' : k.inst \subseteq S
    BY KnownData, Zenon
  <2>6. \A q \in Process : \A k \in block'[q] : k.inst \subseteq S
    BY KnownData, Zenon
  <2>7. row' \subseteq S
    BY Zenon
  <2>8. Known' \subseteq S
    <3> HIDE DEF S
    <3> QED BY <2>4, <2>5, <2>6, <2>7, KnownKept, Zenon
  <2>9. Latest'
    BY <2>1, <2>2, <2>3, <2>8, LatestKept, Zenon
  <2> QED BY <1>4, <2>1, <2>9, Zenon
<1> QED BY <1>3, <1>4, Zenon

-----------------------------------------------------------------------------
(* One attempt at a time *)

LEMMA Shrinks ==
  ASSUME Alone, Parked, Single(jobs'), jobs' # {} => jobs # {},
         Outstanding' \subseteq Outstanding, Finishing' \subseteq Finishing,
         row' = row \/ row' = {}
  PROVE  Alone' /\ Parked'
<1>1. Alone'
  <2>1. Single(Outstanding)' /\ Single(Finishing)'
    BY Zenon DEF Alone, Single
  <2>2. Single(jobs)'
    BY Zenon DEF Single
  <2>3. jobs' # {} => Outstanding' = {} /\ Finishing' = {}
    BY Zenon DEF Alone
  <2>4. Outstanding' # {} => Finishing' = {}
    BY Zenon DEF Alone
  <2> QED BY <2>1, <2>2, <2>3, <2>4, Zenon DEF Alone
<1>2. UnderWay' => UnderWay
  BY Zenon DEF UnderWay
<1> QED BY <1>1, <1>2, Zenon DEF Parked

LEMMA Rests ==
  ASSUME jobs' = {}, Outstanding' = {}, Finishing' = {}
  PROVE  Alone' /\ Parked'
BY Zenon DEF Alone, Parked, UnderWay, Single

LEMMA NothingUnderWay ==
  ASSUME Inductive, Undisturbed, NEW p \in Process, row # {},
         Loaded(p).state # "processing" \/ Loaded(p).wait # "none"
  PROVE  jobs = {} /\ Outstanding = {} /\ Finishing = {}
BY LoadedIsRow, Zenon DEF Undisturbed, Parked, UnderWay

\* Loads and removals only detach or drop jobs.
LEMMA JobsSingle ==
  ASSUME Single(jobs), NEW p \in Process
  PROVE  /\ Single(Detached(p)) /\ (Detached(p) # {} => jobs # {})
         /\ Single(JobsAfterLoad(p)) /\ (JobsAfterLoad(p) # {} => jobs # {})
         /\ \A c \in BOOLEAN : Remove(p, c) => Single(jobs') /\ (jobs' # {} => jobs # {})
<1>1. Single(Detached(p)) /\ (Detached(p) # {} => jobs # {})
  BY Zenon DEF Single, Detached
<1>2. Single(JobsAfterLoad(p)) /\ (JobsAfterLoad(p) # {} => jobs # {})
  BY <1>1, Zenon DEF JobsAfterLoad
<1>3. ASSUME NEW c \in BOOLEAN, Remove(p, c)
      PROVE  Single(jobs') /\ (jobs' # {} => jobs # {})
  BY <1>1, <1>3, Zenon DEF Remove, Single
<1> QED BY <1>1, <1>2, <1>3, Zenon

LEMMA FinishingLess ==
  ASSUME Inductive, NEW p \in Process, NEW s, s # "finished",
         step' = [step EXCEPT ![p] = s]
  PROVE  Finishing' = Finishing \ {p}
BY SMT DEF Inductive, Processes, Finishing

\* A pass that removes the record leaves at most what was under way.
LEMMA RemovingUndisturbed ==
  ASSUME Inductive, Undisturbed, NEW p \in Process, NEW c \in BOOLEAN, Remove(p, c),
         Outstanding' \subseteq Outstanding, Finishing' \subseteq Finishing
  PROVE  Undisturbed'
<1>1. row' = {}
  BY Zenon DEF Remove
<1>2. Latest'
  BY <1>1, Zenon DEF Latest
<1>3. Single(jobs') /\ (jobs' # {} => jobs # {})
  BY JobsSingle, Zenon DEF Undisturbed, Alone
<1> QED BY <1>1, <1>2, <1>3, Shrinks, Zenon DEF Undisturbed

\* What only forgets instances, and adds and restarts nothing.
LEMMA QuietUndisturbed ==
  ASSUME Inductive, Undisturbed, row' = row,
         \A p \in Process : cur'[p] \subseteq cur[p],
         jobs' \subseteq jobs,
         \A p \in Process : block'[p] \subseteq block[p],
         Outstanding' \subseteq Outstanding, Finishing' \subseteq Finishing
  PROVE  Undisturbed'
<1>1. Known' \subseteq Known
  BY KnownData, KnownKept, Zenon
<1>2. Latest'
  BY <1>1, LatestKept, Zenon DEF Undisturbed
<1>3. Single(jobs') /\ (jobs' # {} => jobs # {})
  BY Zenon DEF Undisturbed, Alone, Single
<1> QED BY <1>2, <1>3, Shrinks, Zenon DEF Undisturbed

LEMMA SameOutstanding ==
  ASSUME where' = where, answer' = answer
  PROVE  Outstanding' = Outstanding
BY Zenon DEF Outstanding

LEMMA SameFinishing ==
  ASSUME step' = step
  PROVE  Finishing' = Finishing
BY Zenon DEF Finishing

LEMMA Written ==
  ASSUME NEW d \in Data
  PROVE  /\ [d EXCEPT !.state = "processing", !.copied = TRUE].rev = d.rev
         /\ Next1([d EXCEPT !.state = "processing", !.copied = TRUE]).state = "processing"
         /\ Next1([d EXCEPT !.state = "processing", !.copied = TRUE]).wait = d.wait
         /\ [d EXCEPT !.state = "processing", !.wait = "cancel"].rev = d.rev
         /\ [d EXCEPT !.state = "processing", !.copied = TRUE, !.wait = "retry"].rev = d.rev
         /\ [d EXCEPT !.state = "processing", !.wait = "retry"].rev = d.rev
         /\ Next1([d EXCEPT !.state = "processing", !.wait = "retry"]).wait = "retry"
         /\ [d EXCEPT !.state = "ready", !.wait = "none"].rev = d.rev
         /\ [d EXCEPT !.state = "ready"].rev = d.rev
         /\ [d EXCEPT !.wait = "none", !.sum = TRUE].rev = d.rev
         /\ Next1([d EXCEPT !.wait = "none", !.sum = TRUE]).state = d.state
         /\ Next1([d EXCEPT !.wait = "none", !.sum = TRUE]).wait = "none"
         /\ [d EXCEPT !.wait = "cancel"].rev = d.rev
         /\ [d EXCEPT !.state = "completed", !.wait = "none"].rev = d.rev
         /\ Next1([d EXCEPT !.state = "completed", !.wait = "none"]).state = "completed"
         /\ Next1([d EXCEPT !.state = "completed", !.wait = "none"]).wait = "none"
BY SMT DEF Data, Next1

\* A pass starts the upload of a record that waits for nothing.
LEMMA ScheduleUndisturbed ==
  ASSUME Inductive, Undisturbed, NEW p \in Process, Schedule(p)
  PROVE  Undisturbed'
<1> DEFINE d == [Loaded(p) EXCEPT !.state = "processing", !.copied = TRUE]
           h == [proc |-> p, kind |-> "hash", inst |-> {}]
<1>1. /\ row # {} /\ Loaded(p).state = "ready" /\ Loaded(p).wait = "none"
      /\ Store(p, d) /\ jobs' = JobsAfterLoad(p) \cup {h}
      /\ block' = block /\ where' = where /\ answer' = answer /\ step' = step
  BY Zenon DEF Schedule, Visit, Waits
<1>2. jobs = {} /\ Outstanding = {} /\ Finishing = {}
  <2>1. Loaded(p).state # "processing"
    BY <1>1, Zenon
  <2> QED BY <1>1, <2>1, NothingUnderWay, Zenon
<1>3. Latest /\ Single(jobs)
  BY Zenon DEF Undisturbed, Alone
<1>4. Loaded(p) \in Data
  BY <1>1, <1>3, LoadedIsRow, Zenon
<1>5. d \in Data /\ d.rev = Loaded(p).rev
  BY <1>4, Edits, Written, Zenon
<1>6. jobs' = {h} /\ h.inst = {}
  BY <1>1, <1>2, <1>3, JobsSingle, Zenon
<1>7. Next1(d).state = "processing" /\ Next1(d).wait = "none"
  BY <1>1, <1>4, Written, Zenon
<1> HIDE DEF d, h
<1>8. Latest' /\ row' = {Next1(d)}
  BY <1>1, <1>3, <1>5, <1>6, StoredLatest, Zenon
<1>9. Outstanding' = {} /\ Finishing' = {}
  BY <1>1, <1>2, SameOutstanding, SameFinishing, Zenon
<1>10. Alone'
  BY <1>6, <1>9, Zenon DEF Alone, Single
<1>11. Parked'
  BY <1>7, <1>8, Zenon DEF Parked
<1> QED BY <1>8, <1>10, <1>11, Zenon DEF Undisturbed

\* What a pass stores of a record that nothing is under way for.
LEMMA StoredUndisturbed ==
  ASSUME Inductive, Undisturbed, NEW p \in Process, row # {},
         NEW d \in Data, d.rev = Loaded(p).rev, Store(p, d), block' = block,
         jobs' = JobsAfterLoad(p), jobs = {}, Outstanding' = {}, Finishing' = {}
  PROVE  Undisturbed'
<1>1. Latest /\ Single(jobs)
  BY Zenon DEF Undisturbed, Alone
<1>2. jobs' = {}
  BY <1>1, JobsSingle, Zenon
<1>3. Latest'
  BY <1>1, StoredLatest, Zenon
<1> QED BY <1>2, <1>3, Rests, Zenon DEF Undisturbed

LEMMA ScheduleFailsUndisturbed ==
  ASSUME Inductive, Undisturbed, NEW p \in Process, ScheduleFails(p)
  PROVE  Undisturbed'
<1>1. /\ row # {} /\ Loaded(p).state = "ready"
      /\ \/ Store(p, [Loaded(p) EXCEPT !.state = "processing", !.wait = "cancel"])
         \/ Store(p, [Loaded(p) EXCEPT !.state = "processing", !.copied = TRUE,
                                       !.wait = "retry"])
      /\ jobs' = JobsAfterLoad(p)
      /\ block' = block /\ where' = where /\ answer' = answer /\ step' = step
  BY Zenon DEF ScheduleFails, Visit
<1>2. jobs = {} /\ Outstanding = {} /\ Finishing = {}
  <2>1. Loaded(p).state # "processing"
    BY <1>1, Zenon
  <2> QED BY <1>1, <2>1, NothingUnderWay, Zenon
<1>3. Outstanding' = {} /\ Finishing' = {}
  BY <1>1, <1>2, SameOutstanding, SameFinishing, Zenon
<1>4. Loaded(p) \in Data
  BY <1>1, LoadedIsRow, Zenon DEF Undisturbed
<1>5. PICK d \in Data : d.rev = Loaded(p).rev /\ Store(p, d)
  BY <1>1, <1>4, Edits, Written, Zenon
<1> QED BY <1>1, <1>2, <1>3, <1>5, StoredUndisturbed, Zenon

LEMMA ResolveUndisturbed ==
  ASSUME Inductive, Undisturbed, NEW p \in Process, Resolve(p)
  PROVE  Undisturbed'
<1>1. /\ row # {} /\ Loaded(p).wait # "none"
      /\ block' = block /\ where' = where /\ answer' = answer /\ step' = step
  BY Zenon DEF Resolve, Visit, Waits
<1>2. jobs = {} /\ Outstanding = {} /\ Finishing = {}
  BY <1>1, NothingUnderWay, Zenon
<1>3. Outstanding' = {} /\ Finishing' = {}
  BY <1>1, <1>2, SameOutstanding, SameFinishing, Zenon
<1>4. CASE Deschedule(p)
  <2>1. Remove(p, CacheValid(p)) /\ CacheValid(p) \in BOOLEAN
    BY <1>4, Zenon DEF Deschedule, CacheValid
  <2> QED BY <1>2, <1>3, <2>1, RemovingUndisturbed, Zenon
<1>5. CASE /\ Store(p, [Loaded(p) EXCEPT !.state = "ready", !.wait = "none"])
           /\ jobs' = JobsAfterLoad(p)
  <2>1. Loaded(p) \in Data
    BY <1>1, LoadedIsRow, Zenon DEF Undisturbed
  <2>2. PICK d \in Data : d.rev = Loaded(p).rev /\ Store(p, d)
    BY <1>5, <2>1, Edits, Written, Zenon
  <2> QED BY <1>1, <1>2, <1>3, <1>5, <2>2, StoredUndisturbed, Zenon
<1> QED BY <1>4, <1>5, Zenon DEF Resolve

LEMMA CancelUndisturbed ==
  ASSUME Inductive, Undisturbed, NEW p \in Process, Cancel(p) \/ DeleteCompleted(p)
  PROVE  Undisturbed'
<1>1. /\ Remove(p, CacheValid(p)) /\ CacheValid(p) \in BOOLEAN
      /\ where' = where /\ answer' = answer /\ step' = step
  BY Zenon DEF Cancel, DeleteCompleted, Deschedule, CacheValid
<1>2. Outstanding' \subseteq Outstanding /\ Finishing' \subseteq Finishing
  BY <1>1, SameOutstanding, SameFinishing, Zenon
<1> QED BY <1>1, <1>2, RemovingUndisturbed, Zenon

\* The events are that of the one open request.  What is done about them: the
\* record is removed, or verified, or waits for an answer.
LEMMA EventsHandled ==
  ASSUME Inductive, Stores, Undisturbed, NEW p \in Process, HandleEvents(p)
  PROVE  \E a \in Request :
           /\ Outstanding = {a} /\ Outstanding' = {}
           /\ answer[a] \in {"ok", "failed", "cancelled"}
           /\ jobs = {} /\ Finishing = {} /\ Finishing' = {} /\ row # {}
           /\ block' = block /\ step' = step
           /\ \/ Remove(p, CacheValid(p))
              \/ /\ answer[a] = "ok"
                 /\ jobs' = {[proc |-> p, kind |-> "verify", inst |-> {}]}
                 /\ cur' = [cur EXCEPT ![p] = {Loaded(p)}] /\ row' = row
              \/ /\ answer[a] = "failed" /\ jobs' = {}
                 /\ Store(p, [Loaded(p) EXCEPT !.state = "processing", !.wait = "retry"])
<1> DEFINE d == Loaded(p)
           is(o) == \E b \in Events : answer[b] = o
           v == [proc |-> p, kind |-> "verify", inst |-> {}]
           f == [d EXCEPT !.state = "processing", !.wait = "retry"]
<1>1. /\ row # {} /\ block' = block /\ step' = step
      /\ \/ Remove(p, CacheValid(p))
         \/ /\ ~ is("cancelled")
            /\ jobs' = JobsAfterLoad(p) \cup IF is("ok") THEN {v} ELSE {}
            /\ IF is("failed") THEN Store(p, f)
               ELSE cur' = [cur EXCEPT ![p] = {d}] /\ row' = row
  BY Zenon DEF HandleEvents, Visit, Deschedule
<1>2. /\ Events # {} /\ Events \subseteq Outstanding
      /\ \A a \in Events : answer[a] \in {"ok", "failed", "cancelled"}
      /\ Outstanding' = Outstanding \ Events
  BY HandledClosed, Zenon
<1>3. PICK a \in Events : a \in Outstanding
  BY <1>2, Zenon
<1>4. Single(Outstanding) /\ Single(jobs) /\ jobs = {} /\ Finishing = {}
  BY <1>3, Zenon DEF Undisturbed, Alone
<1>5. Outstanding = {a} /\ Events = {a} /\ a \in Request
  BY <1>2, <1>3, <1>4, SMT DEF Single, Events
<1>6. Outstanding' = {} /\ Finishing' = {}
  BY <1>1, <1>2, <1>4, <1>5, SameFinishing, SMT
<1>7. JobsAfterLoad(p) = {}
  BY <1>4, JobsSingle, Zenon
<1>8. \A o : is(o) <=> answer[a] = o
  BY <1>5, Zenon
<1>9. answer[a] \in {"ok", "failed", "cancelled"}
  BY <1>2, <1>3, Zenon
<1> HIDE DEF d, is, v, f
<1>10. \/ Remove(p, CacheValid(p))
       \/ /\ answer[a] = "ok" /\ jobs' = {v}
          /\ cur' = [cur EXCEPT ![p] = {d}] /\ row' = row
       \/ /\ answer[a] = "failed" /\ jobs' = {} /\ Store(p, f)
  <2>1. CASE answer[a] = "ok"
    <3>1. is("ok") /\ ~ is("failed")
      BY <1>8, <2>1, Zenon
    <3> QED BY <1>1, <1>7, <2>1, <3>1, Zenon
  <2>2. CASE answer[a] = "failed"
    <3>1. ~ is("ok") /\ is("failed")
      BY <1>8, <2>2, Zenon
    <3> QED BY <1>1, <1>7, <2>2, <3>1, Zenon
  <2>3. CASE answer[a] = "cancelled"
    BY <1>1, <1>8, <2>3, Zenon
  <2> QED BY <1>9, <2>1, <2>2, <2>3, Zenon
<1> QED BY <1>1, <1>4, <1>5, <1>6, <1>9, <1>10, Zenon DEF d, v, f

LEMMA HandleEventsUndisturbed ==
  ASSUME Inductive, Stores, Undisturbed, NEW p \in Process, HandleEvents(p)
  PROVE  Undisturbed'
<1> DEFINE f == [Loaded(p) EXCEPT !.state = "processing", !.wait = "retry"]
           v == [proc |-> p, kind |-> "verify", inst |-> {}]
<1>1. PICK a \in Request :
           /\ Outstanding = {a} /\ Outstanding' = {}
           /\ answer[a] \in {"ok", "failed", "cancelled"}
           /\ jobs = {} /\ Finishing = {} /\ Finishing' = {} /\ row # {}
           /\ block' = block /\ step' = step
           /\ \/ Remove(p, CacheValid(p))
              \/ /\ answer[a] = "ok"
                 /\ jobs' = {v}
                 /\ cur' = [cur EXCEPT ![p] = {Loaded(p)}] /\ row' = row
              \/ answer[a] = "failed" /\ jobs' = {} /\ Store(p, f)
  BY EventsHandled, Zenon
<1>2. Latest /\ row = {Loaded(p)} /\ Loaded(p) \in Data
  BY <1>1, LoadedIsRow, Zenon DEF Undisturbed
<1>3. CASE Remove(p, CacheValid(p))
  <2>1. CacheValid(p) \in BOOLEAN
    BY Zenon DEF CacheValid
  <2> QED BY <1>1, <1>3, <2>1, RemovingUndisturbed, Zenon
<1>4. CASE jobs' = {v} /\ cur' = [cur EXCEPT ![p] = {Loaded(p)}] /\ row' = row
  <2>1. \A q \in Process : cur'[q] = {Loaded(p)} \/ cur'[q] = cur[q]
    BY <1>4, SMT DEF Inductive, Work, Instances
  <2>2. \A q \in Process : cur'[q] \subseteq Known
    BY <1>2, <2>1, KnownData, Zenon
  <2>3. \A j \in jobs' : j.inst \subseteq Known
    <3>1. v.inst = {}
      BY Zenon
    <3> HIDE DEF v
    <3> QED BY <1>4, <3>1, Zenon
  <2>4. Known' \subseteq Known
    BY <1>1, <1>4, <2>2, <2>3, KnownData, KnownKept, Zenon
  <2>5. Latest'
    BY <1>2, <1>4, <2>4, LatestKept, Zenon
  <2>6. Alone'
    BY <1>1, <1>4, Zenon DEF Alone, Single
  <2>7. Parked'
    BY <1>1, <1>4, Zenon DEF Parked, UnderWay, Undisturbed
  <2> QED BY <2>5, <2>6, <2>7, Zenon DEF Undisturbed
<1>5. CASE jobs' = {} /\ Store(p, f)
  <2>1. f \in Data /\ f.rev = Loaded(p).rev
    BY <1>2, Edits, Written, Zenon
  <2>2. jobs' = JobsAfterLoad(p)
    BY <1>1, <1>5, JobsSingle, Zenon DEF Undisturbed, Alone
  <2> HIDE DEF f
  <2> QED BY <1>1, <1>5, <2>1, <2>2, StoredUndisturbed, Zenon
<1> QED BY <1>1, <1>3, <1>4, <1>5, Zenon

-----------------------------------------------------------------------------
(* Jobs, their blocks and health checks *)

\* A job's request takes the place of the job.
LEMMA StartUndisturbed ==
  ASSUME Inductive, Stores, Undisturbed,
         NEW j \in jobs, StartUpload(j) \/ StartWithoutCopy(j)
  PROVE  Undisturbed'
<1>1. /\ row' = row /\ cur' = cur /\ jobs' = jobs \ {j}
      /\ block' = [block EXCEPT ![j.proc] = {j}]
      /\ step' = [step EXCEPT ![j.proc] = "started"]
  BY Zenon DEF StartUpload, StartWithoutCopy, Begin
<1>2. j.proc \in Process
  BY JobFacts, Zenon
<1>3. jobs' = {} /\ Outstanding = {} /\ Finishing = {}
  BY <1>1, SMT DEF Undisturbed, Alone, Single
<1>4. PICK a \in Request : Outstanding' = Outstanding \cup {a}
  BY RequestOpens, Zenon
<1>5. Outstanding' = {a}
  BY <1>3, <1>4, Zenon
<1>6. Finishing' = {}
  BY <1>1, <1>2, <1>3, FinishingLess, Zenon
<1>7. \A q \in Process : block'[q] = {j} \/ block'[q] = block[q]
  BY <1>1, <1>2, SMT DEF Inductive, Work, Jobs
<1>8. \A q \in Process : \A k \in block'[q] : k.inst \subseteq Known
  BY <1>7, KnownData, Zenon
<1>9. Known' \subseteq Known
  BY <1>1, <1>8, KnownData, KnownKept, Zenon
<1>10. Latest'
  BY <1>1, <1>9, LatestKept, Zenon DEF Undisturbed
<1>11. Alone'
  BY <1>3, <1>5, <1>6, Zenon DEF Alone, Single
<1>12. Parked'
  BY <1>1, Zenon DEF Parked, UnderWay, Undisturbed
<1> QED BY <1>10, <1>11, <1>12, Zenon DEF Undisturbed

LEMMA FinishUploadUndisturbed ==
  ASSUME Inductive, Undisturbed, NEW j \in jobs, FinishUpload(j)
  PROVE  Undisturbed'
<1>1. /\ row' = row /\ cur' = cur /\ jobs' = jobs \ {j}
      /\ block' = [block EXCEPT ![j.proc] = {j}]
      /\ step' = [step EXCEPT ![j.proc] = "finished"]
      /\ where' = where /\ answer' = answer
  BY Zenon DEF FinishUpload, Begin
<1>2. j.proc \in Process
  BY JobFacts, Zenon
<1>3. jobs' = {} /\ Outstanding = {} /\ Finishing = {}
  BY <1>1, SMT DEF Undisturbed, Alone, Single
<1>4. Outstanding' = {}
  BY <1>1, <1>3, SameOutstanding, Zenon
<1>5. Finishing' \subseteq {j.proc}
  BY <1>1, <1>2, <1>3, SMT DEF Finishing, Inductive, Processes
<1>6. \A q \in Process : block'[q] = {j} \/ block'[q] = block[q]
  BY <1>1, <1>2, SMT DEF Inductive, Work, Jobs
<1>7. \A q \in Process : \A k \in block'[q] : k.inst \subseteq Known
  BY <1>6, KnownData, Zenon
<1>8. Known' \subseteq Known
  BY <1>1, <1>7, KnownData, KnownKept, Zenon
<1>9. Latest'
  BY <1>1, <1>8, LatestKept, Zenon DEF Undisturbed
<1>10. Alone'
  BY <1>3, <1>4, <1>5, Zenon DEF Alone, Single
<1>11. Parked'
  BY <1>1, Zenon DEF Parked, UnderWay, Undisturbed
<1> QED BY <1>9, <1>10, <1>11, Zenon DEF Undisturbed

LEMMA StoreStartedUndisturbed ==
  ASSUME Inductive, Undisturbed, NEW p \in Process, StoreStarted(p), ~ overwritten'
  PROVE  Undisturbed'
<1>1. PICK j \in block[p] : StoreInstance(j, [InstanceOf(j) EXCEPT !.wait = "none", !.sum = TRUE])
  BY Zenon DEF StoreStarted
<1> DEFINE d == [InstanceOf(j) EXCEPT !.wait = "none", !.sum = TRUE]
<1>2. /\ jobs' = jobs /\ where' = where /\ answer' = answer
      /\ step' = [step EXCEPT ![p] = "idle"] /\ block' = [block EXCEPT ![p] = {}]
  BY Zenon DEF StoreStarted
<1>3. InstanceOf(j) \in Data
  BY BlockFacts, Zenon
<1>4. /\ d \in Data /\ d.rev = InstanceOf(j).rev
      /\ Next1(d).state = InstanceOf(j).state /\ Next1(d).wait = "none"
  BY <1>3, Edits, Written, Zenon
<1>5. \A q \in Process : block'[q] \subseteq block[q]
  BY <1>2, BlockEnds, Zenon
<1>6. StoreInstance(j, d)
  BY <1>1
<1> HIDE DEF d
<1>7. /\ Latest'
      /\ row = {} => row' = {}
      /\ row # {} => row = {InstanceOf(j)} /\ row' = {Next1(d)}
  BY <1>2, <1>4, <1>5, <1>6, InstanceStored, Zenon DEF Undisturbed
<1>8. Outstanding' = Outstanding /\ Finishing' \subseteq Finishing
  BY <1>2, SameOutstanding, FinishingLess, Zenon
<1>9. CASE row = {}
  <2>1. Single(jobs') /\ (jobs' # {} => jobs # {})
    BY <1>2, Zenon DEF Undisturbed, Alone
  <2> QED BY <1>7, <1>8, <1>9, <2>1, Shrinks, Zenon DEF Undisturbed
<1>10. CASE row # {}
  <2>1. Alone'
    BY <1>2, <1>8, Zenon DEF Undisturbed, Alone, Single
  <2>2. UnderWay' => UnderWay
    BY <1>2, <1>8, Zenon DEF UnderWay
  <2>3. UnderWay => InstanceOf(j).state = "processing"
    BY <1>7, <1>10, Zenon DEF Undisturbed, Parked
  <2>4. Parked'
    BY <1>4, <1>7, <1>10, <2>2, <2>3, Zenon DEF Parked
  <2> QED BY <1>7, <2>1, <2>4, Zenon DEF Undisturbed
<1> QED BY <1>9, <1>10, Zenon

\* With the job or the block that stores, nothing is under way any more.
LEMMA EndsUndisturbed ==
  ASSUME Inductive, Undisturbed, NEW j, j \in jobs \/ \E p \in Process : j \in block[p],
         NEW d \in Data, d.rev = InstanceOf(j).rev, StoreInstance(j, d), ~ overwritten',
         block' = block, jobs' = {}, Outstanding' = {}, Finishing' = {}
  PROVE  Undisturbed'
<1>1. jobs' \subseteq jobs /\ \A p \in Process : block'[p] \subseteq block[p]
  BY Zenon
<1>2. Latest'
  BY <1>1, InstanceStored, Zenon DEF Undisturbed
<1> QED BY <1>2, Rests, Zenon DEF Undisturbed

LEMMA ChecksumFailsUndisturbed ==
  ASSUME Inductive, Undisturbed, NEW j \in jobs, ChecksumFails(j), ~ overwritten'
  PROVE  Undisturbed'
<1> DEFINE d == [InstanceOf(j) EXCEPT !.wait = "cancel"]
<1>1. /\ jobs' = jobs \ {j} /\ StoreInstance(j, d)
      /\ block' = block /\ step' = step /\ where' = where /\ answer' = answer
  BY Zenon DEF ChecksumFails, Begin
<1>2. d \in Data /\ d.rev = InstanceOf(j).rev
  BY JobFacts, Edits, Written, Zenon
<1> HIDE DEF d
<1>3. jobs' = {} /\ Outstanding = {} /\ Finishing = {}
  BY <1>1, SMT DEF Undisturbed, Alone, Single
<1>4. Outstanding' = {} /\ Finishing' = {}
  BY <1>1, <1>3, SameOutstanding, SameFinishing, Zenon
<1> QED BY <1>1, <1>2, <1>3, <1>4, EndsUndisturbed, Zenon

LEMMA StoreCompletedUndisturbed ==
  ASSUME Inductive, Undisturbed, NEW p \in Process, StoreCompleted(p), ~ overwritten'
  PROVE  Undisturbed'
<1>1. PICK j \in block[p] : StoreInstance(j, [InstanceOf(j) EXCEPT !.state = "completed",
                                                                   !.wait = "none"])
  BY Zenon DEF StoreCompleted
<1> DEFINE d == [InstanceOf(j) EXCEPT !.state = "completed", !.wait = "none"]
<1>2. /\ jobs' = jobs /\ block' = block /\ where' = where /\ answer' = answer
      /\ step[p] = "finished" /\ step' = [step EXCEPT ![p] = "remove"]
  BY Zenon DEF StoreCompleted
<1>3. d \in Data /\ d.rev = InstanceOf(j).rev
  <2>1. InstanceOf(j) \in Data
    BY BlockFacts, Zenon
  <2> QED BY <2>1, Edits, Written, Zenon
<1>4. StoreInstance(j, d)
  BY <1>1
<1> HIDE DEF d
<1>5. p \in Finishing
  BY <1>2, Zenon DEF Finishing
<1>6. jobs' = {} /\ Outstanding = {} /\ Finishing = {p}
  BY <1>2, <1>5, SMT DEF Undisturbed, Alone, Single
<1>7. Outstanding' = {} /\ Finishing' = {}
  <2>1. Finishing' = Finishing \ {p}
    BY <1>2, FinishingLess, Zenon
  <2> QED BY <1>2, <1>6, <2>1, SameOutstanding, Zenon
<1> QED BY <1>2, <1>3, <1>4, <1>6, <1>7, EndsUndisturbed, Zenon

LEMMA RemoveCompletedUndisturbed ==
  ASSUME Inductive, Undisturbed, NEW p \in Process, RemoveCompleted(p)
  PROVE  Undisturbed'
<1>1. /\ \E c \in BOOLEAN : Remove(p, c)
      /\ where' = where /\ answer' = answer /\ step' = [step EXCEPT ![p] = "idle"]
  BY Zenon DEF RemoveCompleted
<1>2. Outstanding' \subseteq Outstanding /\ Finishing' \subseteq Finishing
  BY <1>1, SameOutstanding, FinishingLess, Zenon
<1> QED BY <1>1, <1>2, RemovingUndisturbed, Zenon

\* A check restarts a record only if nothing is under way for it.
LEMMA RestartsAtRest ==
  ASSUME Inductive, Starting, Looked, ~ foreign, NEW p \in Process,
         CheckRecords(p), Stuck(p), ~ Holds("db"), ~ foreign'
  PROVE  jobs = {} /\ Outstanding = {} /\ Finishing = {} /\ \A q \in Process : block[q] = {}
<1>1. /\ step[p] = "db" /\ ~ found[p]
      /\ foreign' = (\/ foreign
                     \/ \E q \in up \ {p} : block[q] # {}
                     \/ \E j \in jobs : j.proc # p)
  BY Zenon DEF CheckRecords, Stuck
<1>2. /\ ~ \E q \in up \ {p} : block[q] # {}
      /\ ~ \E j \in jobs : j.proc # p
  BY <1>1, Raised, Zenon
<1>3. jobs = {}
  <2>1. \A j \in jobs : j.proc # p
    BY <1>1, Zenon DEF Starting
  <2> QED BY <1>2, <2>1, Zenon
<1>4. ASSUME NEW q \in Process
      PROVE  block[q] = {}
  <2>1. CASE q = p
    BY <1>1, <2>1, SMT DEF Inductive, Blocks
  <2>2. CASE q # p
    <3>1. block[q] # {} => q \in up
      BY Zenon DEF Inductive, Work, Jobs, Fits
    <3> QED BY <1>2, <2>2, <3>1, Zenon
  <2> QED BY <2>1, <2>2, Zenon
<1>5. Finishing = {}
  BY <1>4, SMT DEF Finishing, Starting
<1>6. ASSUME NEW a \in Request
      PROVE  where[a] = {}
  <2>1. where[a] \subseteq Place /\ where[a] \cap {"http", "kvs"} = {} /\ "db" \notin where[a]
    BY <1>1, SMT DEF Looked, Holds, Inductive, Requests
  <2> QED BY <2>1, SMT DEF Place
<1> QED BY <1>3, <1>4, <1>5, <1>6, Zenon DEF Outstanding

LEMMA CheckRecordsUndisturbed ==
  ASSUME Inductive, Starting, Looked, Undisturbed, ~ foreign, NEW p \in Process,
         CheckRecords(p), ~ foreign'
  PROVE  Undisturbed'
<1>1. /\ block' = block /\ where' = where /\ answer' = answer
      /\ step' = [step EXCEPT ![p] = "idle"]
  BY Zenon DEF CheckRecords
<1>2. Outstanding' = Outstanding /\ Finishing' \subseteq Finishing
  BY <1>1, SameOutstanding, FinishingLess, Zenon
<1>3. CASE Stuck(p) /\ ~ Holds("db")
  <2> DEFINE d == [Loaded(p) EXCEPT !.state = "ready"]
  <2>1. row # {} /\ Store(p, d) /\ jobs' = JobsAfterLoad(p)
    BY <1>3, Zenon DEF CheckRecords, Stuck
  <2>2. jobs = {} /\ Outstanding' = {} /\ Finishing' = {}
    BY <1>2, <1>3, RestartsAtRest, Zenon
  <2>3. d \in Data /\ d.rev = Loaded(p).rev
    BY <2>1, LoadedIsRow, Edits, Written, Zenon DEF Undisturbed
  <2> HIDE DEF d
  <2> QED BY <1>1, <2>1, <2>2, <2>3, StoredUndisturbed, Zenon
<1>4. CASE ~ (Stuck(p) /\ ~ Holds("db"))
  <2>1. row' = row /\ cur' = cur /\ jobs' = jobs
    BY <1>4, Zenon DEF CheckRecords
  <2> QED BY <1>1, <1>2, <2>1, QuietUndisturbed, Zenon
<1> QED BY <1>3, <1>4, Zenon

\* What answers requests, starts, looks, cancels or ends a process.
LEMMA OthersUndisturbed ==
  ASSUME Inductive, Stores, Undisturbed,
         \/ \E p \in Process : \/ Launch(p) \/ CheckRequests(p) \/ CheckQueue(p)
                               \/ CancelByUser(p) \/ Crash(p) \/ Quit(p)
         \/ \E j \in jobs : SkipUpload(j)
         \/ \E a \in Request : Answer(a) \/ QueueEvent(a) \/ RemoveRequest(a) \/ Transfer(a)
  PROVE  Undisturbed'
<1>1. ASSUME NEW p \in Process, Launch(p) \/ CheckRequests(p) \/ CheckQueue(p) \/ CancelByUser(p)
      PROVE  Undisturbed'
  <2>1. /\ row' = row /\ cur' = cur /\ jobs' = jobs /\ block' = block
        /\ where' = where /\ answer' = answer
        /\ step' = step \/ \E s \in {"check", "kvs", "db"} : step' = [step EXCEPT ![p] = s]
    BY <1>1, Zenon DEF Launch, CheckRequests, CheckQueue, CancelByUser, disk
  <2>2. Finishing' \subseteq Finishing
    BY <2>1, SMT DEF Finishing, Inductive, Processes
  <2> QED BY <2>1, <2>2, SameOutstanding, QuietUndisturbed, Zenon
<1>2. ASSUME NEW p \in Process, Crash(p) \/ Quit(p)
      PROVE  Undisturbed'
  <2>1. /\ row' = row /\ where' = where /\ answer' = answer /\ LosesMemory(p)
    BY <1>2, Zenon DEF Crash, Quit, disk
  <2>2. \A q \in Process : cur'[q] \subseteq cur[q] /\ block'[q] \subseteq block[q]
    BY <2>1, SMT DEF LosesMemory, Inductive, Work, Instances, Jobs
  <2>3. Finishing' \subseteq Finishing
    BY <2>1, FinishingLess, Zenon DEF LosesMemory
  <2>4. jobs' \subseteq jobs
    BY <2>1, Zenon DEF LosesMemory
  <2> QED BY <2>1, <2>2, <2>3, <2>4, SameOutstanding, QuietUndisturbed, Zenon
<1>3. ASSUME NEW j \in jobs, SkipUpload(j)
      PROVE  Undisturbed'
  <2>1. /\ row' = row /\ cur' = cur /\ jobs' \subseteq jobs /\ block' = block
        /\ where' = where /\ answer' = answer /\ step' = step
    BY <1>3, Zenon DEF SkipUpload, Begin, disk
  <2> QED BY <2>1, SameOutstanding, SameFinishing, QuietUndisturbed, Zenon
<1>4. ASSUME NEW a \in Request, Answer(a) \/ QueueEvent(a) \/ RemoveRequest(a) \/ Transfer(a)
      PROVE  Undisturbed'
  <2>1. row' = row /\ cur' = cur /\ jobs' = jobs /\ block' = block /\ step' = step
    BY <1>4, Zenon DEF Answer, QueueEvent, RemoveRequest, Transfer, memory
  <2>2. Outstanding' = Outstanding
    BY <1>4, DeliveryOpen, Zenon
  <2> QED BY <2>1, <2>2, SameFinishing, QuietUndisturbed, Zenon
<1> QED BY <1>1, <1>2, <1>3, <1>4, Zenon

LEMMA OneAttemptStep ==
  ASSUME Inductive, Stores, Starting, Looked, OneAttempt, Next
  PROVE  OneAttempt'
<1> SUFFICES ASSUME ~ foreign', ~ overwritten'
             PROVE  Undisturbed'
  BY Zenon DEF OneAttempt
<1>1. ~ foreign /\ ~ overwritten
  BY ForeignStays, Zenon
<1>2. Undisturbed
  BY <1>1, Zenon DEF OneAttempt
<1>3. ASSUME NEW p \in Process, Pass(p)
      PROVE  Undisturbed'
  BY <1>2, <1>3, ScheduleUndisturbed, ScheduleFailsUndisturbed, HandleEventsUndisturbed,
     CancelUndisturbed, ResolveUndisturbed, Zenon DEF Pass
<1>4. ASSUME NEW p \in Process, StoreStarted(p) \/ StoreCompleted(p) \/ RemoveCompleted(p)
      PROVE  Undisturbed'
  BY <1>2, <1>4, StoreStartedUndisturbed, StoreCompletedUndisturbed,
     RemoveCompletedUndisturbed, Zenon
<1>5. ASSUME NEW p \in Process, CheckRecords(p)
      PROVE  Undisturbed'
  BY <1>1, <1>2, <1>5, CheckRecordsUndisturbed, Zenon
<1>6. ASSUME NEW j \in jobs, \/ StartUpload(j) \/ StartWithoutCopy(j) \/ ChecksumFails(j)
                            \/ FinishUpload(j)
      PROVE  Undisturbed'
  BY <1>2, <1>6, StartUndisturbed, ChecksumFailsUndisturbed, FinishUploadUndisturbed, Zenon
<1> QED BY <1>2, <1>3, <1>4, <1>5, <1>6, OthersUndisturbed, Zenon DEF Next, HealthCheck

-----------------------------------------------------------------------------
(* Until a termination the process that submitted the record does it all *)

\* A block of that process works on the row.
LEMMA OriginsInstance ==
  ASSUME Inductive, OriginWorks, NEW j, j \in jobs \cup block[Origin], row # {}
  PROVE  /\ j.proc = Origin /\ j.inst = {} /\ cur[Origin] = row
         /\ row = {InstanceOf(j)}
<1>1. Origin \in Process
  BY UploadAssumption, Zenon
<1>2. j.proc = Origin
  BY <1>1, Zenon DEF OriginWorks, Inductive, Work, Jobs
<1>3. cur[Origin] = row /\ j.inst = {}
  BY Zenon DEF OriginWorks
<1>4. The(row) \in row /\ InstanceOf(j) = The(row)
  BY <1>2, <1>3, TheIn, Zenon DEF InstanceOf
<1>5. Single(row)
  BY Zenon DEF Inductive, Work, Instances
<1> QED BY <1>2, <1>3, <1>4, <1>5, SMT DEF Single

LEMMA OriginVisits ==
  ASSUME Inductive, OriginWorks, NEW p \in Process, Visit(p)
  PROVE  /\ p = Origin /\ row # {} /\ step[Origin] = "idle"
         /\ \A q \in Process : block[q] = {}
<1>1. p = Origin /\ row # {} /\ step[Origin] = "idle"
  BY Zenon DEF OriginWorks, Visit
<1>2. block[Origin] = {}
  BY <1>1, Zenon DEF Inductive, Blocks
<1> QED BY <1>1, <1>2, Zenon DEF OriginWorks

LEMMA OriginBlocks ==
  ASSUME Inductive, OriginWorks, NEW j \in jobs, Begin(j)
  PROVE  /\ j.proc = Origin /\ step[Origin] = "idle" /\ jobs' = jobs \ {j}
         /\ \A q \in Process : block[q] = {}
<1>1. j.proc = Origin /\ step[Origin] = "idle" /\ jobs' = jobs \ {j}
  BY Zenon DEF OriginWorks, Begin
<1>2. Origin \in Process
  BY UploadAssumption, Zenon
<1>3. block[Origin] = {}
  BY <1>1, <1>2, Zenon DEF Inductive, Blocks
<1> QED BY <1>1, <1>3, Zenon DEF OriginWorks

\* So it never stores an outdated instance.
LEMMA NotOverwritten ==
  ASSUME Inductive, OriginWorks, NEW j, NEW d, j \in jobs \cup block[Origin],
         StoreInstance(j, d)
  PROVE  ~ overwritten'
<1>1. overwritten' = (overwritten \/ \E r \in row : InstanceOf(j).rev # r.rev)
  BY Zenon DEF StoreInstance
<1>2. ~ overwritten /\ ~ \E r \in row : InstanceOf(j).rev # r.rev
  BY OriginsInstance, Zenon DEF OriginWorks
<1> QED BY <1>1, <1>2, Raised, Zenon

LEMMA OriginStores ==
  ASSUME Inductive, OriginWorks, Next
  PROVE  ~ overwritten'
<1>1. CASE overwritten' = overwritten
  BY <1>1, Zenon DEF OriginWorks
<1>2. ASSUME NEW p \in Process, Pass(p)
      PROVE  overwritten' = overwritten
  BY <1>2, Zenon DEF Pass, Schedule, ScheduleFails, HandleEvents, Cancel, Resolve,
                     DeleteCompleted, history
<1>3. ASSUME NEW p \in Process, StoreStarted(p) \/ StoreCompleted(p)
      PROVE  ~ overwritten'
  <2>1. PICK j \in block[p] : \E d : StoreInstance(j, d)
    BY <1>3, Zenon DEF StoreStarted, StoreCompleted
  <2>2. j \in jobs \cup block[Origin]
    BY <2>1, Zenon DEF OriginWorks
  <2> QED BY <2>1, <2>2, NotOverwritten, Zenon
<1>4. ASSUME NEW j \in jobs, ChecksumFails(j)
      PROVE  ~ overwritten'
  <2>1. \E d : StoreInstance(j, d)
    BY <1>4, Zenon DEF ChecksumFails
  <2> QED BY <2>1, NotOverwritten, Zenon
<1>5. ASSUME NEW p \in Process, \/ RemoveCompleted(p) \/ Launch(p) \/ HealthCheck(p)
                               \/ CancelByUser(p) \/ Crash(p) \/ Quit(p)
      PROVE  overwritten' = overwritten
  BY <1>5, Zenon DEF RemoveCompleted, Launch, HealthCheck, CheckRequests, CheckQueue,
                     CheckRecords, CancelByUser, Crash, Quit, history
<1>6. ASSUME NEW j \in jobs, StartUpload(j) \/ StartWithoutCopy(j) \/ SkipUpload(j) \/ FinishUpload(j)
      PROVE  overwritten' = overwritten
  BY <1>6, Zenon DEF StartUpload, StartWithoutCopy, SkipUpload, FinishUpload, history
<1>7. ASSUME NEW a \in Request, Answer(a) \/ QueueEvent(a) \/ RemoveRequest(a) \/ Transfer(a)
      PROVE  overwritten' = overwritten
  BY <1>7, Zenon DEF Answer, QueueEvent, RemoveRequest, Transfer, history
<1> QED BY <1>1, <1>2, <1>3, <1>4, <1>5, <1>6, <1>7, Zenon DEF Next

\* An app is not closed as long as an upload needs it.
LEMMA NoQuit ==
  ASSUME Inductive, Starting, Calm, NEW p \in Process, Quit(p)
  PROVE  FALSE
<1>1. /\ \A a \in Request : where[a] = {}
      /\ jobs = {} /\ \A q \in up : step[q] = "idle" /\ ~ (Visit(q) /\ cancelled[q])
  BY Zenon DEF Quit, AtRest
<1>2. \A q \in Process : step[q] = "idle"
  BY <1>1, Zenon DEF Starting
<1>3. Outstanding = {}
  BY <1>1, Zenon DEF Outstanding
<1>4. Finishing = {} /\ ~ Locked
  BY <1>2, SMT DEF Finishing, Locked
<1>5. PICK d \in row : d.state = "processing" /\ d.wait = "none"
  BY Zenon DEF Quit, AtRest
<1>6. cancelled[Origin]
  BY <1>1, <1>3, <1>4, <1>5, Zenon DEF Calm, NotAtRest, UnderWay
<1>7. Visit(Origin) /\ Origin \in up
  BY <1>2, <1>4, <1>5, UploadAssumption, Zenon DEF Visit, Calm, OriginWorks
<1> QED BY <1>1, <1>6, <1>7, Zenon

\* Nothing is under way: the file is not on the server, and the record not parked.
LEMMA StoredCalm ==
  ASSUME Origin \in up', ~ overwritten', ~ uploaded', jobs' = {},
         \A q \in Process : block'[q] = {}, step'[Origin] # "started",
         \A r \in row' : r.state # "processing" \/ r.wait # "none"
  PROVE  Calm'
<1>1. Origin \in Process
  BY UploadAssumption, Zenon
<1>2. OriginWorks'
  BY <1>1, Zenon DEF OriginWorks
<1>3. NotAtRest'
  BY Zenon DEF NotAtRest
<1> QED BY <1>2, <1>3, Zenon DEF Calm, Completing

LEMMA RemovedCalm ==
  ASSUME Inductive, Calm, NEW p \in Process, NEW c, Remove(p, c),
         up' = up, ~ overwritten', uploaded' = uploaded,
         \A q \in Process : block'[q] \subseteq block[q], step'[Origin] # "started",
         Outstanding' = {} \/ (where' = where /\ answer' = answer)
  PROVE  Calm'
<1>1. row' = {}
  BY Zenon DEF Remove
<1>2. \A k \in jobs' : \E j \in jobs : k.proc = j.proc /\ k.kind = j.kind
  BY DetachedFit, Zenon DEF Remove, Inductive
<1>3. OriginWorks'
  BY <1>1, <1>2, Zenon DEF Calm, OriginWorks
<1>4. NotAtRest'
  BY <1>1, Zenon DEF NotAtRest
<1>5. Completing'
  <2>1. uploaded' => \A j \in jobs' : j.kind = "verify"
    BY <1>2, Zenon DEF Calm, Completing
  <2>2. uploaded' => \A a \in Outstanding' : answer'[a] = "ok"
    BY SameOutstanding, Zenon DEF Calm, Completing
  <2> QED BY <1>1, <2>1, <2>2, Zenon DEF Completing
<1> QED BY <1>3, <1>4, <1>5, Zenon DEF Calm

\* What leaves the record and its jobs alone.
LEMMA QuietCalm ==
  ASSUME Calm, up \subseteq up', UNCHANGED <<row, cur, jobs, block, overwritten, uploaded>>,
         step'[Origin] = step[Origin] \/ step'[Origin] # "started",
         Outstanding' = Outstanding, \A a \in Outstanding : answer'[a] = answer[a],
         Finishing \subseteq Finishing', cancelled[Origin] => cancelled'[Origin]
  PROVE  Calm'
<1>1. OriginWorks'
  BY Zenon DEF Calm, OriginWorks
<1>2. UnderWay => UnderWay'
  BY Zenon DEF UnderWay
<1>3. NotAtRest'
  BY <1>2, Zenon DEF Calm, NotAtRest
<1>4. Completing'
  BY <1>2, Zenon DEF Calm, Completing
<1> QED BY <1>1, <1>3, <1>4, Zenon DEF Calm

LEMMA ScheduleCalm ==
  ASSUME Inductive, Undisturbed, Calm, NEW p \in Process, Schedule(p), ~ overwritten'
  PROVE  Calm'
<1> DEFINE d == [Loaded(p) EXCEPT !.state = "processing", !.copied = TRUE]
           h == [proc |-> p, kind |-> "hash", inst |-> {}]
<1>1. /\ Visit(p) /\ Loaded(p).state = "ready"
      /\ Store(p, d) /\ jobs' = JobsAfterLoad(p) \cup {h}
      /\ block' = block /\ step' = step /\ up' = up /\ uploaded' = uploaded
  BY Zenon DEF Schedule, history
<1>2. p = Origin /\ row # {} /\ step[Origin] = "idle" /\ \A q \in Process : block[q] = {}
  BY <1>1, OriginVisits, Zenon DEF Calm
<1>3. jobs = {} /\ Outstanding = {} /\ Finishing = {}
  <2>1. Loaded(p).state # "processing"
    BY <1>1, Zenon
  <2> QED BY <1>2, <2>1, NothingUnderWay, Zenon
<1>4. row = {Loaded(p)}
  BY <1>2, LoadedIsRow, Zenon DEF Undisturbed
<1>5. ~ uploaded
  <2>1. Loaded(p).state # "completed"
    BY <1>1, Zenon
  <2> QED BY <1>3, <1>4, <2>1, Zenon DEF Calm, Completing, UnderWay
<1>6. jobs' = {h} /\ h.inst = {} /\ h.proc = Origin
  <2>1. JobsAfterLoad(p) = {}
    BY <1>3, JobsSingle, Zenon DEF Undisturbed, Alone
  <2> QED BY <1>1, <1>2, <2>1, Zenon
<1>7. row' = {Next1(d)} /\ cur'[p] = {Next1(d)}
  BY <1>1, SMT DEF Store, Inductive, Work, Instances
<1> HIDE DEF d, h
<1>8. OriginWorks'
  BY <1>1, <1>2, <1>6, <1>7, Zenon DEF Calm, OriginWorks
<1>9. NotAtRest'
  <2>1. step'[Origin] # "started"
    BY <1>1, <1>2, Zenon
  <2>2. UnderWay'
    BY <1>6, Zenon DEF UnderWay
  <2> QED BY <2>1, <2>2, Zenon DEF NotAtRest
<1> QED BY <1>1, <1>5, <1>8, <1>9, Zenon DEF Calm, Completing

LEMMA ScheduleFailsCalm ==
  ASSUME Inductive, Undisturbed, Calm, NEW p \in Process, ScheduleFails(p), ~ overwritten'
  PROVE  Calm'
<1>1. /\ Visit(p) /\ Loaded(p).state = "ready"
      /\ jobs' = JobsAfterLoad(p)
      /\ block' = block /\ step' = step /\ up' = up /\ uploaded' = uploaded
  BY Zenon DEF ScheduleFails
<1>2. p = Origin /\ row # {} /\ step[Origin] = "idle" /\ \A q \in Process : block[q] = {}
  BY <1>1, OriginVisits, Zenon DEF Calm
<1>3. jobs = {} /\ Outstanding = {} /\ Finishing = {}
  <2>1. Loaded(p).state # "processing"
    BY <1>1, Zenon
  <2> QED BY <1>2, <2>1, NothingUnderWay, Zenon
<1>4. row = {Loaded(p)} /\ Loaded(p) \in Data
  BY <1>2, LoadedIsRow, Zenon DEF Undisturbed
<1>5. ~ uploaded
  <2>1. Loaded(p).state # "completed"
    BY <1>1, Zenon
  <2> QED BY <1>3, <1>4, <2>1, Zenon DEF Calm, Completing, UnderWay
<1>6. jobs' = {}
  BY <1>1, <1>3, JobsSingle, Zenon DEF Undisturbed, Alone
<1>7. \E d : row' = {Next1(d)} /\ Next1(d).wait # "none"
  <2>1. /\ Next1([Loaded(p) EXCEPT !.state = "processing", !.wait = "cancel"]).wait # "none"
        /\ Next1([Loaded(p) EXCEPT !.state = "processing", !.copied = TRUE,
                                   !.wait = "retry"]).wait # "none"
    BY <1>4, SMT DEF Next1, Data
  <2> QED BY <2>1, Zenon DEF ScheduleFails, Store
<1>8. \A r \in row' : r.state # "processing" \/ r.wait # "none"
  BY <1>7, Zenon
<1>9. /\ Origin \in up' /\ ~ uploaded' /\ step'[Origin] # "started"
      /\ \A q \in Process : block'[q] = {}
  BY <1>1, <1>2, <1>5, Zenon DEF Calm, OriginWorks
<1> QED BY <1>6, <1>8, <1>9, StoredCalm, Zenon

LEMMA ResolveCalm ==
  ASSUME Inductive, Undisturbed, Calm, NEW p \in Process, Resolve(p), ~ overwritten'
  PROVE  Calm'
<1>1. /\ Visit(p) /\ Loaded(p).wait # "none" /\ where' = where /\ answer' = answer
      /\ block' = block /\ step' = step /\ up' = up /\ uploaded' = uploaded
  BY Zenon DEF Resolve, Waits
<1>2. p = Origin /\ row # {} /\ step[Origin] = "idle" /\ \A q \in Process : block[q] = {}
  BY <1>1, OriginVisits, Zenon DEF Calm
<1>3. CASE Deschedule(p)
  <2>1. Remove(p, CacheValid(p)) /\ step'[Origin] # "started"
    BY <1>1, <1>2, <1>3, Zenon DEF Deschedule
  <2> QED BY <1>1, <2>1, RemovedCalm, Zenon
<1>4. CASE /\ Store(p, [Loaded(p) EXCEPT !.state = "ready", !.wait = "none"])
           /\ jobs' = JobsAfterLoad(p)
  <2>1. jobs = {} /\ Outstanding = {} /\ Finishing = {}
    BY <1>1, <1>2, NothingUnderWay, Zenon
  <2>2. row = {Loaded(p)} /\ Loaded(p) \in Data
    BY <1>2, LoadedIsRow, Zenon DEF Undisturbed
  <2>3. ~ uploaded
    BY <1>1, <2>1, <2>2, Zenon DEF Calm, Completing, UnderWay
  <2>4. jobs' = {}
    BY <1>4, <2>1, JobsSingle, Zenon DEF Undisturbed, Alone
  <2>5. Next1([Loaded(p) EXCEPT !.state = "ready", !.wait = "none"]).state # "processing"
    BY <2>2, SMT DEF Next1, Data
  <2>6. \A r \in row' : r.state # "processing" \/ r.wait # "none"
    BY <1>4, <2>5, Zenon DEF Store
  <2>7. /\ Origin \in up' /\ ~ uploaded' /\ step'[Origin] # "started"
        /\ \A q \in Process : block'[q] = {}
    BY <1>1, <1>2, <2>3, Zenon DEF Calm, OriginWorks
  <2> QED BY <2>4, <2>6, <2>7, StoredCalm, Zenon
<1> QED BY <1>3, <1>4, Zenon DEF Resolve

LEMMA CancelCalm ==
  ASSUME Inductive, Calm, NEW p \in Process, Cancel(p) \/ DeleteCompleted(p), ~ overwritten'
  PROVE  Calm'
<1>1. /\ Visit(p) /\ Remove(p, CacheValid(p)) /\ where' = where /\ answer' = answer
      /\ block' = block /\ step' = step /\ up' = up /\ uploaded' = uploaded
  BY Zenon DEF Cancel, DeleteCompleted, Deschedule, history
<1>2. step'[Origin] # "started"
  BY <1>1, OriginVisits, Zenon DEF Calm
<1> QED BY <1>1, <1>2, RemovedCalm, Zenon

LEMMA HandleEventsCalm ==
  ASSUME Inductive, Stores, Undisturbed, Calm, NEW p \in Process, HandleEvents(p),
         ~ overwritten'
  PROVE  Calm'
<1> DEFINE f == [Loaded(p) EXCEPT !.state = "processing", !.wait = "retry"]
           v == [proc |-> p, kind |-> "verify", inst |-> {}]
<1>1. PICK a \in Request :
           /\ Outstanding = {a} /\ Outstanding' = {}
           /\ answer[a] \in {"ok", "failed", "cancelled"}
           /\ jobs = {} /\ Finishing = {} /\ Finishing' = {} /\ row # {}
           /\ block' = block /\ step' = step
           /\ \/ Remove(p, CacheValid(p))
              \/ /\ answer[a] = "ok"
                 /\ jobs' = {v}
                 /\ cur' = [cur EXCEPT ![p] = {Loaded(p)}] /\ row' = row
              \/ answer[a] = "failed" /\ jobs' = {} /\ Store(p, f)
  BY EventsHandled, Zenon
<1>2. Visit(p) /\ up' = up /\ uploaded' = uploaded
  BY Zenon DEF HandleEvents, history
<1>3. p = Origin /\ row # {} /\ step[Origin] = "idle" /\ \A q \in Process : block[q] = {}
  BY <1>2, OriginVisits, Zenon DEF Calm
<1>4. step'[Origin] # "started"
  BY <1>1, <1>3, Zenon
<1>5. row = {Loaded(p)} /\ Loaded(p) \in Data
  BY <1>3, LoadedIsRow, Zenon DEF Undisturbed
<1>6. CASE Remove(p, CacheValid(p))
  <2>1. \A q \in Process : block'[q] \subseteq block[q]
    BY <1>1, Zenon
  <2> QED BY <1>1, <1>2, <1>4, <1>6, <2>1, RemovedCalm, Zenon
<1>7. CASE jobs' = {v} /\ cur' = [cur EXCEPT ![p] = {Loaded(p)}] /\ row' = row
  <2>1. v.proc = Origin /\ v.inst = {} /\ v.kind = "verify"
    BY <1>3, Zenon
  <2>2. cur'[p] = {Loaded(p)}
    BY <1>7, SMT DEF Inductive, Work, Instances
  <2> HIDE DEF v
  <2>3. OriginWorks'
    BY <1>1, <1>2, <1>3, <1>5, <1>7, <2>1, <2>2, Zenon DEF Calm, OriginWorks
  <2>4. UnderWay'
    BY <1>7, Zenon DEF UnderWay
  <2>5. NotAtRest'
    BY <1>4, <2>4, Zenon DEF NotAtRest
  <2>6. Completing'
    BY <1>1, <1>7, <2>1, <2>4, Zenon DEF Completing
  <2> QED BY <2>3, <2>5, <2>6, Zenon DEF Calm
<1>8. CASE answer[a] = "failed" /\ jobs' = {} /\ Store(p, f)
  <2>1. ~ uploaded
    <3>1. answer[a] # "ok"
      BY <1>8, Zenon
    <3> QED BY <1>1, <3>1, Zenon DEF Calm, Completing
  <2>2. Next1(f).wait # "none"
    BY <1>5, SMT DEF Next1, Data
  <2> HIDE DEF f
  <2>3. \A r \in row' : r.state # "processing" \/ r.wait # "none"
    BY <1>8, <2>2, Zenon DEF Store
  <2>4. /\ Origin \in up' /\ ~ uploaded' /\ \A q \in Process : block'[q] = {}
    BY <1>1, <1>2, <1>3, <2>1, Zenon DEF Calm, OriginWorks
  <2> QED BY <1>4, <1>8, <2>3, <2>4, StoredCalm, Zenon
<1> QED BY <1>1, <1>6, <1>7, <1>8, Zenon

LEMMA StartCalm ==
  ASSUME Inductive, Stores, Undisturbed, Calm, NEW j \in jobs,
         StartUpload(j) \/ StartWithoutCopy(j), ~ overwritten'
  PROVE  Calm'
<1>1. /\ Begin(j) /\ row' = row /\ cur' = cur /\ up' = up /\ uploaded' = uploaded
      /\ block' = [block EXCEPT ![j.proc] = {j}] /\ j.kind = "hash"
  BY Zenon DEF StartUpload, StartWithoutCopy
<1>2. j.proc = Origin /\ jobs' = jobs \ {j} /\ \A q \in Process : block[q] = {}
  BY <1>1, OriginBlocks, Zenon DEF Calm
<1>3. jobs' = {}
  BY <1>2, SMT DEF Undisturbed, Alone, Single
<1>4. ~ uploaded
  <2>1. j.kind # "verify"
    BY <1>1, Zenon
  <2> QED BY <2>1, Zenon DEF Calm, Completing
<1>5. \A q \in Process : block'[q] = IF q = Origin THEN {j} ELSE {}
  BY <1>1, <1>2, SMT DEF Inductive, Work, Jobs
<1>6. row # {} => cur[Origin] = row /\ j.inst = {}
  BY OriginsInstance, Zenon DEF Calm
<1>7. Origin \in Process
  BY UploadAssumption, Zenon
<1>8. block'[Origin] = {j} /\ \A q \in Process \ {Origin} : block'[q] = {}
  BY <1>5, <1>7, Zenon
<1>9. OriginWorks'
  BY <1>1, <1>3, <1>6, <1>8, Zenon DEF Calm, OriginWorks
<1>10. Outstanding' # {}
  BY RequestOpens, Zenon
<1>11. NotAtRest'
  BY <1>10, Zenon DEF NotAtRest, UnderWay
<1> QED BY <1>1, <1>4, <1>9, <1>11, Zenon DEF Calm, Completing

LEMMA FinishUploadCalm ==
  ASSUME Inductive, Undisturbed, Calm, NEW j \in jobs, FinishUpload(j), ~ overwritten'
  PROVE  Calm'
<1>1. /\ Begin(j) /\ row' = row /\ cur' = cur /\ up' = up /\ uploaded' = uploaded
      /\ block' = [block EXCEPT ![j.proc] = {j}]
      /\ step' = [step EXCEPT ![j.proc] = "finished"]
      /\ where' = where /\ answer' = answer
  BY Zenon DEF FinishUpload, history
<1>2. j.proc = Origin /\ jobs' = jobs \ {j} /\ \A q \in Process : block[q] = {}
  BY <1>1, OriginBlocks, Zenon DEF Calm
<1>3. jobs' = {} /\ Outstanding = {}
  BY <1>2, SMT DEF Undisturbed, Alone, Single
<1>4. Origin \in Process
  BY UploadAssumption, Zenon
<1>5. \A q \in Process : block'[q] = IF q = Origin THEN {j} ELSE {}
  <2>1. block' = [block EXCEPT ![Origin] = {j}] /\ block \in [Process -> SUBSET Job]
    BY <1>1, <1>2, Zenon DEF Inductive, Work, Jobs
  <2> QED BY <1>2, <2>1, Zenon
<1>6. block'[Origin] = {j} /\ \A q \in Process \ {Origin} : block'[q] = {}
  BY <1>4, <1>5, Zenon
<1>7. row # {} => cur[Origin] = row /\ j.inst = {}
  BY OriginsInstance, Zenon DEF Calm
<1>8. OriginWorks'
  BY <1>1, <1>3, <1>6, <1>7, Zenon DEF Calm, OriginWorks
<1>9. step'[Origin] = "finished"
  BY <1>1, <1>2, <1>4, SMT DEF Inductive, Processes
<1>10. UnderWay'
  BY <1>4, <1>9, Zenon DEF UnderWay, Finishing
<1>11. NotAtRest'
  <2>1. step'[Origin] # "started"
    BY <1>9, Zenon
  <2> QED BY <1>10, <2>1, Zenon DEF NotAtRest
<1>12. Outstanding' = {}
  BY <1>1, <1>3, SameOutstanding, Zenon
<1>13. Completing'
  BY <1>3, <1>10, <1>12, Zenon DEF Completing
<1> QED BY <1>8, <1>11, <1>13, Zenon DEF Calm

LEMMA SkipUploadCalm ==
  ASSUME Inductive, Undisturbed, Calm, NEW j \in jobs, SkipUpload(j), ~ overwritten'
  PROVE  Calm'
<1>1. /\ Begin(j) /\ row' = row /\ cur' = cur /\ up' = up /\ uploaded' = uploaded
      /\ block' = block /\ step' = step /\ cancelled' = cancelled
      /\ j.kind = "hash" /\ ~ Goes(j)
  BY Zenon DEF SkipUpload, disk, history
<1>2. /\ j.proc = Origin /\ step[Origin] = "idle" /\ jobs' = jobs \ {j}
      /\ \A q \in Process : block[q] = {}
  BY <1>1, OriginBlocks, Zenon DEF Calm
<1>3. jobs' = {}
  BY <1>2, SMT DEF Undisturbed, Alone, Single
<1>4. ~ uploaded
  <2>1. j.kind # "verify"
    BY <1>1, Zenon
  <2> QED BY <2>1, Zenon DEF Calm, Completing
<1>5. OriginWorks'
  BY <1>1, <1>2, <1>3, UploadAssumption, Zenon DEF Calm, OriginWorks
<1>6. ASSUME NEW r \in row, r.state = "processing"
      PROVE  cancelled[Origin]
  <2>1. InstanceOf(j) = r
    BY OriginsInstance, <1>6, Zenon DEF Calm
  <2> QED BY <1>1, <1>2, <1>6, <2>1, Zenon DEF Goes
<1>7. NotAtRest'
  <2>1. step'[Origin] # "started"
    BY <1>1, <1>2, Zenon
  <2> QED BY <1>1, <1>6, <2>1, Zenon DEF NotAtRest
<1> QED BY <1>1, <1>4, <1>5, <1>7, Zenon DEF Calm, Completing

LEMMA ChecksumFailsCalm ==
  ASSUME Inductive, Undisturbed, Calm, NEW j \in jobs, ChecksumFails(j), ~ overwritten'
  PROVE  Calm'
<1> DEFINE d == [InstanceOf(j) EXCEPT !.wait = "cancel"]
<1>1. /\ Begin(j) /\ StoreInstance(j, d) /\ up' = up /\ uploaded' = uploaded
      /\ block' = block /\ step' = step /\ j.kind = "hash"
  BY Zenon DEF ChecksumFails
<1>2. /\ j.proc = Origin /\ step[Origin] = "idle" /\ jobs' = jobs \ {j}
      /\ \A q \in Process : block[q] = {}
  BY <1>1, OriginBlocks, Zenon DEF Calm
<1>3. jobs' = {}
  BY <1>2, SMT DEF Undisturbed, Alone, Single
<1>4. ~ uploaded
  <2>1. j.kind # "verify"
    BY <1>1, Zenon
  <2> QED BY <2>1, Zenon DEF Calm, Completing
<1>5. Next1(d).wait # "none"
  <2>1. InstanceOf(j) \in Data
    BY JobFacts, Zenon
  <2> QED BY <2>1, SMT DEF Next1, Data
<1> HIDE DEF d
<1>6. \A r \in row' : r.state # "processing" \/ r.wait # "none"
  BY <1>1, <1>5, Zenon DEF StoreInstance
<1>7. /\ Origin \in up' /\ ~ uploaded' /\ step'[Origin] # "started"
      /\ \A q \in Process : block'[q] = {}
  BY <1>1, <1>2, <1>4, Zenon DEF Calm, OriginWorks
<1> QED BY <1>3, <1>6, <1>7, StoredCalm, Zenon

LEMMA StoreStartedCalm ==
  ASSUME Inductive, Undisturbed, Calm, NEW p \in Process, StoreStarted(p), ~ overwritten'
  PROVE  Calm'
<1>1. /\ jobs' = jobs /\ where' = where /\ answer' = answer /\ up' = up
      /\ step[p] = "started" /\ step' = [step EXCEPT ![p] = "idle"]
      /\ block' = [block EXCEPT ![p] = {}] /\ block[p] # {} /\ uploaded' = uploaded
  BY Zenon DEF StoreStarted
<1>2. p = Origin
  BY <1>1, Zenon DEF Calm, OriginWorks
<1>3. Outstanding # {} /\ jobs = {}
  BY <1>1, <1>2, Zenon DEF Calm, NotAtRest, Undisturbed, Alone
<1>4. Outstanding' = Outstanding
  BY <1>1, SameOutstanding, Zenon
<1>5. \A q \in Process : block'[q] = {}
  <2>1. \A q \in Process : block'[q] = IF q = p THEN {} ELSE block[q]
    BY <1>1, SMT DEF Inductive, Work, Jobs
  <2> QED BY <1>2, <2>1, Zenon DEF Calm, OriginWorks
<1>6. OriginWorks'
  BY <1>1, <1>3, <1>5, UploadAssumption, Zenon DEF Calm, OriginWorks
<1>7. UnderWay' /\ NotAtRest'
  BY <1>3, <1>4, Zenon DEF NotAtRest, UnderWay
<1>8. Completing'
  BY <1>1, <1>3, <1>4, <1>7, Zenon DEF Calm, Completing
<1> QED BY <1>6, <1>7, <1>8, Zenon DEF Calm

LEMMA StoreCompletedCalm ==
  ASSUME Inductive, Undisturbed, Calm, NEW p \in Process, StoreCompleted(p), ~ overwritten'
  PROVE  Calm'
<1>1. PICK j \in block[p] : StoreInstance(j, [InstanceOf(j) EXCEPT !.state = "completed",
                                                                   !.wait = "none"])
  BY Zenon DEF StoreCompleted
<1> DEFINE d == [InstanceOf(j) EXCEPT !.state = "completed", !.wait = "none"]
<1>2. /\ jobs' = jobs /\ block' = block /\ where' = where /\ answer' = answer /\ up' = up
      /\ step[p] = "finished" /\ step' = [step EXCEPT ![p] = "remove"]
      /\ uploaded' = uploaded
  BY Zenon DEF StoreCompleted
<1>3. p = Origin /\ j \in jobs \cup block[Origin]
  BY <1>1, Zenon DEF Calm, OriginWorks
<1>4. jobs = {} /\ Outstanding = {}
  <2>1. p \in Finishing
    BY <1>2, Zenon DEF Finishing
  <2> QED BY <2>1, Zenon DEF Undisturbed, Alone
<1>5. Outstanding' = {}
  BY <1>2, <1>4, SameOutstanding, Zenon
<1>6. /\ Next1(d).state = "completed" /\ Next1(d).wait = "none"
  <2>1. InstanceOf(j) \in Data
    BY BlockFacts, Zenon
  <2> QED BY <2>1, Written, Zenon
<1>7. StoreInstance(j, d)
  BY <1>1
<1> HIDE DEF d
<1>8. row' # {} => row' = {Next1(d)} /\ cur'[Origin] = row'
  <2>1. row # {} => j.proc = Origin /\ j.inst = {}
    BY <1>3, OriginsInstance, Zenon DEF Calm
  <2>2. /\ row' = IF row = {} THEN {} ELSE {Next1(d)}
        /\ cur' = IF j.inst = {} THEN [cur EXCEPT ![j.proc] = {Next1(d)}] ELSE cur
    BY <1>7, Zenon DEF StoreInstance
  <2> QED BY <2>1, <2>2, UploadAssumption, SMT DEF Inductive, Work, Instances
<1>9. row' # {} => \A k \in block[Origin] : k.inst = {}
  <2>1. row' # {} => row # {}
    BY <1>7, Zenon DEF StoreInstance
  <2> QED BY <2>1, OriginsInstance, Zenon DEF Calm
<1>10. OriginWorks'
  BY <1>2, <1>4, <1>8, <1>9, Zenon DEF Calm, OriginWorks
<1>11. \A r \in row' : r.state = "completed" /\ r.wait = "none"
  BY <1>6, <1>8, Zenon
<1>12. step'[Origin] # "started"
  BY <1>2, <1>3, SMT DEF Inductive, Processes
<1>13. NotAtRest'
  <2>1. \A r \in row' : r.state # "processing"
    BY <1>11, Zenon
  <2> QED BY <1>12, <2>1, Zenon DEF NotAtRest
<1>14. Completing'
  BY <1>2, <1>4, <1>5, <1>11, Zenon DEF Completing
<1> QED BY <1>10, <1>13, <1>14, Zenon DEF Calm

LEMMA RemoveCompletedCalm ==
  ASSUME Inductive, Calm, NEW p \in Process, RemoveCompleted(p), ~ overwritten'
  PROVE  Calm'
<1>1. /\ \E c \in BOOLEAN : Remove(p, c)
      /\ where' = where /\ answer' = answer /\ up' = up /\ uploaded' = uploaded
      /\ step' = [step EXCEPT ![p] = "idle"] /\ block[p] # {}
      /\ block' = [block EXCEPT ![p] = {}]
  BY Zenon DEF RemoveCompleted, history
<1>2. p = Origin
  BY <1>1, Zenon DEF Calm, OriginWorks
<1>3. step'[Origin] # "started"
  BY <1>1, <1>2, SMT DEF Inductive, Processes
<1>4. \A q \in Process : block'[q] \subseteq block[q]
  BY <1>1, BlockEnds, Zenon
<1> QED BY <1>1, <1>3, <1>4, RemovedCalm, Zenon

LEMMA CheckRecordsCalm ==
  ASSUME Inductive, Starting, Looked, Undisturbed, Calm, ~ foreign, NEW p \in Process,
         CheckRecords(p), ~ foreign', ~ overwritten'
  PROVE  Calm'
<1>1. /\ block' = block /\ where' = where /\ answer' = answer /\ up' = up
      /\ step[p] = "db" /\ step' = [step EXCEPT ![p] = "idle"]
      /\ uploaded' = uploaded /\ overwritten' = overwritten /\ cancelled' = cancelled
  BY Zenon DEF CheckRecords
<1>2. Finishing' = Finishing
  <2>1. Finishing' = Finishing \ {p} /\ p \notin Finishing
    BY <1>1, FinishingLess, SMT DEF Finishing
  <2> QED BY <2>1, Zenon
<1>3. step'[Origin] = step[Origin] \/ step'[Origin] # "started"
  BY <1>1, UploadAssumption, SMT DEF Inductive, Processes
<1>4. CASE Stuck(p) /\ ~ Holds("db")
  <2> DEFINE d == [Loaded(p) EXCEPT !.state = "ready"]
  <2>1. row # {} /\ Store(p, d) /\ jobs' = JobsAfterLoad(p)
    BY <1>4, Zenon DEF CheckRecords, Stuck
  <2>2. /\ jobs = {} /\ Outstanding = {} /\ Finishing = {}
        /\ \A q \in Process : block[q] = {}
    BY <1>4, RestartsAtRest, Zenon
  <2>3. PICK r \in row : r.state = "processing"
    BY <1>4, Zenon DEF Stuck
  <2>4. ~ uploaded
    <3>1. r.state # "completed"
      BY <2>3, Zenon
    <3> QED BY <2>2, <2>3, <3>1, Zenon DEF Calm, Completing, UnderWay
  <2>5. jobs' = {}
    BY <2>1, <2>2, JobsSingle, Zenon DEF Undisturbed, Alone
  <2>6. Next1(d).state # "processing"
    <3>1. Loaded(p) \in Data
      BY <2>1, LoadedIsRow, Zenon DEF Undisturbed
    <3> QED BY <3>1, SMT DEF Next1, Data
  <2> HIDE DEF d
  <2>7. \A x \in row' : x.state # "processing" \/ x.wait # "none"
    BY <2>1, <2>6, Zenon DEF Store
  <2>8. step'[Origin] # "started"
    <3>1. block[Origin] = {}
      BY <2>2, UploadAssumption, Zenon
    <3>2. step[Origin] # "started"
      BY <3>1, UploadAssumption, Zenon DEF Starting
    <3> QED BY <1>3, <3>2, Zenon
  <2>9. Origin \in up' /\ ~ uploaded' /\ \A q \in Process : block'[q] = {}
    BY <1>1, <2>2, <2>4, Zenon DEF Calm, OriginWorks
  <2> QED BY <2>5, <2>7, <2>8, <2>9, StoredCalm, Zenon
<1>5. CASE ~ (Stuck(p) /\ ~ Holds("db"))
  <2>1. row' = row /\ cur' = cur /\ jobs' = jobs
    BY <1>5, Zenon DEF CheckRecords
  <2>2. Outstanding' = Outstanding /\ \A a \in Outstanding : answer'[a] = answer[a]
    BY <1>1, SameOutstanding, Zenon
  <2> QED BY <1>1, <1>2, <1>3, <2>1, <2>2, QuietCalm, Zenon
<1> QED BY <1>4, <1>5, Zenon

\* What starts, looks or cancels.
LEMMA LookingCalm ==
  ASSUME Inductive, Starting, Calm, NEW p \in Process,
         Launch(p) \/ CheckRequests(p) \/ CheckQueue(p) \/ CancelByUser(p)
  PROVE  Calm'
<1>1. /\ UNCHANGED <<row, cur, jobs, block, overwritten, uploaded>> /\ up \subseteq up'
      /\ where' = where /\ answer' = answer
      /\ \/ step' = step
         \/ /\ step[p] = "check" \/ step[p] = "kvs" \/ p \notin up
            /\ \E s \in {"check", "kvs", "db"} : step' = [step EXCEPT ![p] = s]
      /\ cancelled' = cancelled \/ cancelled' = [cancelled EXCEPT ![p] = TRUE]
  BY Zenon DEF Launch, CheckRequests, CheckQueue, CancelByUser, disk, history
<1>2. step[p] # "finished" \/ step' = step
  BY <1>1, SMT DEF Starting
<1>3. Finishing \subseteq Finishing'
  BY <1>1, <1>2, SMT DEF Finishing, Inductive, Processes
<1>4. /\ step'[Origin] = step[Origin] \/ step'[Origin] # "started"
      /\ cancelled[Origin] => cancelled'[Origin]
  BY <1>1, UploadAssumption, SMT DEF Inductive, Processes
<1>5. Outstanding' = Outstanding /\ \A a \in Outstanding : answer'[a] = answer[a]
  BY <1>1, SameOutstanding, Zenon
<1> QED BY <1>1, <1>3, <1>4, <1>5, QuietCalm, Zenon

LEMMA DeliveryCalm ==
  ASSUME Inductive, Stores, Calm, NEW a \in Request,
         QueueEvent(a) \/ RemoveRequest(a) \/ Transfer(a)
  PROVE  Calm'
<1>1. /\ UNCHANGED <<row, cur, jobs, block, overwritten, uploaded, up, step, cancelled>>
      /\ \/ answer' = answer
         \/ answer' = [answer EXCEPT ![a] = IF answer[a] = "handled" THEN "none"
                                            ELSE answer[a]]
  BY Zenon DEF QueueEvent, RemoveRequest, Transfer, memory, history
<1>2. \A b \in Outstanding : answer'[b] = answer[b]
  BY <1>1, SMT DEF Outstanding, Inductive, Requests
<1>3. Outstanding' = Outstanding
  BY DeliveryOpen, Zenon
<1>4. Finishing \subseteq Finishing'
  BY <1>1, SameFinishing, Zenon
<1> QED BY <1>1, <1>2, <1>3, <1>4, QuietCalm, Zenon

LEMMA AnswerCalm ==
  ASSUME Inductive, Stores, Undisturbed, Calm, NEW a \in Request, Answer(a)
  PROVE  Calm'
<1>1. PICK o \in {"ok", "failed", "cancelled"} :
           /\ answer' = [answer EXCEPT ![a] = o] /\ uploaded' = (uploaded \/ o = "ok")
  BY Zenon DEF Answer
<1>2. /\ UNCHANGED <<row, cur, jobs, block, overwritten, up, step, cancelled, where>>
      /\ "http" \in where[a] /\ answer[a] = "none"
  BY Zenon DEF Answer, memory
<1>3. a \in Outstanding
  BY <1>2, SMT DEF Outstanding
<1>4. Outstanding = {a} /\ jobs = {}
  BY <1>3, SMT DEF Undisturbed, Alone, Single
<1>5. ~ uploaded
  BY <1>2, <1>3, SMT DEF Calm, Completing
<1>6. Outstanding' = {a}
  BY <1>4, DeliveryOpen, Zenon
<1>7. answer'[a] = o
  BY <1>1, SMT DEF Inductive, Requests
<1>8. OriginWorks'
  BY <1>2, Zenon DEF Calm, OriginWorks
<1>9. UnderWay' /\ NotAtRest'
  BY <1>6, Zenon DEF NotAtRest, UnderWay
<1>10. uploaded' => o = "ok"
  BY <1>1, <1>5, Raised, Zenon
<1>11. Completing'
  BY <1>2, <1>4, <1>6, <1>7, <1>9, <1>10, Zenon DEF Completing
<1> QED BY <1>8, <1>9, <1>11, Zenon DEF Calm

LEMMA OneUploadStep ==
  ASSUME Inductive, Stores, Starting, Looked, OneAttempt, OneUpload, Next
  PROVE  OneUpload'
<1> SUFFICES ASSUME crashes' = 0, ~ foreign'
             PROVE  Calm'
  BY Zenon DEF OneUpload
<1>1. ~ foreign /\ crashes = 0
  BY ForeignStays, Zenon
<1>2. Calm
  BY <1>1, Zenon DEF OneUpload
<1>3. ~ overwritten /\ ~ overwritten'
  BY <1>2, OriginStores, Zenon DEF Calm, OriginWorks
<1>4. Undisturbed
  BY <1>1, <1>3, Zenon DEF OneAttempt
<1>5. ASSUME NEW p \in Process, Pass(p)
      PROVE  Calm'
  BY <1>2, <1>3, <1>4, <1>5, ScheduleCalm, ScheduleFailsCalm, HandleEventsCalm,
     CancelCalm, ResolveCalm, Zenon DEF Pass
<1>6. ASSUME NEW p \in Process, StoreStarted(p) \/ StoreCompleted(p) \/ RemoveCompleted(p)
      PROVE  Calm'
  BY <1>2, <1>3, <1>4, <1>6, StoreStartedCalm, StoreCompletedCalm, RemoveCompletedCalm, Zenon
<1>7. ASSUME NEW p \in Process, Launch(p) \/ HealthCheck(p) \/ CancelByUser(p)
      PROVE  Calm'
  BY <1>1, <1>2, <1>3, <1>4, <1>7, LookingCalm, CheckRecordsCalm, Zenon DEF HealthCheck
<1>8. ASSUME NEW p \in Process, Crash(p)
      PROVE  FALSE
  <2>1. crashes' = crashes + 1
    BY <1>8, Zenon DEF Crash
  <2> QED BY <1>1, <2>1, SMT
<1>9. ASSUME NEW p \in Process, Quit(p)
      PROVE  FALSE
  BY <1>2, <1>9, NoQuit, Zenon
<1>10. ASSUME NEW j \in jobs, \/ StartUpload(j) \/ StartWithoutCopy(j) \/ ChecksumFails(j)
                             \/ SkipUpload(j) \/ FinishUpload(j)
       PROVE  Calm'
  BY <1>2, <1>3, <1>4, <1>10, StartCalm, ChecksumFailsCalm, SkipUploadCalm,
     FinishUploadCalm, Zenon
<1>11. ASSUME NEW a \in Request, Answer(a) \/ QueueEvent(a) \/ RemoveRequest(a) \/ Transfer(a)
       PROVE  Calm'
  BY <1>2, <1>4, <1>11, AnswerCalm, DeliveryCalm, Zenon
<1> QED BY <1>5, <1>6, <1>7, <1>8, <1>9, <1>10, <1>11, Zenon DEF Next

-----------------------------------------------------------------------------
(* The second inductive invariant *)

LEMMA InitAttempts == ASSUME Init PROVE Attempts
<1> DEFINE r0 == [state |-> "ready", wait |-> "none", copied |-> FALSE,
                  sum |-> FALSE, rev |-> 0]
<1>1. /\ row = {r0} /\ jobs = {} /\ up = {Origin} /\ uploaded = FALSE
      /\ where = [a \in Request |-> {}] /\ answer = [a \in Request |-> "none"]
      /\ cur = [p \in Process |-> {}] /\ block = [p \in Process |-> {}]
      /\ step = [p \in Process |-> "idle"] /\ overwritten = FALSE
  BY Zenon DEF Init
<1>2. r0.state = "ready"
  BY Zenon
<1> HIDE DEF r0
<1>3. Stores
  BY <1>1, SMT DEF Stores
<1>4. Starting /\ Looked
  BY <1>1, SMT DEF Starting, Looked
<1>5. Outstanding = {} /\ Finishing = {}
  BY <1>1, SMT DEF Outstanding, Finishing
<1>6. Alone /\ Parked
  BY <1>1, <1>5, Zenon DEF Alone, Parked, UnderWay, Single
<1>7. Latest
  <2>1. ASSUME NEW d \in Known
        PROVE  d = r0
    <3>1. /\ \A p \in Process : d \notin cur[p]
          /\ \A p \in Process : block[p] = {}
      BY <1>1, SMT
    <3> QED BY <1>1, <2>1, <3>1, KnownIn, Zenon
  <2> QED BY <1>1, <2>1, Zenon DEF Latest
<1>8. OriginWorks /\ NotAtRest /\ Completing
  <2>1. \A p \in Process : block[p] = {} /\ step[p] = "idle"
    BY <1>1, SMT
  <2>2. Origin \in Process
    BY UploadAssumption, Zenon
  <2>3. step[Origin] # "started" /\ block[Origin] = {}
    BY <2>1, <2>2, SMT
  <2>4. OriginWorks
    BY <1>1, <2>1, <2>2, <2>3, Zenon DEF OriginWorks
  <2>5. \A r \in row : r.state # "processing"
    BY <1>1, <1>2, SMT
  <2> QED BY <1>1, <2>3, <2>4, <2>5, Zenon DEF NotAtRest, Completing
<1> QED BY <1>3, <1>4, <1>6, <1>7, <1>8, Zenon
        DEF Attempts, OneAttempt, OneUpload, Undisturbed, Calm

LEMMA StutterAttempts ==
  ASSUME Attempts, UNCHANGED vars
  PROVE  Attempts'
<1>1. /\ UNCHANGED <<row, where, answer, up, cur, jobs, step, block, found, cancelled>>
      /\ UNCHANGED <<uploaded, foreign, overwritten, crashes>>
  BY Zenon DEF vars
<1>2. Stores' /\ Starting' /\ Looked'
  BY <1>1, Zenon DEF Attempts, Stores, Starting, Looked
<1>3. Known' = Known /\ Outstanding' = Outstanding /\ Finishing' = Finishing
  BY <1>1, Zenon DEF Known, Outstanding, Finishing
<1>4. Latest' = Latest /\ Alone' = Alone /\ UnderWay' = UnderWay /\ Parked' = Parked
  BY <1>1, <1>3, Zenon DEF Latest, Alone, UnderWay, Parked
<1>5. OneAttempt'
  BY <1>1, <1>4, Zenon DEF Attempts, OneAttempt, Undisturbed
<1>6. OriginWorks' = OriginWorks /\ NotAtRest' = NotAtRest /\ Completing' = Completing
  BY <1>1, <1>3, <1>4, Zenon DEF OriginWorks, NotAtRest, Completing, UnderWay
<1>7. OneUpload'
  BY <1>1, <1>6, Zenon DEF Attempts, OneUpload, Calm
<1> QED BY <1>2, <1>5, <1>7, Zenon DEF Attempts

LEMMA AttemptsStep ==
  ASSUME Inductive, Attempts, Next
  PROVE  Attempts'
<1>1. Stores /\ Starting /\ Looked /\ OneAttempt /\ OneUpload
  BY Zenon DEF Attempts
<1>2. Stores' /\ Starting' /\ Looked' /\ OneAttempt' /\ OneUpload'
  BY <1>1, StoresStep, StartingStep, LookedStep, OneAttemptStep, OneUploadStep, Zenon
<1> QED BY <1>2, Zenon DEF Attempts

\* An upload has one attempt at a time, a job, a request or the block that
\* completes it, with the record parked meanwhile, unless something disturbs it;
\* until a termination the process that submitted it does it all.
THEOREM AttemptsHold == Spec => []Attempts
<1>1. Init => Attempts
  BY InitAttempts
<1>2. Inductive /\ Attempts /\ [Next]_vars => Attempts'
  BY AttemptsStep, StutterAttempts, Zenon
<1> QED BY <1>1, <1>2, InductiveHolds, PTL DEF Spec

\* Two requests of an upload are outstanding only if a health check met the work
\* of another process on the record, or the block of a job stored an outdated
\* instance.
THEOREM OverlapExplained == Spec => []OverlapOnlyAfterInterference
<1>1. Attempts => OverlapOnlyAfterInterference
  <2>1. ASSUME Attempts, ~ foreign, ~ overwritten
        PROVE  Single(Outstanding)
    BY <2>1, Zenon DEF Attempts, OneAttempt, Undisturbed, Alone
  <2> QED BY <2>1, SingleCounted, Zenon DEF OverlapOnlyAfterInterference
<1> QED BY <1>1, AttemptsHold, PTL

\* As long as no process ended, a file the server has is not uploaded again
\* unless a health check interferes with the work of another process.
LEMMA ReuploadStep ==
  ASSUME Inductive, Attempts, Next, crashes = 0, ~ foreign, uploaded,
         NEW a \in Request, where[a] = {}, where'[a] # {}
  PROVE  FALSE
<1>1. ASSUME NEW j \in jobs, StartUpload(j) \/ StartWithoutCopy(j)
      PROVE  FALSE
  <2>1. j.kind = "hash" /\ j.kind = "verify"
    BY <1>1, Zenon DEF Attempts, OneUpload, Calm, Completing, StartUpload, StartWithoutCopy
  <2> QED BY <2>1, SMT
<1>2. ASSUME NEW p \in Process, HandleEvents(p)
      PROVE  FALSE
  <2>1. where' = [b \in Request |-> where[b] \ {"db"}]
    BY <1>2, Zenon DEF HandleEvents
  <2> QED BY <2>1, SMT
<1>3. ASSUME NEW b \in Request, Answer(b) \/ QueueEvent(b) \/ RemoveRequest(b) \/ Transfer(b)
      PROVE  FALSE
  <2>1. \/ where' = where
        \/ where[b] # {} /\ \E S : where' = [where EXCEPT ![b] = S]
    BY <1>3, SMT DEF Answer, QueueEvent, RemoveRequest, Transfer
  <2>2. a # b => where'[a] = where[a]
    BY <2>1, SMT DEF Inductive, Requests
  <2> QED BY <2>1, <2>2, Zenon
<1>4. CASE where' = where
  BY <1>4, Zenon
<1> QED BY <1>1, <1>2, <1>3, <1>4, RequestsWritten, Zenon

THEOREM ReuploadExplained == Spec => ReuploadOnlyAfterTermination
<1> DEFINE A == \A a \in Request :
                  where[a] = {} /\ where'[a] # {} /\ uploaded => crashes > 0 \/ foreign
<1>1. Inductive /\ Attempts /\ [Next]_vars => [A]_vars
  <2>1. ASSUME Inductive, Attempts, Next
        PROVE  A
    <3>1. ~ (crashes > 0) => crashes = 0
      BY <2>1, SMT DEF Inductive, Bounds
    <3> QED BY <2>1, <3>1, ReuploadStep, Zenon
  <2> HIDE DEF A
  <2> QED BY <2>1, Zenon
<1>2. ReuploadOnlyAfterTermination <=> [][A]_vars
  BY DEF ReuploadOnlyAfterTermination
<1> HIDE DEF A
<1> QED BY <1>1, <1>2, InductiveHolds, AttemptsHold, PTL DEF Spec
=============================================================================
