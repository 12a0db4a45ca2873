--------------------------- MODULE ItemListProofs ---------------------------
(***************************************************************************)
(* What a merge may do to the rows: for any processes, tasks, changes on   *)
(* the server and failures, pending local work outlives every merge that   *)
(* read its rows at one anchor, and the root's ETag vouches for the file's *)
(* row.                                                                    *)
(***************************************************************************)
EXTENDS ItemList, FiniteSetTheorems, TLAPS

\* The parts of TypeOK.
Busy == {"reanchor", "merge", "finish"}
Files ==
    /\ server \in Listing
    /\ rows \in Rows
    /\ op \in [kind : Work, sent : Rev, by : Process \union {"nobody"}]
Tasks == task \in [Task -> TaskState]
Jobs ==
    /\ stored \subseteq Location
    /\ queued \in [Process -> SUBSET Location]
    /\ up \subseteq Process
    /\ spent \in 0..MaxEvents
    /\ excuse \subseteq {"older listing", "failed listing",
                         "older upload", "finished job", "slipped rows"}
OneBlock ==
    \A t, u \in Task : t[1] = u[1] /\ At(t, Busy) /\ At(u, Busy) => t = u

-----------------------------------------------------------------------------
(* The inductive invariant *)

\* What the merge of a task relies on is what the rows say.
Agrees(t) ==
    /\ t[2] = "root" => task[t].copy.folder = rows.folder
    /\ t[2] = "folder" => task[t].copy.item = rows.item

\* A task that may merge has the rows as they are, and so has one that has
\* yet to read the anchor, unless rows slipped in.
CopiesAgree ==
    \A t \in Task :
        /\ ~task[t].slipped
        /\ \/ At(t, {"anchor", "reanchor"})
           \/ task[t].fresh /\ At(t, {"waiting", "merge"})
        => Agrees(t)

\* The folder's ETag is as new as the root's, and the file's row as new as the
\* folder's unless the folder has an update job.  A task that is about to
\* remove that job leaves rows that do not need it.
JobsStand ==
    excuse = {} =>
        /\ rows.root <= rows.folder
        /\ "folder" \in stored \/ rows.folder <= rows.item.ver
        /\ \A t \in Task : t[2] = "folder" /\ At(t, {"finish"}) /\ task[t].job
                              => rows.folder <= rows.item.ver

Inductive == TypeOK /\ OneBlock /\ CopiesAgree /\ JobsStand

-----------------------------------------------------------------------------
(* Types *)

LEMMA TaskPairs ==
    ASSUME NEW t \in Task
    PROVE  t[1] \in Process /\ t[2] \in Location
BY TaskAssumption, SMT

\* What TypeOK says of the core's queue, from the pairwise form.
LEMMA OneBlockCounted ==
    ASSUME OneBlock, NEW p \in Process
    PROVE  Cardinality({t \in Of(p) : At(t, Busy)}) <= 1
<1> DEFINE S == {t \in Of(p) : At(t, Busy)}
<1>1. \A t, u \in S : t = u
    BY Zenon DEF OneBlock, Of
<1> HIDE DEF S
<1>2. CASE S = {}
    <2>1. Cardinality(S) = 0
        BY <1>2, FS_EmptySet, Zenon
    <2> QED BY <2>1, SMT DEF S
<1>3. CASE S # {}
    <2>1. PICK t : t \in S
        BY <1>3, Zenon
    <2>2. S = {t}
        BY <1>1, <2>1, Zenon
    <2>3. Cardinality(S) = 1
        BY <2>2, FS_Singleton, Zenon
    <2> QED BY <2>3, SMT DEF S
<1> QED BY <1>2, <1>3

LEMMA TypeParts ==
    /\ TypeOK => Files /\ Tasks /\ Jobs
    /\ Files /\ Tasks /\ Jobs /\ OneBlock => TypeOK
BY OneBlockCounted, Zenon DEF TypeOK, Files, Tasks, Jobs, Busy

LEMMA StateFields ==
    ASSUME NEW s \in TaskState
    PROVE  /\ s.pc \in PC /\ s.list \in {"asked", "answered", "ready"}
           /\ s.snap \in Listing /\ s.copy \in Rows
           /\ s.fresh \in BOOLEAN /\ s.job \in BOOLEAN /\ s.slipped \in BOOLEAN
BY SMT DEF TaskState

\* What one field's update leaves of a task.
LEMMA SetPc ==
    ASSUME NEW s \in TaskState, NEW v \in PC
    PROVE  /\ [s EXCEPT !.pc = v] \in TaskState
           /\ [s EXCEPT !.pc = v].pc = v
           /\ [s EXCEPT !.pc = v].list = s.list
           /\ [s EXCEPT !.pc = v].snap = s.snap
           /\ [s EXCEPT !.pc = v].copy = s.copy
           /\ [s EXCEPT !.pc = v].fresh = s.fresh
           /\ [s EXCEPT !.pc = v].job = s.job
           /\ [s EXCEPT !.pc = v].slipped = s.slipped
BY SMT DEF TaskState

LEMMA SetList ==
    ASSUME NEW s \in TaskState, NEW v \in {"asked", "answered", "ready"}
    PROVE  /\ [s EXCEPT !.list = v] \in TaskState
           /\ [s EXCEPT !.list = v].pc = s.pc
           /\ [s EXCEPT !.list = v].list = v
           /\ [s EXCEPT !.list = v].snap = s.snap
           /\ [s EXCEPT !.list = v].copy = s.copy
           /\ [s EXCEPT !.list = v].fresh = s.fresh
           /\ [s EXCEPT !.list = v].job = s.job
           /\ [s EXCEPT !.list = v].slipped = s.slipped
BY SMT DEF TaskState

LEMMA SetSnap ==
    ASSUME NEW s \in TaskState, NEW v \in Listing
    PROVE  /\ [s EXCEPT !.snap = v] \in TaskState
           /\ [s EXCEPT !.snap = v].pc = s.pc
           /\ [s EXCEPT !.snap = v].list = s.list
           /\ [s EXCEPT !.snap = v].snap = v
           /\ [s EXCEPT !.snap = v].copy = s.copy
           /\ [s EXCEPT !.snap = v].fresh = s.fresh
           /\ [s EXCEPT !.snap = v].job = s.job
           /\ [s EXCEPT !.snap = v].slipped = s.slipped
BY SMT DEF TaskState

LEMMA SetCopy ==
    ASSUME NEW s \in TaskState, NEW v \in Rows
    PROVE  /\ [s EXCEPT !.copy = v] \in TaskState
           /\ [s EXCEPT !.copy = v].pc = s.pc
           /\ [s EXCEPT !.copy = v].list = s.list
           /\ [s EXCEPT !.copy = v].snap = s.snap
           /\ [s EXCEPT !.copy = v].copy = v
           /\ [s EXCEPT !.copy = v].fresh = s.fresh
           /\ [s EXCEPT !.copy = v].job = s.job
           /\ [s EXCEPT !.copy = v].slipped = s.slipped
BY SMT DEF TaskState

LEMMA SetFresh ==
    ASSUME NEW s \in TaskState, NEW v \in BOOLEAN
    PROVE  /\ [s EXCEPT !.fresh = v] \in TaskState
           /\ [s EXCEPT !.fresh = v].pc = s.pc
           /\ [s EXCEPT !.fresh = v].list = s.list
           /\ [s EXCEPT !.fresh = v].snap = s.snap
           /\ [s EXCEPT !.fresh = v].copy = s.copy
           /\ [s EXCEPT !.fresh = v].fresh = v
           /\ [s EXCEPT !.fresh = v].job = s.job
           /\ [s EXCEPT !.fresh = v].slipped = s.slipped
BY SMT DEF TaskState

LEMMA SetJob ==
    ASSUME NEW s \in TaskState, NEW v \in BOOLEAN
    PROVE  /\ [s EXCEPT !.job = v] \in TaskState
           /\ [s EXCEPT !.job = v].pc = s.pc
           /\ [s EXCEPT !.job = v].list = s.list
           /\ [s EXCEPT !.job = v].snap = s.snap
           /\ [s EXCEPT !.job = v].copy = s.copy
           /\ [s EXCEPT !.job = v].fresh = s.fresh
           /\ [s EXCEPT !.job = v].job = v
           /\ [s EXCEPT !.job = v].slipped = s.slipped
BY SMT DEF TaskState

LEMMA SetSlipped ==
    ASSUME NEW s \in TaskState, NEW v \in BOOLEAN
    PROVE  /\ [s EXCEPT !.slipped = v] \in TaskState
           /\ [s EXCEPT !.slipped = v].pc = s.pc
           /\ [s EXCEPT !.slipped = v].list = s.list
           /\ [s EXCEPT !.slipped = v].snap = s.snap
           /\ [s EXCEPT !.slipped = v].copy = s.copy
           /\ [s EXCEPT !.slipped = v].fresh = s.fresh
           /\ [s EXCEPT !.slipped = v].job = s.job
           /\ [s EXCEPT !.slipped = v].slipped = v
BY SMT DEF TaskState

LEMMA RowFields ==
    ASSUME NEW r \in Rows
    PROVE  /\ r.root \in Rev /\ r.folder \in Rev /\ r.item \in Item
           /\ r.item.ver \in Rev /\ r.item.work \in Work /\ r.item.gone \in BOOLEAN
BY SMT DEF Rows, Item

LEMMA RowsType ==
    ASSUME NEW a \in Rev, NEW b \in Rev, NEW i \in Item
    PROVE  [root |-> a, folder |-> b, item |-> i] \in Rows
BY Zenon DEF Rows

LEMMA NoCopyType == 0 \in Rev /\ NoCopy \in Rows /\ [rev |-> 0, gone |-> FALSE] \in Listing
<1>1. 0 \in Rev
    BY BoundAssumption, SMT DEF Rev
<1> QED BY <1>1, SMT DEF NoCopy, Rows, Item, Work, Listing

\* A task that reads the rows of its location has them.
LEMMA ReadingState ==
    ASSUME Files, NEW t \in Task, NEW s \in TaskState, NEW c \in PC
    PROVE  /\ Reading(t, s, c) \in TaskState
           /\ Reading(t, s, c).pc = c /\ ~Reading(t, s, c).slipped
           /\ Reading(t, s, c).job = s.job /\ Reading(t, s, c).fresh = s.fresh
           /\ t[2] = "root" => Reading(t, s, c).copy.folder = rows.folder
           /\ t[2] = "folder" => Reading(t, s, c).copy.item = rows.item
<1> DEFINE c1 == [NoCopy EXCEPT !.folder = rows.folder]
           c2 == [NoCopy EXCEPT !.item = rows.item]
           w == IF t[2] = "root" THEN c1 ELSE c2
<1>1. NoCopy \in Rows /\ rows \in Rows /\ rows.folder \in Rev /\ rows.item \in Item
    BY NoCopyType, RowFields, Zenon DEF Files
<1>2. c1 \in Rows /\ c1.folder = rows.folder
    BY <1>1, SMT DEF Rows
<1>3. c2 \in Rows /\ c2.item = rows.item
    BY <1>1, SMT DEF Rows
<1> DEFINE s1 == [s EXCEPT !.pc = c]
           s2 == [s1 EXCEPT !.slipped = FALSE]
           s3 == [s2 EXCEPT !.copy = w]
<1>4. Reading(t, s, c) = s3
    BY Zenon DEF Reading
<1> HIDE DEF c1, c2
<1>5. /\ w \in Rows
      /\ t[2] = "root" => w.folder = rows.folder
      /\ t[2] = "folder" => w.item = rows.item
    BY <1>2, <1>3, SMT
<1> HIDE DEF w, s1, s2, s3
<1>6. s1 \in TaskState /\ s1.pc = c /\ s1.job = s.job /\ s1.fresh = s.fresh
    BY SetPc, Zenon DEF s1
<1>7. s2 \in TaskState /\ s2.pc = c /\ s2.job = s.job /\ s2.fresh = s.fresh
      /\ s2.slipped = FALSE
    BY <1>6, SetSlipped, Zenon DEF s2
<1>8. s3 \in TaskState /\ s3.pc = c /\ s3.job = s.job /\ s3.fresh = s.fresh
      /\ s3.slipped = FALSE /\ s3.copy = w
    BY <1>5, <1>7, SetCopy, Zenon DEF s3
<1> QED BY <1>4, <1>5, <1>8, Zenon

LEMMA ClosedState ==
    ASSUME NEW b \in BOOLEAN
    PROVE  /\ Closed \in TaskState /\ Closed.pc = "closed"
           /\ [Closed EXCEPT !.job = b] \in TaskState
           /\ [Closed EXCEPT !.job = b].fresh = FALSE
           /\ [Closed EXCEPT !.job = b].job = b
           /\ [Closed EXCEPT !.pc = "finish", !.job = TRUE] \in TaskState
           /\ [Closed EXCEPT !.pc = "finish", !.job = TRUE].pc = "finish"
<1> DEFINE s1 == [Closed EXCEPT !.pc = "finish"]
           s2 == [s1 EXCEPT !.job = TRUE]
<1>1. Closed \in TaskState /\ Closed.pc = "closed" /\ Closed.fresh = FALSE
    BY NoCopyType, SMT DEF Closed, TaskState, PC
<1>2. [Closed EXCEPT !.job = b] \in TaskState /\ [Closed EXCEPT !.job = b].fresh = FALSE
      /\ [Closed EXCEPT !.job = b].job = b
    BY <1>1, SMT DEF TaskState
<1>3. [Closed EXCEPT !.pc = "finish", !.job = TRUE] = s2
    OBVIOUS
<1> HIDE DEF s1, s2
<1>4. s1 \in TaskState /\ s1.pc = "finish"
    BY <1>1, SMT DEF s1, TaskState, PC
<1>5. s2 \in TaskState /\ s2.pc = "finish"
    BY <1>4, SetJob, Zenon DEF s2
<1> QED BY <1>1, <1>2, <1>3, <1>5, Zenon

\* Rows process p writes do not slip past the task.
Unread(p, t) == t[1] = p \/ ~At(t, {"anchor", "reanchor"})

LEMMA IncrementedState ==
    ASSUME Tasks, NEW p, NEW new
    PROVE  /\ Incremented(p, new) \in [Task -> TaskState]
           /\ \A t \in Task :
                  /\ Incremented(p, new)[t].fresh = FALSE
                  /\ Incremented(p, new)[t].pc = task[t].pc
                  /\ Incremented(p, new)[t].job = task[t].job
                  /\ Incremented(p, new)[t].copy = task[t].copy
                  /\ ~Incremented(p, new)[t].slipped =>
                        /\ ~task[t].slipped
                        /\ new = rows \/ Unread(p, t)
<1> DEFINE d(t) == \/ task[t].slipped
                   \/ new # rows /\ t[1] # p /\ At(t, {"anchor", "reanchor"})
           s1(t) == [task[t] EXCEPT !.fresh = FALSE]
           s2(t) == [s1(t) EXCEPT !.slipped = d(t)]
<1>1. Incremented(p, new) = [t \in Task |-> s2(t)]
    BY Zenon DEF Incremented
<1>2. ASSUME NEW t \in Task PROVE task[t] \in TaskState /\ d(t) \in BOOLEAN
    <2>1. task[t] \in TaskState
        BY Zenon DEF Tasks
    <2> QED BY <2>1, StateFields, Zenon
<1> HIDE DEF d, s1, s2
<1>3. ASSUME NEW t \in Task
      PROVE  /\ s1(t) \in TaskState /\ s1(t).fresh = FALSE /\ s1(t).pc = task[t].pc
             /\ s1(t).job = task[t].job /\ s1(t).copy = task[t].copy
    BY <1>2, SetFresh, Zenon DEF s1
<1>4. ASSUME NEW t \in Task
      PROVE  /\ s2(t) \in TaskState /\ s2(t).fresh = FALSE /\ s2(t).pc = task[t].pc
             /\ s2(t).job = task[t].job /\ s2(t).copy = task[t].copy
             /\ s2(t).slipped = d(t)
    <2>1. /\ s1(t) \in TaskState /\ s1(t).fresh = FALSE /\ s1(t).pc = task[t].pc
          /\ s1(t).job = task[t].job /\ s1(t).copy = task[t].copy /\ d(t) \in BOOLEAN
        BY <1>2, <1>3, Zenon
    <2> QED BY <2>1, SetSlipped, Zenon DEF s2
<1>5. Incremented(p, new) \in [Task -> TaskState]
    BY <1>1, <1>4, Zenon
<1>6. \A t \in Task : Incremented(p, new)[t] = s2(t)
    BY <1>1, Zenon
<1>7. \A t \in Task : ~d(t) => /\ ~task[t].slipped
                               /\ new = rows \/ Unread(p, t)
    BY Zenon DEF d, Unread
<1> QED BY <1>4, <1>5, <1>6, <1>7, Zenon

\* A merge keeps the pending work of the row it read, and takes the listing's
\* change over.
LEMMA MergedItemKeeps ==
    ASSUME NEW c \in Item, NEW l \in Listing, Files
    PROVE  /\ MergedItem(c, l) \in Item /\ MergedItem(c, l).ver = l.rev
           /\ c = rows.item => MergedItem(c, l).work = c.work
<1> DEFINE Row(g, k) == [ver |-> l.rev, gone |-> g, work |-> k]
           now == [rows.item EXCEPT !.ver = l.rev]
           kept == [c EXCEPT !.ver = l.rev]
<1>1. /\ c.ver \in Rev /\ c.gone \in BOOLEAN /\ c.work \in Work
      /\ l.rev \in Rev /\ l.gone \in BOOLEAN
      /\ rows.item \in Item /\ rows.item.gone \in BOOLEAN /\ rows.item.work \in Work
    BY RowFields, SMT DEF Files, Item, Listing
<1>2. /\ now = Row(rows.item.gone, rows.item.work)
      /\ kept = Row(c.gone, c.work)
    BY <1>1, SMT DEF Item
<1>3. ASSUME NEW g \in BOOLEAN
      PROVE  /\ [kept EXCEPT !.gone = g] = Row(g, c.work)
             /\ [now EXCEPT !.gone = g] = Row(g, rows.item.work)
    <2>1. now \in Item /\ now.ver = l.rev /\ now.work = rows.item.work
        BY <1>1, <1>2, SMT DEF Item
    <2>2. kept \in Item /\ kept.ver = l.rev /\ kept.work = c.work
        BY <1>1, <1>2, SMT DEF Item
    <2> HIDE DEF now, kept
    <2>3. [kept EXCEPT !.gone = g] = Row(g, c.work)
        BY <2>2, SMT DEF Item
    <2>4. [now EXCEPT !.gone = g] = Row(g, rows.item.work)
        BY <2>1, SMT DEF Item
    <2> QED BY <2>3, <2>4
<1>4. \E g \in BOOLEAN : \E k \in {c.work, rows.item.work} :
        MergedItem(c, l) = Row(g, k)
    <2>1. CASE ~c.gone /\ ~l.gone /\ c.work # "none"
        <3>1. MergedItem(c, l) = kept
            BY <2>1, Zenon DEF MergedItem
        <3> QED BY <1>1, <1>2, <1>3, <3>1, Zenon
    <2>2. CASE ~c.gone /\ ~l.gone /\ c.work = "none"
        <3>1. \/ MergedItem(c, l) = now
              \/ MergedItem(c, l) = [kept EXCEPT !.gone = FALSE]
            BY <2>2, Zenon DEF MergedItem
        <3> QED BY <1>1, <1>2, <1>3, <3>1, Zenon
    <2>3. CASE ~c.gone /\ l.gone
        <3>1. \/ MergedItem(c, l) = now
              \/ MergedItem(c, l) = [kept EXCEPT !.gone = TRUE]
            BY <2>3, Zenon DEF MergedItem
        <3> QED BY <1>1, <1>2, <1>3, <3>1, Zenon
    <2>4. CASE c.gone /\ ~l.gone
        <3>1. MergedItem(c, l) =
                [now EXCEPT !.gone = rows.item.gone /\ rows.item.work = "delete"]
            BY <2>4, Zenon DEF MergedItem
        <3>2. (rows.item.gone /\ rows.item.work = "delete") \in BOOLEAN
            OBVIOUS
        <3> QED BY <1>1, <1>2, <1>3, <3>1, <3>2, Zenon
    <2>5. CASE c.gone /\ l.gone
        <3>1. MergedItem(c, l) = now
            BY <2>5, Zenon DEF MergedItem
        <3> QED BY <1>1, <1>2, <1>3, <3>1, Zenon
    <2> QED BY <1>1, <2>1, <2>2, <2>3, <2>4, <2>5, Zenon
<1>5. PICK g \in BOOLEAN, k \in {c.work, rows.item.work} :
        MergedItem(c, l) = [ver |-> l.rev, gone |-> g, work |-> k]
    BY <1>4, Zenon
<1>6. k \in Work
    BY <1>1, <1>5, Zenon
<1>7. MergedItem(c, l) \in Item
    BY <1>1, <1>5, <1>6, SMT DEF Item
<1>8. MergedItem(c, l).ver = l.rev /\ MergedItem(c, l).work = k
    BY <1>5, SMT
<1> QED BY <1>5, <1>7, <1>8, Zenon

\* A merge gives the folder of the task, and the file in it, the listing's
\* change; the root's merge leaves the file's row alone.
LEMMA MergedRows ==
    ASSUME Files, Tasks, NEW t \in Task
    PROVE  /\ Merged(t) \in Rows
           /\ t[2] = "root" => /\ Merged(t).root = task[t].snap.rev
                               /\ Merged(t).folder = task[t].snap.rev
                               /\ Merged(t).item = rows.item
           /\ t[2] # "root" => /\ Merged(t).root = rows.root
                               /\ Merged(t).folder = task[t].snap.rev
                               /\ Merged(t).item.ver = task[t].snap.rev
                               /\ task[t].copy.item = rows.item
                                    => Merged(t).item.work = rows.item.work
<1> DEFINE l == task[t].snap  c == task[t].copy.item  m == MergedItem(c, l)
<1>1. task[t] \in TaskState
    BY Zenon DEF Tasks
<1>2. /\ l \in Listing /\ c \in Item /\ rows \in Rows
      /\ rows.item \in Item /\ rows.root \in Rev /\ rows.folder \in Rev
    BY <1>1, StateFields, RowFields, Zenon DEF Files
<1>3. l.rev \in Rev
    BY <1>2, Zenon DEF Listing
<1> HIDE DEF l, c
<1>4. m \in Item /\ m.ver = l.rev /\ (c = rows.item => m.work = c.work)
    BY <1>2, MergedItemKeeps, Zenon
<1> HIDE DEF m
<1>5. CASE t[2] = "root"
    <2>1. Merged(t) = [root |-> l.rev, folder |-> l.rev, item |-> rows.item]
        BY <1>2, <1>5, Zenon DEF Merged, Rows, l
    <2>2. Merged(t) \in Rows
        BY <1>2, <1>3, <2>1, RowsType, Zenon
    <2>3. Merged(t).root = l.rev /\ Merged(t).folder = l.rev /\ Merged(t).item = rows.item
        BY <2>1, SMT
    <2> QED BY <1>5, <2>2, <2>3, Zenon DEF l
<1>6. CASE t[2] # "root"
    <2>1. Merged(t) = [root |-> rows.root, folder |-> l.rev, item |-> m]
        BY <1>2, <1>6, Zenon DEF Merged, Rows, l, c, m
    <2>2. Merged(t) \in Rows
        BY <1>2, <1>3, <1>4, <2>1, RowsType, Zenon
    <2>3. /\ Merged(t).root = rows.root /\ Merged(t).folder = l.rev
          /\ Merged(t).item = m
        BY <2>1, SMT
    <2> QED BY <1>4, <1>6, <2>2, <2>3, Zenon DEF l, c
<1> QED BY <1>5, <1>6, Zenon

-----------------------------------------------------------------------------
(* Steps that leave the rows alone                                         *)

\* What a task's next state may be when nothing else changes: it gets the
\* core's queue only if that is free, and has the rows as they are if it may
\* rely on them.
Becomes(t, s) ==
    /\ s.pc \in Busy => At(t, Busy) \/ CoreFree(t[1])
    /\ s.pc # "finish"
    /\ /\ ~s.slipped
       /\ \/ s.pc \in {"anchor", "reanchor"}
          \/ s.fresh /\ s.pc \in {"waiting", "merge"}
       => /\ t[2] = "root" => s.copy.folder = rows.folder
          /\ t[2] = "folder" => s.copy.item = rows.item

\* The steps of one task before its merge.
Prepares(t) ==
    \/ Query(t) \/ Schedule(t) \/ ReadAnchor(t) \/ ServerLists(t) \/ HandleListing(t)

\* Before its merge a task only ever becomes what it may.
LEMMA Preparing ==
    ASSUME Files, Tasks, CopiesAgree, NEW t \in Task, Prepares(t)
    PROVE  \E s \in TaskState : task' = [task EXCEPT ![t] = s] /\ Becomes(t, s)
<1>1. task[t] \in TaskState /\ Closed \in TaskState /\ t[1] \in Process
    BY ClosedState, TaskPairs, Zenon DEF Tasks
<1>2. "anchor" \in PC /\ "waiting" \in PC /\ "reanchor" \in PC /\ "merge" \in PC
    BY Zenon DEF PC
<1>3. ASSUME NEW s \in TaskState PROVE Becomes(t, Reading(t, s, "anchor"))
    <2>1. /\ Reading(t, s, "anchor").pc = "anchor"
          /\ t[2] = "root" => Reading(t, s, "anchor").copy.folder = rows.folder
          /\ t[2] = "folder" => Reading(t, s, "anchor").copy.item = rows.item
        BY <1>2, ReadingState, Zenon
    <2>2. Reading(t, s, "anchor").pc \notin Busy /\ Reading(t, s, "anchor").pc # "finish"
        BY <2>1, SMT DEF Busy
    <2> QED BY <2>1, <2>2, Zenon DEF Becomes
<1>4. ASSUME NEW b \in BOOLEAN
      PROVE  Started(t, b) \in TaskState /\ Becomes(t, Started(t, b))
    <2>1. [Closed EXCEPT !.job = b] \in TaskState
        BY ClosedState, Zenon
    <2> QED BY <1>2, <1>3, <2>1, ReadingState, Zenon DEF Started
<1>5. CASE Query(t)
    <2>1. task' = [task EXCEPT ![t] = Started(t, FALSE)]
        BY <1>5, Zenon DEF Query
    <2> QED BY <1>4, <2>1, Zenon
<1>6. CASE Schedule(t)
    <2> DEFINE b == t[2] \in stored
               s == IF task[t].pc = "closed" THEN Started(t, b)
                    ELSE [task[t] EXCEPT !.job = b]
    <2>1. b \in BOOLEAN
        OBVIOUS
    <2>2. task' = [task EXCEPT ![t] = s]
        BY <1>6, Zenon DEF Schedule
    <2>3. task[t].pc \notin Busy
        BY <1>6, Zenon DEF Schedule, CoreFree, Of, At, Busy
    <2> HIDE DEF b
    <2>4. CASE task[t].pc = "closed"
        BY <1>4, <2>1, <2>2, <2>4, Zenon
    <2>5. CASE task[t].pc # "closed"
        <3> DEFINE n == [task[t] EXCEPT !.job = b]
        <3>1. /\ n \in TaskState /\ n.pc = task[t].pc /\ n.fresh = task[t].fresh
              /\ n.slipped = task[t].slipped /\ n.copy = task[t].copy
            BY <1>1, <2>1, SetJob, Zenon
        <3>2. task' = [task EXCEPT ![t] = n]
            BY <2>2, <2>5, Zenon
        <3> HIDE DEF n
        <3>3. Becomes(t, n)
            <4>1. ~n.slipped /\ (\/ n.pc \in {"anchor", "reanchor"}
                                 \/ n.fresh /\ n.pc \in {"waiting", "merge"}) => Agrees(t)
                BY <3>1, SMT DEF CopiesAgree, At
            <4>2. n.pc \notin Busy /\ n.pc # "finish"
                BY <2>3, <3>1, SMT DEF Busy
            <4> QED BY <3>1, <4>1, <4>2, Zenon DEF Becomes, Agrees
        <3> QED BY <3>1, <3>2, <3>3, Zenon
    <2> QED BY <2>4, <2>5, Zenon
<1>7. CASE ReadAnchor(t)
    <2> DEFINE f == [task[t] EXCEPT !.fresh = TRUE]
               c == IF At(t, {"anchor"}) THEN "waiting" ELSE "merge"
               n == [f EXCEPT !.pc = c]
    <2>1. task' = [task EXCEPT ![t] = n]
        BY <1>7, Zenon DEF ReadAnchor
    <2>2. At(t, {"anchor", "reanchor"})
        BY <1>7, Zenon DEF ReadAnchor
    <2> HIDE DEF f
    <2>3. f \in TaskState /\ f.slipped = task[t].slipped /\ f.copy = task[t].copy
          /\ f.pc = task[t].pc
        BY <1>1, SetFresh, Zenon DEF f
    <2>4. c \in PC /\ c # "finish" /\ (c \in Busy => task[t].pc \in Busy)
        BY <1>2, <2>2, <2>3, SMT DEF At, Busy
    <2> HIDE DEF c
    <2>5. n \in TaskState /\ n.pc = c /\ n.slipped = f.slipped /\ n.copy = f.copy
        BY <2>3, <2>4, SetPc, Zenon
    <2> HIDE DEF n
    <2>6. Becomes(t, n)
        <3>1. ~n.slipped => Agrees(t)
            BY <2>2, <2>3, <2>5, SMT DEF CopiesAgree, At
        <3> QED BY <2>3, <2>4, <2>5, <3>1, Zenon DEF Becomes, Agrees, At
    <2> QED BY <2>1, <2>5, <2>6, Zenon
<1>8. CASE ServerLists(t)
    <2> DEFINE f == [task[t] EXCEPT !.list = "answered"]
               n == [f EXCEPT !.snap = server]
    <2>1. task' = [task EXCEPT ![t] = n]
        <3> DEFINE g == [task EXCEPT ![t].list = "answered"]
        <3>1. task' = [g EXCEPT ![t].snap = server]
            BY <1>8, Zenon DEF ServerLists
        <3>2. g = [task EXCEPT ![t] = f] /\ g[t] = f
            BY Zenon DEF Tasks
        <3> QED BY <3>1, <3>2, Zenon DEF Tasks
    <2>2. task[t].pc # "finish" /\ server \in Listing
        BY <1>8, SMT DEF ServerLists, At, Files
    <2> HIDE DEF f
    <2>3. f \in TaskState /\ f.slipped = task[t].slipped /\ f.copy = task[t].copy
          /\ f.pc = task[t].pc /\ f.fresh = task[t].fresh
        BY <1>1, SetList, Zenon DEF f
    <2>4. n \in TaskState /\ n.slipped = f.slipped /\ n.copy = f.copy
          /\ n.pc = f.pc /\ n.fresh = f.fresh
        BY <2>2, <2>3, SetSnap, Zenon
    <2> HIDE DEF n
    <2>5. Becomes(t, n)
        <3>1. n.slipped = task[t].slipped /\ n.copy = task[t].copy
              /\ n.pc = task[t].pc /\ n.fresh = task[t].fresh
            BY <2>3, <2>4, Zenon
        <3>2. ~n.slipped /\ (\/ n.pc \in {"anchor", "reanchor"}
                             \/ n.fresh /\ n.pc \in {"waiting", "merge"}) => Agrees(t)
            BY <3>1, SMT DEF CopiesAgree, At
        <3> QED BY <2>2, <3>1, <3>2, Zenon DEF Becomes, Agrees, At
    <2> QED BY <2>1, <2>4, <2>5, Zenon
<1>9. CASE HandleListing(t)
    <2> DEFINE f == [task[t] EXCEPT !.list = "ready"]
               n == [f EXCEPT !.pc = "merge"]
    <2>1. /\ At(t, {"waiting"}) /\ CoreFree(t[1])
          /\ task' = [task EXCEPT ![t] = IF f.fresh THEN n ELSE Reading(t, f, "reanchor")]
        BY <1>9, Zenon DEF HandleListing
    <2> HIDE DEF f
    <2>2. f \in TaskState /\ f.slipped = task[t].slipped /\ f.copy = task[t].copy
          /\ f.fresh = task[t].fresh
        BY <1>1, SetList, Zenon DEF f
    <2>3. CASE f.fresh
        <3>1. n \in TaskState /\ n.slipped = f.slipped /\ n.copy = f.copy /\ n.pc = "merge"
            BY <1>2, <2>2, SetPc, Zenon
        <3>2. task' = [task EXCEPT ![t] = n]
            BY <2>1, <2>3, Zenon
        <3> HIDE DEF n
        <3>3. Becomes(t, n)
            <4>1. ~n.slipped => Agrees(t)
                BY <2>1, <2>2, <2>3, <3>1, Zenon DEF CopiesAgree, At
            <4>2. n.pc # "finish"
                BY <3>1, SMT
            <4> QED BY <2>1, <2>2, <3>1, <4>1, <4>2, Zenon DEF Becomes, Agrees
        <3> QED BY <3>1, <3>2, <3>3, Zenon
    <2>4. CASE ~f.fresh
        <3> DEFINE r == Reading(t, f, "reanchor")
        <3>1. /\ r \in TaskState /\ r.pc = "reanchor"
              /\ t[2] = "root" => r.copy.folder = rows.folder
              /\ t[2] = "folder" => r.copy.item = rows.item
            BY <1>2, <2>2, ReadingState, Zenon
        <3>2. task' = [task EXCEPT ![t] = r]
            BY <2>1, <2>4, Zenon
        <3> HIDE DEF r
        <3>3. Becomes(t, r)
            BY <2>1, <3>1, SMT DEF Becomes
        <3> QED BY <3>1, <3>2, <3>3, Zenon
    <2> QED BY <2>3, <2>4, Zenon
<1> QED BY <1>5, <1>6, <1>7, <1>8, <1>9, Zenon DEF Prepares

LEMMA PreparingKeeps ==
    ASSUME Files, Tasks, OneBlock, CopiesAgree, JobsStand, NEW t \in Task, Prepares(t)
    PROVE  Tasks' /\ OneBlock' /\ CopiesAgree' /\ JobsStand'
<1>1. PICK s \in TaskState : task' = [task EXCEPT ![t] = s] /\ Becomes(t, s)
    BY Preparing, Zenon
<1>2. rows' = rows /\ stored' = stored /\ excuse' = excuse
    BY Zenon DEF Prepares, Query, Schedule, ReadAnchor, ServerLists, HandleListing
<1>3. Tasks'
    BY <1>1, Zenon DEF Tasks
<1>4. task'[t] = s /\ \A u \in Task : u # t => task'[u] = task[u]
    BY <1>1, Zenon DEF Tasks
<1>5. \A u \in Task : u # t /\ u[1] = t[1] /\ At(u, Busy) => s.pc \notin Busy
    BY <1>1, Zenon DEF Becomes, OneBlock, CoreFree, Of, At, Busy
<1>6. OneBlock'
    BY <1>4, <1>5, SMT DEF OneBlock, At
<1>7. CopiesAgree'
    <2> SUFFICES ASSUME NEW u \in Task, ~task'[u].slipped,
                        \/ task'[u].pc \in {"anchor", "reanchor"}
                        \/ task'[u].fresh /\ task'[u].pc \in {"waiting", "merge"}
                 PROVE  Agrees(u)'
        BY Zenon DEF CopiesAgree, At
    <2>1. CASE u = t
        BY <1>1, <1>2, <1>4, <2>1, Zenon DEF Becomes, Agrees
    <2>2. CASE u # t
        <3>1. task'[u] = task[u]
            BY <1>4, <2>2, Zenon
        <3>2. Agrees(u)
            BY <3>1, SMT DEF CopiesAgree, At
        <3> QED BY <1>2, <3>1, <3>2, Zenon DEF Agrees
    <2> QED BY <2>1, <2>2, Zenon
<1>8. JobsStand'
    <2>1. \A u \in Task : At(u, {"finish"})' => task'[u] = task[u]
        BY <1>1, <1>4, Zenon DEF Becomes, At
    <2> QED BY <1>2, <2>1, Zenon DEF JobsStand, At
<1> QED BY <1>3, <1>6, <1>7, <1>8, Zenon

\* Finish and a listing that fails: the other tasks learn that the update job
\* is gone.
LEMMA EndedState ==
    ASSUME Tasks, NEW t \in Task, Ended(t)
    PROVE  /\ Tasks' /\ task'[t] = Closed
           /\ \A u \in Task : u # t => /\ task'[u].pc = task[u].pc
                                       /\ task'[u].fresh = task[u].fresh
                                       /\ task'[u].copy = task[u].copy
                                       /\ task'[u].slipped = task[u].slipped
                                       /\ task'[u].job => task[u].job
           /\ stored' = stored \/ (task[t].job /\ stored' = stored \ {t[2]})
<1> DEFINE j(u) == task[u].job /\ ~(u[2] = t[2] /\ task[t].job)
           s(u) == [task[u] EXCEPT !.job = j(u)]
<1>1. task' = [u \in Task |-> IF u = t THEN Closed ELSE s(u)]
    BY Zenon DEF Ended
<1>2. \A u \in Task : task[u] \in TaskState /\ j(u) \in BOOLEAN /\ (j(u) => task[u].job)
    BY Zenon DEF Tasks
<1> HIDE DEF j
<1>3. ASSUME NEW u \in Task
      PROVE  /\ s(u) \in TaskState /\ s(u).pc = task[u].pc /\ s(u).fresh = task[u].fresh
             /\ s(u).copy = task[u].copy /\ s(u).slipped = task[u].slipped
             /\ s(u).job = j(u)
    BY <1>2, SetJob, Zenon
<1> HIDE DEF s
<1>4. Tasks' /\ task'[t] = Closed /\ \A u \in Task : u # t => task'[u] = s(u)
    BY <1>1, <1>3, ClosedState, Zenon DEF Tasks
<1>5. stored' = stored \/ (task[t].job /\ stored' = stored \ {t[2]})
    BY SMT DEF Ended
<1>6. ASSUME NEW u \in Task, u # t
      PROVE  /\ task'[u].pc = task[u].pc /\ task'[u].fresh = task[u].fresh
             /\ task'[u].copy = task[u].copy /\ task'[u].slipped = task[u].slipped
             /\ task'[u].job => task[u].job
    <2>1. task'[u] = s(u)
        BY <1>4, <1>6, Zenon
    <2>2. s(u).job => task[u].job
        BY <1>2, <1>3, Zenon
    <2> QED BY <1>3, <2>1, <2>2, Zenon
<1> QED BY <1>4, <1>5, <1>6, Zenon

\* A task that ends removes the update job it stands for: the rows do not need
\* it, or the listing failed.
LEMMA EndingKeeps ==
    ASSUME Files, Tasks, OneBlock, CopiesAgree, JobsStand, NEW t \in Task,
           Finish(t) \/ ListingFails(t)
    PROVE  Tasks' /\ OneBlock' /\ CopiesAgree' /\ JobsStand'
<1>1. Ended(t) /\ rows' = rows /\ excuse \subseteq excuse'
    BY Zenon DEF Finish, ListingFails
<1>2. /\ Tasks' /\ task'[t].pc = "closed"
      /\ \A u \in Task : u # t => /\ task'[u].pc = task[u].pc
                                  /\ task'[u].fresh = task[u].fresh
                                  /\ task'[u].copy = task[u].copy
                                  /\ task'[u].slipped = task[u].slipped
                                  /\ task'[u].job => task[u].job
      /\ stored' = stored \/ (task[t].job /\ stored' = stored \ {t[2]})
    BY <1>1, EndedState, ClosedState, Zenon
<1>3. \A u \in Task : At(u, Busy)' => At(u, Busy)
    BY <1>2, SMT DEF At, Busy
<1>4. OneBlock'
    BY <1>3, Zenon DEF OneBlock
<1>5. CopiesAgree'
    <2> SUFFICES ASSUME NEW u \in Task, ~task'[u].slipped,
                        \/ task'[u].pc \in {"anchor", "reanchor"}
                        \/ task'[u].fresh /\ task'[u].pc \in {"waiting", "merge"}
                 PROVE  Agrees(u)'
        BY Zenon DEF CopiesAgree, At
    <2>1. u # t
        BY <1>2, SMT
    <2>2. Agrees(u)
        BY <1>2, <2>1, SMT DEF CopiesAgree, At
    <2> QED BY <1>1, <1>2, <2>1, <2>2, Zenon DEF Agrees
<1>6. JobsStand'
    <2> SUFFICES ASSUME excuse' = {} PROVE JobsStand'
        BY Zenon DEF JobsStand
    <2>1. excuse = {}
        BY <1>1, Zenon
    <2>2. \A u \in Task : At(u, {"finish"})' => u # t /\ At(u, {"finish"})
        BY <1>2, SMT DEF At
    <2>3. \A u \in Task : u[2] = "folder" /\ At(u, {"finish"})' /\ task'[u].job
                             => rows.folder <= rows.item.ver
        BY <1>2, <2>1, <2>2, Zenon DEF JobsStand
    <2>4. "folder" \in stored' \/ rows.folder <= rows.item.ver
        <3>1. CASE "folder" \in stored /\ "folder" \notin stored'
            <4>1. task[t].job /\ t[2] = "folder"
                BY <1>2, <3>1, Zenon
            <4>2. ~ListingFails(t)
                BY <4>1, Zenon DEF ListingFails
            <4>3. At(t, {"finish"})
                BY <4>2, Zenon DEF Finish
            <4> QED BY <2>1, <4>1, <4>3, Zenon DEF JobsStand
        <3> QED BY <2>1, <3>1, Zenon DEF JobsStand
    <2> QED BY <1>1, <2>1, <2>3, <2>4, Zenon DEF JobsStand
<1> QED BY <1>2, <1>4, <1>5, <1>6, Zenon

LEMMA CrashKeeps ==
    ASSUME Tasks, OneBlock, CopiesAgree, JobsStand, NEW p \in Process, Crash(p)
    PROVE  Tasks' /\ OneBlock' /\ CopiesAgree' /\ JobsStand'
<1>1. /\ task' = [t \in Task |-> IF t[1] = p THEN Closed ELSE task[t]]
      /\ rows' = rows /\ stored' = stored /\ excuse' = excuse
    BY Zenon DEF Crash
<1>2. Tasks' /\ \A u \in Task : task'[u].pc = "closed" \/ task'[u] = task[u]
    BY <1>1, ClosedState, Zenon DEF Tasks
<1>3. \A u \in Task : At(u, Busy)' => At(u, Busy)
    BY <1>2, SMT DEF At, Busy
<1>4. OneBlock'
    BY <1>3, Zenon DEF OneBlock
<1>5. CopiesAgree'
    <2> SUFFICES ASSUME NEW u \in Task, ~task'[u].slipped,
                        \/ task'[u].pc \in {"anchor", "reanchor"}
                        \/ task'[u].fresh /\ task'[u].pc \in {"waiting", "merge"}
                 PROVE  Agrees(u)'
        BY Zenon DEF CopiesAgree, At
    <2>1. task'[u] = task[u]
        BY <1>2, SMT
    <2>2. Agrees(u)
        BY <2>1, SMT DEF CopiesAgree, At
    <2> QED BY <1>1, <2>1, <2>2, Zenon DEF Agrees
<1>6. JobsStand'
    <2>1. \A u \in Task : At(u, {"finish"})' => task'[u] = task[u]
        BY <1>2, SMT DEF At
    <2> QED BY <1>1, <2>1, Zenon DEF JobsStand, At
<1> QED BY <1>2, <1>4, <1>5, <1>6, Zenon

\* Steps of the server, scans and launches.
LEMMA OthersKeep ==
    ASSUME Tasks, OneBlock, CopiesAgree, JobsStand,
           UNCHANGED <<rows, task, excuse>>, stored \subseteq stored'
    PROVE  Tasks' /\ OneBlock' /\ CopiesAgree' /\ JobsStand'
<1>1. Tasks' /\ OneBlock' /\ CopiesAgree'
    BY Zenon DEF Tasks, OneBlock, CopiesAgree, Agrees, At
<1>2. JobsStand'
    BY Zenon DEF JobsStand, At
<1> QED BY <1>1, <1>2

-----------------------------------------------------------------------------
(* Steps that raise the sync anchor                                        *)

\* What a task is left with when process p raises the anchor.
Outdates(p, u) ==
    /\ task'[u].fresh = FALSE
    /\ task'[u].pc = task[u].pc
    /\ task'[u].job = task[u].job
    /\ task'[u].copy = task[u].copy
    /\ ~task'[u].slipped => /\ ~task[u].slipped
                            /\ rows' = rows \/ Unread(p, u)

LEMMA IncrementedOutdates ==
    ASSUME Tasks, NEW p \in Process, NEW u \in Task,
           task'[u] = Incremented(p, rows')[u]
    PROVE  Outdates(p, u)
<1> DEFINE g == Incremented(p, rows')[u]
<1>1. g.fresh = FALSE /\ g.pc = task[u].pc
    BY IncrementedState, Zenon
<1>2. g.job = task[u].job /\ g.copy = task[u].copy
    BY IncrementedState, Zenon
<1>3. ~g.slipped => ~task[u].slipped /\ (rows' = rows \/ Unread(p, u))
    BY IncrementedState, Zenon
<1>4. task'[u] = g
    OBVIOUS
<1> HIDE DEF g
<1>5. task'[u].fresh = FALSE
    BY <1>1, <1>4, Zenon
<1>6. task'[u].pc = task[u].pc
    BY <1>1, <1>4, Zenon
<1>7. task'[u].job = task[u].job /\ task'[u].copy = task[u].copy
    BY <1>2, <1>4, Zenon
<1>8. ~task'[u].slipped => ~task[u].slipped /\ (rows' = rows \/ Unread(p, u))
    BY <1>3, <1>4, Zenon
<1> QED BY <1>5, <1>6, <1>7, <1>8, Zenon DEF Outdates

\* A task of the process that writes has no read under way, and any other task
\* notices.
LEMMA OutdatedAgree ==
    ASSUME CopiesAgree, NEW p \in Process, DatabaseFree(p),
           NEW u \in Task, Outdates(p, u), ~task'[u].slipped,
           \/ task'[u].pc \in {"anchor", "reanchor"}
           \/ task'[u].fresh /\ task'[u].pc \in {"waiting", "merge"}
    PROVE  Agrees(u)'
<1>1. task[u].pc \in {"anchor", "reanchor"} /\ ~task[u].slipped
    BY SMT DEF Outdates
<1>2. Agrees(u)
    BY <1>1, Zenon DEF CopiesAgree, At
<1>3. ~Unread(p, u)
    BY <1>1, Zenon DEF DatabaseFree, Of, At, Unread
<1>4. rows' = rows
    BY <1>3, Zenon DEF Outdates
<1> QED BY <1>2, <1>4, Zenon DEF Agrees, Outdates

\* Local changes and results write rows without a task.
LEMMA ChangeKeeps ==
    ASSUME Tasks, OneBlock, CopiesAgree, NEW p \in Process, DatabaseFree(p),
           task' = Incremented(p, rows')
    PROVE  /\ Tasks' /\ OneBlock' /\ CopiesAgree'
           /\ \A u \in Task : At(u, {"finish"})' /\ task'[u].job
                                 => At(u, {"finish"}) /\ task[u].job
<1>1. Tasks' /\ \A u \in Task : Outdates(p, u)
    BY IncrementedState, IncrementedOutdates, Zenon DEF Tasks
<1>2. \A u \in Task : task'[u].pc = task[u].pc /\ task'[u].job = task[u].job
    BY <1>1, Zenon DEF Outdates
<1>3. OneBlock'
    BY <1>2, Zenon DEF OneBlock, At
<1>4. CopiesAgree'
    BY <1>1, OutdatedAgree, Zenon DEF CopiesAgree, At
<1> QED BY <1>1, <1>2, <1>3, <1>4, Zenon DEF At

\* Merges and attempts on outdated rows, which hold the core's queue.
LEMMA MergingKeeps ==
    ASSUME Tasks, OneBlock, CopiesAgree, NEW t \in Task, Merging(t),
           NEW s \in TaskState, task' = [Incremented(t[1], rows') EXCEPT ![t] = s],
           \/ s.pc \in {"closed", "finish"}
           \/ /\ s.pc = "anchor"
              /\ t[2] = "root" => s.copy.folder = rows'.folder
              /\ t[2] = "folder" => s.copy.item = rows'.item
    PROVE  /\ Tasks' /\ OneBlock' /\ CopiesAgree'
           /\ \A u \in Task : u # t /\ At(u, {"finish"})' /\ task'[u].job
                                 => At(u, {"finish"}) /\ task[u].job
           /\ task'[t] = s
<1>1. t[1] \in Process /\ DatabaseFree(t[1])
    BY TaskPairs, Zenon DEF Merging
<1>2. /\ Tasks' /\ task'[t] = s
      /\ \A u \in Task : u # t => task'[u] = Incremented(t[1], rows')[u]
    BY IncrementedState, Zenon DEF Tasks
<1>3. \A u \in Task : u # t => Outdates(t[1], u)
    <2> SUFFICES ASSUME NEW u \in Task, u # t PROVE Outdates(t[1], u)
        OBVIOUS
    <2>1. task'[u] = Incremented(t[1], rows')[u]
        BY <1>2, Zenon
    <2> QED BY <1>1, <2>1, IncrementedOutdates, Zenon
<1>4. \A u \in Task : u # t => task'[u].pc = task[u].pc /\ task'[u].job = task[u].job
    BY <1>3, Zenon DEF Outdates
<1>5. \A u \in Task : u # t /\ u[1] = t[1] => ~At(u, Busy)
    BY SMT DEF Merging, OneBlock, CoreFree, Of, At, Busy
<1>6. OneBlock'
    BY <1>4, <1>5, Zenon DEF OneBlock, At
<1>7. CopiesAgree'
    <2> SUFFICES ASSUME NEW u \in Task, ~task'[u].slipped,
                        \/ task'[u].pc \in {"anchor", "reanchor"}
                        \/ task'[u].fresh /\ task'[u].pc \in {"waiting", "merge"}
                 PROVE  Agrees(u)'
        BY Zenon DEF CopiesAgree, At
    <2>1. CASE u = t
        <3>1. s.pc \notin {"closed", "finish"}
            BY <1>2, <2>1, SMT
        <3> QED BY <1>2, <2>1, <3>1, Zenon DEF Agrees
    <2>2. CASE u # t
        BY <1>1, <1>3, <2>2, OutdatedAgree, Zenon
    <2> QED BY <2>1, <2>2, Zenon
<1> QED BY <1>2, <1>4, <1>6, <1>7, Zenon DEF At

\* The rows a merge finds, unless rows slipped in.
LEMMA MergeAgrees ==
    ASSUME CopiesAgree, NEW t \in Task, Merging(t), task[t].fresh, ~task[t].slipped
    PROVE  Agrees(t)
BY Zenon DEF CopiesAgree, Merging, At

\* A merge of the root that changes the folder's ETag stores an update job, and
\* a merge of the folder brings the file's row up to the new ETag.
LEMMA MergeKeeps ==
    ASSUME Files, Tasks, OneBlock, CopiesAgree, JobsStand, NEW t \in Task, Merge(t)
    PROVE  Tasks' /\ OneBlock' /\ CopiesAgree' /\ JobsStand'
<1> DEFINE s == IF task[t].job THEN [Closed EXCEPT !.pc = "finish", !.job = TRUE]
                ELSE Closed
<1>1. /\ Merging(t) /\ task[t].fresh /\ rows' = Merged(t)
      /\ excuse' = excuse \union Excuses(t)
      /\ task' = [Incremented(t[1], rows') EXCEPT ![t] = s]
    BY Zenon DEF Merge
<1>2. s \in TaskState /\ s.pc \in {"closed", "finish"}
    BY ClosedState, Zenon
<1> HIDE DEF s
<1>3. /\ Tasks' /\ OneBlock' /\ CopiesAgree'
      /\ \A u \in Task : u # t /\ At(u, {"finish"})' /\ task'[u].job
                            => At(u, {"finish"}) /\ task[u].job
    BY <1>1, <1>2, MergingKeeps, Zenon
<1>4. JobsStand'
    <2> SUFFICES ASSUME excuse' = {} PROVE JobsStand'
        BY Zenon DEF JobsStand
    <2> DEFINE l == task[t].snap
    <2>1. excuse = {} /\ "older listing" \notin Excuses(t)
          /\ "slipped rows" \notin Excuses(t) /\ "finished job" \notin Excuses(t)
        BY <1>1, Zenon
    <2>2. ~(l.rev < rows[t[2]] \/ l.rev < rows.folder) /\ ~task[t].slipped
        BY <2>1, Zenon DEF Excuses
    <2>3. ~(Refreshes(t) /\ \E u \in Task : u[2] = "folder" /\ task[u].job /\ At(u, {"finish"}))
        BY <2>1, Zenon DEF Excuses
    <2>4. Agrees(t)
        BY <1>1, <2>2, MergeAgrees, Zenon
    <2>5. /\ rows.root \in Nat /\ rows.folder \in Nat /\ rows.item.ver \in Nat
          /\ l.rev \in Nat
        <3>1. task[t] \in TaskState /\ rows \in Rows
            BY Zenon DEF Tasks, Files
        <3>2. l \in Listing
            BY <3>1, StateFields, Zenon
        <3> QED BY <3>1, <3>2, RowFields, SMT DEF Listing, Rev
    <2>6. /\ rows.root <= rows.folder
          /\ "folder" \in stored \/ rows.folder <= rows.item.ver
          /\ \A u \in Task : u[2] = "folder" /\ At(u, {"finish"}) /\ task[u].job
                                => rows.folder <= rows.item.ver
        BY <2>1, Zenon DEF JobsStand
    <2>7. stored \subseteq stored'
        BY SMT DEF Merge
    <2>8. CASE t[2] = "root"
        <3>1. /\ rows'.root = l.rev /\ rows'.folder = l.rev /\ rows'.item = rows.item
              /\ task[t].copy.folder = rows.folder
            BY <1>1, <2>4, <2>8, MergedRows, Zenon DEF Agrees
        <3>2. \A u \in Task : u[2] = "folder" /\ At(u, {"finish"})' /\ task'[u].job
                                 => At(u, {"finish"}) /\ task[u].job
            BY <1>3, <2>8, SMT
        <3>3. CASE Refreshes(t)
            <4>1. "folder" \in stored'
                BY <3>3, SMT DEF Merge
            <4>2. \A u \in Task : ~(u[2] = "folder" /\ At(u, {"finish"})' /\ task'[u].job)
                BY <2>3, <3>2, <3>3, Zenon
            <4> QED BY <2>5, <3>1, <4>1, <4>2, SMT DEF JobsStand
        <3>4. CASE ~Refreshes(t)
            <4>1. l.rev = rows.folder
                BY <2>8, <3>1, <3>4, SMT DEF Refreshes
            <4>2. rows'.root <= rows'.folder /\ rows'.folder = rows.folder
                BY <2>5, <3>1, <4>1, SMT
            <4>3. \A u \in Task : u[2] = "folder" /\ At(u, {"finish"})' /\ task'[u].job
                                     => rows'.folder <= rows'.item.ver
                BY <2>6, <3>1, <3>2, <4>2, Zenon
            <4> QED BY <2>6, <2>7, <3>1, <4>2, <4>3, Zenon DEF JobsStand
        <3> QED BY <3>3, <3>4, Zenon
    <2>9. CASE t[2] # "root"
        <3>1. /\ rows'.root = rows.root /\ rows'.folder = l.rev /\ rows'.item.ver = l.rev
            BY <1>1, <2>9, MergedRows, Zenon
        <3>2. rows'.root <= rows'.folder /\ rows'.folder <= rows'.item.ver
            BY <2>2, <2>5, <2>6, <3>1, SMT
        <3> QED BY <3>2, Zenon DEF JobsStand
    <2> QED BY <2>8, <2>9, Zenon
<1> QED BY <1>3, <1>4, Zenon

LEMMA OutdatedKeeps ==
    ASSUME Files, Tasks, OneBlock, CopiesAgree, JobsStand, NEW t \in Task, Outdated(t)
    PROVE  Tasks' /\ OneBlock' /\ CopiesAgree' /\ JobsStand'
<1> DEFINE i == Incremented(t[1], rows)[t]
           s == Reading(t, i, "anchor")
<1>1. /\ Merging(t) /\ rows' = rows /\ stored' = stored /\ excuse' = excuse
      /\ task' = [Incremented(t[1], rows') EXCEPT ![t] = s]
    BY Zenon DEF Outdated
<1>2. i \in TaskState /\ "anchor" \in PC
    BY IncrementedState, Zenon DEF PC
<1> HIDE DEF i
<1>3. /\ s \in TaskState /\ s.pc = "anchor"
      /\ t[2] = "root" => s.copy.folder = rows'.folder
      /\ t[2] = "folder" => s.copy.item = rows'.item
    BY <1>1, <1>2, ReadingState, Zenon
<1> HIDE DEF s
<1>4. /\ Tasks' /\ OneBlock' /\ CopiesAgree' /\ task'[t] = s
      /\ \A u \in Task : u # t /\ At(u, {"finish"})' /\ task'[u].job
                            => At(u, {"finish"}) /\ task[u].job
    BY <1>1, <1>3, MergingKeeps, Zenon
<1>5. \A u \in Task : At(u, {"finish"})' => u # t
    BY <1>3, <1>4, SMT DEF At
<1>6. JobsStand'
    BY <1>1, <1>4, <1>5, Zenon DEF JobsStand
<1> QED BY <1>4, <1>6

\* A local change leaves the ETags and the change of the row.
LEMMA LocalChangeKeeps ==
    ASSUME Files, Tasks, OneBlock, CopiesAgree, JobsStand, NEW p \in Process,
           NEW kind \in Work, LocalChange(p, kind)
    PROVE  Tasks' /\ OneBlock' /\ CopiesAgree' /\ JobsStand' /\ rows' \in Rows
<1> DEFINE i == rows.item
           i1 == [i EXCEPT !.work = kind]
           g == (kind = "delete")
           i2 == [i1 EXCEPT !.gone = g]
           r1 == [rows EXCEPT !.item = i1]
           r2 == [r1 EXCEPT !.item = i2]
<1>1. rows \in Rows /\ i \in Item
    BY RowFields, Zenon DEF Files
<1>2. rows' = [rows EXCEPT !.item.work = kind, !.item.gone = (kind = "delete")]
    BY Zenon DEF LocalChange
<1>3. r1.item = i1
    BY <1>1, SMT DEF Rows
<1>4. rows' = r2
    BY <1>2, <1>3, Zenon
<1>5. g \in BOOLEAN
    OBVIOUS
<1> HIDE DEF i, g
<1>6. i1 \in Item /\ i1.ver = i.ver
    BY <1>1, SMT DEF Item
<1> HIDE DEF i1
<1>7. i2 \in Item /\ i2.ver = i.ver
    BY <1>5, <1>6, SMT DEF Item
<1> HIDE DEF i2
<1>8. r1 \in Rows /\ r1.root = rows.root /\ r1.folder = rows.folder
    BY <1>1, <1>6, SMT DEF Rows
<1> HIDE DEF r1
<1>9. r2 \in Rows /\ r2.root = rows.root /\ r2.folder = rows.folder /\ r2.item = i2
    BY <1>7, <1>8, SMT DEF Rows
<1>10. /\ rows' \in Rows /\ rows'.root = rows.root /\ rows'.folder = rows.folder
       /\ rows'.item.ver = rows.item.ver
    BY <1>4, <1>7, <1>9, Zenon DEF i
<1>11. /\ Tasks' /\ OneBlock' /\ CopiesAgree'
       /\ \A u \in Task : At(u, {"finish"})' /\ task'[u].job
                             => At(u, {"finish"}) /\ task[u].job
    BY ChangeKeeps, Zenon DEF LocalChange
<1>12. stored' = stored /\ excuse' = excuse
    BY Zenon DEF LocalChange
<1>13. JobsStand'
    BY <1>10, <1>11, <1>12, Zenon DEF JobsStand
<1> QED BY <1>10, <1>11, <1>13

\* A result that is not older than the row keeps it as new as the folder.
LEMMA HandleResultKeeps ==
    ASSUME Files, Tasks, OneBlock, CopiesAgree, JobsStand, NEW p \in Process,
           HandleResult(p)
    PROVE  Tasks' /\ OneBlock' /\ CopiesAgree' /\ JobsStand' /\ rows' \in Rows
<1> DEFINE g == (op.kind = "delete")
           i == [ver |-> op.sent, gone |-> g, work |-> "none"]
<1>1. rows \in Rows /\ op.sent \in Rev /\ g \in BOOLEAN
    BY SMT DEF Files
<1>2. rows' = [rows EXCEPT !.item = i]
    BY Zenon DEF HandleResult
<1> HIDE DEF g
<1>3. i \in Item /\ i.ver = op.sent
    BY <1>1, SMT DEF Item, Work
<1> HIDE DEF i
<1>4. /\ rows' \in Rows /\ rows'.root = rows.root /\ rows'.folder = rows.folder
      /\ rows'.item.ver = op.sent
    BY <1>1, <1>2, <1>3, SMT DEF Rows
<1>5. /\ Tasks' /\ OneBlock' /\ CopiesAgree'
      /\ \A u \in Task : At(u, {"finish"})' /\ task'[u].job
                            => At(u, {"finish"}) /\ task[u].job
    BY ChangeKeeps, Zenon DEF HandleResult
<1>6. JobsStand'
    <2> SUFFICES ASSUME excuse' = {} PROVE JobsStand'
        BY Zenon DEF JobsStand
    <2>1. excuse = {} /\ ~(op.sent < rows.item.ver) /\ stored' = stored
        BY Zenon DEF HandleResult
    <2>2. rows.item.ver \in Nat /\ rows.folder \in Nat /\ op.sent \in Nat
        BY <1>1, RowFields, SMT DEF Rev
    <2>3. rows.folder <= rows.item.ver => rows.folder <= op.sent
        BY <2>1, <2>2, SMT
    <2> QED BY <1>4, <1>5, <2>1, <2>3, Zenon DEF JobsStand
<1> QED BY <1>4, <1>5, <1>6

-----------------------------------------------------------------------------
(* The theorems                                                            *)

LEMMA FilesPreserved ==
    ASSUME Files, Tasks, OneBlock, CopiesAgree, JobsStand, [Next]_vars
    PROVE  Files'
<1>1. ASSUME NEW t \in Task, Prepares(t) \/ Finish(t) \/ ListingFails(t) PROVE Files'
    BY <1>1, Zenon DEF Files, Prepares, Query, Schedule, ReadAnchor, ServerLists,
       HandleListing, Finish, ListingFails
<1>2. ASSUME NEW t \in Task, Merge(t) PROVE Files'
    <2>1. rows' \in Rows /\ server' = server /\ op' = op
        BY <1>2, MergedRows, Zenon DEF Merge
    <2> QED BY <2>1, Zenon DEF Files
<1>3. ASSUME NEW t \in Task, Outdated(t) PROVE Files'
    BY <1>3, Zenon DEF Files, Outdated
<1>4. ASSUME NEW p \in Process, Scan(p) \/ Launch(p) \/ Crash(p) PROVE Files'
    BY <1>4, Zenon DEF Files, Scan, Launch, Crash
<1>5. ASSUME NEW p \in Process, HandleResult(p) PROVE Files'
    <2>1. rows' \in Rows
        BY <1>5, HandleResultKeeps, Zenon
    <2>2. op' = [kind |-> "none", sent |-> 0, by |-> "nobody"] /\ server' = server
        BY <1>5, Zenon DEF HandleResult, NoOp
    <2>3. op' \in [kind : Work, sent : Rev, by : Process \union {"nobody"}]
        BY <2>2, NoCopyType, SMT DEF Work
    <2> QED BY <2>1, <2>2, <2>3, Zenon DEF Files
<1>6. ASSUME NEW p \in Process, NEW k \in Work, LocalChange(p, k) PROVE Files'
    <2>1. rows' \in Rows
        BY <1>6, LocalChangeKeeps, Zenon
    <2>2. op' = [kind |-> k, sent |-> 0, by |-> p] /\ server' = server
        BY <1>6, Zenon DEF LocalChange
    <2>3. op' \in [kind : Work, sent : Rev, by : Process \union {"nobody"}]
        BY <2>2, NoCopyType, SMT
    <2> QED BY <2>1, <2>2, <2>3, Zenon DEF Files
<1>7. CASE ServerExecutes
    <2> DEFINE g == (op.kind = "delete")
    <2>1. /\ server' = [rev |-> server.rev + 1, gone |-> g] /\ rows' = rows
          /\ op' = [op EXCEPT !.sent = server.rev + 1] /\ server.rev < MaxRev
        BY <1>7, Zenon DEF ServerExecutes
    <2>2. g \in BOOLEAN
        OBVIOUS
    <2> HIDE DEF g
    <2>3. server.rev + 1 \in Rev
        BY <2>1, BoundAssumption, SMT DEF Files, Listing, Rev
    <2>4. server' \in Listing
        BY <2>1, <2>2, <2>3, SMT DEF Listing
    <2>5. op' \in [kind : Work, sent : Rev, by : Process \union {"nobody"}]
        BY <2>1, <2>3, SMT DEF Files
    <2> QED BY <2>1, <2>4, <2>5, Zenon DEF Files
<1>8. ASSUME NEW g \in BOOLEAN, RemoteChange(g) PROVE Files'
    <2>1. /\ server' = [rev |-> server.rev + 1, gone |-> g] /\ rows' = rows /\ op' = op
          /\ server.rev + (IF op.kind # "none" /\ op.sent = 0 THEN 1 ELSE 0) < MaxRev
        BY <1>8, Zenon DEF RemoteChange
    <2>2. server.rev \in Nat
        BY SMT DEF Files, Listing, Rev
    <2>3. server.rev + 1 \in Rev
        BY <2>1, <2>2, BoundAssumption, SMT DEF Rev
    <2>4. server' \in Listing
        BY <2>1, <2>3, SMT DEF Listing
    <2> QED BY <2>1, <2>4, Zenon DEF Files
<1>9. CASE UNCHANGED vars
    BY <1>9, Zenon DEF Files, vars
<1> QED BY <1>1, <1>2, <1>3, <1>4, <1>5, <1>6, <1>7, <1>8, <1>9, Zenon
        DEF Next, TaskRuns, ProcessRuns, Event, Prepares

\* Events are bounded.
LEMMA Counting == ASSUME Jobs, spent' = spent \/ Happens PROVE spent' \in 0..MaxEvents
<1>1. spent \in 0..MaxEvents
    BY Zenon DEF Jobs
<1> QED BY <1>1, BoundAssumption, SMT DEF Happens

LEMMA JobsPreserved ==
    ASSUME Files, Tasks, Jobs, [Next]_vars
    PROVE  Jobs'
<1>1. /\ stored \subseteq Location /\ up \subseteq Process
      /\ queued \in [Process -> SUBSET Location]
    BY Zenon DEF Jobs
<1>2. ASSUME NEW t \in Task,
             Query(t) \/ ReadAnchor(t) \/ ServerLists(t) \/ HandleListing(t) \/ Outdated(t)
      PROVE  Jobs'
    <2>1. UNCHANGED <<stored, queued, up, excuse>> /\ (spent' = spent \/ Happens)
        BY <1>2, Zenon DEF Query, ReadAnchor, ServerLists, HandleListing, Outdated
    <2> QED BY <2>1, Counting, Zenon DEF Jobs
<1>3. ASSUME NEW t \in Task, Schedule(t) PROVE Jobs'
    <2>1. /\ UNCHANGED <<stored, up, spent, excuse>>
          /\ queued' = [queued EXCEPT ![t[1]] = @ \ {t[2]}]
        BY <1>3, Zenon DEF Schedule
    <2>2. t[1] \in Process
        BY TaskPairs, Zenon
    <2>3. queued' \in [Process -> SUBSET Location]
        BY <1>1, <2>1, <2>2, SMT
    <2> QED BY <2>1, <2>3, Zenon DEF Jobs
<1>4. ASSUME NEW t \in Task, Finish(t) \/ ListingFails(t) PROVE Jobs'
    <2>1. /\ UNCHANGED <<queued, up>> /\ (spent' = spent \/ Happens) /\ Ended(t)
          /\ excuse' \subseteq excuse \union {"failed listing"}
        BY <1>4, Zenon DEF Finish, ListingFails
    <2>2. stored' \subseteq stored
        BY <2>1, EndedState, Zenon
    <2>3. spent' \in 0..MaxEvents
        BY <2>1, Counting, Zenon
    <2> QED BY <2>1, <2>2, <2>3, Zenon DEF Jobs
<1>5. ASSUME NEW t \in Task, Merge(t) PROVE Jobs'
    <2>1. /\ UNCHANGED <<up, spent>> /\ excuse' = excuse \union Excuses(t)
          /\ stored' = stored \/ stored' = stored \union {"folder"}
          /\ \/ queued' = queued
             \/ queued' = [queued EXCEPT ![t[1]] = @ \union {"folder"}]
        BY <1>5, Zenon DEF Merge
    <2>2. Excuses(t) \subseteq {"older listing", "slipped rows", "finished job"}
        BY Zenon DEF Excuses
    <2>3. queued' \in [Process -> SUBSET Location]
        BY <1>1, <2>1, SMT DEF Location
    <2>4. stored' \subseteq Location
        BY <1>1, <2>1, Zenon DEF Location
    <2>5. excuse' \subseteq {"older listing", "failed listing", "older upload",
                           "finished job", "slipped rows"}
        BY <2>1, <2>2, Zenon DEF Jobs
    <2> QED BY <2>1, <2>3, <2>4, <2>5, Zenon DEF Jobs
<1>6. ASSUME NEW p \in Process, Scan(p) PROVE Jobs'
    <2>1. /\ UNCHANGED <<up, spent, excuse>> /\ stored' = stored \union {"root"}
          /\ queued' = [queued EXCEPT ![p] = @ \union {"root"}]
        BY <1>6, Zenon DEF Scan
    <2>2. stored' \subseteq Location /\ queued' \in [Process -> SUBSET Location]
        BY <1>1, <2>1, SMT DEF Location
    <2> QED BY <2>1, <2>2, Zenon DEF Jobs
<1>7. ASSUME NEW p \in Process, Launch(p) PROVE Jobs'
    <2>1. /\ UNCHANGED <<stored, spent, excuse>> /\ up' = up \union {p}
          /\ queued' = [queued EXCEPT ![p] = stored]
        BY <1>7, Zenon DEF Launch
    <2>2. up' \subseteq Process /\ queued' \in [Process -> SUBSET Location]
        BY <1>1, <2>1, SMT
    <2> QED BY <2>1, <2>2, Zenon DEF Jobs
<1>8. ASSUME NEW p \in Process, Crash(p) PROVE Jobs'
    <2>1. /\ UNCHANGED <<stored, excuse>> /\ up' = up \ {p} /\ Happens
          /\ queued' = [queued EXCEPT ![p] = {}]
        BY <1>8, Zenon DEF Crash
    <2>2. up' \subseteq Process /\ queued' \in [Process -> SUBSET Location]
        BY <1>1, <2>1, SMT
    <2> QED BY <2>1, <2>2, Counting, Zenon DEF Jobs
<1>9. ASSUME NEW p \in Process, HandleResult(p) PROVE Jobs'
    <2>1. /\ UNCHANGED <<stored, queued, up, spent>>
          /\ excuse' \subseteq excuse \union {"older upload"}
        BY <1>9, Zenon DEF HandleResult
    <2> QED BY <2>1, Zenon DEF Jobs
<1>10. ASSUME NEW p \in Process, NEW k \in Work, LocalChange(p, k) PROVE Jobs'
    <2>1. UNCHANGED <<stored, queued, up, excuse>> /\ Happens
        BY <1>10, Zenon DEF LocalChange
    <2> QED BY <2>1, Counting, Zenon DEF Jobs
<1>11. ASSUME ServerExecutes \/ \E g \in BOOLEAN : RemoteChange(g) PROVE Jobs'
    BY <1>11, Zenon DEF Jobs, ServerExecutes, RemoteChange
<1>12. CASE UNCHANGED vars
    BY <1>12, Zenon DEF Jobs, vars
<1> QED BY <1>2, <1>3, <1>4, <1>5, <1>6, <1>7, <1>8, <1>9, <1>10, <1>11, <1>12, Zenon
        DEF Next, TaskRuns, ProcessRuns, Event

LEMMA StepKeeps ==
    ASSUME Files, Tasks, OneBlock, CopiesAgree, JobsStand, [Next]_vars
    PROVE  Tasks' /\ OneBlock' /\ CopiesAgree' /\ JobsStand'
<1> DEFINE Kept == Tasks' /\ OneBlock' /\ CopiesAgree' /\ JobsStand'
<1>1. ASSUME NEW t \in Task, Prepares(t) PROVE Kept
    BY <1>1, PreparingKeeps, Zenon
<1>2. ASSUME NEW t \in Task, Finish(t) \/ ListingFails(t) PROVE Kept
    BY <1>2, EndingKeeps, Zenon
<1>3. ASSUME NEW t \in Task, Merge(t) PROVE Kept
    BY <1>3, MergeKeeps, Zenon
<1>4. ASSUME NEW t \in Task, Outdated(t) PROVE Kept
    BY <1>4, OutdatedKeeps, Zenon
<1>5. ASSUME NEW p \in Process, HandleResult(p) PROVE Kept
    BY <1>5, HandleResultKeeps, Zenon
<1>6. ASSUME NEW p \in Process, NEW k \in Work, LocalChange(p, k) PROVE Kept
    BY <1>6, LocalChangeKeeps, Zenon
<1>7. ASSUME NEW p \in Process, Crash(p) PROVE Kept
    BY <1>7, CrashKeeps, Zenon
<1>8. ASSUME NEW p \in Process, Scan(p) \/ Launch(p) PROVE Kept
    <2>1. UNCHANGED <<rows, task, excuse>> /\ stored \subseteq stored'
        BY <1>8, SMT DEF Scan, Launch
    <2> QED BY <2>1, OthersKeep, Zenon
<1>9. ASSUME ServerExecutes PROVE Kept
    <2>1. UNCHANGED <<rows, task, excuse>> /\ stored \subseteq stored'
        BY <1>9, Zenon DEF ServerExecutes
    <2> QED BY <2>1, OthersKeep, Zenon
<1>10. ASSUME NEW g \in BOOLEAN, RemoteChange(g) PROVE Kept
    <2>1. UNCHANGED <<rows, task, excuse>> /\ stored \subseteq stored'
        BY <1>10, Zenon DEF RemoteChange
    <2> QED BY <2>1, OthersKeep, Zenon
<1>11. ASSUME UNCHANGED vars PROVE Kept
    <2>1. UNCHANGED <<rows, task, excuse>> /\ stored \subseteq stored'
        BY <1>11, Zenon DEF vars
    <2> QED BY <2>1, OthersKeep, Zenon
<1> SUFFICES Kept
    OBVIOUS
<1> HIDE DEF Kept
<1>12. ASSUME NEW t \in Task, TaskRuns(t) PROVE Kept
    BY <1>1, <1>2, <1>3, <1>4, <1>12, Zenon DEF TaskRuns, Prepares
<1>13. ASSUME NEW p \in Process, ProcessRuns(p) PROVE Kept
    BY <1>5, <1>8, <1>13, Zenon DEF ProcessRuns
<1>14. CASE Event
    <2>1. CASE \E t \in Task : Query(t) \/ ListingFails(t)
        BY <1>1, <1>2, <2>1, Zenon DEF Prepares
    <2>2. CASE \E p \in Process, kind \in Work \ {"none"} : LocalChange(p, kind)
        BY <1>6, <2>2, Zenon
    <2>3. CASE \E p \in Process : Crash(p)
        BY <1>7, <2>3, Zenon
    <2>4. CASE \E gone \in BOOLEAN : RemoteChange(gone)
        BY <1>10, <2>4, Zenon
    <2> QED BY <1>14, <2>1, <2>2, <2>3, <2>4, Zenon DEF Event
<1>15. CASE Next
    BY <1>9, <1>12, <1>13, <1>14, <1>15, Zenon DEF Next
<1> QED BY <1>11, <1>15, Zenon

LEMMA InitInductive == ASSUME Init PROVE Inductive
<1>1. Files
    BY NoCopyType, SMT DEF Init, Files, NoOp, Work, Listing
<1>2. Tasks
    BY ClosedState, Zenon DEF Init, Tasks
<1>3. Jobs
    BY BoundAssumption, SMT DEF Init, Jobs
<1>4. \A t \in Task : task[t].pc = "closed"
    BY ClosedState, Zenon DEF Init
<1>5. OneBlock /\ CopiesAgree
    BY <1>4, SMT DEF OneBlock, CopiesAgree, At, Busy
<1>6. \A t \in Task : ~At(t, {"finish"})
    BY <1>4, SMT DEF At
<1>7. rows.root = 0 /\ rows.folder = 0 /\ rows.item.ver = 0
    BY SMT DEF Init, NoCopy
<1>8. JobsStand
    BY <1>6, <1>7, SMT DEF JobsStand
<1> QED BY <1>1, <1>2, <1>3, <1>5, <1>8, TypeParts, Zenon DEF Inductive

\* The invariant of the tasks' copies and of the update jobs holds for any
\* processes and tasks.
THEOREM InductiveHolds == Spec => []Inductive
<1>1. Init => Inductive
    BY InitInductive, Zenon
<1>2. ASSUME Inductive, [Next]_vars PROVE Inductive'
    <2>1. Files /\ Tasks /\ Jobs /\ OneBlock /\ CopiesAgree /\ JobsStand
        BY <1>2, TypeParts, Zenon DEF Inductive
    <2>2. Files' /\ Jobs'
        BY <1>2, <2>1, FilesPreserved, JobsPreserved, Zenon
    <2>3. Tasks' /\ OneBlock' /\ CopiesAgree' /\ JobsStand'
        BY <1>2, <2>1, StepKeeps, Zenon
    <2>4. Files' /\ Tasks' /\ Jobs' /\ OneBlock' => TypeOK'
        <3>1. (Files /\ Tasks /\ Jobs /\ OneBlock => TypeOK)'
            BY TypeParts, PTL
        <3> QED BY <3>1
    <2> QED BY <2>2, <2>3, <2>4, Zenon DEF Inductive
<1> QED BY <1>1, <1>2, PTL DEF Spec

\* Every variable keeps its type, and a process runs one block of its core's
\* queue at a time.
THEOREM TypeCorrect == Spec => []TypeOK
<1>1. Inductive => TypeOK
    BY Zenon DEF Inductive
<1> QED BY <1>1, InductiveHolds, PTL

\* Without an update job and an excuse, the file's row is as new as the root's
\* ETag, which is what stops the scans.
THEOREM RootETagHolds == Spec => []RootETagVouches
<1>1. Inductive => RootETagVouches
    <2> SUFFICES ASSUME Inductive, excuse = {}, stored = {}
                 PROVE  rows.item.ver >= rows.root
        BY Zenon DEF RootETagVouches
    <2>1. rows.root <= rows.folder /\ rows.folder <= rows.item.ver
        BY SMT DEF Inductive, JobsStand
    <2>2. rows.root \in Nat /\ rows.folder \in Nat /\ rows.item.ver \in Nat
        BY TypeParts, RowFields, SMT DEF Inductive, Files, Rev
    <2> QED BY <2>1, <2>2, SMT
<1> QED BY <1>1, InductiveHolds, PTL

LEMMA MergeKeepsWork ==
    ASSUME Files, Tasks, CopiesAgree, NEW t \in Task, Merge(t), ~task[t].slipped
    PROVE  rows'.item.work = rows.item.work
<1>1. Merging(t) /\ task[t].fresh /\ rows' = Merged(t)
    BY Zenon DEF Merge
<1>2. Agrees(t)
    BY <1>1, MergeAgrees, Zenon
<1>3. t[2] \in Location
    BY TaskPairs, Zenon
<1>4. CASE t[2] = "root"
    BY <1>1, <1>4, MergedRows, Zenon
<1>5. CASE t[2] = "folder"
    <2>1. t[2] # "root" /\ task[t].copy.item = rows.item
        BY <1>2, <1>5, SMT DEF Agrees
    <2> QED BY <1>1, <2>1, MergedRows, Zenon
<1> QED BY <1>3, <1>4, <1>5, Zenon DEF Location

\* Work recorded in a row is ended by the result of its action only, or by a
\* merge between whose two reads another process wrote.
THEOREM LocalWorkIsKept == Spec => LocalWorkKept
<1>1. ASSUME Inductive, [Next]_vars
      PROVE  [rows.item.work # "none" /\ rows'.item.work = "none" =>
                \/ op # NoOp /\ op' = NoOp
                \/ \E t \in Task : Merging(t) /\ task[t].slipped]_vars
    <2> SUFFICES ASSUME rows.item.work # "none", rows'.item.work = "none"
                 PROVE  \/ op # NoOp /\ op' = NoOp
                        \/ \E t \in Task : Merging(t) /\ task[t].slipped
        OBVIOUS
    <2>1. Files /\ Tasks /\ Jobs /\ CopiesAgree
        BY <1>1, TypeParts, Zenon DEF Inductive
    <2>2. rows' # rows
        BY Zenon
    <2>3. \/ \E t \in Task : Merge(t)
          \/ \E p \in Process : HandleResult(p)
          \/ \E p \in Process, kind \in Work \ {"none"} : LocalChange(p, kind)
        BY <1>1, <2>2, Zenon DEF Next, TaskRuns, ProcessRuns, Event, Query, Schedule,
           ReadAnchor, ServerLists, HandleListing, Outdated, Finish, ListingFails, Scan,
           Launch, Crash, ServerExecutes, RemoteChange, vars
    <2>4. ASSUME NEW t \in Task, Merge(t) PROVE Merging(t) /\ task[t].slipped
        <3>1. Merging(t)
            BY <2>4, Zenon DEF Merge
        <3>2. ~task[t].slipped => rows'.item.work = rows.item.work
            BY <2>1, <2>4, MergeKeepsWork, Zenon
        <3> QED BY <3>1, <3>2, Zenon
    <2>5. ASSUME NEW p \in Process, HandleResult(p) PROVE op # NoOp /\ op' = NoOp
        <3>1. op.sent # 0 /\ op' = NoOp
            BY <2>5, Zenon DEF HandleResult
        <3>2. NoOp.sent = 0
            BY SMT DEF NoOp
        <3> QED BY <3>1, <3>2, Zenon
    <2>6. ASSUME NEW p \in Process, NEW kind \in Work \ {"none"}, LocalChange(p, kind)
          PROVE  FALSE
        <3>1. rows \in Rows /\ kind # "none"
            BY <2>1, Zenon DEF Files
        <3>2. rows' = [rows EXCEPT !.item.work = kind, !.item.gone = (kind = "delete")]
            BY <2>6, Zenon DEF LocalChange
        <3>3. rows'.item.work = kind
            BY <3>1, <3>2, Zenon DEF Rows, Item
        <3> QED BY <3>1, <3>3, Zenon
    <2> QED BY <2>3, <2>4, <2>5, <2>6, Zenon
<1> QED BY <1>1, InductiveHolds, PTL DEF Spec, LocalWorkKept
=============================================================================
