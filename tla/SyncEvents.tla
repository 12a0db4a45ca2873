----------------------------- MODULE SyncEvents -----------------------------
(***************************************************************************)
(* How the answer to a sync record's request reaches the record: from the  *)
(* HTTP pipeline's store to the queue in the key value store               *)
(* (-queueSyncEvent:sender:), from there to the events table of the        *)
(* database (-processSyncRecords, first part), and from the table to the   *)
(* record's action (-processSyncRecord:error:).  Each store is durable and *)
(* each hand-over takes two writes, so that a process terminated between   *)
(* them leaves the event in both.                                          *)
(*                                                                         *)
(* The processes of an app (the app, its extensions) share the stores.     *)
(* The pass is a single step, because its transaction is exclusive and a   *)
(* termination rolls all of it back.  It handles all events of a record    *)
(* that it visits, so the order of events in a store is not told apart;    *)
(* the order in which the queue forgets UUIDs is.                          *)
(***************************************************************************)
EXTENDS Integers, Sequences, FiniteSets, SequencesExt

CONSTANTS
  Event, Record, EventRecord, Final,  \* as in EventDelivery
  Process,
  Owner,       \* originProcessSession of a record
  UsedMax,     \* used UUIDs an OCEventQueue remembers (100 in the code)
  MaxYields,   \* bound: passes that leave records unvisited
  MaxCrashes   \* bound: process terminations

ASSUME EventAssumption ==
  /\ IsFiniteSet(Event)
  /\ EventRecord \in [Event -> Record] /\ Final \subseteq Event
  /\ Owner \in [Record -> Process]
  /\ UsedMax \in Nat /\ MaxYields \in Nat /\ MaxCrashes \in Nat

VARIABLES
  \* stores on disk
  pipeline,    \* finished requests that were not removed yet
  kvs,         \* OCEventQueue.records, each with a UUID of its own
  used,        \* OCEventQueue.usedUUIDs, newest first
  db,          \* number of an event's rows in the events table
  records,     \* records of the journal
  \* memory of the processes
  up,          \* processes that run a core
  delivering,  \* the event whose delivery the pipeline is in, if any
  needs,       \* _needsToProcessSyncRecords
  pc,          \* step of -processSyncRecords that comes next
  toClear,     \* transferredEventUUIDs
  \* history
  sent, handled, yields, crashes

stores  == <<pipeline, kvs, used, db, records>>
history == <<sent, handled, yields, crashes>>
vars == <<pipeline, kvs, used, db, records, up, delivering, needs, pc, toClear,
          sent, handled, yields, crashes>>

Rows == {e \in Event : db[e] > 0}

Init ==
  /\ pipeline = {} /\ kvs = {} /\ used = << >> /\ db = [e \in Event |-> 0]
  /\ records = Record
  /\ up = Process
  /\ delivering = [p \in Process |-> {}]
  /\ needs = [p \in Process |-> FALSE]
  /\ pc = [p \in Process |-> "transfer"]
  /\ toClear = [p \in Process |-> {}]
  /\ sent = {} /\ handled = [e \in Event |-> 0] /\ yields = 0 /\ crashes = 0

-----------------------------------------------------------------------------
(* From the pipeline to the key value store *)

\* A request finishes: the pipeline stores the response.
Receive(e) ==
  /\ e \notin sent
  /\ sent' = sent \cup {e}
  /\ pipeline' = pipeline \cup {e}
  /\ UNCHANGED <<kvs, used, db, records, up, delivering, needs, pc, toClear,
                 handled, yields, crashes>>

\* addEventRecord: an event that is queued, or was lately, is a duplicate.
DuplicateQueued(e) == e \in kvs              \* faulty: forgets what was removed
DuplicateRecord(e) ==                        \* faulty: compares the record's ID
  \E f \in ToSet(used) \cup kvs : EventRecord[f] = EventRecord[e]
Duplicate(e) == e \in ToSet(used) \cup kvs

QueueEvent(p, e) ==
  /\ p \in up /\ delivering[p] = {} /\ e \in pipeline
  /\ delivering' = [delivering EXCEPT ![p] = {e}]
  /\ kvs' = IF Duplicate(e) THEN kvs ELSE kvs \cup {e}
  /\ needs' = [needs EXCEPT ![p] = TRUE]
  /\ UNCHANGED <<pipeline, used, db, records, up, pc, toClear, history>>

\* -queueSyncEvent: has returned: the request is dropped.
RemoveRequest(p) ==
  /\ delivering[p] # {}
  /\ pipeline' = pipeline \ delivering[p]
  /\ delivering' = [delivering EXCEPT ![p] = {}]
  /\ UNCHANGED <<kvs, used, db, records, up, needs, pc, toClear, history>>

-----------------------------------------------------------------------------
(* -processSyncRecords *)

\* Faulty: adds all events.
TransferAll(p) ==
  /\ p \in up /\ pc[p] = "transfer" /\ needs[p]
  /\ db' = [e \in Event |-> IF e \in kvs THEN db[e] + 1 ELSE db[e]]
  /\ toClear' = [toClear EXCEPT ![p] = kvs]
  /\ needs' = [needs EXCEPT ![p] = FALSE]
  /\ pc' = [pc EXCEPT ![p] = "clear"]
  /\ UNCHANGED <<pipeline, kvs, used, records, up, delivering, history>>

\* Transaction: events the table lacks are added, all are to be cleared.
Transfer(p) ==
  /\ p \in up /\ pc[p] = "transfer" /\ needs[p]
  /\ db' = [e \in Event |-> IF e \in kvs \ Rows THEN 1 ELSE db[e]]
  /\ toClear' = [toClear EXCEPT ![p] = kvs]
  /\ needs' = [needs EXCEPT ![p] = FALSE]
  /\ pc' = [pc EXCEPT ![p] = "clear"]
  /\ UNCHANGED <<pipeline, kvs, used, records, up, delivering, history>>

Keep(seq, n) == SubSeq(seq, 1, IF Len(seq) < n THEN Len(seq) ELSE n)

\* After the commit: one update of the key value store removes them, one after
\* the other, and remembers their UUIDs.
Clear(p) ==
  /\ pc[p] = "clear"
  /\ LET gone == kvs \cap toClear[p]
     IN  /\ kvs' = kvs \ gone
         /\ \E last \in [1 .. Cardinality(gone) -> gone] :
              /\ ToSet(last) = gone
              /\ used' = Keep(last \o used, UsedMax)
  /\ toClear' = [toClear EXCEPT ![p] = {}]
  /\ pc' = [pc EXCEPT ![p] = "process"]
  /\ UNCHANGED <<pipeline, db, records, up, delivering, needs, history>>

\* Records of another running process are left to it.
Foreign(p)  == {r \in records : Owner[r] # p /\ Owner[r] \in up}
Awaiting(S) == {r \in S : \E e \in Rows : EventRecord[e] = r}

\* The exclusive transaction: the events of each record that is visited are
\* handled and removed, and a final one removes the record.  A pass that
\* yields visits only some records and stays due.
ProcessSyncRecords(p) ==
  /\ pc[p] = "process"
  /\ LET mine == Awaiting(records \ Foreign(p))
     IN  \E visited \in SUBSET mine :
           LET now == {e \in Rows : EventRecord[e] \in visited}
           IN  /\ \/ visited = mine /\ UNCHANGED yields
                  \/ visited # mine /\ yields < MaxYields /\ yields' = yields + 1
               /\ db' = [e \in Event |-> IF e \in now THEN 0 ELSE db[e]]
               /\ handled' = [e \in Event |-> IF e \in now THEN handled[e] + db[e] ELSE handled[e]]
               /\ records' = records \ {EventRecord[e] : e \in now \cap Final}
               /\ needs' = [q \in Process |->
                              \/ needs[q]
                              \/ q = p /\ visited # mine
                              \/ \E r \in Awaiting(Foreign(p)) : Owner[r] = q]
  /\ pc' = [pc EXCEPT ![p] = "transfer"]
  /\ UNCHANGED <<pipeline, kvs, used, up, delivering, toClear, sent, crashes>>

\* A record is descheduled for another reason; its events stay behind.
Deschedule(r) ==
  /\ r \in records
  /\ records' = records \ {r}
  /\ UNCHANGED <<pipeline, kvs, used, db, up, delivering, needs, pc, toClear,
                 history>>

-----------------------------------------------------------------------------
(* Termination *)

Crash(p) ==
  /\ p \in up /\ crashes < MaxCrashes
  /\ crashes' = crashes + 1
  /\ up' = up \ {p}
  /\ delivering' = [delivering EXCEPT ![p] = {}]
  /\ needs' = [needs EXCEPT ![p] = FALSE]
  /\ pc' = [pc EXCEPT ![p] = "transfer"]
  /\ toClear' = [toClear EXCEPT ![p] = {}]
  /\ UNCHANGED <<stores, sent, handled, yields>>

\* Faulty: waits for the next event.
StartIdle(p) ==
  /\ p \notin up
  /\ up' = up \cup {p}
  /\ UNCHANGED <<stores, delivering, needs, pc, toClear, history>>

\* A core that starts asks for a pass.
Start(p) ==
  /\ p \notin up
  /\ up' = up \cup {p}
  /\ needs' = [needs EXCEPT ![p] = TRUE]
  /\ UNCHANGED <<stores, delivering, pc, toClear, history>>

Step(p) == \/ \E e \in Event : QueueEvent(p, e)
           \/ RemoveRequest(p)
           \/ Transfer(p) \/ Clear(p) \/ ProcessSyncRecords(p)
           \/ Start(p)

Next == \/ \E e \in Event : Receive(e)
        \/ \E p \in Process : Step(p) \/ Crash(p)
        \/ \E r \in Record : Deschedule(r)

Spec == Init /\ [][Next]_vars

\* The pipeline's and the core's queues run what is queued on them, and an app
\* that was terminated is launched again.
Fairness == \A p \in Process :
              /\ WF_vars(\E e \in Event : QueueEvent(p, e))
              /\ WF_vars(RemoveRequest(p))
              /\ WF_vars(Transfer(p) \/ Clear(p) \/ ProcessSyncRecords(p))
              /\ WF_vars(Start(p))

FairSpec == Spec /\ Fairness

-----------------------------------------------------------------------------
(* Properties *)

\* Every variable holds a value of its type, and the table holds no event twice.
TypeOK ==
  /\ pipeline \subseteq sent /\ sent \subseteq Event
  /\ kvs \subseteq Event /\ db \in [Event -> 0 .. 1]
  /\ used \in Seq(Event) /\ Len(used) <= UsedMax
  /\ records \subseteq Record /\ up \subseteq Process
  /\ delivering \in [Process -> SUBSET Event]
  /\ needs \in [Process -> BOOLEAN]
  /\ pc \in [Process -> {"transfer", "clear", "process"}]
  /\ toClear \in [Process -> SUBSET Event]
  /\ handled \in [Event -> Nat]
  /\ yields \in Nat /\ crashes \in Nat

\* "avoid ... processing events multiple time even when process is terminated
\* mid-transaction": no event reaches its action twice.
AtMostOnce == \A e \in Event : handled[e] <= 1

Pending ==
  {e \in pipeline \cup kvs \cup Rows : handled[e] = 0}

Delivery == INSTANCE EventDelivery
              WITH pending <- Pending, count <- handled, open <- records

\* The three stores together deliver every event exactly once: between the
\* writes of a hand-over, and across terminations, none is dropped, and none
\* is handled again.
ImplementsDelivery == Delivery!Spec

\* The answer to a request reaches the record's action unless the record is
\* gone: no termination leaves an event in a store nobody reads again.
EventsSettle ==
  \A e \in Event :
    e \in sent ~> handled[e] > 0 \/ EventRecord[e] \notin records
=============================================================================
