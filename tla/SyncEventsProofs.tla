--------------------------- MODULE SyncEventsProofs ---------------------------
(***************************************************************************)
(* With one process, and a queue that remembers enough UUIDs, the three    *)
(* stores implement EventDelivery and no event is handled twice: for any   *)
(* events and records, any number of terminations and of passes that       *)
(* yield.                                                                  *)
(***************************************************************************)
EXTENDS SyncEvents, FiniteSetTheorems, SequenceTheorems, TLAPS

\* There are no two processes.
Alone == \A p, q \in Process : p = q

\* No UUID is forgotten.
Remembers == Cardinality(Event) <= UsedMax

\* The parts of TypeOK.
Stores ==
  /\ pipeline \subseteq sent /\ sent \subseteq Event
  /\ kvs \subseteq Event /\ records \subseteq Record /\ up \subseteq Process
Table == db \in [Event -> 0 .. 1]
Used  == used \in Seq(Event) /\ Len(used) <= UsedMax
Memory ==
  /\ delivering \in [Process -> SUBSET Event]
  /\ needs \in [Process -> BOOLEAN]
  /\ pc \in [Process -> {"transfer", "clear", "process"}]
  /\ toClear \in [Process -> SUBSET Event]
Counts == handled \in [Event -> Nat] /\ yields \in Nat /\ crashes \in Nat

LEMMA TypeParts == TypeOK <=> Stores /\ Table /\ Used /\ Memory /\ Counts
BY Zenon DEF TypeOK, Stores, Table, Used, Memory, Counts

-----------------------------------------------------------------------------
(* The inductive invariant *)

\* An event has entered the database, whether it was handled since or not.
Entered(e) == e \in Rows \/ handled[e] > 0

\* What is in a store, or was handled, is the answer to a request.
Known ==
  /\ kvs \subseteq sent /\ ToSet(used) \subseteq sent
  /\ \A e \in Event : Entered(e) => e \in sent

\* What entered the database is still queued or remembered, never both, and
\* nothing else is remembered.
Remembered ==
  /\ kvs \cap ToSet(used) = {}
  /\ \A e \in Event : Entered(e) => e \in kvs \cup ToSet(used)
  /\ \A e \in ToSet(used) : Entered(e)
  /\ Len(used) = Cardinality(ToSet(used))

\* A request that is about to be removed has its event queued or remembered.
Delivering == \A p \in Process : delivering[p] \subseteq kvs \cup ToSet(used)

\* What is about to be removed from the queue has entered the database.  A pass
\* handles no event that is still queued.
Clearing ==
  /\ \A p \in Process : \A e \in toClear[p] : Entered(e)
  /\ \A p \in Process : pc[p] = "clear" => kvs \cap Rows \subseteq toClear[p]
  /\ \A p \in Process : pc[p] = "process" => kvs \cap Rows = {}

\* What is queued was not handled, nor what has a row.
Once ==
  /\ \A e \in kvs : handled[e] = 0
  /\ \A e \in Event : db[e] + handled[e] <= 1

Inductive == TypeOK /\ Known /\ Remembered /\ Delivering /\ Clearing /\ Once

-----------------------------------------------------------------------------
(* The queue *)

LEMMA ConcatSet ==
  ASSUME NEW S, NEW s \in Seq(S), NEW t \in Seq(S)
  PROVE  ToSet(s \o t) = ToSet(s) \cup ToSet(t)
<1>1. /\ s \o t \in Seq(S) /\ Len(s \o t) = Len(s) + Len(t)
      /\ \A i \in 1 .. Len(s) + Len(t) :
           (s \o t)[i] = IF i <= Len(s) THEN s[i] ELSE t[i - Len(s)]
  BY ConcatProperties, Zenon
<1>2. /\ Len(s) \in Nat /\ DOMAIN s = 1 .. Len(s)
      /\ Len(t) \in Nat /\ DOMAIN t = 1 .. Len(t)
      /\ DOMAIN (s \o t) = 1 .. Len(s \o t)
  BY <1>1, LenProperties, Zenon
<1>3. ASSUME NEW x \in ToSet(s \o t) PROVE x \in ToSet(s) \cup ToSet(t)
  <2>1. PICK i \in 1 .. Len(s) + Len(t) : x = (s \o t)[i]
    BY <1>1, <1>2, <1>3, Zenon DEF ToSet
  <2>2. CASE i <= Len(s)
    <3>1. i \in DOMAIN s /\ x = s[i]
      BY <1>1, <1>2, <2>1, <2>2, SMT
    <3> QED BY <3>1, Zenon DEF ToSet
  <2>3. CASE ~ (i <= Len(s))
    <3>1. i - Len(s) \in DOMAIN t /\ x = t[i - Len(s)]
      BY <1>1, <1>2, <2>1, <2>3, SMT
    <3> QED BY <3>1, Zenon DEF ToSet
  <2> QED BY <2>2, <2>3, Zenon
<1>4. ASSUME NEW x \in ToSet(s) PROVE x \in ToSet(s \o t)
  <2>1. PICK i \in 1 .. Len(s) : x = s[i]
    BY <1>2, <1>4, Zenon DEF ToSet
  <2>2. i \in DOMAIN (s \o t) /\ x = (s \o t)[i]
    BY <1>1, <1>2, <2>1, SMT
  <2> QED BY <2>2, Zenon DEF ToSet
<1>5. ASSUME NEW x \in ToSet(t) PROVE x \in ToSet(s \o t)
  <2>1. PICK i \in 1 .. Len(t) : x = t[i]
    BY <1>2, <1>5, Zenon DEF ToSet
  <2>2. i + Len(s) \in DOMAIN (s \o t) /\ x = (s \o t)[i + Len(s)]
    BY <1>1, <1>2, <2>1, SMT
  <2> QED BY <2>2, Zenon DEF ToSet
<1> QED BY <1>3, <1>4, <1>5, Zenon

LEMMA KeepProperties ==
  ASSUME NEW S, NEW seq \in Seq(S), NEW n \in Nat
  PROVE  /\ Keep(seq, n) \in Seq(S) /\ Len(Keep(seq, n)) <= n
         /\ ToSet(Keep(seq, n)) \subseteq ToSet(seq)
         /\ Len(seq) <= n => Keep(seq, n) = seq
<1> DEFINE m == IF Len(seq) < n THEN Len(seq) ELSE n
<1>1. Len(seq) \in Nat /\ DOMAIN seq = 1 .. Len(seq) /\ seq \in [1 .. Len(seq) -> S]
  BY LenProperties, Zenon
<1>2. m \in Nat /\ m <= n /\ m <= Len(seq)
  BY <1>1, SMT
<1>3. \A i \in 1 .. m : seq[i] \in S
  BY <1>1, <1>2, SMT
<1>4. Keep(seq, n) = SubSeq(seq, 1, m)
  BY Zenon DEF Keep
<1> HIDE DEF m
<1>5. /\ SubSeq(seq, 1, m) \in Seq(S)
      /\ Len(SubSeq(seq, 1, m)) = IF 1 <= m THEN m - 1 + 1 ELSE 0
      /\ \A i \in 1 .. m - 1 + 1 : SubSeq(seq, 1, m)[i] = seq[1 + i - 1]
  BY <1>2, <1>3, SubSeqProperties, SMT
<1>6. Len(SubSeq(seq, 1, m)) = m
  BY <1>2, <1>5, SMT
<1>7. ToSet(SubSeq(seq, 1, m)) \subseteq ToSet(seq)
  <2> SUFFICES ASSUME NEW x \in ToSet(SubSeq(seq, 1, m)) PROVE x \in ToSet(seq)
    OBVIOUS
  <2>1. DOMAIN SubSeq(seq, 1, m) = 1 .. m
    BY <1>5, <1>6, LenProperties, Zenon
  <2>2. PICK i \in 1 .. m : x = SubSeq(seq, 1, m)[i]
    BY <2>1, Zenon DEF ToSet
  <2>3. i \in DOMAIN seq /\ x = seq[i]
    BY <1>1, <1>2, <1>5, <2>2, SMT
  <2> QED BY <2>3, Zenon DEF ToSet
<1>8. Len(seq) <= n => SubSeq(seq, 1, m) = seq
  <2> SUFFICES ASSUME Len(seq) <= n PROVE SubSeq(seq, 1, m) = seq
    OBVIOUS
  <2>1. m = Len(seq)
    <3>1. CASE Len(seq) < n
      BY <3>1, SMT DEF m
    <3>2. CASE ~ (Len(seq) < n)
      <4>1. Len(seq) \in Nat
        BY <1>1, Zenon
      <4>2. Len(seq) = n
        BY <3>2, <4>1, SMT
      <4> QED BY <3>2, <4>2, Zenon DEF m
    <3> QED BY <3>1, <3>2, Zenon
  <2> QED BY <2>1, SubSeqFull, Zenon
<1> QED BY <1>2, <1>4, <1>5, <1>6, <1>7, <1>8, Zenon

LEMMA Remembering ==
  ASSUME Stores, NEW gone \in SUBSET kvs, NEW last \in [1 .. Cardinality(gone) -> gone]
  PROVE  IsFiniteSet(gone) /\ Cardinality(gone) \in Nat /\ last \in Seq(Event)
         /\ Len(last) = Cardinality(gone)
<1>1. gone \in SUBSET Event /\ IsFiniteSet(Event)
  BY EventAssumption, Zenon DEF Stores, EventAssumption
<1>2. IsFiniteSet(gone) /\ Cardinality(gone) \in Nat
  BY <1>1, FS_Subset, FS_CardinalityType, Zenon
<1>3. last \in [1 .. Cardinality(gone) -> Event]
  BY <1>1, Zenon
<1>4. last \in Seq(Event)
  BY <1>2, <1>3, SeqDef, Zenon
<1>5. DOMAIN last = 1 .. Cardinality(gone) /\ DOMAIN last = 1 .. Len(last) /\ Len(last) \in Nat
  BY <1>3, <1>4, LenProperties, Zenon
<1>6. Len(last) = Cardinality(gone)
  BY <1>2, <1>5, SMT
<1> QED BY <1>2, <1>4, <1>6, Zenon

-----------------------------------------------------------------------------
(* Types *)

LEMMA StoresPreserved ==
  ASSUME Stores, Memory, Used, [Next]_vars
  PROVE  Stores'
<1>1. ASSUME NEW e \in Event, Receive(e) PROVE Stores'
  BY <1>1, SMT DEF Stores, Receive, stores, history
<1>2. ASSUME NEW p \in Process, NEW e \in Event, QueueEvent(p, e) PROVE Stores'
  BY <1>2, SMT DEF Stores, QueueEvent, stores, history
<1>3. ASSUME NEW p \in Process, RemoveRequest(p) PROVE Stores'
  BY <1>3, SMT DEF Stores, Memory, RemoveRequest, stores, history
<1>4. ASSUME NEW p \in Process, Clear(p) PROVE Stores'
  BY <1>4, SMT DEF Stores, Clear, stores, history
<1>5. ASSUME NEW p \in Process, ProcessSyncRecords(p) PROVE Stores'
  BY <1>5, SMT DEF Stores, ProcessSyncRecords, stores, history
<1>6. ASSUME NEW r \in Record, Deschedule(r) PROVE Stores'
  BY <1>6, SMT DEF Stores, Deschedule, stores, history
<1>7. ASSUME NEW p \in Process, Crash(p) PROVE Stores'
  BY <1>7, SMT DEF Stores, Crash, stores, history
<1>8. ASSUME NEW p \in Process, Start(p) PROVE Stores'
  BY <1>8, SMT DEF Stores, Start, stores, history
<1>9. ASSUME NEW p \in Process, Transfer(p) PROVE Stores'
  BY <1>9, Zenon DEF Stores, Transfer, stores, history
<1>10. CASE UNCHANGED vars
  BY <1>10, Zenon DEF Stores, vars
<1> QED
  BY <1>1, <1>2, <1>3, <1>4, <1>5, <1>6, <1>7, <1>8, <1>9, <1>10, Zenon DEF Next, Step

LEMMA TablePreserved ==
  ASSUME Stores, Table, [Next]_vars
  PROVE  Table'
<1>1. ASSUME NEW p \in Process, Transfer(p) PROVE Table'
  BY <1>1, SMT DEF Table, Rows, Transfer, stores
<1>2. ASSUME NEW p \in Process, ProcessSyncRecords(p) PROVE Table'
  BY <1>2, SMT DEF Table, ProcessSyncRecords, stores
<1>3. ASSUME NEW e \in Event, Receive(e) PROVE Table'
  BY <1>3, Zenon DEF Table, Receive, stores
<1>4. ASSUME NEW p \in Process, NEW e \in Event, QueueEvent(p, e) PROVE Table'
  BY <1>4, Zenon DEF Table, QueueEvent, stores
<1>5. ASSUME NEW p \in Process, RemoveRequest(p) PROVE Table'
  BY <1>5, Zenon DEF Table, RemoveRequest, stores
<1>6. ASSUME NEW p \in Process, Clear(p) PROVE Table'
  BY <1>6, Zenon DEF Table, Clear, stores
<1>7. ASSUME NEW r \in Record, Deschedule(r) PROVE Table'
  BY <1>7, Zenon DEF Table, Deschedule, stores
<1>8. ASSUME NEW p \in Process, Crash(p) PROVE Table'
  BY <1>8, Zenon DEF Table, Crash, stores
<1>9. ASSUME NEW p \in Process, Start(p) PROVE Table'
  BY <1>9, Zenon DEF Table, Start, stores
<1>10. CASE UNCHANGED vars
  BY <1>10, Zenon DEF Table, vars
<1> QED
  BY <1>1, <1>2, <1>3, <1>4, <1>5, <1>6, <1>7, <1>8, <1>9, <1>10, Zenon DEF Next, Step

LEMMA UsedPreserved ==
  ASSUME Stores, Used, [Next]_vars
  PROVE  Used'
<1>1. ASSUME NEW p \in Process, Clear(p) PROVE Used'
  <2>1. PICK last \in [1 .. Cardinality(kvs \cap toClear[p]) -> kvs \cap toClear[p]] :
               used' = Keep(last \o used, UsedMax)
    BY <1>1, Zenon DEF Clear
  <2>2. last \in Seq(Event)
    BY Remembering, Zenon
  <2>3. last \o used \in Seq(Event) /\ UsedMax \in Nat
    BY <2>2, ConcatProperties, EventAssumption, Zenon DEF Used, EventAssumption
  <2> QED BY <2>1, <2>3, KeepProperties, Zenon DEF Used
<1>2. ASSUME NEW e \in Event, Receive(e) PROVE Used'
  BY <1>2, Zenon DEF Used, Receive, stores
<1>3. ASSUME NEW p \in Process, NEW e \in Event, QueueEvent(p, e) PROVE Used'
  BY <1>3, Zenon DEF Used, QueueEvent, stores
<1>4. ASSUME NEW p \in Process, RemoveRequest(p) PROVE Used'
  BY <1>4, Zenon DEF Used, RemoveRequest, stores
<1>5. ASSUME NEW p \in Process, Transfer(p) PROVE Used'
  BY <1>5, Zenon DEF Used, Transfer, stores
<1>6. ASSUME NEW p \in Process, ProcessSyncRecords(p) PROVE Used'
  BY <1>6, Zenon DEF Used, ProcessSyncRecords, stores
<1>7. ASSUME NEW r \in Record, Deschedule(r) PROVE Used'
  BY <1>7, Zenon DEF Used, Deschedule, stores
<1>8. ASSUME NEW p \in Process, Crash(p) PROVE Used'
  BY <1>8, Zenon DEF Used, Crash, stores
<1>9. ASSUME NEW p \in Process, Start(p) PROVE Used'
  BY <1>9, Zenon DEF Used, Start, stores
<1>10. CASE UNCHANGED vars
  BY <1>10, Zenon DEF Used, vars
<1> QED
  BY <1>1, <1>2, <1>3, <1>4, <1>5, <1>6, <1>7, <1>8, <1>9, <1>10, Zenon DEF Next, Step

LEMMA MemoryPreserved ==
  ASSUME Stores, Memory, [Next]_vars
  PROVE  Memory'
<1>1. ASSUME NEW p \in Process, NEW e \in Event, QueueEvent(p, e) PROVE Memory'
  BY <1>1, SMT DEF Memory, QueueEvent
<1>2. ASSUME NEW p \in Process, RemoveRequest(p) PROVE Memory'
  BY <1>2, SMT DEF Memory, RemoveRequest
<1>3. ASSUME NEW p \in Process, Transfer(p) PROVE Memory'
  BY <1>3, SMT DEF Memory, Stores, Transfer
<1>4. ASSUME NEW p \in Process, Clear(p) PROVE Memory'
  BY <1>4, SMT DEF Memory, Clear
<1>5. ASSUME NEW p \in Process, ProcessSyncRecords(p) PROVE Memory'
  BY <1>5, SMT DEF Memory, ProcessSyncRecords
<1>6. ASSUME NEW p \in Process, Crash(p) PROVE Memory'
  BY <1>6, SMT DEF Memory, Crash
<1>7. ASSUME NEW p \in Process, Start(p) PROVE Memory'
  BY <1>7, SMT DEF Memory, Start
<1>8. ASSUME NEW e \in Event, Receive(e) PROVE Memory'
  BY <1>8, Zenon DEF Memory, Receive
<1>9. ASSUME NEW r \in Record, Deschedule(r) PROVE Memory'
  BY <1>9, Zenon DEF Memory, Deschedule
<1>10. CASE UNCHANGED vars
  BY <1>10, Zenon DEF Memory, vars
<1> QED
  BY <1>1, <1>2, <1>3, <1>4, <1>5, <1>6, <1>7, <1>8, <1>9, <1>10, Zenon DEF Next, Step

LEMMA CountsPreserved ==
  ASSUME Table, Counts, [Next]_vars
  PROVE  Counts'
<1>1. ASSUME NEW p \in Process, ProcessSyncRecords(p) PROVE Counts'
  BY <1>1, SMT DEF Counts, Table, Rows, ProcessSyncRecords, history
<1>2. ASSUME NEW p \in Process, Crash(p) PROVE Counts'
  BY <1>2, SMT DEF Counts, Crash, history
<1>3. ASSUME NEW e \in Event, Receive(e) PROVE Counts'
  BY <1>3, Zenon DEF Counts, Receive, history
<1>4. ASSUME NEW p \in Process, NEW e \in Event, QueueEvent(p, e) PROVE Counts'
  BY <1>4, Zenon DEF Counts, QueueEvent, history
<1>5. ASSUME NEW p \in Process, RemoveRequest(p) PROVE Counts'
  BY <1>5, Zenon DEF Counts, RemoveRequest, history
<1>6. ASSUME NEW p \in Process, Transfer(p) PROVE Counts'
  BY <1>6, Zenon DEF Counts, Transfer, history
<1>7. ASSUME NEW p \in Process, Clear(p) PROVE Counts'
  BY <1>7, Zenon DEF Counts, Clear, history
<1>8. ASSUME NEW r \in Record, Deschedule(r) PROVE Counts'
  BY <1>8, Zenon DEF Counts, Deschedule, history
<1>9. ASSUME NEW p \in Process, Start(p) PROVE Counts'
  BY <1>9, Zenon DEF Counts, Start, history
<1>10. CASE UNCHANGED vars
  BY <1>10, Zenon DEF Counts, vars
<1> QED
  BY <1>1, <1>2, <1>3, <1>4, <1>5, <1>6, <1>7, <1>8, <1>9, <1>10, Zenon DEF Next, Step

-----------------------------------------------------------------------------
(* The hand-overs *)

\* A queue that forgets nothing remembers all that it removes.
LEMMA ClearEffect ==
  ASSUME Stores, Used, Memory, Remembered, Remembers, NEW p \in Process, Clear(p)
  PROVE  /\ kvs' = kvs \ toClear[p] /\ ToSet(used') = ToSet(used) \cup (kvs \cap toClear[p])
         /\ Len(used') = Cardinality(ToSet(used'))
<1> DEFINE gone == kvs \cap toClear[p]
<1>1. PICK last \in [1 .. Cardinality(gone) -> gone] :
         ToSet(last) = gone /\ used' = Keep(last \o used, UsedMax)
  BY Zenon DEF Clear
<1>2. kvs' = kvs \ toClear[p]
  BY SMT DEF Clear
<1>3. gone \in SUBSET kvs
  OBVIOUS
<1> HIDE DEF gone
<1>4. /\ IsFiniteSet(gone) /\ Cardinality(gone) \in Nat
      /\ last \in Seq(Event) /\ Len(last) = Cardinality(gone)
  BY <1>3, Remembering, Zenon
<1>5. used \in Seq(Event) /\ UsedMax \in Nat /\ IsFiniteSet(Event)
  BY EventAssumption, Zenon DEF Used, EventAssumption
<1>6. ToSet(used) \subseteq Event
  BY <1>5, LenProperties, SMT DEF ToSet
<1>7. gone \subseteq Event
  BY <1>3, Zenon DEF Stores
<1>8. gone \cap ToSet(used) = {}
  BY <1>3, Zenon DEF Remembered
<1>9. IsFiniteSet(ToSet(used)) /\ Cardinality(ToSet(used)) \in Nat
  BY <1>5, <1>6, FS_Subset, FS_CardinalityType, Zenon
<1>10. Cardinality(gone \cup ToSet(used)) = Cardinality(gone) + Cardinality(ToSet(used))
  <2>1. Cardinality(gone \cap ToSet(used)) = 0
    BY <1>8, FS_EmptySet, Zenon
  <2>2. Cardinality(gone \cup ToSet(used)) =
          Cardinality(gone) + Cardinality(ToSet(used)) - Cardinality(gone \cap ToSet(used))
    BY <1>4, <1>9, FS_Union, Zenon
  <2> QED BY <1>4, <1>9, <2>1, <2>2, SMT
<1>11. /\ Cardinality(gone \cup ToSet(used)) \in Nat
       /\ Cardinality(gone \cup ToSet(used)) <= Cardinality(Event)
  <2>1. gone \cup ToSet(used) \in SUBSET Event
    BY <1>6, <1>7, Zenon
  <2> QED BY <1>5, <2>1, FS_Subset, FS_CardinalityType, Zenon
<1>12. last \o used \in Seq(Event) /\ Len(last \o used) = Len(last) + Len(used)
  BY <1>4, <1>5, ConcatProperties, Zenon
<1>13. ToSet(last \o used) = gone \cup ToSet(used)
  BY <1>1, <1>4, <1>5, ConcatSet, Zenon
<1>14. Len(last \o used) = Cardinality(gone \cup ToSet(used))
  BY <1>4, <1>10, <1>12, Zenon DEF Remembered
<1>15. Cardinality(Event) \in Nat
  BY <1>5, FS_CardinalityType, Zenon
<1>16. Len(last \o used) <= UsedMax
  BY <1>5, <1>11, <1>14, <1>15, SMT DEF Remembers
<1>17. used' = last \o used
  BY <1>1, <1>5, <1>12, <1>16, KeepProperties, Zenon
<1> QED BY <1>2, <1>13, <1>14, <1>17, Zenon DEF gone

\* A transfer enters what is queued, a pass what was entered.
LEMMA TransferEffect ==
  ASSUME Table, Counts, NEW p \in Process, Transfer(p)
  PROVE  \A e \in Event : (e \in Rows' <=> e \in Rows \/ e \in kvs)
                          /\ (Entered(e)' <=> Entered(e) \/ e \in kvs)
BY SMT DEF Table, Counts, Transfer, Rows, Entered, history

LEMMA ProcessEffect ==
  ASSUME Table, Counts, NEW p \in Process, ProcessSyncRecords(p)
  PROVE  \A e \in Event : (e \in Rows' => e \in Rows) /\ (Entered(e)' <=> Entered(e))
<1>1. PICK now \in SUBSET Rows :
         /\ db' = [e \in Event |-> IF e \in now THEN 0 ELSE db[e]]
         /\ handled' = [e \in Event |-> IF e \in now THEN handled[e] + db[e] ELSE handled[e]]
  BY Zenon DEF ProcessSyncRecords
<1> QED BY <1>1, SMT DEF Table, Counts, Rows, Entered

LEMMA KnownPreserved ==
  ASSUME Stores, Table, Used, Memory, Counts, Known, Remembered, Remembers, [Next]_vars
  PROVE  Known'
<1>1. ASSUME NEW e \in Event, Receive(e) PROVE Known'
  BY <1>1, SMT DEF Known, Entered, Rows, Receive, Entered, Rows, stores, history
<1>2. ASSUME NEW p \in Process, NEW e \in Event, QueueEvent(p, e) PROVE Known'
  BY <1>2, SMT DEF Known, Stores, Entered, Rows, QueueEvent, Entered, Rows, stores,
     history
<1>3. ASSUME NEW p \in Process, Transfer(p) PROVE Known'
  <2>1. UNCHANGED <<kvs, used, sent>>
    BY <1>3, Zenon DEF Transfer, history
  <2> QED BY <1>3, <2>1, TransferEffect, Zenon DEF Known
<1>4. ASSUME NEW p \in Process, Clear(p) PROVE Known'
  <2>1. UNCHANGED <<db, handled, sent>>
    BY <1>4, Zenon DEF Clear, history
  <2> QED BY <1>4, <2>1, ClearEffect, SMT DEF Known, Entered, Rows
<1>5. ASSUME NEW p \in Process, ProcessSyncRecords(p) PROVE Known'
  <2>1. UNCHANGED <<kvs, used, sent>>
    BY <1>5, Zenon DEF ProcessSyncRecords
  <2> QED BY <1>5, <2>1, ProcessEffect, Zenon DEF Known
<1>6. ASSUME NEW p \in Process, RemoveRequest(p) PROVE Known'
  BY <1>6, Zenon DEF Known, RemoveRequest, Entered, Rows, stores, history
<1>7. ASSUME NEW r \in Record, Deschedule(r) PROVE Known'
  BY <1>7, Zenon DEF Known, Deschedule, Entered, Rows, stores, history
<1>8. ASSUME NEW p \in Process, Crash(p) PROVE Known'
  BY <1>8, Zenon DEF Known, Crash, Entered, Rows, stores, history
<1>9. ASSUME NEW p \in Process, Start(p) PROVE Known'
  BY <1>9, Zenon DEF Known, Start, Entered, Rows, stores, history
<1>10. CASE UNCHANGED vars
  BY <1>10, Zenon DEF Known, Entered, Rows, vars
<1> QED
  BY <1>1, <1>2, <1>3, <1>4, <1>5, <1>6, <1>7, <1>8, <1>9, <1>10, Zenon DEF Next, Step

LEMMA RememberedPreserved ==
  ASSUME Stores, Table, Used, Memory, Counts, Remembered, Clearing, Remembers,
         [Next]_vars
  PROVE  Remembered'
<1>1. ASSUME NEW p \in Process, NEW e \in Event, QueueEvent(p, e) PROVE Remembered'
  BY <1>1, SMT DEF Remembered, Duplicate, QueueEvent, Entered, Rows, stores, history
<1>2. ASSUME NEW p \in Process, Transfer(p) PROVE Remembered'
  <2>1. UNCHANGED <<kvs, used>>
    BY <1>2, Zenon DEF Transfer
  <2>2. ToSet(used) \subseteq Event
    BY LenProperties, SMT DEF ToSet, Used
  <2> QED BY <1>2, <2>1, <2>2, TransferEffect, SMT DEF Remembered, Stores
<1>3. ASSUME NEW p \in Process, Clear(p) PROVE Remembered'
  <2>1. UNCHANGED <<db, handled>>
    BY <1>3, Zenon DEF Clear, history
  <2>2. \A e \in kvs \cap toClear[p] : Entered(e)
    BY Zenon DEF Clearing
  <2> QED BY <1>3, <2>1, <2>2, ClearEffect, SMT DEF Remembered, Entered, Rows
<1>4. ASSUME NEW p \in Process, ProcessSyncRecords(p) PROVE Remembered'
  <2>1. UNCHANGED <<kvs, used>>
    BY <1>4, Zenon DEF ProcessSyncRecords
  <2>2. ToSet(used) \subseteq Event
    BY LenProperties, SMT DEF ToSet, Used
  <2> QED BY <1>4, <2>1, <2>2, ProcessEffect, SMT DEF Remembered
<1>5. ASSUME NEW e \in Event, Receive(e) PROVE Remembered'
  BY <1>5, Zenon DEF Remembered, Receive, Entered, Rows, stores, history
<1>6. ASSUME NEW p \in Process, RemoveRequest(p) PROVE Remembered'
  BY <1>6, Zenon DEF Remembered, RemoveRequest, Entered, Rows, stores, history
<1>7. ASSUME NEW r \in Record, Deschedule(r) PROVE Remembered'
  BY <1>7, Zenon DEF Remembered, Deschedule, Entered, Rows, stores, history
<1>8. ASSUME NEW p \in Process, Crash(p) PROVE Remembered'
  BY <1>8, Zenon DEF Remembered, Crash, Entered, Rows, stores, history
<1>9. ASSUME NEW p \in Process, Start(p) PROVE Remembered'
  BY <1>9, Zenon DEF Remembered, Start, Entered, Rows, stores, history
<1>10. CASE UNCHANGED vars
  BY <1>10, Zenon DEF Remembered, Entered, Rows, vars
<1> QED
  BY <1>1, <1>2, <1>3, <1>4, <1>5, <1>6, <1>7, <1>8, <1>9, <1>10, Zenon DEF Next, Step

LEMMA DeliveringPreserved ==
  ASSUME Stores, Used, Memory, Remembered, Delivering, Remembers, [Next]_vars
  PROVE  Delivering'
<1>1. ASSUME NEW p \in Process, NEW e \in Event, QueueEvent(p, e) PROVE Delivering'
  BY <1>1, SMT DEF Delivering, Memory, Duplicate, QueueEvent, stores
<1>2. ASSUME NEW p \in Process, RemoveRequest(p) PROVE Delivering'
  BY <1>2, SMT DEF Delivering, Memory, RemoveRequest, stores
<1>3. ASSUME NEW p \in Process, Clear(p) PROVE Delivering'
  <2>1. delivering' = delivering
    BY <1>3, Zenon DEF Clear
  <2> QED BY <1>3, <2>1, ClearEffect, SMT DEF Delivering
<1>4. ASSUME NEW p \in Process, Crash(p) PROVE Delivering'
  BY <1>4, SMT DEF Delivering, Memory, Crash, stores
<1>5. ASSUME NEW e \in Event, Receive(e) PROVE Delivering'
  BY <1>5, Zenon DEF Delivering, Receive, stores
<1>6. ASSUME NEW p \in Process, Transfer(p) PROVE Delivering'
  BY <1>6, Zenon DEF Delivering, Transfer, stores
<1>7. ASSUME NEW p \in Process, ProcessSyncRecords(p) PROVE Delivering'
  BY <1>7, Zenon DEF Delivering, ProcessSyncRecords, stores
<1>8. ASSUME NEW r \in Record, Deschedule(r) PROVE Delivering'
  BY <1>8, Zenon DEF Delivering, Deschedule, stores
<1>9. ASSUME NEW p \in Process, Start(p) PROVE Delivering'
  BY <1>9, Zenon DEF Delivering, Start, stores
<1>10. CASE UNCHANGED vars
  BY <1>10, Zenon DEF Delivering, vars
<1> QED
  BY <1>1, <1>2, <1>3, <1>4, <1>5, <1>6, <1>7, <1>8, <1>9, <1>10, Zenon DEF Next, Step

LEMMA ClearingPreserved ==
  ASSUME Alone, Stores, Table, Used, Memory, Counts, Remembered, Clearing, Remembers,
         [Next]_vars
  PROVE  Clearing'
<1>1. ASSUME NEW p \in Process, NEW e \in Event, QueueEvent(p, e) PROVE Clearing'
  BY <1>1, SMT DEF Clearing, Memory, Remembered, Duplicate, Entered, Rows, QueueEvent,
     Entered, Rows, stores, history
<1>2. ASSUME NEW p \in Process, Transfer(p) PROVE Clearing'
  <2>1. UNCHANGED kvs /\ toClear' = [toClear EXCEPT ![p] = kvs] /\ pc' = [pc EXCEPT ![p] = "clear"]
    BY <1>2, Zenon DEF Transfer
  <2>2. \A q \in Process : q = p
    BY Zenon DEF Alone
  <2> QED BY <1>2, <2>1, <2>2, TransferEffect, SMT DEF Clearing, Memory, Stores
<1>3. ASSUME NEW p \in Process, Clear(p) PROVE Clearing'
  <2>1. /\ UNCHANGED <<db, handled>> /\ toClear' = [toClear EXCEPT ![p] = {}]
        /\ pc[p] = "clear" /\ pc' = [pc EXCEPT ![p] = "process"]
    BY <1>3, Zenon DEF Clear, history
  <2>2. \A q \in Process : q = p
    BY Zenon DEF Alone
  <2> QED BY <1>3, <2>1, <2>2, ClearEffect, SMT DEF Clearing, Memory, Entered, Rows
<1>4. ASSUME NEW p \in Process, ProcessSyncRecords(p) PROVE Clearing'
  <2>1. UNCHANGED <<kvs, toClear>> /\ pc' = [pc EXCEPT ![p] = "transfer"]
    BY <1>4, Zenon DEF ProcessSyncRecords
  <2>2. \A q \in Process : q = p
    BY Zenon DEF Alone
  <2>3. \A e \in Event : (e \in Rows' => e \in Rows) /\ (Entered(e) => Entered(e)')
    BY <1>4, ProcessEffect, Zenon
  <2> QED BY <2>1, <2>2, <2>3, SMT DEF Clearing, Memory, Stores
<1>5. ASSUME NEW p \in Process, Crash(p) PROVE Clearing'
  BY <1>5, SMT DEF Clearing, Memory, Entered, Rows, Crash, Entered, Rows, stores,
     history
<1>6. ASSUME NEW e \in Event, Receive(e) PROVE Clearing'
  BY <1>6, Zenon DEF Clearing, Receive, Entered, Rows, stores, history
<1>7. ASSUME NEW p \in Process, RemoveRequest(p) PROVE Clearing'
  BY <1>7, Zenon DEF Clearing, RemoveRequest, Entered, Rows, stores, history
<1>8. ASSUME NEW r \in Record, Deschedule(r) PROVE Clearing'
  BY <1>8, Zenon DEF Clearing, Deschedule, Entered, Rows, stores, history
<1>9. ASSUME NEW p \in Process, Start(p) PROVE Clearing'
  BY <1>9, Zenon DEF Clearing, Start, Entered, Rows, stores, history
<1>10. CASE UNCHANGED vars
  BY <1>10, Zenon DEF Clearing, Entered, Rows, vars
<1> QED
  BY <1>1, <1>2, <1>3, <1>4, <1>5, <1>6, <1>7, <1>8, <1>9, <1>10, Zenon DEF Next, Step

LEMMA OncePreserved ==
  ASSUME Stores, Table, Memory, Counts, Remembered, Clearing, Once, [Next]_vars
  PROVE  Once'
<1>1. ASSUME NEW p \in Process, NEW e \in Event, QueueEvent(p, e) PROVE Once'
  <2>1. UNCHANGED <<db, handled>> /\ (e \in ToSet(used) \/ kvs' \subseteq kvs \cup {e})
    BY <1>1, SMT DEF QueueEvent, history
  <2>2. ASSUME NEW f \in kvs', f \notin kvs PROVE handled[f] = 0
    <3>1. f = e /\ ~ Duplicate(e)
      BY <1>1, <2>2, SMT DEF QueueEvent
    <3>2. ~ Entered(e)
      BY <3>1, Zenon DEF Remembered, Duplicate
    <3> QED BY <3>1, <3>2, SMT DEF Entered, Counts
  <2> QED BY <2>1, <2>2, Zenon DEF Once
<1>2. ASSUME NEW p \in Process, Transfer(p) PROVE Once'
  BY <1>2, SMT DEF Once, Table, Counts, Rows, Stores, Transfer, stores, history
<1>3. ASSUME NEW p \in Process, Clear(p) PROVE Once'
  BY <1>3, SMT DEF Once, Clear, stores, history
<1>4. ASSUME NEW p \in Process, ProcessSyncRecords(p) PROVE Once'
  <2>1. kvs' = kvs /\ kvs \cap Rows = {}
    BY <1>4, Zenon DEF ProcessSyncRecords, Clearing
  <2>2. PICK now \in SUBSET Rows :
           /\ db' = [e \in Event |-> IF e \in now THEN 0 ELSE db[e]]
           /\ handled' = [e \in Event |-> IF e \in now THEN handled[e] + db[e] ELSE handled[e]]
    BY <1>4, Zenon DEF ProcessSyncRecords
  <2> QED BY <2>1, <2>2, SMT DEF Once, Table, Counts, Stores
<1>5. ASSUME NEW e \in Event, Receive(e) PROVE Once'
  BY <1>5, Zenon DEF Once, Receive, stores, history
<1>6. ASSUME NEW p \in Process, RemoveRequest(p) PROVE Once'
  BY <1>6, Zenon DEF Once, RemoveRequest, stores, history
<1>7. ASSUME NEW r \in Record, Deschedule(r) PROVE Once'
  BY <1>7, Zenon DEF Once, Deschedule, stores, history
<1>8. ASSUME NEW p \in Process, Crash(p) PROVE Once'
  BY <1>8, Zenon DEF Once, Crash, stores, history
<1>9. ASSUME NEW p \in Process, Start(p) PROVE Once'
  BY <1>9, Zenon DEF Once, Start, stores, history
<1>10. CASE UNCHANGED vars
  BY <1>10, Zenon DEF Once, vars
<1> QED
  BY <1>1, <1>2, <1>3, <1>4, <1>5, <1>6, <1>7, <1>8, <1>9, <1>10, Zenon DEF Next, Step

-----------------------------------------------------------------------------
(* The abstract specification *)

\* Initially nothing is pending.
LEMMA InitDelivery == ASSUME Init PROVE Delivery!Init
<1>1. kvs = {} /\ pipeline = {} /\ db = [e \in Event |-> 0]
  BY Zenon DEF Init
<1>2. Rows = {}
  BY <1>1, SMT DEF Rows
<1>3. Pending = {}
  BY <1>1, <1>2, Zenon DEF Pending
<1> QED BY <1>3, Zenon DEF Init, Delivery!Init

\* A hand-over changes nothing for EventDelivery: what leaves a store is in the
\* next one, or was handled.
LEMMA RemoveRequestStutters ==
  ASSUME Stores, Counts, Memory, Remembered, Delivering, NEW p \in Process, RemoveRequest(p)
  PROVE  UNCHANGED <<Pending, handled, records>>
<1>1. UNCHANGED <<kvs, db, handled, records>> /\ pipeline' = pipeline \ delivering[p]
  BY Zenon DEF RemoveRequest, history
<1>2. \A e \in delivering[p] : e \in kvs \/ Entered(e)
  BY Zenon DEF Delivering, Remembered
<1>3. \A e \in delivering[p] : e \in kvs \cup Rows \/ handled[e] # 0
  BY <1>2, SMT DEF Entered, Memory, Counts
<1>4. Rows' = Rows
  BY <1>1, Zenon DEF Rows
<1>5. Pending' = Pending
  BY <1>1, <1>3, <1>4, SMT DEF Pending
<1> QED BY <1>1, <1>5, Zenon

LEMMA TransferStutters ==
  ASSUME Stores, Table, Counts, NEW p \in Process, Transfer(p)
  PROVE  UNCHANGED <<Pending, handled, records>>
<1>1. UNCHANGED <<pipeline, kvs, handled, records>>
  BY Zenon DEF Transfer, history
<1>2. kvs \subseteq Event /\ Rows \subseteq Event /\ Rows' \subseteq Event
  BY Zenon DEF Stores, Rows
<1>3. Rows' = Rows \cup kvs
  BY <1>2, TransferEffect, SMT
<1>4. Pending' = Pending
  BY <1>1, <1>3, SMT DEF Pending
<1> QED BY <1>1, <1>4, Zenon

LEMMA ClearStutters ==
  ASSUME Stores, Memory, Counts, Clearing, NEW p \in Process, Clear(p)
  PROVE  UNCHANGED <<Pending, handled, records>>
<1>1. UNCHANGED <<pipeline, db, handled, records>> /\ kvs' = kvs \ (kvs \cap toClear[p])
  BY Zenon DEF Clear, history
<1>2. \A e \in toClear[p] : Entered(e)
  BY Zenon DEF Clearing
<1>3. \A e \in kvs \cap toClear[p] : e \in Rows \/ handled[e] # 0
  BY <1>2, SMT DEF Entered, Stores, Counts
<1>4. Rows' = Rows
  BY <1>1, Zenon DEF Rows
<1>5. Pending' = Pending
  BY <1>1, <1>3, <1>4, SMT DEF Pending
<1> QED BY <1>1, <1>5, Zenon

\* The answer of the server is received.
LEMMA ReceiveMaps ==
  ASSUME Stores, Counts, Known, NEW e \in Event, Receive(e)
  PROVE  Delivery!Receive(e)
<1>1. UNCHANGED <<kvs, db, handled, records>> /\ pipeline' = pipeline \cup {e} /\ e \notin sent
  BY Zenon DEF Receive
<1>2. e \notin pipeline /\ e \notin kvs /\ ~ Entered(e)
  BY <1>1, Zenon DEF Stores, Known
<1>3. e \notin Rows /\ handled[e] = 0
  BY <1>2, SMT DEF Entered, Counts
<1>4. Rows' = Rows
  BY <1>1, Zenon DEF Rows
<1>5. Pending' = Pending \cup {e}
  BY <1>1, <1>3, <1>4, SMT DEF Pending
<1>6. e \notin Pending
  BY <1>2, <1>3, Zenon DEF Pending
<1> QED BY <1>1, <1>3, <1>5, <1>6, Zenon DEF Delivery!Receive

\* A pass delivers the events of the records it visits.
LEMMA ProcessMaps ==
  ASSUME Stores, Table, Counts, Once, NEW p \in Process, ProcessSyncRecords(p)
  PROVE  UNCHANGED <<Pending, handled, records>> \/ \E S \in SUBSET Event : Delivery!Deliver(S)
<1>1. PICK visited \in SUBSET Awaiting(records \ Foreign(p)) :
         LET now == {e \in Rows : EventRecord[e] \in visited}
         IN  /\ db' = [e \in Event |-> IF e \in now THEN 0 ELSE db[e]]
             /\ handled' = [e \in Event |-> IF e \in now THEN handled[e] + db[e] ELSE handled[e]]
             /\ records' = records \ {EventRecord[e] : e \in now \cap Final}
  BY Zenon DEF ProcessSyncRecords
<1>2. UNCHANGED <<pipeline, kvs>>
  BY Zenon DEF ProcessSyncRecords
<1> DEFINE now == {e \in Rows : EventRecord[e] \in visited}
<1>3. /\ db' = [e \in Event |-> IF e \in now THEN 0 ELSE db[e]]
      /\ handled' = [e \in Event |-> IF e \in now THEN handled[e] + db[e] ELSE handled[e]]
      /\ records' = records \ {EventRecord[e] : e \in now \cap Final}
  BY <1>1, Zenon
<1>4. now \subseteq Rows /\ now \subseteq Event /\ Rows \subseteq Event
  BY Zenon DEF Rows
<1>5. \A e \in now : EventRecord[e] \in records
  BY SMT DEF Awaiting
<1> HIDE DEF now
<1>6. \A e \in now : db[e] = 1 /\ handled[e] = 0
  BY <1>4, SMT DEF Rows, Table, Counts, Once
<1>7. \A e \in Event : handled'[e] = IF e \in now THEN handled[e] + 1 ELSE handled[e]
  BY <1>3, <1>6, Zenon
<1>8. handled' = [e \in Event |-> IF e \in now THEN handled[e] + 1 ELSE handled[e]]
  BY <1>3, <1>6, Zenon
<1>9. Rows' = Rows \ now
  BY <1>3, <1>4, SMT DEF Rows, Table
<1>10. Pending' = Pending \ now
  <2>1. \A e \in now : handled'[e] # 0
    BY <1>4, <1>6, <1>7, SMT
  <2>2. \A e \in Event : e \notin now => handled'[e] = handled[e]
    BY <1>7, Zenon
  <2>3. pipeline \cup kvs \cup Rows \subseteq Event
    BY <1>4, Zenon DEF Stores
  <2> QED BY <1>2, <1>9, <2>1, <2>2, <2>3, SMT DEF Pending
<1>11. now \subseteq Pending
  BY <1>4, <1>6, Zenon DEF Pending
<1>12. CASE now = {}
  <2>1. handled' = handled
    BY <1>8, <1>12, SMT DEF Counts
  <2>2. records' = records
    BY <1>3, <1>12, SMT
  <2> QED BY <1>10, <1>12, <2>1, <2>2, Zenon
<1>13. CASE now # {}
  <2>1. Delivery!Deliver(now)
    BY <1>3, <1>5, <1>8, <1>10, <1>11, <1>13, Zenon DEF Delivery!Deliver
  <2> QED BY <1>4, <2>1, Zenon
<1> QED BY <1>12, <1>13, Zenon

\* Every step of the stores is one of EventDelivery, or changes nothing for it.
LEMMA StepSimulation ==
  ASSUME Inductive, [Next]_vars
  PROVE  [Delivery!Next]_(Delivery!vars)
<1> USE TypeParts DEF Inductive
<1>1. Stores /\ Table /\ Used /\ Memory /\ Counts
  BY Zenon
<1>2. Known /\ Remembered /\ Delivering /\ Clearing /\ Once
  BY Zenon
<1>3. ASSUME NEW e \in Event, Receive(e) PROVE Delivery!Next
  BY <1>1, <1>2, <1>3, ReceiveMaps, Zenon DEF Delivery!Next
<1>4. ASSUME NEW p \in Process, NEW e \in Event, QueueEvent(p, e)
      PROVE  UNCHANGED <<Pending, handled, records>>
  <2>1. UNCHANGED <<pipeline, db, handled, records>> /\ e \in pipeline
        /\ (kvs' = kvs \/ kvs' = kvs \cup {e})
    BY <1>4, SMT DEF QueueEvent, history
  <2>2. Rows' = Rows
    BY <2>1, Zenon DEF Rows
  <2> QED BY <2>1, <2>2, SMT DEF Pending
<1>5. ASSUME NEW p \in Process, RemoveRequest(p) \/ Transfer(p) \/ Clear(p)
      PROVE  UNCHANGED <<Pending, handled, records>>
  BY <1>1, <1>2, <1>5, RemoveRequestStutters, TransferStutters, ClearStutters, Zenon
<1>6. ASSUME NEW p \in Process, ProcessSyncRecords(p)
      PROVE  UNCHANGED <<Pending, handled, records>> \/ Delivery!Next
  BY <1>1, <1>2, <1>6, ProcessMaps, Zenon DEF Delivery!Next
<1>7. ASSUME NEW r \in Record, Deschedule(r) PROVE Delivery!Next
  <2>1. UNCHANGED <<pipeline, kvs, db, handled>> /\ records' = records \ {r}
    BY <1>7, Zenon DEF Deschedule, history
  <2>2. Pending' = Pending
    BY <2>1, Zenon DEF Pending, Rows
  <2> QED BY <2>1, <2>2, Zenon DEF Delivery!Next, Delivery!Close
<1>8. ASSUME NEW p \in Process, Crash(p) \/ Start(p)
      PROVE  UNCHANGED <<Pending, handled, records>>
  BY <1>8, Zenon DEF Crash, Start, stores, history, Pending, Rows
<1>9. ASSUME UNCHANGED vars PROVE UNCHANGED <<Pending, handled, records>>
  BY <1>9, Zenon DEF vars, Pending, Rows
<1>10. Delivery!Next \/ UNCHANGED <<Pending, handled, records>>
  BY <1>3, <1>4, <1>5, <1>6, <1>7, <1>8, <1>9, Zenon DEF Next, Step
<1> QED BY <1>10, Zenon DEF Delivery!vars

-----------------------------------------------------------------------------
(* The theorems *)

LEMMA InitTypes == ASSUME Init PROVE Stores /\ Table /\ Used /\ Memory /\ Counts
<1>1. Stores /\ Table /\ Memory /\ Counts
  BY SMT DEF Init, Stores, Table, Memory, Counts
<1>2. Used
  BY EmptySeq, EventAssumption, SMT DEF Init, Used, EventAssumption
<1> QED BY <1>1, <1>2, Zenon

LEMMA InitInductive == ASSUME Init PROVE Inductive
<1>1. TypeOK
  BY InitTypes, TypeParts, Zenon
<1>2. /\ kvs = {} /\ used = << >> /\ pc = [p \in Process |-> "transfer"]
      /\ delivering = [p \in Process |-> {}] /\ toClear = [p \in Process |-> {}]
  BY Zenon DEF Init
<1>3. \A e \in Event : ~ Entered(e) /\ db[e] + handled[e] <= 1
  BY SMT DEF Init, Entered, Rows
<1>4. ToSet(used) = {}
  BY <1>2, EmptySeq, SMT DEF ToSet
<1>5. Len(used) = Cardinality(ToSet(used))
  BY <1>2, <1>4, EmptySeq, FS_EmptySet, Zenon
<1>6. Known /\ Remembered
  BY <1>2, <1>3, <1>4, <1>5, Zenon DEF Known, Remembered
<1>7. Delivering /\ Clearing /\ Once
  BY <1>2, <1>3, SMT DEF Delivering, Clearing, Once
<1> QED BY <1>1, <1>6, <1>7, Zenon DEF Inductive

\* The inductive invariant of one process whose queue forgets nothing.
THEOREM InductiveHolds == ASSUME Alone, Remembers PROVE Spec => []Inductive
<1>1. Init => Inductive
  BY InitInductive, Zenon
<1>2. ASSUME Inductive, [Next]_vars PROVE Inductive'
  <2>1. /\ Stores /\ Table /\ Used /\ Memory /\ Counts
        /\ Known /\ Remembered /\ Delivering /\ Clearing /\ Once
    BY <1>2, TypeParts, Zenon DEF Inductive
  <2>2. Stores' /\ Table' /\ Used' /\ Memory' /\ Counts'
    BY <1>2, <2>1, StoresPreserved, TablePreserved, UsedPreserved, MemoryPreserved,
       CountsPreserved, Zenon
  <2>3. TypeOK'
    BY <2>2, Zenon DEF TypeOK, Stores, Table, Used, Memory, Counts
  <2>4. Known' /\ Remembered' /\ Delivering'
    BY <1>2, <2>1, KnownPreserved, RememberedPreserved, DeliveringPreserved, Zenon
  <2>5. Clearing' /\ Once'
    BY <1>2, <2>1, ClearingPreserved, OncePreserved, Zenon
  <2> QED BY <2>3, <2>4, <2>5, Zenon DEF Inductive
<1> QED BY <1>1, <1>2, PTL DEF Spec

\* Every variable keeps its type, and the table holds no event twice, for any
\* number of processes and whatever the queue forgets.
THEOREM TypeCorrect == Spec => []TypeOK
<1>1. Init => TypeOK
  BY InitTypes, TypeParts, Zenon
<1>2. ASSUME TypeOK, [Next]_vars PROVE TypeOK'
  <2>1. Stores /\ Table /\ Used /\ Memory /\ Counts
    BY <1>2, TypeParts, Zenon
  <2>2. Stores' /\ Table' /\ Used' /\ Memory' /\ Counts'
    BY <1>2, <2>1, StoresPreserved, TablePreserved, UsedPreserved, MemoryPreserved,
       CountsPreserved, Zenon
  <2> QED BY <2>2, Zenon DEF TypeOK, Stores, Table, Used, Memory, Counts
<1> QED BY <1>1, <1>2, PTL DEF Spec

\* One process handles no event twice, wherever it is terminated and however
\* often, as long as its queue forgets nothing.
THEOREM HandledOnce == ASSUME Alone, Remembers PROVE Spec => []AtMostOnce
<1>1. Inductive => AtMostOnce
  BY TypeParts, SMT DEF Inductive, Once, AtMostOnce, Table, Counts
<1> QED BY <1>1, InductiveHolds, PTL

\* The stores of one process deliver every event exactly once: each of their
\* steps is one of EventDelivery, or changes nothing there.
THEOREM DeliveryImplemented == ASSUME Alone, Remembers PROVE Spec => ImplementsDelivery
<1>1. Init => Delivery!Init
  BY InitDelivery, Zenon
<1>2. Inductive /\ [Next]_vars => [Delivery!Next]_(Delivery!vars)
  BY StepSimulation, Zenon
<1> QED BY <1>1, <1>2, InductiveHolds, PTL DEF Spec, Delivery!Spec, ImplementsDelivery
=============================================================================
