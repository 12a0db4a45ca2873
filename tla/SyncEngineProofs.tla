-------------------------- MODULE SyncEngineProofs --------------------------
(***************************************************************************)
(* Proofs about SyncEngine: its types, the order in which conflicting      *)
(* records are carried out and that no record gets lost, for every set of  *)
(* actions, tags, categories and every bound.                              *)
(***************************************************************************)
EXTENDS SyncEngine, SequenceTheorems, WellFoundedInduction, TLAPS

-----------------------------------------------------------------------------
(* Helpers *)

\* The least of a set of IDs exists, so the CHOOSE that takes it is defined.
LEMMA LeastExists ==
  ASSUME NEW S, S \subseteq Nat, S # {}
  PROVE  Min(S) \in S /\ \A y \in S : Min(S) <= y
<1> DEFINE less == {p \in Nat \X Nat : p[1] < p[2]}
<1>1. OpToRel(<, Nat) = less
  BY Zenon DEF OpToRel
<1>2. PICK x \in S : \A y \in S : <<y, x>> \notin less
  <2>1. IsWellFoundedOn(less, Nat)
    BY <1>1, NatLessThanWellFounded
  <2> HIDE DEF less
  <2> QED BY <2>1, WFMin
<1>3. ASSUME NEW y \in S PROVE x <= y
  <2>1. <<y, x>> \in Nat \X Nat /\ <<y, x>>[1] = y /\ <<y, x>>[2] = x
    OBVIOUS
  <2>2. ~ (y < x)
    BY <1>2, <2>1
  <2> QED BY <2>2
<1> QED BY <1>3 DEF Min

\* So does the greatest of a bounded set of IDs.
LEMMA GreatestExists ==
  ASSUME NEW n \in Nat, NEW S, S \subseteq 1 .. n, S # {}
  PROVE  Max(S) \in S
<1> DEFINE T == {n - x : x \in S}
<1>1. ASSUME NEW x \in S PROVE n - x \in T
  OBVIOUS
<1>2. ASSUME NEW t \in T PROVE t \in Nat /\ \E x \in S : t = n - x
  <2>1. PICK x \in S : t = n - x
    OBVIOUS
  <2> QED BY <2>1
<1> HIDE DEF T
<1>3. Min(T) \in T /\ \A y \in T : Min(T) <= y
  BY <1>1, <1>2, LeastExists
<1>4. PICK x \in S : Min(T) = n - x
  BY <1>2, <1>3
<1>5. ASSUME NEW y \in S PROVE y <= x
  <2>1. n - x <= n - y
    BY <1>1, <1>3, <1>4
  <2> QED BY <2>1
<1> QED BY <1>5 DEF Max

\* Conflict does not depend on which record asks.
LEMMA ConflictSymmetric ==
  ASSUME NEW A \in SUBSET Tag, NEW B \in SUBSET Tag, TagsConflict(A, B)
  PROVE  TagsConflict(B, A)
BY TagAssumption DEF TagsConflict, Overlap

\* Changing an entry of a table.
LEMMA ExceptFacts ==
  ASSUME NEW S, NEW D, NEW f \in [D -> S], NEW k \in D, NEW v \in S
  PROVE  /\ DOMAIN [f EXCEPT ![k] = v] = D
         /\ [f EXCEPT ![k] = v] \in [D -> S]
         /\ [f EXCEPT ![k] = v][k] = v
         /\ \A x \in D \ {k} : [f EXCEPT ![k] = v][x] = f[x]
OBVIOUS

\* Dropping the event at one position moves those behind it up by one.
LEMMA DropFacts ==
  ASSUME NEW S, NEW e \in Seq(S), NEW i \in DOMAIN e
  PROVE  /\ RemoveAt(e, i) \in Seq(S)
         /\ Len(RemoveAt(e, i)) = Len(e) - 1
         /\ \A k \in 1 .. Len(e) - 1 : RemoveAt(e, i)[k] = e[IF k < i THEN k ELSE k + 1]
         /\ \A k \in DOMAIN RemoveAt(e, i) : \E j \in DOMAIN e : RemoveAt(e, i)[k] = e[j]
<1> DEFINE d == RemoveAt(e, i)
<1> DEFINE a == SubSeq(e, 1, i - 1)
           b == SubSeq(e, i + 1, Len(e))
<1>1. i \in Nat /\ Len(e) \in Nat /\ 1 <= i /\ i <= Len(e) /\ DOMAIN e = 1 .. Len(e)
  OBVIOUS
<1>2. /\ a \in Seq(S) /\ Len(a) = i - 1
      /\ \A k \in 1 .. i - 1 : a[k] = e[k]
  <2>1. \A k \in 1 .. i - 1 : e[k] \in S
    BY <1>1
  <2>2. 1 \in Int /\ i - 1 \in Int
    BY <1>1
  <2>3. /\ a \in Seq(S)
        /\ Len(a) = IF 1 <= i - 1 THEN i - 1 - 1 + 1 ELSE 0
        /\ \A k \in 1 .. i - 1 - 1 + 1 : a[k] = e[1 + k - 1]
    BY <2>1, <2>2, SubSeqProperties
  <2> HIDE DEF a
  <2> QED BY <1>1, <2>3
<1>3. /\ b \in Seq(S) /\ Len(b) = Len(e) - i
      /\ \A k \in 1 .. Len(e) - i : b[k] = e[i + k]
  <2>1. \A k \in i + 1 .. Len(e) : e[k] \in S
    BY <1>1
  <2>2. i + 1 \in Int /\ Len(e) \in Int
    BY <1>1
  <2>3. /\ b \in Seq(S)
        /\ Len(b) = IF i + 1 <= Len(e) THEN Len(e) - (i + 1) + 1 ELSE 0
        /\ \A k \in 1 .. Len(e) - (i + 1) + 1 : b[k] = e[i + 1 + k - 1]
    BY <2>1, <2>2, SubSeqProperties
  <2> HIDE DEF b
  <2>4. ASSUME NEW k \in 1 .. Len(e) - i PROVE b[k] = e[i + k]
    <3>1. k \in 1 .. Len(e) - (i + 1) + 1 /\ i + 1 + k - 1 = i + k
      BY <1>1
    <3> QED BY <2>3, <3>1
  <2>5. Len(b) = Len(e) - i
    BY <1>1, <2>3
  <2> QED BY <2>3, <2>4, <2>5
<1> HIDE DEF a, b, d
<1>4. d = a \o b
  BY DEF a, b, d, RemoveAt
<1>5. /\ d \in Seq(S) /\ Len(d) = Len(a) + Len(b)
      /\ \A k \in 1 .. Len(a) + Len(b) : d[k] = IF k <= Len(a) THEN a[k] ELSE b[k - Len(a)]
  <2>1. /\ a \o b \in Seq(S) /\ Len(a \o b) = Len(a) + Len(b)
        /\ \A k \in 1 .. Len(a) + Len(b) :
             (a \o b)[k] = IF k <= Len(a) THEN a[k] ELSE b[k - Len(a)]
    BY <1>2, <1>3, ConcatProperties
  <2> QED BY <1>4, <2>1
<1>6. Len(d) = Len(e) - 1 /\ DOMAIN d = 1 .. Len(e) - 1
  BY <1>1, <1>2, <1>3, <1>5
<1>7. ASSUME NEW k \in 1 .. Len(e) - 1
      PROVE  d[k] = e[IF k < i THEN k ELSE k + 1]
  <2>1. k \in 1 .. Len(a) + Len(b)
    BY <1>1, <1>2, <1>3
  <2>2. CASE k < i
    BY <1>1, <1>2, <1>5, <2>1, <2>2
  <2>3. CASE ~ (k < i)
    <3> DEFINE m == k - Len(a)
    <3>1. m \in 1 .. Len(e) - i /\ i + m = k + 1 /\ ~ (k <= Len(a))
      BY <1>1, <1>2, <1>3, <2>3
    <3>2. d[k] = b[m]
      BY <1>5, <2>1, <3>1
    <3> HIDE DEF m
    <3> QED BY <1>3, <2>3, <3>1, <3>2
  <2> QED BY <2>2, <2>3
<1>8. ASSUME NEW k \in DOMAIN d PROVE \E j \in DOMAIN e : d[k] = e[j]
  <2>1. (IF k < i THEN k ELSE k + 1) \in DOMAIN e
    BY <1>1, <1>6
  <2> QED BY <1>6, <1>7, <2>1
<1> QED BY <1>5, <1>6, <1>7, <1>8 DEF d

-----------------------------------------------------------------------------
(* Types *)

\* The parts of TypeOK, so that a step cites the ones it needs.
LEMMA Types ==
  ASSUME TypeOK
  PROVE  /\ journal \in [DOMAIN journal -> Record] /\ DOMAIN journal \subseteq RecordID
         /\ lanes \in [DOMAIN lanes -> Lane] /\ DOMAIN lanes \subseteq LaneID
         /\ events \in Seq(Event) /\ kvs \in Seq(Event)
         /\ nextRecord \in 1 .. MaxRecords + 1 /\ nextLane \in 1 .. nextRecord
         /\ heads.inProgress \subseteq LaneID /\ heads.ready \subseteq LaneID
         /\ lane \in LaneID \cup {0} /\ last \in RecordID \cup {0}
         /\ current \in RecordID \cup {0}
         /\ running \in [Category -> Int]
BY DEF TypeOK, DB

LEMMA EmptyDB == DB(<< >>, << >>, << >>)
<1>1. DOMAIN << >> = {}
  OBVIOUS
<1>2. << >> \in [DOMAIN << >> -> Record] /\ << >> \in [DOMAIN << >> -> Lane]
  <2>1. << >> = [x \in {} |-> 0]
    BY <1>1
  <2> QED BY <2>1
<1>3. << >> \in Seq(Event)
  OBVIOUS
<1> QED BY <1>1, <1>2, <1>3 DEF DB

LEMMA TypeInit == Init => TypeOK
<1> SUFFICES ASSUME Init PROVE TypeOK
  OBVIOUS
<1>1. DB(journal, lanes, events) /\ DB(snapshot[1], snapshot[2], snapshot[3])
  <2>1. journal = << >> /\ lanes = << >> /\ events = << >> /\ snapshot = <<journal, lanes, events>>
    BY DEF Init, database
  <2> QED BY <2>1, EmptyDB
<1>2. nextRecord \in 1 .. MaxRecords + 1 /\ nextLane \in 1 .. nextRecord
  BY BoundsAssumption DEF Init
<1>3. kvs \in Seq(Event) /\ requests \in [RecordID -> Nat] /\ running \in [Category -> Int]
  BY DEF Init, Zero
<1> QED BY <1>1, <1>2, <1>3 DEF Init, TypeOK

\* The counters of the budgets stay integers.
LEMMA CountType ==
  ASSUME running \in [Category -> Int], NEW a, NEW n \in Int
  PROVE  Count(a, n) \in [Category -> Int]
BY DEF Count

\* Dropping lanes and taking records out or changing one keeps the types.
LEMMA LanesDropped ==
  ASSUME TypeOK, NEW X
  PROVE  /\ Without(lanes, X) \in [DOMAIN Without(lanes, X) -> Lane]
         /\ DOMAIN Without(lanes, X) \subseteq LaneID
<1>1. lanes \in [DOMAIN lanes -> Lane] /\ DOMAIN lanes \subseteq LaneID
  BY Types
<1>2. /\ DOMAIN Without(lanes, X) = DOMAIN lanes \ X
      /\ Without(lanes, X) \in [DOMAIN lanes \ X -> Lane]
  BY <1>1 DEF Without
<1> QED BY <1>1, <1>2

LEMMA RecordRemoved ==
  ASSUME TypeOK, NEW X
  PROVE  /\ Without(journal, X) \in [DOMAIN Without(journal, X) -> Record]
         /\ DOMAIN Without(journal, X) \subseteq RecordID
<1>1. journal \in [DOMAIN journal -> Record] /\ DOMAIN journal \subseteq RecordID
  BY Types
<1>2. /\ DOMAIN Without(journal, X) = DOMAIN journal \ X
      /\ Without(journal, X) \in [DOMAIN journal \ X -> Record]
  BY <1>1 DEF Without
<1> QED BY <1>1, <1>2

LEMMA RecordUpdated ==
  ASSUME TypeOK, NEW r \in DOMAIN journal, NEW v \in Record
  PROVE  /\ Update(r, v) \in [DOMAIN Update(r, v) -> Record]
         /\ DOMAIN Update(r, v) = DOMAIN journal
BY Types, ExceptFacts DEF Update

LEMMA TypeSubmit ==
  ASSUME TypeOK, NEW a \in Action, Submit(a)
  PROVE  TypeOK'
<1> DEFINE same == Identical(LaneTags[a])
           into == IF same # {} THEN Max(same) ELSE nextLane
           new  == [tags |-> LaneTags[a] \ {RootTag}, after |-> Covering(LaneTags[a])]
           rec  == [action |-> a, lane |-> into, state |-> "Ready",
                    started |-> FALSE, issue |-> FALSE]
<1>1. same \subseteq DOMAIN lanes /\ DOMAIN lanes \subseteq LaneID
  BY DEF TypeOK, DB, Identical, Covering
<1>2. nextLane \in LaneID /\ nextRecord \in RecordID
  BY BoundsAssumption DEF TypeOK, Submit, LaneID, RecordID
<1>3. into \in LaneID
  BY <1>1, <1>2, GreatestExists, BoundsAssumption DEF LaneID
<1>4. rec \in Record
  BY <1>3 DEF Record, State
<1>5. new \in Lane
  BY <1>1, ActionAssumption DEF Lane, Covering
<1>6. /\ journal' = With(journal, nextRecord, rec)
      /\ lanes' = IF same # {} THEN lanes ELSE With(lanes, nextLane, new)
      /\ snapshot' = <<journal', lanes', events>> /\ events' = events
      /\ nextRecord' = nextRecord + 1 /\ nextLane' \in {nextLane, nextLane + 1}
  BY DEF Submit
<1> HIDE DEF same, into, new, rec
<1>7. journal' \in [DOMAIN journal' -> Record] /\ DOMAIN journal' \subseteq RecordID
  <2>1. journal \in [DOMAIN journal -> Record] /\ DOMAIN journal \subseteq RecordID
    BY Types
  <2>2. /\ DOMAIN journal' = DOMAIN journal \cup {nextRecord}
        /\ journal' \in [DOMAIN journal \cup {nextRecord} -> Record]
    BY <1>4, <1>6, <2>1 DEF With
  <2> QED BY <1>2, <2>1, <2>2
<1>8. lanes' \in [DOMAIN lanes' -> Lane] /\ DOMAIN lanes' \subseteq LaneID
  <2>1. CASE same # {}
    BY <1>6, <2>1, Types
  <2>2. CASE same = {}
    <3>1. lanes \in [DOMAIN lanes -> Lane] /\ DOMAIN lanes \subseteq LaneID
      BY Types
    <3>2. lanes' = With(lanes, nextLane, new)
      BY <1>6, <2>2
    <3>3. /\ DOMAIN lanes' = DOMAIN lanes \cup {nextLane}
          /\ lanes' \in [DOMAIN lanes \cup {nextLane} -> Lane]
      BY <1>5, <3>1, <3>2 DEF With
    <3> QED BY <1>2, <3>1, <3>3
  <2> QED BY <2>1, <2>2
<1>9. DB(journal', lanes', events') /\ DB(snapshot'[1], snapshot'[2], snapshot'[3])
  BY <1>6, <1>7, <1>8, Types DEF DB
<1>10. nextRecord' \in 1 .. MaxRecords + 1 /\ nextLane' \in 1 .. nextRecord'
  BY <1>2, <1>6, Types, BoundsAssumption DEF RecordID
<1> QED BY <1>9, <1>10 DEF TypeOK, Submit, walk, history

LEMMA TypeStart ==
  ASSUME TypeOK, StartPass
  PROVE  TypeOK'
<1> DEFINE used == {journal[r].lane : r \in DOMAIN journal}
           begun == {l \in used : journal[LaneHead(l)].started}
<1>1. /\ lanes' = Without(lanes, DOMAIN lanes \ used)
      /\ heads' = [inProgress |-> begun, ready |-> used \ begun]
      /\ events' = events \o kvs /\ kvs' = << >> /\ needs' = FALSE
      /\ snapshot' = <<journal, lanes, events'>> /\ journal' = journal
      /\ phase' = "inProgress" /\ running' = Zero
  BY DEF StartPass
<1>2. used \subseteq LaneID
  BY Types DEF Record
<1> HIDE DEF used
<1>3. heads' \in [inProgress : SUBSET LaneID, ready : SUBSET LaneID]
  BY <1>1, <1>2
<1>4. events' \in Seq(Event) /\ kvs' \in Seq(Event)
  BY <1>1, Types, ConcatProperties
<1>5. DB(journal', lanes', events')
  BY <1>1, <1>4, LanesDropped, Types DEF DB
<1>6. DB(snapshot'[1], snapshot'[2], snapshot'[3])
  BY <1>1, <1>4, Types DEF DB
<1>7. running' \in [Category -> Int]
  BY <1>1 DEF Zero
<1> HIDE DEF begun
<1> QED BY <1>1, <1>3, <1>4, <1>5, <1>6, <1>7 DEF TypeOK, StartPass, walk, history

LEMMA TypeHandleEvent ==
  ASSUME TypeOK, HandleEvent
  PROVE  TypeOK'
<1> DEFINE mine == {j \in DOMAIN events : events[j].record = current}
           i    == Min(mine)
           rec  == journal[current]
<1>1. mine # {} /\ mine \subseteq Nat
  <2>1. DOMAIN events \subseteq Nat
    BY Types
  <2> QED BY <2>1 DEF HandleEvent, HasEvents
<1>2. i \in DOMAIN events
  BY <1>1, LeastExists
<1>3. events' \in Seq(Event)
  <2> HIDE DEF mine, i
  <2>1. events' = RemoveAt(events, i)
    BY DEF HandleEvent, mine, i
  <2> QED BY <1>2, <2>1, Types, DropFacts
<1>4. /\ journal' \in [DOMAIN journal' -> Record] /\ DOMAIN journal' \subseteq RecordID
      /\ instruction' \in {"None", "DeleteLast"} /\ needs' \in BOOLEAN
  <2> HIDE DEF i
  <2>0. instruction \in {"None", "DeleteLast"} /\ needs \in BOOLEAN
    BY DEF TypeOK
  <2>1. CASE UNCHANGED <<journal, instruction, needs>>
    BY <2>0, <2>1, Types
  <2>2. CASE /\ current \in DOMAIN journal
             /\ journal' = Update(current, [rec EXCEPT !.state = "Completed", !.issue = FALSE])
             /\ instruction' = "DeleteLast" /\ needs' = needs
    <3>1. rec \in Record
      BY <2>2, Types
    <3>2. [rec EXCEPT !.state = "Completed", !.issue = FALSE] \in Record
      BY <3>1 DEF Record, State
    <3> QED BY <2>0, <2>2, <3>2, RecordUpdated, Types
  <2>3. CASE /\ current \in DOMAIN journal
             /\ journal' = Update(current, [rec EXCEPT !.state = "Processing",
                                                       !.started = TRUE, !.issue = TRUE])
             /\ instruction' = instruction /\ needs' = needs
    <3>1. rec \in Record
      BY <2>3, Types
    <3>2. [rec EXCEPT !.state = "Processing", !.started = TRUE, !.issue = TRUE] \in Record
      BY <3>1 DEF Record, State
    <3> QED BY <2>0, <2>3, <3>2, RecordUpdated, Types
  <2>4. CASE /\ current \in DOMAIN journal
             /\ journal' = Update(current, [rec EXCEPT !.state = "Ready", !.issue = FALSE])
             /\ instruction' = instruction /\ needs' = TRUE
    <3>1. rec \in Record
      BY <2>4, Types
    <3>2. [rec EXCEPT !.state = "Ready", !.issue = FALSE] \in Record
      BY <3>1 DEF Record, State
    <3> QED BY <2>0, <2>4, <3>2, RecordUpdated, Types
  <2>5. CASE /\ journal' = Without(journal, {current})
             /\ instruction' = instruction /\ needs' = TRUE
    BY <2>0, <2>5, RecordRemoved
  <2> QED BY <2>1, <2>2, <2>3, <2>4, <2>5 DEF HandleEvent
<1>5. /\ lanes' = lanes /\ snapshot' = snapshot
  BY DEF HandleEvent
<1>6. DB(journal', lanes', events') /\ DB(snapshot'[1], snapshot'[2], snapshot'[3])
  BY <1>3, <1>4, <1>5 DEF TypeOK, DB
<1> QED BY <1>4, <1>6 DEF TypeOK, HandleEvent, history

\* The other steps of a walk take out or change the current record, drop the
\* lane, and keep count of the budgets.
LEMMA TypeWalk ==
  ASSUME TypeOK, Walking, ~ HandleEvent
  PROVE  TypeOK'
<1> USE Types, BoundsAssumption
<1>1. CASE FetchRecord
  <2>1. Following # {} => Min(Following) \in RecordID
    <3>1. Following \subseteq RecordID /\ Following \subseteq Nat
      BY DEF Following, OnLane, RecordID
    <3> QED BY <3>1, LeastExists
  <2>2. running' \in [Category -> Int] /\ current' \in RecordID \cup {0}
    BY <1>1, <2>1, CountType DEF FetchRecord, StopLane
  <2>3. /\ lane' \in LaneID \cup {0} /\ last' \in RecordID \cup {0}
        /\ kept' \in BOOLEAN /\ instruction' \in {"None", "DeleteLast"}
    BY <1>1 DEF FetchRecord, StopLane, TypeOK
  <2> QED BY <1>1, <2>2, <2>3 DEF TypeOK, FetchRecord, history
<1>2. CASE LeaveLane
  <2>1. lanes' \in [DOMAIN lanes' -> Lane] /\ DOMAIN lanes' \subseteq LaneID
    BY <1>2, LanesDropped DEF LeaveLane
  <2> QED BY <1>2, <2>1 DEF TypeOK, DB, LeaveLane, StopLane, history
<1>3. CASE DeleteLast
  <2>1. journal' \in [DOMAIN journal' -> Record] /\ DOMAIN journal' \subseteq RecordID
    BY <1>3, RecordRemoved DEF DeleteLast
  <2>2. running' \in [Category -> Int]
    BY <1>3, CountType DEF DeleteLast
  <2> QED BY <1>3, <2>1, <2>2 DEF TypeOK, DB, DeleteLast, Advance, history
<1>4. CASE CancelRecord
  <2>1. journal' \in [DOMAIN journal' -> Record] /\ DOMAIN journal' \subseteq RecordID
    BY <1>4, RecordRemoved DEF CancelRecord
  <2> QED BY <1>4, <2>1 DEF TypeOK, DB, CancelRecord, Advance, history
<1>5. CASE Sideline
  <2>1. running' \in [Category -> Int]
    BY <1>5, CountType DEF Sideline
  <2>2. journal[current].lane \in LaneID
    BY <1>5 DEF Sideline, Record
  <2> QED BY <1>5, <2>1, <2>2 DEF TypeOK, Sideline, StopLane, history
<1>6. CASE Wait
  BY <1>6 DEF TypeOK, Wait, StopLane, history
<1>7. CASE Schedule
  <2>1. journal' \in [DOMAIN journal' -> Record] /\ DOMAIN journal' \subseteq RecordID
    <3>1. current \in DOMAIN journal /\ journal[current] \in Record
      BY <1>7 DEF Schedule, Scheduling
    <3>2. [journal[current] EXCEPT !.state = "Processing", !.started = TRUE] \in Record
      BY <3>1 DEF Record, State
    <3> QED BY <1>7, <3>1, <3>2, RecordUpdated DEF Schedule
  <2>2. requests' \in [RecordID -> Nat]
    <3>1. requests \in [RecordID -> Nat] /\ current \in RecordID
      BY <1>7 DEF TypeOK, Schedule, Scheduling
    <3>2. requests' = [requests EXCEPT ![current] = @ + 1]
      BY <1>7 DEF Schedule
    <3> QED BY <3>1, <3>2
  <2> QED BY <1>7, <2>1, <2>2 DEF TypeOK, DB, Schedule, StopLane, history
<1>8. CASE ScheduleLocal
  <2>1. journal' \in [DOMAIN journal' -> Record] /\ DOMAIN journal' \subseteq RecordID
    BY <1>8, RecordRemoved DEF ScheduleLocal
  <2>2. running' \in [Category -> Int]
    BY <1>8, CountType DEF ScheduleLocal
  <2>3. current \in RecordID
    BY <1>8 DEF ScheduleLocal, Scheduling
  <2> QED BY <1>8, <2>1, <2>2, <2>3 DEF TypeOK, DB, ScheduleLocal, Advance
<1> QED BY <1>1, <1>2, <1>3, <1>4, <1>5, <1>6, <1>7, <1>8 DEF Walking

LEMMA TypeStep == TypeOK /\ [Next]_vars => TypeOK'
<1> SUFFICES ASSUME TypeOK, [Next]_vars PROVE TypeOK'
  OBVIOUS
<1>1. ASSUME NEW a \in Action, Submit(a) PROVE TypeOK'
  BY <1>1, TypeSubmit
<1>2. ASSUME NEW r \in RecordID, NEW outcome \in Outcome, Respond(r, outcome) PROVE TypeOK'
  <2>1. Append(kvs, [record |-> r, kind |-> outcome]) \in Seq(Event)
    BY Types DEF Event
  <2>2. failures' \in Nat /\ done' \subseteq RecordID /\ requests' \in [RecordID -> Nat]
    BY <1>2 DEF TypeOK, Respond
  <2> QED BY <1>2, <2>1, <2>2 DEF TypeOK, Respond, walk
<1>3. ASSUME NEW r \in RecordID, NEW choice \in Choice, Answer(r, choice) PROVE TypeOK'
  <2>1. Append(kvs, [record |-> r, kind |-> choice]) \in Seq(Event)
    BY Types DEF Event
  <2> QED BY <1>3, <2>1 DEF TypeOK, Answer, walk
<1>4. ASSUME NEW r \in RecordID, Cancel(r) PROVE TypeOK'
  BY <1>4 DEF TypeOK, Cancel, walk
<1>5. CASE Crash
  <2>1. /\ journal' = snapshot[1] /\ lanes' = snapshot[2] /\ events' = snapshot[3]
        /\ snapshot' = snapshot
    BY <1>5 DEF Crash
  <2>2. DB(journal', lanes', events') /\ DB(snapshot'[1], snapshot'[2], snapshot'[3])
    BY <2>1 DEF TypeOK
  <2>3. /\ running' \in [Category -> Int]
        /\ heads' \in [inProgress : SUBSET LaneID, ready : SUBSET LaneID]
    BY <1>5 DEF Crash, Zero
  <2>4. /\ UNCHANGED <<nextRecord, nextLane, kvs, requests, done, withdrawn,
                       failures, yields>>
        /\ cancelled' \subseteq cancelled /\ crashes' = crashes + 1 /\ needs' = TRUE
        /\ phase' = "idle" /\ lane' = 0 /\ last' = 0 /\ kept' = FALSE /\ current' = 0
        /\ instruction' = "None"
    BY <1>5 DEF Crash
  <2>5. crashes' \in Nat /\ cancelled' \subseteq RecordID
    BY <2>4 DEF TypeOK
  <2>6. /\ nextRecord' \in 1 .. MaxRecords + 1 /\ nextLane' \in 1 .. nextRecord'
        /\ kvs' \in Seq(Event) /\ requests' \in [RecordID -> Nat]
    BY <2>4 DEF TypeOK
  <2>7. /\ done' \subseteq RecordID /\ withdrawn' \subseteq RecordID
        /\ failures' \in Nat /\ yields' \in Nat
    BY <2>4 DEF TypeOK
  <2> QED BY <2>2, <2>3, <2>4, <2>5, <2>6, <2>7 DEF TypeOK
<1>6. CASE StartPass
  BY <1>6, TypeStart
<1>7. CASE VisitInProgress
  <2>1. Min(heads.inProgress) \in LaneID
    BY <1>7, Types, LeastExists DEF VisitInProgress, LaneID
  <2>2. heads' \in [inProgress : SUBSET LaneID, ready : SUBSET LaneID]
    BY <1>7 DEF TypeOK, VisitInProgress
  <2> QED BY <1>7, <2>1, <2>2 DEF TypeOK, VisitInProgress, Visit, history
<1>8. CASE EndInProgress
  BY <1>8 DEF TypeOK, EndInProgress, walk, history
<1>9. CASE VisitReady
  <2>0. heads.ready # {} /\ heads.ready \subseteq Nat
    BY <1>9, Types DEF VisitReady, LaneID
  <2>1. Min(heads.ready) \in LaneID
    BY <2>0, Types, LeastExists DEF LaneID
  <2>2. heads' \in [inProgress : SUBSET LaneID, ready : SUBSET LaneID]
    BY <1>9 DEF TypeOK, VisitReady
  <2>3. /\ lane' \in LaneID \cup {0} /\ last' \in RecordID \cup {0}
        /\ kept' \in BOOLEAN /\ current' \in RecordID \cup {0}
        /\ instruction' \in {"None", "DeleteLast"}
    BY <1>9, <2>1 DEF TypeOK, VisitReady, Visit, walk
  <2> QED BY <1>9, <2>2, <2>3 DEF TypeOK, VisitReady, history
<1>10. CASE FinishPass \/ YieldPass
  <2>1. snapshot' = <<journal, lanes, events>>
    BY <1>10 DEF FinishPass, YieldPass, Commit, database
  <2>2. DB(journal', lanes', events') /\ DB(snapshot'[1], snapshot'[2], snapshot'[3])
    BY <1>10, <2>1 DEF TypeOK, FinishPass, YieldPass, Commit
  <2>3. /\ running' \in [Category -> Int]
        /\ heads' \in [inProgress : SUBSET LaneID, ready : SUBSET LaneID]
    BY <1>10 DEF FinishPass, YieldPass, Commit, Zero
  <2>4. needs' \in BOOLEAN /\ yields' \in Nat
    <3>1. needs \in BOOLEAN /\ yields \in Nat
      BY DEF TypeOK
    <3>2. (needs' = needs /\ yields' = yields) \/ (needs' = TRUE /\ yields' = yields + 1)
      BY <1>10 DEF FinishPass, YieldPass
    <3>3. needs' \in BOOLEAN
      BY <3>1, <3>2, Zenon
    <3> QED BY <3>1, <3>2, <3>3
  <2> QED BY <1>10, <2>2, <2>3, <2>4 DEF TypeOK, FinishPass, YieldPass, Commit, walk
<1>11. CASE Walking
  BY <1>11, TypeWalk, TypeHandleEvent
<1>12. CASE UNCHANGED vars
  BY <1>12 DEF TypeOK, vars
<1> QED BY <1>1, <1>2, <1>3, <1>4, <1>5, <1>6, <1>7, <1>8, <1>9, <1>10, <1>11, <1>12
        DEF Next, Network, User, Pass

-----------------------------------------------------------------------------
(* The order of lanes and records: what each kind of write preserves *)

LEMMA LanesDroppedOrdered ==
  ASSUME TypeOK, DBInv(journal, lanes), NEW X,
         \A r \in DOMAIN journal : journal[r].lane \notin X
  PROVE  DBInv(journal, Without(lanes, X))
<1> DEFINE l == Without(lanes, X)
<1>1. DOMAIN l = DOMAIN lanes \ X /\ \A x \in DOMAIN l : l[x] = lanes[x]
  BY DEF Without
<1> HIDE DEF l
<1>2. LanesHold(journal, l)
  BY <1>1 DEF DBInv, LanesHold
<1>3. StartedInOrder(journal, l)
  BY <1>1 DEF DBInv, LanesHold, StartedInOrder
<1>4. IDsUsed(journal, l)
  BY <1>1 DEF DBInv, IDsUsed
<1> QED BY <1>2, <1>3, <1>4 DEF DBInv, l

LEMMA RecordsRemovedOrdered ==
  ASSUME TypeOK, DBInv(journal, lanes), NEW X
  PROVE  DBInv(Without(journal, X), lanes)
<1> DEFINE j == Without(journal, X)
<1>1. DOMAIN j = DOMAIN journal \ X /\ \A r \in DOMAIN j : j[r] = journal[r]
  BY DEF Without
<1> HIDE DEF j
<1>2. LanesHold(j, lanes) /\ StartedInOrder(j, lanes) /\ IDsUsed(j, lanes)
  BY <1>1 DEF DBInv, LanesHold, StartedInOrder, IDsUsed
<1> QED BY <1>2 DEF DBInv, j

LEMMA RecordUpdatedOrdered ==
  ASSUME TypeOK, DBInv(journal, lanes), NEW r \in DOMAIN journal, NEW v \in Record,
         v.action = journal[r].action, v.lane = journal[r].lane,
         v.started => ~ Blocked(v.lane),
         v.state = "Processing" => v.started,
         v.state = "Processing" => \A s \in OnLane(v.lane) : r <= s
  PROVE  DBInv(Update(r, v), lanes)
<1> DEFINE j == Update(r, v)
<1>1. /\ DOMAIN j = DOMAIN journal /\ j[r] = v
      /\ \A s \in DOMAIN j : s # r => j[s] = journal[s]
  BY Types DEF Update
<1> HIDE DEF j
<1>2. LanesHold(j, lanes)
  BY <1>1 DEF DBInv, LanesHold
<1>3. \A s \in DOMAIN j : j[s].started => lanes[j[s].lane].after \cap DOMAIN lanes = {}
  BY <1>1 DEF DBInv, StartedInOrder, Blocked
<1>4. \A s \in DOMAIN j : j[s].state = "Processing" => j[s].started
  BY <1>1 DEF DBInv, StartedInOrder
<1>5. ASSUME NEW p \in DOMAIN j, NEW s \in DOMAIN j,
             j[p].state = "Processing", j[s].lane = j[p].lane
      PROVE  p <= s
  <2>1. journal[s].lane = j[s].lane /\ journal[p].lane = j[p].lane
    BY <1>1
  <2>2. CASE p = r
    BY <1>1, <1>5, <2>1, <2>2 DEF OnLane
  <2>3. CASE p # r
    BY <1>1, <1>5, <2>1, <2>3 DEF DBInv, StartedInOrder
  <2> QED BY <2>2, <2>3
<1>6. IDsUsed(j, lanes)
  BY <1>1 DEF DBInv, IDsUsed
<1> QED BY <1>2, <1>3, <1>4, <1>5, <1>6 DEF DBInv, StartedInOrder, j

\* A submitted record joins a lane that holds its tags, or starts one that
\* comes after all lanes it conflicts with.
LEMMA SubmitOrdered ==
  ASSUME TypeOK, DBInv(journal, lanes), NEW a \in Action, Submit(a)
  PROVE  DBInv(journal, lanes)'
<1> DEFINE tags == LaneTags[a]
           same == Identical(tags)
           into == IF same # {} THEN Max(same) ELSE nextLane
           new  == [tags |-> tags \ {RootTag}, after |-> Covering(tags)]
           rec  == [action |-> a, lane |-> into, state |-> "Ready",
                    started |-> FALSE, issue |-> FALSE]
<1>1. /\ journal' = With(journal, nextRecord, rec)
      /\ lanes' = IF same # {} THEN lanes ELSE With(lanes, nextLane, new)
      /\ nextRecord' = nextRecord + 1
      /\ nextLane' = IF same # {} THEN nextLane ELSE nextLane + 1
  BY DEF Submit
<1>2. /\ DOMAIN journal' = DOMAIN journal \cup {nextRecord} /\ journal'[nextRecord] = rec
      /\ \A r \in DOMAIN journal : r \in Nat /\ r < nextRecord /\ journal'[r] = journal[r]
      /\ nextRecord \in Nat /\ nextLane \in Nat
  <2>1. \A r \in DOMAIN journal : r < nextRecord /\ r \in Nat
    BY Types DEF DBInv, IDsUsed, RecordID
  <2>2. nextRecord \in Nat /\ nextLane \in Nat
    BY Types
  <2> QED BY <1>1, <2>1, <2>2 DEF With
<1>3. \A x \in DOMAIN lanes : x < nextLane /\ x \in Nat
  BY Types DEF DBInv, IDsUsed, LaneID
<1>4. tags \subseteq Tag /\ \A x \in DOMAIN lanes : lanes[x].tags \subseteq Tag
  BY Types, ActionAssumption DEF Lane
<1>5. \A r \in DOMAIN journal : journal[r].lane \in DOMAIN lanes
  BY DEF DBInv, LanesHold
<1>6. CASE same # {}
  <2>1. into \in same
    <3>1. same \subseteq 1 .. MaxRecords
      BY Types DEF Identical, Covering, LaneID
    <3> QED BY <1>6, <3>1, GreatestExists, BoundsAssumption
  <2>2. into \in DOMAIN lanes /\ tags \subseteq lanes[into].tags
    BY <2>1 DEF Identical, Covering, IdenticalTags
  <2>3. rec.lane = into /\ rec.action = a /\ ~ rec.started /\ rec.state = "Ready"
    OBVIOUS
  <2>4. lanes' = lanes /\ nextLane' = nextLane
    BY <1>1, <1>6
  <2> HIDE DEF same, into, new, rec
  <2>5. LanesHold(journal', lanes')
    BY <1>2, <2>2, <2>3, <2>4 DEF DBInv, LanesHold
  <2>6. StartedInOrder(journal', lanes')
    <3>1. \A r \in DOMAIN journal' :
             journal'[r].started \/ journal'[r].state = "Processing" => r \in DOMAIN journal
      BY <1>2, <2>3
    <3>2. \A r \in DOMAIN journal' :
             journal'[r].started => lanes[journal'[r].lane].after \cap DOMAIN lanes = {}
      BY <1>2, <3>1 DEF DBInv, StartedInOrder
    <3>3. ASSUME NEW r \in DOMAIN journal', NEW s \in DOMAIN journal',
                 journal'[r].state = "Processing", journal'[s].lane = journal'[r].lane
          PROVE  r <= s
      <4>1. CASE s \in DOMAIN journal
        BY <1>2, <3>1, <3>3, <4>1 DEF DBInv, StartedInOrder
      <4>2. CASE s = nextRecord
        BY <1>2, <3>1, <3>3, <4>2
      <4> QED BY <1>2, <4>1, <4>2
    <3>4. \A r \in DOMAIN journal' : journal'[r].state = "Processing" => journal'[r].started
      BY <1>2, <3>1 DEF DBInv, StartedInOrder
    <3> QED BY <2>4, <3>2, <3>3, <3>4 DEF StartedInOrder
  <2>7. IDsUsed(journal, lanes)'
    BY <1>1, <1>2, <1>3, <2>4 DEF IDsUsed
  <2> QED BY <2>5, <2>6, <2>7 DEF DBInv
<1>7. CASE same = {}
  <2>1. rec.lane = nextLane /\ rec.action = a /\ ~ rec.started /\ rec.state = "Ready"
    BY <1>7
  <2>2. /\ DOMAIN lanes' = DOMAIN lanes \cup {nextLane} /\ lanes'[nextLane] = new
        /\ \A x \in DOMAIN lanes : lanes'[x] = lanes[x]
        /\ nextLane' = nextLane + 1
    BY <1>1, <1>3, <1>7 DEF With
  <2>3. new.tags = tags \ {RootTag} /\ new.after = Covering(tags)
    OBVIOUS
  <2> HIDE DEF same, into, new, rec
  <2>4. LanesHold(journal', lanes')
    <3>1. ASSUME NEW r \in DOMAIN journal'
          PROVE  /\ journal'[r].lane \in DOMAIN lanes'
                 /\ LaneTags[journal'[r].action] \ {RootTag} \subseteq lanes'[journal'[r].lane].tags
      BY <1>2, <2>1, <2>2, <2>3 DEF DBInv, LanesHold
    <3>2. ASSUME NEW x \in DOMAIN lanes', NEW y \in DOMAIN lanes', x < y,
                 TagsConflict(lanes'[x].tags, lanes'[y].tags)
          PROVE  x \in lanes'[y].after
      <4>1. CASE y \in DOMAIN lanes
        <5>1. x \in DOMAIN lanes
          BY <1>2, <1>3, <2>2, <3>2, <4>1
        <5> QED BY <2>2, <3>2, <4>1, <5>1 DEF DBInv, LanesHold
      <4>2. CASE y = nextLane
        <5>1. x \in DOMAIN lanes
          BY <1>2, <2>2, <3>2, <4>2
        <5>2. TagsConflict(lanes[x].tags, tags \ {RootTag})
          BY <2>2, <2>3, <3>2, <4>2, <5>1
        <5>3. TagsConflict(tags \ {RootTag}, lanes[x].tags)
          BY <1>4, <5>1, <5>2, ConflictSymmetric
        <5>4. TagsConflict(tags, lanes[x].tags)
          BY <5>3 DEF TagsConflict
        <5> QED BY <2>2, <2>3, <4>2, <5>1, <5>4 DEF Covering, CoversTags
      <4> QED BY <2>2, <4>1, <4>2
    <3>3. ASSUME NEW x \in DOMAIN lanes', NEW y \in lanes'[x].after PROVE y < x
      <4>1. CASE x \in DOMAIN lanes
        BY <2>2, <4>1 DEF DBInv, LanesHold
      <4>2. CASE x = nextLane
        BY <1>3, <2>2, <2>3, <4>2 DEF Covering
      <4> QED BY <2>2, <4>1, <4>2
    <3> QED BY <3>1, <3>2, <3>3 DEF LanesHold
  <2>5. StartedInOrder(journal', lanes')
    <3>1. ASSUME NEW r \in DOMAIN journal', journal'[r].started
          PROVE  lanes'[journal'[r].lane].after \cap DOMAIN lanes' = {}
      <4>1. r \in DOMAIN journal /\ journal'[r] = journal[r]
        BY <1>2, <2>1, <3>1
      <4>2. journal[r].lane \in DOMAIN lanes
        BY <1>5, <4>1
      <4>3. nextLane \notin lanes[journal[r].lane].after
        BY <1>2, <1>3, <4>2 DEF DBInv, LanesHold
      <4> QED BY <2>2, <3>1, <4>1, <4>2, <4>3 DEF DBInv, StartedInOrder
    <3>2. \A r \in DOMAIN journal' : journal'[r].state = "Processing" => journal'[r].started
      BY <1>2, <2>1 DEF DBInv, StartedInOrder
    <3>3. ASSUME NEW r \in DOMAIN journal', NEW s \in DOMAIN journal',
                 journal'[r].state = "Processing", journal'[s].lane = journal'[r].lane
          PROVE  r <= s
      <4>1. r \in DOMAIN journal
        BY <1>2, <2>1, <3>3
      <4>2. CASE s \in DOMAIN journal
        BY <1>2, <3>3, <4>1, <4>2 DEF DBInv, StartedInOrder
      <4>3. CASE s = nextRecord
        BY <1>2, <4>1, <4>3
      <4> QED BY <1>2, <4>2, <4>3
    <3> QED BY <3>1, <3>2, <3>3 DEF StartedInOrder
  <2>6. IDsUsed(journal, lanes)'
    BY <1>1, <1>2, <1>3, <2>2 DEF IDsUsed
  <2> QED BY <2>4, <2>5, <2>6 DEF DBInv
<1> QED BY <1>6, <1>7

-----------------------------------------------------------------------------
(* Every step keeps the database in order *)

\* What a step leaves alone stays in order.
LEMMA DBKept ==
  ASSUME DBInv(snapshot[1], snapshot[2]), NEW j, NEW l, DBInv(j, l),
         journal' = j, lanes' = l, UNCHANGED <<snapshot, nextRecord, nextLane>>
  PROVE  DBInv(journal, lanes)' /\ DBInv(snapshot[1], snapshot[2])'
BY DEF DBInv, IDsUsed

\* The record being processed is the oldest of a lane that waits for none.
LEMMA CurrentFacts ==
  ASSUME Inductive, current \in DOMAIN journal
  PROVE  /\ journal[current] \in Record /\ journal[current].lane = lane
         /\ lane \in DOMAIN lanes /\ ~ Blocked(lane)
         /\ \A s \in OnLane(lane) : current <= s
<1>1. journal[current] \in Record /\ current # 0
  BY Types DEF Inductive, RecordID
<1>2. journal[current].lane = lane /\ \A s \in OnLane(lane) : current <= s
  BY <1>1 DEF Inductive, WalkInv
<1>3. lane \in DOMAIN lanes
  BY <1>2 DEF Inductive, DBInv, LanesHold
<1> QED BY <1>1, <1>2, <1>3 DEF Inductive, WalkInv

LEMMA HandleEventWrites ==
  ASSUME Inductive, HandleEvent
  PROVE  \/ journal' = journal
         \/ journal' = Without(journal, {current}) /\ current \in withdrawn
         \/ \E v \in Record : /\ current \in DOMAIN journal
                              /\ journal' = Update(current, v)
                              /\ v.action = journal[current].action
                              /\ v.lane = journal[current].lane
                              /\ v.state = "Processing" => v.started
<1> DEFINE mine == {j \in DOMAIN events : events[j].record = current}
           i    == Min(mine)
           rec  == journal[current]
           v1   == [rec EXCEPT !.state = "Completed", !.issue = FALSE]
           v2   == [rec EXCEPT !.state = "Processing", !.started = TRUE, !.issue = TRUE]
           v3   == [rec EXCEPT !.state = "Ready", !.issue = FALSE]
<1>1. mine # {} /\ mine \subseteq Nat
  <2>1. DOMAIN events \subseteq Nat
    BY Types DEF Inductive
  <2> QED BY <2>1 DEF HandleEvent, HasEvents
<1>2. i \in DOMAIN events /\ events[i].record = current
  BY <1>1, LeastExists
<1>3. ASSUME current \in DOMAIN journal
      PROVE  /\ v1 \in Record /\ v2 \in Record /\ v3 \in Record
             /\ \A v \in {v1, v2, v3} : v.action = rec.action /\ v.lane = rec.lane
             /\ v1.state = "Completed" /\ v3.state = "Ready" /\ v2.started
  <2>1. rec \in Record
    BY <1>3, Types DEF Inductive
  <2> QED BY <2>1 DEF Record, State
<1>4. \/ journal' = journal
      \/ current \in DOMAIN journal /\ journal' = Update(current, v1)
      \/ current \in DOMAIN journal /\ journal' = Update(current, v2)
      \/ current \in DOMAIN journal /\ journal' = Update(current, v3)
      \/ events[i].kind = "cancel" /\ journal' = Without(journal, {current})
  BY DEF HandleEvent
<1>5. events[i].kind = "cancel" => current \in withdrawn
  BY <1>2 DEF Inductive, HistoryInv, Truthful
<1> HIDE DEF i, v1, v2, v3
<1> QED BY <1>3, <1>4, <1>5

LEMMA DBStep ==
  ASSUME Inductive, [Next]_vars
  PROVE  DBInv(journal, lanes)' /\ DBInv(snapshot[1], snapshot[2])'
<1> USE DEF Inductive
<1>1. ASSUME NEW a \in Action, Submit(a)
      PROVE  DBInv(journal, lanes)' /\ DBInv(snapshot[1], snapshot[2])'
  <2>1. DBInv(journal, lanes)'
    BY <1>1, SubmitOrdered
  <2>2. snapshot'[1] = journal' /\ snapshot'[2] = lanes'
    BY <1>1 DEF Submit
  <2> QED BY <2>1, <2>2 DEF DBInv, IDsUsed
<1>2. CASE Crash
  <2>1. journal' = snapshot[1] /\ lanes' = snapshot[2]
        /\ UNCHANGED <<snapshot, nextRecord, nextLane>>
    BY <1>2 DEF Crash
  <2> QED BY <2>1, DBKept
<1>3. CASE StartPass
  <2> DEFINE used == {journal[r].lane : r \in DOMAIN journal}
  <2>1. /\ journal' = journal /\ lanes' = Without(lanes, DOMAIN lanes \ used)
        /\ snapshot'[1] = journal /\ snapshot'[2] = lanes
        /\ nextRecord' = nextRecord /\ nextLane' = nextLane
    BY <1>3 DEF StartPass
  <2>2. DBInv(journal, Without(lanes, DOMAIN lanes \ used))
    BY LanesDroppedOrdered
  <2> HIDE DEF used
  <2> QED BY <2>1, <2>2 DEF DBInv, IDsUsed
<1>4. CASE FinishPass \/ YieldPass
  <2>1. /\ journal' = journal /\ lanes' = lanes
        /\ snapshot'[1] = journal /\ snapshot'[2] = lanes
        /\ nextRecord' = nextRecord /\ nextLane' = nextLane
    BY <1>4 DEF FinishPass, YieldPass, Commit, database
  <2> QED BY <2>1 DEF DBInv, IDsUsed
<1>5. CASE LeaveLane
  <2>1. journal' = journal /\ UNCHANGED <<snapshot, nextRecord, nextLane>>
    BY <1>5 DEF LeaveLane
  <2>3. \/ lanes' = lanes
        \/ OnLane(lane) = {} /\ lanes' = Without(lanes, {lane})
    BY <1>5 DEF LeaveLane
  <2>2. OnLane(lane) = {} => DBInv(journal, Without(lanes, {lane}))
    BY LanesDroppedOrdered DEF OnLane
  <2> QED BY <2>1, <2>2, <2>3, DBKept
<1>6. CASE HandleEvent
  <2>1. lanes' = lanes /\ UNCHANGED <<snapshot, nextRecord, nextLane>>
    BY <1>6 DEF HandleEvent
  <2>2. DBInv(Without(journal, {current}), lanes)
    BY RecordsRemovedOrdered
  <2>3. ASSUME NEW v \in Record, current \in DOMAIN journal,
               v.action = journal[current].action, v.lane = journal[current].lane,
               v.state = "Processing" => v.started
        PROVE  DBInv(Update(current, v), lanes)
    BY <2>3, CurrentFacts, RecordUpdatedOrdered
  <2> QED BY <1>6, <2>1, <2>2, <2>3, HandleEventWrites, DBKept
<1>7. CASE DeleteLast \/ CancelRecord \/ ScheduleLocal
  <2>1. /\ journal' = Without(journal, {current}) /\ lanes' = lanes
        /\ UNCHANGED <<snapshot, nextRecord, nextLane>>
    BY <1>7 DEF DeleteLast, CancelRecord, ScheduleLocal
  <2>2. DBInv(Without(journal, {current}), lanes)
    BY RecordsRemovedOrdered
  <2> QED BY <2>1, <2>2, DBKept
<1>8. CASE Schedule
  <2> DEFINE v == [journal[current] EXCEPT !.state = "Processing", !.started = TRUE]
  <2>1. /\ current \in DOMAIN journal /\ journal' = Update(current, v) /\ lanes' = lanes
        /\ UNCHANGED <<snapshot, nextRecord, nextLane>>
    BY <1>8 DEF Schedule, Scheduling
  <2>2. /\ v \in Record /\ v.action = journal[current].action /\ v.lane = journal[current].lane
        /\ v.started
    BY <2>1, CurrentFacts DEF Record, State
  <2> HIDE DEF v
  <2>3. DBInv(Update(current, v), lanes)
    BY <2>1, <2>2, CurrentFacts, RecordUpdatedOrdered
  <2> QED BY <2>1, <2>3, DBKept
<1>9. CASE UNCHANGED <<journal, lanes, snapshot, nextRecord, nextLane>>
  BY <1>9, DBKept
<1>10. ASSUME NEW r \in RecordID,
              \/ \E outcome \in Outcome : Respond(r, outcome)
              \/ \E choice \in Choice : Answer(r, choice)
              \/ Cancel(r)
       PROVE  UNCHANGED <<journal, lanes, snapshot, nextRecord, nextLane>>
  BY <1>10 DEF Respond, Answer, Cancel
<1>11. ASSUME \/ VisitInProgress \/ EndInProgress \/ VisitReady \/ FetchRecord
              \/ Sideline \/ Wait \/ UNCHANGED vars
       PROVE  UNCHANGED <<journal, lanes, snapshot, nextRecord, nextLane>>
  BY <1>11 DEF VisitInProgress, EndInProgress, VisitReady, FetchRecord, Sideline, Wait, vars
<1> QED BY <1>1, <1>2, <1>3, <1>4, <1>5, <1>6, <1>7, <1>8, <1>9, <1>10, <1>11
        DEF Next, Network, User, Pass, Walking

-----------------------------------------------------------------------------
(* Every step keeps the walk in order *)

\* A lane that waits for none still does when lanes are dropped.
LEMMA DroppingUnblocks ==
  ASSUME NEW l, l \in DOMAIN lanes', ~ (l \in DOMAIN lanes /\ Blocked(l)),
         DOMAIN lanes' \subseteq DOMAIN lanes, \A x \in DOMAIN lanes' : lanes'[x] = lanes[x]
  PROVE  ~ Blocked(l)'
BY DEF Blocked

\* Between walks nothing is known but that the lanes to visit wait for none.
LEMMA WalkEnds ==
  ASSUME Inductive, TypeOK', lane' = 0, current' = 0,
         heads'.inProgress \subseteq heads.inProgress,
         phase' = "idle" => heads'.inProgress = {},
         DOMAIN lanes' \subseteq DOMAIN lanes, \A x \in DOMAIN lanes' : lanes'[x] = lanes[x]
  PROVE  WalkInv'
<1>1. OnLane(lane)' = {}
  <2>1. \A r \in DOMAIN journal' : journal'[r] \in Record
    BY DEF TypeOK, DB
  <2> QED BY <2>1 DEF OnLane, Record, LaneID
<1>2. ASSUME NEW l \in (heads'.inProgress \cup {lane'}) \cap DOMAIN lanes' PROVE ~ Blocked(l)'
  <2>1. l \in heads.inProgress \cap DOMAIN lanes
    BY <1>2 DEF TypeOK, DB, LaneID
  <2> QED BY <1>2, <2>1, DroppingUnblocks DEF Inductive, WalkInv
<1>3. 0 \notin DOMAIN journal'
  BY DEF TypeOK, DB, RecordID
<1> QED BY <1>1, <1>2, <1>3 DEF WalkInv

LEMMA WalkStep ==
  ASSUME Inductive, TypeOK', [Next]_vars
  PROVE  WalkInv'
<1> USE DEF Inductive
<1>1. ASSUME NEW a \in Action, Submit(a) PROVE WalkInv'
  <2>1. /\ lane' = lane /\ current' = current /\ heads' = heads /\ phase' = phase
        /\ lane = 0 /\ current = 0 /\ heads.inProgress = {}
    BY <1>1 DEF Submit, walk, WalkInv
  <2>2. OnLane(lane)' = {}
    <3>1. \A r \in DOMAIN journal' : journal'[r] \in Record
      BY DEF TypeOK, DB
    <3> QED BY <2>1, <3>1 DEF OnLane, Record, LaneID
  <2>3. 0 \notin DOMAIN lanes' /\ 0 \notin DOMAIN journal'
    BY DEF TypeOK, DB, LaneID, RecordID
  <2> QED BY <2>1, <2>2, <2>3 DEF WalkInv
<1>2. ASSUME NEW r \in RecordID,
             \/ \E outcome \in Outcome : Respond(r, outcome)
             \/ \E choice \in Choice : Answer(r, choice)
             \/ Cancel(r)
      PROVE  WalkInv'
  <2>1. UNCHANGED <<journal, lanes, phase, heads, lane, last, current>>
    BY <1>2 DEF Respond, Answer, Cancel, walk
  <2> QED BY <2>1 DEF WalkInv, OnLane, Blocked
<1>3. CASE Crash
  <2>1. /\ phase' = "idle" /\ lane' = 0 /\ current' = 0 /\ heads'.inProgress = {}
    BY <1>3 DEF Crash
  <2>2. OnLane(lane)' = {}
    <3>1. \A r \in DOMAIN journal' : journal'[r] \in Record
      BY DEF TypeOK, DB
    <3> QED BY <2>1, <3>1 DEF OnLane, Record, LaneID
  <2>3. 0 \notin DOMAIN lanes' /\ 0 \notin DOMAIN journal'
    BY DEF TypeOK, DB, LaneID, RecordID
  <2> QED BY <2>1, <2>2, <2>3 DEF WalkInv
<1>4. CASE StartPass
  <2> DEFINE used == {journal[r].lane : r \in DOMAIN journal}
             begun == {l \in used : journal[LaneHead(l)].started}
  <2>1. /\ lanes' = Without(lanes, DOMAIN lanes \ used) /\ heads'.inProgress = begun
        /\ journal' = journal /\ lane' = lane /\ current' = current /\ last' = last
        /\ phase' = "inProgress" /\ lane = 0 /\ current = 0
    BY <1>4 DEF StartPass, walk, WalkInv
  <2>2. ASSUME NEW l \in begun PROVE l \in DOMAIN lanes /\ ~ Blocked(l)
    <3>1. OnLane(l) # {} /\ OnLane(l) \subseteq DOMAIN journal /\ OnLane(l) \subseteq Nat
      BY Types DEF OnLane, RecordID
    <3>2. LaneHead(l) \in OnLane(l)
      BY <3>1, LeastExists DEF LaneHead
    <3>3. LaneHead(l) \in DOMAIN journal /\ journal[LaneHead(l)].lane = l
      BY <3>2 DEF OnLane
    <3> QED BY <2>2, <3>3 DEF DBInv, LanesHold, StartedInOrder, Blocked
  <2> HIDE DEF begun, used
  <2>3. DOMAIN lanes' \subseteq DOMAIN lanes /\ \A x \in DOMAIN lanes' : lanes'[x] = lanes[x]
    BY <2>1 DEF Without
  <2>4. OnLane(lane)' = {}
    <3>1. \A r \in DOMAIN journal' : journal'[r] \in Record
      BY DEF TypeOK, DB
    <3> QED BY <2>1, <3>1 DEF OnLane, Record, LaneID
  <2>5. ASSUME NEW l \in (heads'.inProgress \cup {lane'}) \cap DOMAIN lanes' PROVE ~ Blocked(l)'
    <3>1. l \in begun
      BY <2>1, <2>5 DEF TypeOK, DB, LaneID
    <3> QED BY <2>2, <2>3, <2>5, <3>1, DroppingUnblocks
  <2>6. 0 \notin DOMAIN journal'
    BY DEF TypeOK, DB, RecordID
  <2> QED BY <2>1, <2>4, <2>5, <2>6 DEF WalkInv
<1>5. CASE VisitInProgress
  <2> DEFINE l == Min(heads.inProgress)
  <2>1. l \in heads.inProgress
    <3>1. heads.inProgress # {} /\ heads.inProgress \subseteq Nat
      BY <1>5, Types DEF VisitInProgress, LaneID
    <3> QED BY <3>1, LeastExists
  <2> HIDE DEF l
  <2>2. /\ UNCHANGED <<journal, lanes, phase>> /\ heads'.inProgress = heads.inProgress \ {l}
        /\ lane' = l /\ last' = 0 /\ current' = 0 /\ phase # "idle" /\ l # 0
    BY <1>5, <2>1, Types DEF VisitInProgress, Visit, Between, l, LaneID, TypeOK
  <2>3. \A r \in OnLane(lane)' : last' < r
    BY <2>2, Types DEF OnLane, RecordID
  <2>4. 0 \notin DOMAIN journal'
    BY DEF TypeOK, DB, RecordID
  <2> QED BY <2>1, <2>2, <2>3, <2>4 DEF WalkInv, Blocked
<1>6. CASE VisitReady
  <2> DEFINE l == Min(heads.ready)
  <2>1. l \in heads.ready
    <3>1. heads.ready # {} /\ heads.ready \subseteq Nat
      BY <1>6, Types DEF VisitReady, LaneID
    <3> QED BY <3>1, LeastExists
  <2> HIDE DEF l
  <2>2. /\ UNCHANGED <<journal, lanes, phase>> /\ heads'.inProgress = heads.inProgress
        /\ phase # "idle" /\ l # 0
        /\ \/ UNCHANGED <<lane, last, current>>
           \/ lane' = l /\ last' = 0 /\ current' = 0 /\ ~ Blocked(l)
    BY <1>6, <2>1, Types DEF VisitReady, Visit, Between, l, LaneID, TypeOK, walk
  <2>3. 0 \notin DOMAIN journal'
    BY DEF TypeOK, DB, RecordID
  <2>4. CASE UNCHANGED <<lane, last, current>>
    BY <2>2, <2>4 DEF WalkInv, OnLane, Blocked
  <2>5. CASE lane' = l /\ last' = 0 /\ current' = 0 /\ ~ Blocked(l)
    <3>1. \A r \in OnLane(lane)' : last' < r
      BY <2>2, <2>5, Types DEF OnLane, RecordID
    <3> QED BY <2>2, <2>3, <2>5, <3>1 DEF WalkInv, Blocked
  <2> QED BY <2>2, <2>4, <2>5
<1>7. CASE EndInProgress \/ UNCHANGED vars
  <2>1. /\ UNCHANGED <<journal, lanes, heads, lane, last, current>>
        /\ phase' = "idle" => phase = "idle"
    BY <1>7 DEF EndInProgress, walk, vars
  <2> QED BY <2>1 DEF WalkInv, OnLane, Blocked
<1>8. CASE FinishPass \/ YieldPass
  <2>1. /\ UNCHANGED lanes /\ heads'.inProgress = {} /\ lane' = 0 /\ current' = 0
    BY <1>8 DEF FinishPass, YieldPass, Commit, Between, walk, WalkInv
  <2> QED BY <2>1, WalkEnds
<1>9. CASE LeaveLane
  <2>1. /\ lane' = 0 /\ current' = 0 /\ UNCHANGED <<phase, heads>>
        /\ DOMAIN lanes' \subseteq DOMAIN lanes /\ \A x \in DOMAIN lanes' : lanes'[x] = lanes[x]
    BY <1>9 DEF LeaveLane, StopLane, Without
  <2> QED BY <2>1, WalkEnds DEF WalkInv
<1>10. CASE Sideline \/ Wait \/ Schedule
  <2>1. lane' = 0 /\ current' = 0 /\ UNCHANGED <<phase, heads, lanes>>
    BY <1>10 DEF Sideline, Wait, Schedule, StopLane
  <2> QED BY <2>1, WalkEnds DEF WalkInv
<1>11. CASE FetchRecord
  <2>1. CASE lane' = 0
    <3>1. current' = 0 /\ UNCHANGED <<phase, heads, lanes>>
      BY <1>11, <2>1 DEF FetchRecord, StopLane
    <3> QED BY <2>1, <3>1, WalkEnds DEF WalkInv
  <2>2. CASE lane' # 0
    <3>1. /\ current' = Min(Following) /\ Following # {} /\ lane # 0 /\ current = 0
          /\ UNCHANGED <<phase, heads, lanes, lane, last, journal>>
      BY <1>11, <2>2 DEF FetchRecord, StopLane
    <3>2. Following = OnLane(lane) /\ Following \subseteq Nat
      BY <3>1, Types DEF WalkInv, Following, OnLane, RecordID
    <3>3. current' \in OnLane(lane) /\ \A r \in OnLane(lane) : current' <= r
      BY <3>1, <3>2, LeastExists
    <3>4. current' # 0
      BY <3>3, Types DEF OnLane, RecordID
    <3> QED BY <3>1, <3>3, <3>4 DEF WalkInv, OnLane, Blocked
  <2> QED BY <2>1, <2>2
<1>12. CASE HandleEvent
  <2>1. UNCHANGED <<lanes, phase, heads, lane, last, current>> /\ current # 0
    BY <1>12 DEF HandleEvent
  <2>2. /\ DOMAIN journal' \subseteq DOMAIN journal
        /\ \A r \in DOMAIN journal' : journal'[r].lane = journal[r].lane
    <3>1. ASSUME NEW v \in Record, current \in DOMAIN journal, journal' = Update(current, v),
                 v.lane = journal[current].lane
          PROVE  /\ DOMAIN journal' \subseteq DOMAIN journal
                 /\ \A r \in DOMAIN journal' : journal'[r].lane = journal[r].lane
      BY <3>1, Types DEF Update
    <3>2. CASE journal' = Without(journal, {current})
      BY <3>2 DEF Without
    <3> QED BY <1>12, <3>1, <3>2, HandleEventWrites
  <2> QED BY <2>1, <2>2 DEF WalkInv, OnLane, Blocked
<1>13. CASE DeleteLast \/ CancelRecord \/ ScheduleLocal
  <2>1. /\ UNCHANGED <<lanes, phase, heads, lane>> /\ current # 0
        /\ journal' = Without(journal, {current}) /\ last' = current /\ current' = 0
    BY <1>13, Types DEF DeleteLast, CancelRecord, ScheduleLocal, Advance, Handled, Scheduling,
                        Undecided, RecordID
  <2>2. DOMAIN journal' = DOMAIN journal \ {current} /\ \A r \in DOMAIN journal' : journal'[r] = journal[r]
    BY <2>1 DEF Without
  <2>3. \A r \in OnLane(lane) : current <= r /\ r \in Nat
    BY <2>1, Types DEF WalkInv, OnLane, RecordID
  <2>4. current \in Nat /\ 0 \notin DOMAIN journal'
    <3>1. current \in Nat /\ 0 \notin DOMAIN journal
      BY Types DEF RecordID
    <3> QED BY <2>2, <3>1
  <2>5. \A r \in OnLane(lane)' : last' < r
    BY <2>1, <2>2, <2>3, <2>4 DEF OnLane
  <2> QED BY <2>1, <2>4, <2>5 DEF WalkInv, Blocked
<1> QED BY <1>1, <1>2, <1>3, <1>4, <1>5, <1>6, <1>7, <1>8, <1>9, <1>10, <1>11, <1>12, <1>13
        DEF Next, Network, User, Pass, Walking

-----------------------------------------------------------------------------
(* Every step keeps the history true *)

\* HandleEvent's event is one of those in the database.
LEMMA HandledEventTrue ==
  ASSUME Inductive, HandleEvent
  PROVE  /\ Truthful(events)'
         /\ (instruction = "DeleteLast")' => current \in done
         /\ journal' = Without(journal, {current}) \/ DOMAIN journal' = DOMAIN journal
         /\ journal' = Without(journal, {current}) =>
              current \in withdrawn \/ current \notin DOMAIN journal \/ journal' = journal
<1> USE DEF Inductive
<1> DEFINE mine == {j \in DOMAIN events : events[j].record = current}
           i    == Min(mine)
<1>1. mine # {} /\ mine \subseteq Nat
  <2>1. DOMAIN events \subseteq Nat
    BY Types
  <2> QED BY <2>1 DEF HandleEvent, HasEvents
<1>2. i \in DOMAIN events /\ events[i].record = current
  BY <1>1, LeastExists
<1>3. /\ events[i].kind = "success" => current \in done
      /\ events[i].kind = "cancel" => current \in withdrawn
  BY <1>2 DEF HistoryInv, Truthful
<1>4. UNCHANGED <<done, withdrawn>>
  BY DEF HandleEvent, history
<1>5. \A k \in DOMAIN events' : \E j \in DOMAIN events : events'[k] = events[j]
  <2> HIDE DEF mine, i
  <2>1. events' = RemoveAt(events, i)
    BY DEF HandleEvent, mine, i
  <2> QED BY <1>2, <2>1, Types, DropFacts
<1>6. Truthful(events)'
  BY <1>4, <1>5 DEF HistoryInv, Truthful
<1>7. (instruction = "DeleteLast")' => current \in done
  <2>1. instruction' = instruction \/ events[i].kind = "success"
    BY DEF HandleEvent
  <2> QED BY <1>3, <2>1 DEF HistoryInv
<1>8. journal' = Without(journal, {current}) \/ DOMAIN journal' = DOMAIN journal
  <2>1. ASSUME NEW v \in Record, current \in DOMAIN journal, journal' = Update(current, v)
        PROVE  DOMAIN journal' = DOMAIN journal
    BY <2>1, RecordUpdated
  <2> QED BY <2>1, HandleEventWrites
<1>9. journal' = Without(journal, {current}) =>
        current \in withdrawn \/ current \notin DOMAIN journal \/ journal' = journal
  <2>1. ASSUME NEW v \in Record, current \in DOMAIN journal, journal' = Update(current, v)
        PROVE  journal' # Without(journal, {current})
    <3>1. DOMAIN journal' = DOMAIN journal
      BY <2>1, RecordUpdated
    <3>2. current \notin DOMAIN Without(journal, {current})
      BY DEF Without
    <3> QED BY <2>1, <3>1, <3>2
  <2> QED BY <2>1, HandleEventWrites
<1> QED BY <1>6, <1>7, <1>8, <1>9

\* Records may leave the journal once they are done or withdrawn.
LEMMA SettledStep ==
  ASSUME Settled(journal), nextRecord' = nextRecord,
         done \subseteq done', withdrawn \subseteq withdrawn',
         \A r \in DOMAIN journal : r \in DOMAIN journal' \cup done' \cup withdrawn'
  PROVE  Settled(journal)'
BY DEF Settled

LEMMA HistoryStep ==
  ASSUME Inductive, TypeOK', [Next]_vars
  PROVE  HistoryInv'
<1> USE DEF Inductive
<1>1. ASSUME NEW a \in Action, Submit(a) PROVE HistoryInv'
  <2>1. /\ UNCHANGED <<events, kvs, done, withdrawn, cancelled, instruction, current>>
        /\ snapshot'[1] = journal' /\ snapshot'[3] = events
        /\ nextRecord' = nextRecord + 1 /\ nextRecord \in DOMAIN journal'
        /\ DOMAIN journal \subseteq DOMAIN journal'
    BY <1>1 DEF Submit, walk, history, With
  <2>2. Settled(journal)'
    <3>1. ASSUME NEW r \in 1 .. nextRecord' - 1
          PROVE  r \in DOMAIN journal' \cup done' \cup withdrawn'
      <4>1. r = nextRecord \/ r \in 1 .. nextRecord - 1
        BY <2>1, Types
      <4> QED BY <2>1, <4>1 DEF HistoryInv, Settled
    <3> QED BY <3>1 DEF Settled
  <2> QED BY <2>1, <2>2 DEF HistoryInv, Truthful, Settled
<1>2. ASSUME NEW r \in RecordID, NEW outcome \in Outcome, Respond(r, outcome) PROVE HistoryInv'
  <2>1. /\ UNCHANGED <<journal, events, snapshot, nextRecord, cancelled, instruction,
                       current, withdrawn>>
        /\ done \subseteq done' /\ (outcome = "success" => r \in done')
        /\ kvs' = Append(kvs, [record |-> r, kind |-> outcome])
    BY <1>2 DEF Respond, walk
  <2>2. Truthful(kvs)'
    <3>1. ASSUME NEW k \in DOMAIN kvs'
          PROVE  \/ k \in DOMAIN kvs /\ kvs'[k] = kvs[k]
                 \/ kvs'[k] = [record |-> r, kind |-> outcome]
      BY <2>1, Types
    <3>2. outcome # "cancel"
      BY DEF Outcome
    <3> QED BY <2>1, <3>1, <3>2 DEF HistoryInv, Truthful
  <2>3. Truthful(events)' /\ Truthful(snapshot[3])'
    BY <2>1 DEF HistoryInv, Truthful
  <2> QED BY <2>1, <2>2, <2>3 DEF HistoryInv, Settled
<1>3. ASSUME NEW r \in RecordID, NEW choice \in Choice, Answer(r, choice) PROVE HistoryInv'
  <2>1. /\ UNCHANGED <<journal, events, snapshot, nextRecord, cancelled, instruction,
                       current, done>>
        /\ withdrawn \subseteq withdrawn' /\ (choice = "cancel" => r \in withdrawn')
        /\ kvs' = Append(kvs, [record |-> r, kind |-> choice])
    BY <1>3 DEF Answer, walk
  <2>2. Truthful(kvs)'
    <3>1. ASSUME NEW k \in DOMAIN kvs'
          PROVE  \/ k \in DOMAIN kvs /\ kvs'[k] = kvs[k]
                 \/ kvs'[k] = [record |-> r, kind |-> choice]
      BY <2>1, Types
    <3>2. choice # "success"
      BY DEF Choice
    <3> QED BY <2>1, <3>1, <3>2 DEF HistoryInv, Truthful
  <2>3. Truthful(events)' /\ Truthful(snapshot[3])'
    BY <2>1 DEF HistoryInv, Truthful
  <2> QED BY <2>1, <2>2, <2>3 DEF HistoryInv, Settled
<1>4. ASSUME NEW r \in RecordID, Cancel(r) PROVE HistoryInv'
  <2>1. /\ UNCHANGED <<journal, events, kvs, snapshot, nextRecord, instruction, current, done>>
        /\ cancelled' = cancelled \cup {r} /\ withdrawn' = withdrawn \cup {r}
    BY <1>4 DEF Cancel, walk
  <2> QED BY <2>1 DEF HistoryInv, Truthful, Settled
<1>5. CASE Crash
  <2>1. /\ UNCHANGED <<kvs, snapshot, nextRecord, done, withdrawn>>
        /\ journal' = snapshot[1] /\ events' = snapshot[3]
        /\ cancelled' \subseteq cancelled /\ instruction' = "None"
    BY <1>5 DEF Crash
  <2> QED BY <2>1 DEF HistoryInv, Truthful, Settled
<1>6. CASE StartPass
  <2>1. /\ UNCHANGED <<journal, nextRecord, done, withdrawn, cancelled, instruction, current>>
        /\ events' = events \o kvs /\ kvs' = << >>
        /\ snapshot'[1] = journal /\ snapshot'[3] = events'
    BY <1>6 DEF StartPass, walk, history
  <2>2. Truthful(events)'
    <3>1. /\ Len(events) \in Nat /\ Len(kvs) \in Nat
          /\ DOMAIN events = 1 .. Len(events) /\ DOMAIN kvs = 1 .. Len(kvs)
          /\ events' \in Seq(Event) /\ Len(events') = Len(events) + Len(kvs)
          /\ \A k \in 1 .. Len(events) + Len(kvs) :
               events'[k] = IF k <= Len(events) THEN events[k] ELSE kvs[k - Len(events)]
      BY <2>1, Types, ConcatProperties
    <3>2. ASSUME NEW k \in DOMAIN events'
          PROVE  \/ k \in DOMAIN events /\ events'[k] = events[k]
                 \/ k - Len(events) \in DOMAIN kvs /\ events'[k] = kvs[k - Len(events)]
      BY <3>1
    <3> QED BY <2>1, <3>2 DEF HistoryInv, Truthful
  <2>3. Truthful(kvs)'
    BY <2>1 DEF Truthful
  <2> QED BY <2>1, <2>2, <2>3 DEF HistoryInv, Truthful, Settled
<1>7. CASE FinishPass \/ YieldPass
  <2>1. /\ UNCHANGED <<journal, events, kvs, nextRecord, done, withdrawn, cancelled,
                       instruction, current>>
        /\ snapshot'[1] = journal /\ snapshot'[3] = events
    BY <1>7 DEF FinishPass, YieldPass, Commit, database, walk
  <2> QED BY <2>1 DEF HistoryInv, Truthful, Settled
<1>8. CASE HandleEvent
  <2>1. UNCHANGED <<snapshot, kvs, nextRecord, done, withdrawn, cancelled, current>>
    BY <1>8 DEF HandleEvent, history
  <2>2. \A r \in DOMAIN journal : r \in DOMAIN journal' \cup done' \cup withdrawn'
    <3>1. DOMAIN Without(journal, {current}) = DOMAIN journal \ {current}
      BY DEF Without
    <3> QED BY <1>8, <2>1, <3>1, HandledEventTrue
  <2>3. Settled(journal)'
    BY <2>1, <2>2, SettledStep DEF HistoryInv
  <2>4. Truthful(events)' /\ ((instruction = "DeleteLast")' => current \in done)
    BY <1>8, HandledEventTrue
  <2> QED BY <2>1, <2>3, <2>4 DEF HistoryInv, Truthful, Settled
<1>9. CASE DeleteLast \/ CancelRecord \/ ScheduleLocal
  <2>1. /\ UNCHANGED <<snapshot, events, kvs, nextRecord, withdrawn, cancelled>>
        /\ journal' = Without(journal, {current}) /\ instruction' = "None"
        /\ done \subseteq done' /\ current \in done' \cup withdrawn'
    BY <1>9 DEF DeleteLast, CancelRecord, ScheduleLocal, Advance, history, HistoryInv
  <2>2. \A r \in DOMAIN journal : r \in DOMAIN journal' \cup done' \cup withdrawn'
    BY <2>1 DEF Without
  <2>3. Settled(journal)'
    BY <2>1, <2>2, SettledStep DEF HistoryInv
  <2> QED BY <2>1, <2>3 DEF HistoryInv, Truthful, Settled
<1>10. CASE Schedule
  <2>1. /\ UNCHANGED <<snapshot, events, kvs, nextRecord, done, withdrawn, cancelled>>
        /\ DOMAIN journal' = DOMAIN journal /\ instruction' = "None"
    BY <1>10 DEF Schedule, StopLane, history, Update
  <2> QED BY <2>1 DEF HistoryInv, Truthful, Settled
<1>11. ASSUME \/ VisitInProgress \/ EndInProgress \/ VisitReady \/ FetchRecord
              \/ LeaveLane \/ Sideline \/ Wait \/ UNCHANGED vars
       PROVE  HistoryInv'
  <2>1. /\ UNCHANGED <<journal, snapshot, events, kvs, nextRecord, done, withdrawn, cancelled>>
        /\ instruction' = "None" \/ UNCHANGED <<instruction, current>>
    BY <1>11 DEF VisitInProgress, EndInProgress, VisitReady, FetchRecord, LeaveLane, Sideline,
                 Wait, Visit, StopLane, walk, history, vars
  <2> QED BY <2>1 DEF HistoryInv, Truthful, Settled
<1> QED BY <1>1, <1>2, <1>3, <1>4, <1>5, <1>6, <1>7, <1>8, <1>9, <1>10, <1>11
        DEF Next, Network, User, Pass, Walking

-----------------------------------------------------------------------------
(* The theorems *)

LEMMA InductiveInit == Init => Inductive
<1> SUFFICES ASSUME Init PROVE Inductive
  OBVIOUS
<1>1. /\ DOMAIN journal = {} /\ DOMAIN lanes = {} /\ DOMAIN kvs = {}
      /\ snapshot[1] = journal /\ snapshot[2] = lanes /\ snapshot[3] = kvs /\ events = kvs
  BY DEF Init, database
<1>2. DBInv(journal, lanes) /\ DBInv(snapshot[1], snapshot[2])
  BY <1>1 DEF DBInv, LanesHold, StartedInOrder, IDsUsed
<1>3. WalkInv
  BY <1>1 DEF Init, WalkInv, OnLane
<1>4. HistoryInv
  BY <1>1 DEF Init, HistoryInv, Truthful, Settled
<1> QED BY <1>2, <1>3, <1>4, TypeInit DEF Inductive

LEMMA InductiveStep == Inductive /\ [Next]_vars => Inductive'
<1> SUFFICES ASSUME Inductive, [Next]_vars PROVE Inductive'
  OBVIOUS
<1>1. TypeOK'
  BY TypeStep DEF Inductive
<1> QED BY <1>1, DBStep, WalkStep, HistoryStep DEF Inductive

\* Inductive holds in every state a core can reach.
THEOREM InductiveHolds == Spec => []Inductive
BY InductiveInit, InductiveStep, PTL DEF Spec

\* The variables always hold values of their types.
THEOREM TypeCorrect == Spec => []TypeOK
<1>1. Inductive => TypeOK
  BY DEF Inductive
<1> QED BY <1>1, InductiveHolds, PTL

\* Two records of conflicting lanes: the one on the later lane is not started
\* while the other is in the journal.
LEMMA LaterLaneWaits ==
  ASSUME Inductive, NEW r \in DOMAIN journal, NEW s \in DOMAIN journal,
         Conflict(r, s), journal[r].lane < journal[s].lane
  PROVE  ~ Active(s)
<1> DEFINE x == journal[r].lane
           y == journal[s].lane
<1>1. x \in DOMAIN lanes /\ y \in DOMAIN lanes
  BY DEF Inductive, DBInv, LanesHold
<1>2. TagsConflict(lanes[x].tags, lanes[y].tags)
  <2>1. /\ Tags(r) \ {RootTag} \subseteq lanes[x].tags
        /\ Tags(s) \ {RootTag} \subseteq lanes[y].tags
    BY DEF Inductive, DBInv, LanesHold, Tags
  <2>2. PICK t \in Tags(r) \ {RootTag}, u \in Tags(s) \ {RootTag} : Overlap(t, u)
    BY DEF Conflict, TagsConflict
  <2> QED BY <2>1, <2>2 DEF TagsConflict
<1>3. x \in lanes[y].after
  BY <1>1, <1>2 DEF Inductive, DBInv, LanesHold
<1>4. ~ journal[s].started
  BY <1>1, <1>3 DEF Inductive, DBInv, StartedInOrder
<1> QED BY <1>4 DEF Active, Inductive, DBInv, StartedInOrder

\* A record in progress is the oldest of its lane.
LEMMA OldestIsActive ==
  ASSUME Inductive, NEW r \in DOMAIN journal, NEW s \in DOMAIN journal,
         Active(s), journal[r].lane = journal[s].lane
  PROVE  s <= r
BY DEF Inductive, DBInv, StartedInOrder, Active

\* Records that touch the same items are never in progress together: neither
\* retries, cancellations, yields nor a crash in the middle of a pass break the
\* order of the lanes (laneForTags, -processSyncRecords).
THEOREM ConflictsExcluded == Spec => []NoConflictingActivity
<1>1. ASSUME Inductive PROVE NoConflictingActivity
  <2> SUFFICES ASSUME NEW r \in DOMAIN journal, NEW s \in DOMAIN journal,
                      Active(r), Active(s), Conflict(r, s)
               PROVE  FALSE
    BY DEF NoConflictingActivity
  <2>1. /\ journal[r].lane \in Nat /\ journal[s].lane \in Nat
        /\ r \in Nat /\ s \in Nat /\ r # s
    BY <1>1, Types DEF Inductive, Record, LaneID, RecordID, Conflict
  <2>2. CASE journal[r].lane < journal[s].lane
    BY <1>1, <2>2, LaterLaneWaits
  <2>3. CASE journal[s].lane < journal[r].lane
    <3>1. Conflict(s, r)
      <4>1. Tags(r) \subseteq Tag /\ Tags(s) \subseteq Tag
        BY <1>1, Types, ActionAssumption DEF Inductive, Record, Tags
      <4> QED BY <4>1, ConflictSymmetric DEF Conflict
    <3> QED BY <1>1, <2>3, <3>1, LaterLaneWaits
  <2>4. CASE journal[r].lane = journal[s].lane
    BY <1>1, <2>1, <2>4, OldestIsActive
  <2> QED BY <2>1, <2>2, <2>3, <2>4
<1> QED BY <1>1, InductiveHolds, PTL

\* Only a record that joined an older lane gets ahead of an older conflicting
\* record.
THEOREM OvertakingExplained == Spec => []OvertakesOnlyFromOlderLane
<1>1. ASSUME Inductive PROVE OvertakesOnlyFromOlderLane
  <2> SUFFICES ASSUME NEW r \in DOMAIN journal, NEW s \in DOMAIN journal,
                      Active(s), r < s, Conflict(r, s)
               PROVE  journal[s].lane < journal[r].lane
    BY DEF OvertakesOnlyFromOlderLane
  <2>1. /\ journal[r].lane \in Nat /\ journal[s].lane \in Nat /\ r \in Nat /\ s \in Nat
    BY <1>1, Types DEF Inductive, Record, LaneID, RecordID
  <2>2. ~ (journal[r].lane < journal[s].lane)
    BY <1>1, LaterLaneWaits
  <2>3. journal[r].lane # journal[s].lane
    BY <1>1, <2>1, OldestIsActive
  <2> QED BY <2>1, <2>2, <2>3
<1> QED BY <1>1, InductiveHolds, PTL

\* A record that was submitted stays in the journal until its action was
\* carried out or its user gave it up, through any number of crashes.
THEOREM NothingIsLost == Spec => []NothingLost
<1>1. Inductive => NothingLost
  BY DEF Inductive, HistoryInv, Settled, NothingLost
<1> QED BY <1>1, InductiveHolds, PTL
=============================================================================
