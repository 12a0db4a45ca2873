------------------------ MODULE SyncEngineLoadProofs ------------------------
(***************************************************************************)
(* Proofs about the load SyncEngine puts on the server, for every set of   *)
(* actions, categories and budgets and every bound: without a crash no     *)
(* record has two requests under way, and the second phase of a pass never *)
(* exceeds a budget.  Both rest on Inductive, proved in SyncEngineProofs.  *)
(***************************************************************************)
EXTENDS SyncEngineProofs, FiniteSetTheorems

-----------------------------------------------------------------------------
(* What the steps do to the journal *)

\* Every step but submitting and crashing only changes the current record, or
\* takes it out, and leaves its action and its lane alone.
LEMMA OnlyCurrentChanges ==
  ASSUME Inductive, Walking
  PROVE  /\ DOMAIN journal' \subseteq DOMAIN journal
         /\ \A r \in DOMAIN journal' : /\ journal'[r].action = journal[r].action
                                       /\ journal'[r].lane = journal[r].lane
                                       /\ r # current => journal'[r] = journal[r]
<1> DEFINE Kept == /\ DOMAIN journal' \subseteq DOMAIN journal
                   /\ \A r \in DOMAIN journal' : /\ journal'[r].action = journal[r].action
                                                 /\ journal'[r].lane = journal[r].lane
                                                 /\ r # current => journal'[r] = journal[r]
<1>1. ASSUME NEW v \in Record, current \in DOMAIN journal, journal' = Update(current, v),
             v.action = journal[current].action, v.lane = journal[current].lane
      PROVE  Kept
  BY <1>1, Types DEF Inductive, Update
<1>2. CASE journal' = Without(journal, {current})
  BY <1>2 DEF Without
<1>3. CASE journal' = journal
  BY <1>3
<1>4. CASE Schedule
  <2> DEFINE v == [journal[current] EXCEPT !.state = "Processing", !.started = TRUE]
  <2>1. current \in DOMAIN journal /\ journal' = Update(current, v)
    BY <1>4 DEF Schedule, Scheduling
  <2>2. v \in Record /\ v.action = journal[current].action /\ v.lane = journal[current].lane
    BY <2>1, CurrentFacts DEF Record, State
  <2> HIDE DEF v
  <2> QED BY <1>1, <2>1, <2>2
<1>5. CASE HandleEvent
  BY <1>1, <1>2, <1>3, <1>5, HandleEventWrites
<1>6. CASE DeleteLast \/ CancelRecord \/ ScheduleLocal
  BY <1>2, <1>6 DEF DeleteLast, CancelRecord, ScheduleLocal
<1>7. CASE FetchRecord \/ LeaveLane \/ Sideline \/ Wait
  BY <1>3, <1>7 DEF FetchRecord, LeaveLane, Sideline, Wait
<1> QED BY <1>4, <1>5, <1>6, <1>7 DEF Walking

\* The event that is handled is a queued one for the current record.  The
\* others move up, and only an answer to its issue makes the record Ready.
LEMMA HandledEvent ==
  ASSUME Inductive, HandleEvent
  PROVE  \E i \in DOMAIN events :
           /\ events[i].record = current
           /\ Len(events') = Len(events) - 1
           /\ \A k \in 1 .. Len(events) - 1 : events'[k] = events[IF k < i THEN k ELSE k + 1]
           /\ \/ journal' = journal /\ instruction' = instruction
                 /\ (events[i].kind \in Outcome => current \notin DOMAIN journal)
              \/ /\ current \in DOMAIN journal /\ events[i].kind \in Outcome
                 /\ DOMAIN journal' = DOMAIN journal
                 /\ journal'[current].state = "Completed" => instruction' = "DeleteLast"
                 /\ instruction' \in {instruction, "DeleteLast"}
              \/ /\ current \in DOMAIN journal /\ journal[current].issue
                 /\ DOMAIN journal' = DOMAIN journal
                 /\ journal'[current].state = "Ready"
                 /\ instruction' = instruction
              \/ current \notin DOMAIN journal' /\ instruction' = instruction
<1> DEFINE mine == {j \in DOMAIN events : events[j].record = current}
           i    == Min(mine)
           rec  == journal[current]
           v1   == [rec EXCEPT !.state = "Completed", !.issue = FALSE]
           v2   == [rec EXCEPT !.state = "Processing", !.started = TRUE, !.issue = TRUE]
           v3   == [rec EXCEPT !.state = "Ready", !.issue = FALSE]
<1>1. mine # {} /\ mine \subseteq Nat
  <2>1. DOMAIN events \subseteq Nat
    BY Types DEF Inductive
  <2> QED BY <2>1 DEF HandleEvent, HasEvents
<1>2. i \in DOMAIN events /\ events[i].record = current
  BY <1>1, LeastExists
<1>3. events' = RemoveAt(events, i)
  BY DEF HandleEvent
<1>4. ASSUME NEW v, current \in DOMAIN journal
      PROVE  DOMAIN Update(current, v) = DOMAIN journal /\ Update(current, v)[current] = v
  BY <1>4, Types DEF Update, Inductive
<1>5. ASSUME current \in DOMAIN journal
      PROVE  v1.state = "Completed" /\ v2.state = "Processing" /\ v3.state = "Ready"
  <2>1. rec \in Record
    BY <1>5, Types DEF Inductive
  <2> QED BY <2>1 DEF Record
<1>6. current \notin DOMAIN Without(journal, {current})
  BY DEF Without
<1>7. \/ /\ events[i].kind = "success" /\ current \in DOMAIN journal
         /\ journal' = Update(current, v1) /\ instruction' = "DeleteLast"
      \/ /\ events[i].kind = "failure" /\ current \in DOMAIN journal
         /\ journal' = Update(current, v2) /\ instruction' = instruction
      \/ /\ current \in DOMAIN journal /\ rec.issue
         /\ journal' = Update(current, v3) /\ instruction' = instruction
      \/ journal' = Without(journal, {current}) /\ instruction' = instruction
      \/ /\ ~ (current \in DOMAIN journal /\ (events[i].kind \in Choice => rec.issue))
         /\ journal' = journal /\ instruction' = instruction
  BY DEF HandleEvent
<1> HIDE DEF mine, i, v1, v2, v3
<1>8. /\ Len(events') = Len(events) - 1
      /\ \A k \in 1 .. Len(events) - 1 : events'[k] = events[IF k < i THEN k ELSE k + 1]
  <2>1. events \in Seq(Event)
    BY Types DEF Inductive
  <2> QED BY <1>2, <1>3, <2>1, DropFacts
<1>9. /\ \/ journal' = journal /\ instruction' = instruction
            /\ (events[i].kind \in Outcome => current \notin DOMAIN journal)
         \/ /\ current \in DOMAIN journal /\ events[i].kind \in Outcome
            /\ DOMAIN journal' = DOMAIN journal
            /\ journal'[current].state = "Completed" => instruction' = "DeleteLast"
            /\ instruction' \in {instruction, "DeleteLast"}
         \/ /\ current \in DOMAIN journal /\ journal[current].issue
            /\ DOMAIN journal' = DOMAIN journal
            /\ journal'[current].state = "Ready"
            /\ instruction' = instruction
         \/ current \notin DOMAIN journal' /\ instruction' = instruction
  BY <1>4, <1>5, <1>6, <1>7 DEF Outcome, Choice
<1> QED BY <1>2, <1>8, <1>9

-----------------------------------------------------------------------------
(* One request at a time *)

\* Moving the queued events into the database keeps their order.
LEMMA MailType ==
  ASSUME TypeOK
  PROVE  /\ Mail \in Seq(Event) /\ Len(Mail) = Len(events) + Len(kvs)
         /\ Len(events) \in Nat /\ Len(kvs) \in Nat
         /\ \A k \in 1 .. Len(events) : Mail[k] = events[k]
         /\ \A k \in Len(events) + 1 .. Len(Mail) : Mail[k] = kvs[k - Len(events)]
         /\ \A k \in DOMAIN Mail : k \in Nat /\ Mail[k] \in Event /\ Mail[k].record \in RecordID
<1>1. events \in Seq(Event) /\ kvs \in Seq(Event)
  BY Types
<1>2. /\ events \o kvs \in Seq(Event) /\ Len(events \o kvs) = Len(events) + Len(kvs)
      /\ \A i \in 1 .. Len(events) + Len(kvs) :
           (events \o kvs)[i] = IF i <= Len(events) THEN events[i] ELSE kvs[i - Len(events)]
  BY <1>1, ConcatProperties
<1>3. Len(events) \in Nat /\ Len(kvs) \in Nat
  BY <1>1
<1>4. Mail = events \o kvs
  BY DEF Mail
<1>5. ASSUME NEW k \in DOMAIN Mail PROVE k \in Nat /\ Mail[k] \in Event /\ Mail[k].record \in RecordID
  <2>1. k \in Nat /\ Mail[k] \in Event
    BY <1>2, <1>4
  <2> QED BY <2>1 DEF Event
<1> QED BY <1>2, <1>3, <1>4, <1>5

\* OneRequest holds on if nothing was queued or sent and no record that awaits
\* an outcome changed.
LEMMA OneRequestKept ==
  ASSUME OneRequest, TypeOK, TypeOK', UNCHANGED requests,
         nextRecord <= nextRecord',
         Mail' = Mail,
         \A r \in RecordID : r < nextRecord /\ AwaitsOutcome(r) => AwaitsOutcome(r)'
  PROVE  OneRequest'
<1>0. nextRecord \in Nat /\ nextRecord' \in Nat /\ RecordID \subseteq Nat
  BY BoundsAssumption DEF TypeOK, RecordID
<1>1. ASSUME NEW r \in RecordID, requests'[r] > 0
      PROVE  requests'[r] = 1 /\ r < nextRecord' /\ AwaitsOutcome(r)'
  <2>1. requests[r] = 1 /\ r < nextRecord /\ AwaitsOutcome(r)
    BY <1>1 DEF OneRequest
  <2>2. AwaitsOutcome(r)'
    BY <2>1
  <2> QED BY <1>0, <2>1, <2>2
<1>2. ASSUME NEW r \in RecordID, NEW i \in DOMAIN Mail',
             Mail'[i].record = r, Mail'[i].kind \in Outcome
      PROVE  requests'[r] = 0 /\ r < nextRecord' /\ AwaitsOutcome(r)'
  <2>1. i \in DOMAIN Mail /\ Mail[i].record = r /\ Mail[i].kind \in Outcome
    BY <1>2
  <2>2. requests[r] = 0 /\ r < nextRecord /\ AwaitsOutcome(r)
    BY <2>1 DEF OneRequest
  <2>3. AwaitsOutcome(r)'
    BY <2>2
  <2> QED BY <1>0, <2>2, <2>3
<1>3. \A i, j \in DOMAIN Mail' :
        (Mail'[i].kind \in Outcome /\ Mail'[j].kind \in Outcome /\ Mail'[i].record = Mail'[j].record)
          => i = j
  BY DEF OneRequest
<1> QED BY <1>1, <1>2, <1>3 DEF OneRequest

LEMMA MailAppended ==
  ASSUME TypeOK, NEW x \in Event, events' = events, kvs' = Append(kvs, x)
  PROVE  /\ Len(Mail) \in Nat /\ DOMAIN Mail = 1 .. Len(Mail)
         /\ DOMAIN Mail' = 1 .. Len(Mail) + 1
         /\ \A k \in 1 .. Len(Mail) : Mail'[k] = Mail[k]
         /\ Mail'[Len(Mail) + 1] = x
<1>1. Mail \in Seq(Event) /\ Mail = events \o kvs
  BY MailType DEF Mail
<1>2. Mail' = events \o Append(kvs, x)
  BY DEF Mail
<1>3. events \in Seq(Event) /\ kvs \in Seq(Event)
  BY Types
<1>4. events \o Append(kvs, x) = Append(events \o kvs, x)
  BY <1>3
<1>5. Mail' = Append(Mail, x)
  BY <1>1, <1>2, <1>4
<1> QED BY <1>1, <1>5, AppendProperties

LEMMA MailHandled ==
  ASSUME TypeOK, TypeOK', kvs' = kvs, NEW i \in DOMAIN events,
         Len(events') = Len(events) - 1,
         \A k \in 1 .. Len(events) - 1 : events'[k] = events[IF k < i THEN k ELSE k + 1]
  PROVE  /\ Len(Mail) \in Nat /\ DOMAIN Mail = 1 .. Len(Mail)
         /\ i \in DOMAIN Mail /\ Mail[i] = events[i]
         /\ DOMAIN Mail' = 1 .. Len(Mail) - 1
         /\ \A k \in 1 .. Len(Mail) - 1 : Mail'[k] = Mail[IF k < i THEN k ELSE k + 1]
<1>1. /\ Mail \in Seq(Event) /\ Len(Mail) = Len(events) + Len(kvs)
      /\ Len(events) \in Nat /\ Len(kvs) \in Nat
      /\ \A k \in 1 .. Len(events) : Mail[k] = events[k]
      /\ \A k \in Len(events) + 1 .. Len(Mail) : Mail[k] = kvs[k - Len(events)]
  BY MailType
<1>2. /\ events' \o kvs \in Seq(Event) /\ Len(events' \o kvs) = Len(events') + Len(kvs)
      /\ \A k \in 1 .. Len(events') + Len(kvs) :
           (events' \o kvs)[k] = IF k <= Len(events') THEN events'[k] ELSE kvs[k - Len(events')]
  <2>1. events' \in Seq(Event) /\ kvs \in Seq(Event)
    BY DEF TypeOK, DB
  <2> QED BY <2>1, ConcatProperties
<1>3. Mail' = events' \o kvs
  BY DEF Mail
<1>4. i \in 1 .. Len(events)
  BY Types
<1>5. /\ Len(Mail') = Len(Mail) - 1 /\ Mail' \in Seq(Event)
      /\ \A k \in 1 .. Len(Mail) - 1 :
           Mail'[k] = IF k <= Len(events) - 1 THEN events'[k] ELSE kvs[k - (Len(events) - 1)]
  BY <1>1, <1>2, <1>3
<1>6. ASSUME NEW k \in 1 .. Len(Mail) - 1
      PROVE  Mail'[k] = Mail[IF k < i THEN k ELSE k + 1]
  <2>1. CASE k <= Len(events) - 1
    <3>1. Mail'[k] = events[IF k < i THEN k ELSE k + 1]
      BY <1>1, <1>5, <2>1
    <3>2. (IF k < i THEN k ELSE k + 1) \in 1 .. Len(events)
      BY <1>1, <1>4, <2>1
    <3> QED BY <1>1, <3>1, <3>2
  <2>2. CASE ~ (k <= Len(events) - 1)
    <3>1. /\ ~ (k < i) /\ k + 1 \in Len(events) + 1 .. Len(Mail)
          /\ k - (Len(events) - 1) = k + 1 - Len(events)
      BY <1>1, <1>4, <2>2
    <3> QED BY <1>1, <1>5, <2>2, <3>1
  <2> QED BY <2>1, <2>2
<1>7. i \in DOMAIN Mail /\ Mail[i] = events[i] /\ DOMAIN Mail = 1 .. Len(Mail)
  BY <1>1, <1>4
<1>8. DOMAIN Mail' = 1 .. Len(Mail) - 1 /\ Len(Mail) \in Nat
  BY <1>1, <1>5
<1> QED BY <1>6, <1>7, <1>8

\* The server's answer takes the place of the request.
LEMMA RespondOnce ==
  ASSUME Inductive, OneRequest, NEW r \in RecordID, NEW outcome \in Outcome, Respond(r, outcome)
  PROVE  OneRequest'
<1> DEFINE x == [record |-> r, kind |-> outcome]
<1>1. /\ UNCHANGED <<events, nextRecord, journal>> /\ kvs' = Append(kvs, x)
      /\ requests' = [requests EXCEPT ![r] = requests[r] - 1] /\ requests[r] > 0
  BY DEF Respond
<1>2. requests \in [RecordID -> Nat]
  BY DEF Inductive, TypeOK
<1>3. requests[r] = 1 /\ r < nextRecord /\ AwaitsOutcome(r)
  BY <1>1 DEF OneRequest
<1>4. requests'[r] = 0 /\ \A s \in RecordID : s # r => requests'[s] = requests[s]
  BY <1>1, <1>2, <1>3
<1>5. \A s \in RecordID : AwaitsOutcome(s)' <=> AwaitsOutcome(s)
  BY <1>1 DEF AwaitsOutcome, Active
<1>6. x \in Event /\ x.record = r /\ x.kind = outcome
  BY DEF Event
<1> HIDE DEF x
<1>7. /\ Len(Mail) \in Nat /\ DOMAIN Mail = 1 .. Len(Mail)
      /\ DOMAIN Mail' = 1 .. Len(Mail) + 1
      /\ \A k \in 1 .. Len(Mail) : Mail'[k] = Mail[k]
      /\ Mail'[Len(Mail) + 1] = x
  BY <1>1, <1>6, MailAppended DEF Inductive
<1>8. \A i \in DOMAIN Mail : Mail[i].kind \in Outcome => Mail[i].record # r
  BY <1>3 DEF OneRequest
<1>9. \A i \in DOMAIN Mail' : (i \in DOMAIN Mail /\ Mail'[i] = Mail[i]) \/ i = Len(Mail) + 1
  BY <1>7
<1>10. \A s \in RecordID :
         requests'[s] > 0 => requests'[s] = 1 /\ s < nextRecord' /\ AwaitsOutcome(s)'
  BY <1>1, <1>4, <1>5 DEF OneRequest
<1>11. ASSUME NEW s \in RecordID, NEW i \in DOMAIN Mail',
              Mail'[i].record = s, Mail'[i].kind \in Outcome
       PROVE  requests'[s] = 0 /\ s < nextRecord' /\ AwaitsOutcome(s)'
  <2>1. CASE i = Len(Mail) + 1
    BY <1>1, <1>3, <1>4, <1>5, <1>6, <1>7, <1>11, <2>1
  <2>2. CASE i \in DOMAIN Mail /\ Mail'[i] = Mail[i]
    <3>1. s # r /\ requests[s] = 0 /\ s < nextRecord /\ AwaitsOutcome(s)
      BY <1>8, <1>11, <2>2 DEF OneRequest
    <3> QED BY <1>1, <1>4, <1>5, <3>1
  <2> QED BY <1>9, <2>1, <2>2
<1>12. \A i, j \in DOMAIN Mail' :
         (Mail'[i].kind \in Outcome /\ Mail'[j].kind \in Outcome /\ Mail'[i].record = Mail'[j].record)
           => i = j
  BY <1>6, <1>7, <1>8, <1>9 DEF OneRequest
<1> QED BY <1>10, <1>11, <1>12 DEF OneRequest

\* So does an answer of the user, which is no outcome.
LEMMA AnswerOnce ==
  ASSUME Inductive, OneRequest, NEW r \in RecordID, NEW choice \in Choice, Answer(r, choice)
  PROVE  OneRequest'
<1> DEFINE x == [record |-> r, kind |-> choice]
<1>1. /\ UNCHANGED <<events, nextRecord, journal, requests>> /\ kvs' = Append(kvs, x)
  BY DEF Answer
<1>2. \A s \in RecordID : AwaitsOutcome(s)' <=> AwaitsOutcome(s)
  BY <1>1 DEF AwaitsOutcome, Active
<1>3. x \in Event /\ x.kind \notin Outcome
  BY DEF Event, Outcome, Choice
<1> HIDE DEF x
<1>4. /\ Len(Mail) \in Nat /\ DOMAIN Mail = 1 .. Len(Mail)
      /\ DOMAIN Mail' = 1 .. Len(Mail) + 1
      /\ \A k \in 1 .. Len(Mail) : Mail'[k] = Mail[k]
      /\ Mail'[Len(Mail) + 1] = x
  BY <1>1, <1>3, MailAppended DEF Inductive
<1>5. \A i \in DOMAIN Mail' :
        Mail'[i].kind \in Outcome => i \in DOMAIN Mail /\ Mail'[i] = Mail[i]
  BY <1>3, <1>4
<1>6. \A s \in RecordID :
        requests'[s] > 0 => requests'[s] = 1 /\ s < nextRecord' /\ AwaitsOutcome(s)'
  BY <1>1, <1>2 DEF OneRequest
<1>7. \A s \in RecordID, i \in DOMAIN Mail' :
        Mail'[i].record = s /\ Mail'[i].kind \in Outcome =>
          requests'[s] = 0 /\ s < nextRecord' /\ AwaitsOutcome(s)'
  BY <1>1, <1>2, <1>5 DEF OneRequest
<1>8. \A i, j \in DOMAIN Mail' :
        (Mail'[i].kind \in Outcome /\ Mail'[j].kind \in Outcome /\ Mail'[i].record = Mail'[j].record)
          => i = j
  BY <1>5 DEF OneRequest
<1> QED BY <1>6, <1>7, <1>8 DEF OneRequest

\* Handling an event uses up the outcome of its record, or follows an answer to
\* an issue, which a record that awaits an outcome has not.
LEMMA HandleOnce ==
  ASSUME Inductive, TypeOK', OneRequest, HandleEvent
  PROVE  OneRequest'
<1>1. PICK i \in DOMAIN events :
           /\ events[i].record = current
           /\ Len(events') = Len(events) - 1
           /\ \A k \in 1 .. Len(events) - 1 : events'[k] = events[IF k < i THEN k ELSE k + 1]
           /\ \/ journal' = journal
              \/ current \in DOMAIN journal /\ events[i].kind \in Outcome
              \/ current \in DOMAIN journal /\ journal[current].issue
              \/ current \notin DOMAIN journal'
  BY HandledEvent
<1>2. /\ UNCHANGED <<requests, nextRecord, kvs>> /\ current \in RecordID
  BY Types DEF HandleEvent, Inductive
<1>3. /\ Len(Mail) \in Nat /\ DOMAIN Mail = 1 .. Len(Mail)
      /\ i \in DOMAIN Mail /\ Mail[i] = events[i]
      /\ DOMAIN Mail' = 1 .. Len(Mail) - 1
      /\ \A k \in 1 .. Len(Mail) - 1 : Mail'[k] = Mail[IF k < i THEN k ELSE k + 1]
  BY <1>1, <1>2, MailHandled DEF Inductive
<1> DEFINE from(k) == IF k < i THEN k ELSE k + 1
<1>4. ASSUME NEW k \in DOMAIN Mail'
      PROVE  from(k) \in DOMAIN Mail \ {i} /\ Mail'[k] = Mail[from(k)]
  BY <1>3
<1>5. ASSUME NEW k \in DOMAIN Mail', NEW m \in DOMAIN Mail', from(k) = from(m)
      PROVE  k = m
  BY <1>3, <1>5
<1> HIDE DEF from
<1>6. ASSUME NEW r \in RecordID, AwaitsOutcome(r),
             r = current => \/ requests[current] > 0
                            \/ \E j \in DOMAIN Mail \ {i} :
                                 Mail[j].record = current /\ Mail[j].kind \in Outcome
      PROVE  AwaitsOutcome(r)'
  <2>1. CASE r # current
    BY <1>6, <2>1, OnlyCurrentChanges DEF Walking, AwaitsOutcome, Active
  <2>2. CASE r = current
    <3>1. ~ (events[i].kind \in Outcome)
      BY <1>1, <1>3, <1>6, <2>2 DEF OneRequest
    <3>2. ~ (current \in DOMAIN journal /\ journal[current].issue)
      BY <1>6, <2>2 DEF AwaitsOutcome
    <3>3. journal' = journal \/ current \notin DOMAIN journal'
      BY <1>1, <3>1, <3>2
    <3> QED BY <1>6, <2>2, <3>3 DEF AwaitsOutcome, Active
  <2> QED BY <2>1, <2>2
<1>7. ASSUME NEW r \in RecordID, requests'[r] > 0
      PROVE  requests'[r] = 1 /\ r < nextRecord' /\ AwaitsOutcome(r)'
  <2>1. requests[r] = 1 /\ r < nextRecord /\ AwaitsOutcome(r)
    BY <1>2, <1>7 DEF OneRequest
  <2> QED BY <1>2, <1>6, <1>7, <2>1
<1>8. ASSUME NEW r \in RecordID, NEW k \in DOMAIN Mail',
             Mail'[k].record = r, Mail'[k].kind \in Outcome
      PROVE  requests'[r] = 0 /\ r < nextRecord' /\ AwaitsOutcome(r)'
  <2>1. /\ from(k) \in DOMAIN Mail \ {i}
        /\ Mail[from(k)].record = r /\ Mail[from(k)].kind \in Outcome
    BY <1>4, <1>8
  <2>2. requests[r] = 0 /\ r < nextRecord /\ AwaitsOutcome(r)
    BY <2>1 DEF OneRequest
  <2>3. AwaitsOutcome(r)'
    BY <1>6, <2>1, <2>2
  <2> QED BY <1>2, <2>2, <2>3
<1>9. ASSUME NEW k \in DOMAIN Mail', NEW m \in DOMAIN Mail',
             Mail'[k].kind \in Outcome, Mail'[m].kind \in Outcome,
             Mail'[k].record = Mail'[m].record
      PROVE  k = m
  <2>1. from(k) = from(m)
    BY <1>4, <1>9 DEF OneRequest
  <2> QED BY <1>5, <2>1
<1> QED BY <1>7, <1>8, <1>9 DEF OneRequest

\* A record that is Ready has no request and no outcome, so sending its request
\* is sending the only one.
LEMMA ScheduleOnce ==
  ASSUME Inductive, OneRequest, Schedule
  PROVE  OneRequest'
<1> DEFINE v == [journal[current] EXCEPT !.state = "Processing", !.started = TRUE]
<1>1. /\ current \in DOMAIN journal /\ ~ journal[current].issue
      /\ journal[current].state = "Ready" /\ journal' = Update(current, v)
      /\ requests' = [requests EXCEPT ![current] = requests[current] + 1]
      /\ UNCHANGED <<nextRecord, events, kvs>>
  BY DEF Schedule, Scheduling
<1>2. v \in Record /\ v.state = "Processing" /\ ~ v.issue
  BY <1>1, CurrentFacts DEF Record, State
<1>3. /\ current \in RecordID /\ current < nextRecord
      /\ requests \in [RecordID -> Nat] /\ Mail' = Mail
  BY <1>1, Types DEF Inductive, TypeOK, DBInv, IDsUsed, Mail
<1> HIDE DEF v
<1>4. PICK c \in RecordID : c = current
  BY <1>3
<1>5. /\ journal'[c].state = "Processing" /\ ~ journal'[c].issue
      /\ \A r \in RecordID : r # c /\ r \in DOMAIN journal' =>
           r \in DOMAIN journal /\ journal'[r] = journal[r]
  <2>1. journal'[c] = v
    BY <1>1, <1>4, Types DEF Update
  <2>2. ~ journal'[c].issue
    BY <1>2, <2>1
  <2>3. \A r \in RecordID : r # c /\ r \in DOMAIN journal' =>
           r \in DOMAIN journal /\ journal'[r] = journal[r]
    BY <1>1, <1>4, Types DEF Update, Inductive
  <2> QED BY <1>2, <2>1, <2>2, <2>3
<1>6. AwaitsOutcome(c)' /\ \A r \in RecordID : AwaitsOutcome(r) => r # c /\ AwaitsOutcome(r)'
  BY <1>1, <1>4, <1>5 DEF AwaitsOutcome, Active
<1>7. /\ requests[c] = 0
      /\ \A i \in DOMAIN Mail : Mail[i].kind \in Outcome => Mail[i].record # c
      /\ requests'[c] = 1 /\ \A r \in RecordID : r # c => requests'[r] = requests[r]
  <2>1. requests[c] = 0
    BY <1>3, <1>4, <1>6 DEF OneRequest
  <2>2. \A i \in DOMAIN Mail : Mail[i].kind \in Outcome => Mail[i].record # c
    BY <1>4, <1>6 DEF OneRequest
  <2> QED BY <1>1, <1>3, <1>4, <2>1, <2>2
<1>8. ASSUME NEW r \in RecordID, requests'[r] > 0
      PROVE  requests'[r] = 1 /\ r < nextRecord' /\ AwaitsOutcome(r)'
  <2>1. CASE r = c
    BY <1>1, <1>3, <1>4, <1>6, <1>7, <2>1
  <2>2. CASE r # c
    <3>1. requests[r] = 1 /\ r < nextRecord /\ AwaitsOutcome(r)
      BY <1>7, <1>8, <2>2 DEF OneRequest
    <3>2. AwaitsOutcome(r)'
      BY <1>6, <3>1
    <3> QED BY <1>1, <1>7, <2>2, <3>1, <3>2
  <2> QED BY <2>1, <2>2
<1>9. \A r \in RecordID, i \in DOMAIN Mail' :
        Mail'[i].record = r /\ Mail'[i].kind \in Outcome =>
          requests'[r] = 0 /\ r < nextRecord' /\ AwaitsOutcome(r)'
  BY <1>1, <1>3, <1>6, <1>7 DEF OneRequest
<1>10. \A i, j \in DOMAIN Mail' :
         (Mail'[i].kind \in Outcome /\ Mail'[j].kind \in Outcome /\ Mail'[i].record = Mail'[j].record)
           => i = j
  BY <1>3 DEF OneRequest
<1> QED BY <1>8, <1>9, <1>10 DEF OneRequest

LEMMA RequestStep ==
  ASSUME Inductive, TypeOK', RequestInv, [Next]_vars
  PROVE  RequestInv'
<1> USE DEF Inductive
<1>1. CASE Crash
  <2>1. crashes' = crashes + 1 /\ crashes \in Nat
    BY <1>1 DEF Crash, TypeOK
  <2> QED BY <2>1 DEF RequestInv
<1>2. ASSUME ~ Crash PROVE crashes' = crashes
  BY <1>2, Zenon DEF Next, Network, User, Pass, Walking, Submit, Respond, Answer, Cancel, StartPass,
      VisitInProgress, EndInProgress, VisitReady, FinishPass, YieldPass, Commit, FetchRecord,
      LeaveLane, HandleEvent, DeleteLast, CancelRecord, Sideline, Wait, Schedule, ScheduleLocal,
      history, vars
<1>3. ASSUME OneRequest, ~ Crash PROVE OneRequest'
  <2>0. nextRecord \in Nat /\ Mail = events \o kvs /\ Mail' = events' \o kvs'
    BY Types DEF Mail
  <2>1. ASSUME NEW a \in Action, Submit(a) PROVE OneRequest'
    <3>1. /\ UNCHANGED <<events, kvs, requests>> /\ nextRecord' = nextRecord + 1
          /\ DOMAIN journal' = DOMAIN journal \cup {nextRecord}
          /\ \A r \in DOMAIN journal : r # nextRecord => journal'[r] = journal[r]
      BY <2>1 DEF Submit, With
    <3>2. \A r \in RecordID : r < nextRecord /\ AwaitsOutcome(r) => AwaitsOutcome(r)'
      BY <2>0, <3>1 DEF AwaitsOutcome, Active, RecordID
    <3> QED BY <1>3, <2>0, <3>1, <3>2, OneRequestKept
  <2>2. CASE StartPass
    <3>1. /\ UNCHANGED <<requests, nextRecord, journal>>
          /\ events' = events \o kvs /\ kvs' = << >>
      BY <2>2 DEF StartPass
    <3>2. Mail' = Mail
      BY <2>0, <3>1, Types
    <3> QED BY <1>3, <2>0, <3>1, <3>2, OneRequestKept DEF AwaitsOutcome, Active
  <2>3. CASE DeleteLast \/ CancelRecord \/ ScheduleLocal
    <3>1. /\ UNCHANGED <<requests, nextRecord, events, kvs>>
          /\ journal' = Without(journal, {current})
      BY <2>3 DEF DeleteLast, CancelRecord, ScheduleLocal
    <3>2. \A r \in RecordID : AwaitsOutcome(r) => AwaitsOutcome(r)'
      BY <3>1 DEF AwaitsOutcome, Active, Without
    <3> QED BY <1>3, <2>0, <3>1, <3>2, OneRequestKept
  <2>4. CASE UNCHANGED <<requests, nextRecord, events, kvs, journal>>
    BY <1>3, <2>0, <2>4, OneRequestKept DEF AwaitsOutcome, Active
  <2>5. ASSUME \/ \E r \in RecordID : Cancel(r)
               \/ VisitInProgress \/ EndInProgress \/ VisitReady \/ FinishPass \/ YieldPass
               \/ FetchRecord \/ LeaveLane \/ Sideline \/ Wait \/ UNCHANGED vars
        PROVE  UNCHANGED <<requests, nextRecord, events, kvs, journal>>
    BY <2>5 DEF Cancel, VisitInProgress, EndInProgress, VisitReady, FinishPass, YieldPass,
                Commit, FetchRecord, LeaveLane, Sideline, Wait, vars
  <2>6. ASSUME NEW r \in RecordID, NEW outcome \in Outcome, Respond(r, outcome)
        PROVE  OneRequest'
    BY <1>3, <2>6, RespondOnce
  <2>7. ASSUME NEW r \in RecordID, NEW choice \in Choice, Answer(r, choice)
        PROVE  OneRequest'
    BY <1>3, <2>7, AnswerOnce
  <2> QED BY <1>3, <2>1, <2>2, <2>3, <2>4, <2>5, <2>6, <2>7, HandleOnce, ScheduleOnce
          DEF Next, Network, User, Pass, Walking
<1> QED BY <1>1, <1>2, <1>3 DEF RequestInv

LEMMA RequestInit == Init => RequestInv
<1> SUFFICES ASSUME Init PROVE OneRequest
  BY DEF RequestInv
<1>1. events = << >> /\ kvs = << >> /\ \A r \in RecordID : requests[r] = 0
  BY DEF Init
<1>2. Mail = << >>
  BY <1>1 DEF Mail
<1> QED BY <1>1, <1>2 DEF OneRequest

\* Without a crash every record has at most one request under way, or one
\* outcome to handle: no retry, cancellation or late answer sends it twice.
THEOREM RequestsCounted == Spec => []RequestInv
<1>1. Inductive /\ RequestInv /\ [Next]_vars => RequestInv'
  BY RequestStep, TypeStep DEF Inductive
<1> QED BY <1>1, RequestInit, InductiveHolds, PTL DEF Spec

\* Two requests of one record are under way only after a crash, which rolled
\* back the pass that sent the first of them (-processSyncRecord: schedules
\* inside the transaction).
THEOREM DuplicatesExplained == Spec => []DuplicateRequestsAfterCrashOnly
<1>1. Inductive /\ RequestInv => DuplicateRequestsAfterCrashOnly
  <2> SUFFICES ASSUME Inductive, RequestInv, NEW r \in RecordID, requests[r] > 1
               PROVE  crashes > 0
    BY DEF DuplicateRequestsAfterCrashOnly
  <2>1. crashes \in Nat /\ requests[r] \in Nat
    BY DEF Inductive, TypeOK
  <2> QED BY <2>1 DEF RequestInv, OneRequest
<1> QED BY <1>1, InductiveHolds, RequestsCounted, PTL

-----------------------------------------------------------------------------
(* Which lanes a pass visits *)

\* The lane a visit takes is one of those that were left.
LEMMA HeadTaken ==
  ASSUME NEW S, S \subseteq LaneID, S # {}
  PROVE  Min(S) \in S /\ Min(S) # 0
<1>1. S \subseteq Nat /\ 0 \notin S
  BY DEF LaneID
<1> QED BY <1>1, LeastExists

LEMMA VisitStep ==
  ASSUME Inductive, VisitInv, [Next]_vars
  PROVE  VisitInv'
<1> USE DEF Inductive
<1>1. CASE StartPass
  <2>1. /\ phase' = "inProgress" /\ lane' = lane /\ phase = "idle"
        /\ heads'.inProgress \cap heads'.ready = {}
        /\ heads'.inProgress \cup heads'.ready = {journal[r].lane : r \in DOMAIN journal}
    BY <1>1 DEF StartPass, walk
  <2>2. lane = 0 /\ \A r \in DOMAIN journal : journal[r].lane # 0
    BY <2>1, Types DEF WalkInv, Record, LaneID
  <2> QED BY <2>1, <2>2 DEF VisitInv
<1>2. CASE VisitInProgress
  <2>1. /\ phase = "inProgress" /\ phase' = phase /\ lane' = Min(heads.inProgress)
        /\ heads' = [heads EXCEPT !.inProgress = heads.inProgress \ {Min(heads.inProgress)}]
        /\ heads.inProgress # {}
    BY <1>2 DEF VisitInProgress, Visit
  <2>2. /\ heads'.inProgress = heads.inProgress \ {lane'} /\ heads'.ready = heads.ready
    BY <2>1 DEF TypeOK
  <2>3. lane' \in heads.inProgress
    BY <2>1, Types, HeadTaken
  <2> QED BY <2>1, <2>2, <2>3 DEF VisitInv
<1>3. CASE VisitReady
  <2> DEFINE l == Min(heads.ready)
  <2>1. /\ phase = "ready" /\ phase' = phase /\ (lane' = l \/ lane' = lane)
        /\ heads' = [heads EXCEPT !.ready = heads.ready \ {l}]
        /\ heads.ready # {}
    BY <1>3 DEF VisitReady, Visit, walk
  <2>2. l \in heads.ready
    BY <2>1, Types, HeadTaken
  <2> HIDE DEF l
  <2>3. phase = "ready" /\ phase' = phase /\ (lane' = l \/ lane' = lane)
    BY <1>3 DEF VisitReady, Visit, walk, l
  <2>4. /\ heads'.inProgress = heads.inProgress /\ heads'.ready = heads.ready \ {l}
    BY <2>1 DEF TypeOK
  <2> QED BY <2>2, <2>3, <2>4 DEF VisitInv
<1>4. CASE EndInProgress
  BY <1>4 DEF EndInProgress, VisitInv, walk
<1>5. CASE FinishPass \/ YieldPass \/ Crash
  BY <1>5 DEF FinishPass, YieldPass, Commit, Crash, VisitInv
<1>6. ASSUME \/ \E a \in Action : Submit(a)
             \/ \E r \in RecordID : Cancel(r)
             \/ Network \/ User \/ Walking \/ UNCHANGED vars
      PROVE  /\ UNCHANGED <<phase, heads>>
             /\ lane' = lane \/ lane' = 0
  BY <1>6 DEF Submit, Cancel, Network, Respond, User, Answer, Walking, FetchRecord, LeaveLane,
              HandleEvent, DeleteLast, CancelRecord, Sideline, Wait, Schedule, ScheduleLocal,
              Advance, StopLane, walk, vars
<1>7. 0 \notin heads.inProgress \cup heads.ready
  BY Types DEF LaneID
<1>8. ASSUME UNCHANGED <<phase, heads>>, lane' = lane \/ lane' = 0
      PROVE  VisitInv'
  BY <1>7, <1>8 DEF VisitInv
<1> QED BY <1>1, <1>2, <1>3, <1>4, <1>5, <1>6, <1>8 DEF Next, Pass

-----------------------------------------------------------------------------
(* Lanes phase 2 visits have no record in progress *)

\* A lane is in the first phase if one of its records is in progress.
LEMMA StartedLanesFirst ==
  ASSUME Inductive, StartPass, NEW r \in DOMAIN journal, Active(r)
  PROVE  journal[r].lane \in heads'.inProgress
<1> DEFINE l == journal[r].lane
           used == {journal[s].lane : s \in DOMAIN journal}
<1>1. r \in OnLane(l) /\ OnLane(l) \subseteq DOMAIN journal /\ OnLane(l) \subseteq Nat
  BY Types DEF OnLane, RecordID, Inductive
<1>2. LaneHead(l) \in OnLane(l) /\ LaneHead(l) <= r
  BY <1>1, LeastExists DEF LaneHead
<1>3. r <= LaneHead(l)
  BY <1>2 DEF Inductive, DBInv, StartedInOrder, OnLane, Active
<1>4. LaneHead(l) = r
  BY <1>1, <1>2, <1>3
<1>5. journal[r].started
  BY DEF Inductive, DBInv, StartedInOrder, Active
<1>6. l \in used
  OBVIOUS
<1>7. heads'.inProgress = {x \in used : journal[LaneHead(x)].started}
  BY DEF StartPass
<1> QED BY <1>4, <1>5, <1>6, <1>7

\* The part of ReadyInv about lanes still to be visited and about the lane
\* being walked.
ReadyLanesQuiet ==
  /\ \A r \in DOMAIN journal : journal[r].lane \in heads.ready => ~ Active(r)
  /\ \A r \in DOMAIN journal :
       phase = "ready" /\ journal[r].lane = lane /\ r # current => ~ Active(r)

LEMMA QuietStep ==
  ASSUME Inductive, TypeOK', VisitInv, ReadyLanesQuiet, [Next]_vars
  PROVE  ReadyLanesQuiet'
<1> USE DEF Inductive
<1>0. /\ \A r \in DOMAIN journal : journal[r].lane # 0
      /\ \A r \in DOMAIN journal' : journal'[r].lane # 0
  <2>1. \A r \in DOMAIN journal : journal[r] \in Record
    BY DEF TypeOK, DB
  <2>2. \A r \in DOMAIN journal' : journal'[r] \in Record
    BY DEF TypeOK, DB
  <2>3. \A x \in Record : x.lane # 0
    BY DEF Record, LaneID
  <2> QED BY <2>1, <2>2, <2>3
<1>1. ASSUME phase' = "idle", heads'.ready = {} PROVE ReadyLanesQuiet'
  BY <1>1 DEF ReadyLanesQuiet
<1>2. ASSUME \/ \E a \in Action : Submit(a)
             \/ FinishPass \/ YieldPass \/ Crash
      PROVE  phase' = "idle" /\ heads'.ready = {}
  <2>1. CASE \E a \in Action : Submit(a)
    <3>1. phase = "idle" /\ UNCHANGED <<phase, heads>>
      BY <2>1 DEF Submit
    <3> QED BY <3>1 DEF VisitInv
  <2>2. CASE FinishPass \/ YieldPass \/ Crash
    BY <2>2 DEF FinishPass, YieldPass, Commit, Crash
  <2> QED BY <1>2, <2>1, <2>2
<1>3. CASE StartPass
  <2>1. /\ phase' = "inProgress" /\ journal' = journal
        /\ heads'.inProgress \cap heads'.ready = {}
    BY <1>3 DEF StartPass
  <2> QED BY <1>3, <2>1, StartedLanesFirst DEF ReadyLanesQuiet, Active
<1>4. CASE VisitInProgress
  <2>1. /\ phase' = "inProgress" /\ journal' = journal /\ heads'.ready = heads.ready
    BY <1>4 DEF VisitInProgress, TypeOK
  <2> QED BY <2>1 DEF ReadyLanesQuiet, Active
<1>5. CASE VisitReady
  <2> DEFINE l == Min(heads.ready)
  <2>1. /\ journal' = journal /\ phase = "ready" /\ phase' = "ready" /\ lane = 0
        /\ heads.ready # {}
    BY <1>5 DEF VisitReady, Between
  <2>2. l \in heads.ready
    BY <2>1, Types, HeadTaken
  <2> HIDE DEF l
  <2>3. lane' = l \/ lane' = 0
    BY <1>5, <2>1 DEF VisitReady, Visit, walk, l
  <2>4. heads'.ready \subseteq heads.ready
    BY <1>5 DEF VisitReady, TypeOK
  <2> QED BY <1>0, <2>1, <2>2, <2>3, <2>4 DEF ReadyLanesQuiet, Active
<1>6. CASE EndInProgress
  <2>1. UNCHANGED <<journal, heads, lane>> /\ lane = 0
    BY <1>6 DEF EndInProgress, Between, walk
  <2> QED BY <1>0, <2>1 DEF ReadyLanesQuiet, Active
<1>7. CASE UNCHANGED <<journal, phase, heads, lane, current>>
  BY <1>7 DEF ReadyLanesQuiet, Active
<1>8. ASSUME \/ \E r \in RecordID : Cancel(r)
             \/ Network \/ User \/ UNCHANGED vars
      PROVE  UNCHANGED <<journal, phase, heads, lane, current>>
  BY <1>8 DEF Cancel, Network, Respond, User, Answer, walk, vars
<1>9. CASE Walking
  <2>1. /\ UNCHANGED <<phase, heads>>
        /\ \/ lane' = 0
           \/ lane' = lane /\ current' = current
           \/ lane' = lane /\ current' # current /\ current = 0 /\ journal' = journal
           \/ lane' = lane /\ current \notin DOMAIN journal'
    BY <1>9 DEF Walking, FetchRecord, LeaveLane, HandleEvent, DeleteLast, CancelRecord, Sideline,
         Wait, Schedule, ScheduleLocal, Advance, StopLane, Handled, Without
  <2>2. current \in DOMAIN journal => lane \notin heads.ready /\ journal[current].lane = lane
    BY CurrentFacts DEF VisitInv
  <2>3. /\ DOMAIN journal' \subseteq DOMAIN journal
        /\ \A r \in DOMAIN journal' : /\ journal'[r].lane = journal[r].lane
                                      /\ r # current => journal'[r] = journal[r]
    BY <1>9, OnlyCurrentChanges
  <2>4. 0 \notin DOMAIN journal
    BY Types DEF RecordID
  <2>5. ASSUME NEW r \in DOMAIN journal', journal'[r].lane \in heads'.ready
        PROVE  ~ Active(r)'
    BY <2>1, <2>2, <2>3, <2>5 DEF ReadyLanesQuiet, Active
  <2>6. ASSUME NEW r \in DOMAIN journal', phase' = "ready", journal'[r].lane = lane', r # current'
        PROVE  ~ Active(r)'
    <3>1. lane' = lane /\ r # current
      BY <1>0, <2>1, <2>3, <2>4, <2>6
    <3> QED BY <2>1, <2>3, <2>6, <3>1 DEF ReadyLanesQuiet, Active
  <2> QED BY <2>5, <2>6 DEF ReadyLanesQuiet
<1> QED BY <1>1, <1>2, <1>3, <1>4, <1>5, <1>6, <1>7, <1>8, <1>9 DEF Next, Pass

-----------------------------------------------------------------------------
(* A completed record is about to be deleted *)

CompletedLeave ==
  /\ \A r \in DOMAIN journal :
       journal[r].state = "Completed" => r = current /\ instruction = "DeleteLast"
  /\ \A r \in DOMAIN snapshot[1] : snapshot[1][r].state # "Completed"

LEMMA CompletedStep ==
  ASSUME Inductive, CompletedLeave, [Next]_vars
  PROVE  CompletedLeave'
<1> USE DEF Inductive
<1> DEFINE None(j) == \A r \in DOMAIN j : j[r].state # "Completed"
<1>1. ASSUME current = 0 \/ instruction # "DeleteLast" PROVE None(journal)
  <2>1. 0 \notin DOMAIN journal
    BY Types DEF RecordID
  <2> QED BY <1>1, <2>1 DEF CompletedLeave
<1>2. None(snapshot[1])
  BY DEF CompletedLeave
<1>3. lane = 0 => current = 0
  BY DEF WalkInv
<1>4. ASSUME None(journal)', None(snapshot[1])' PROVE CompletedLeave'
  BY <1>4 DEF CompletedLeave
<1>5. ASSUME NEW a \in Action, Submit(a) PROVE CompletedLeave'
  <2>1. /\ current = 0 /\ snapshot'[1] = journal'
        /\ DOMAIN journal' = DOMAIN journal \cup {nextRecord}
        /\ journal'[nextRecord].state = "Ready"
        /\ \A r \in DOMAIN journal : r # nextRecord => journal'[r] = journal[r]
    BY <1>3, <1>5 DEF Submit, With, WalkInv
  <2>2. None(journal)'
    BY <1>1, <2>1
  <2> QED BY <1>4, <2>1, <2>2
<1>6. CASE Crash
  <2>1. journal' = snapshot[1] /\ snapshot' = snapshot
    BY <1>6 DEF Crash
  <2> QED BY <1>2, <1>4, <2>1
<1>7. CASE StartPass \/ FinishPass \/ YieldPass
  <2>1. /\ current = 0 /\ journal' = journal /\ snapshot'[1] = journal
    BY <1>3, <1>7 DEF StartPass, FinishPass, YieldPass, Commit, Between, database, WalkInv
  <2> QED BY <1>1, <1>4, <2>1
<1>8. CASE VisitInProgress \/ VisitReady \/ FetchRecord \/ LeaveLane \/ Sideline \/ Wait
  <2>1. UNCHANGED <<journal, snapshot>> /\ (current = 0 \/ instruction # "DeleteLast")
    BY <1>3, <1>8 DEF VisitInProgress, VisitReady, FetchRecord, LeaveLane, Sideline, Wait,
                      Between, Undecided
  <2> QED BY <1>1, <1>2, <1>4, <2>1
<1>9. CASE HandleEvent
  <2>1. snapshot' = snapshot /\ current' = current
    BY <1>9 DEF HandleEvent
  <2>2. \A r \in DOMAIN journal' :
          r # current => r \in DOMAIN journal /\ journal'[r] = journal[r]
    BY <1>9, OnlyCurrentChanges DEF Walking
  <2>3. current \in DOMAIN journal' /\ journal'[current].state = "Completed"
          => instruction' = "DeleteLast"
    <3>1. \/ journal' = journal /\ instruction' = instruction
          \/ journal'[current].state = "Completed" => instruction' = "DeleteLast"
          \/ journal'[current].state = "Ready"
          \/ current \notin DOMAIN journal'
      BY <1>9, HandledEvent
    <3> QED BY <3>1 DEF CompletedLeave
  <2>4. \A r \in DOMAIN journal' : r # current => journal'[r].state # "Completed"
    BY <2>2 DEF CompletedLeave
  <2> QED BY <1>2, <2>1, <2>3, <2>4 DEF CompletedLeave
<1>10. CASE DeleteLast \/ CancelRecord \/ ScheduleLocal
  <2>1. journal' = Without(journal, {current}) /\ snapshot' = snapshot
    BY <1>10 DEF DeleteLast, CancelRecord, ScheduleLocal
  <2>2. None(journal)'
    BY <2>1 DEF CompletedLeave, Without
  <2> QED BY <1>2, <1>4, <2>1, <2>2
<1>11. CASE Schedule
  <2> DEFINE v == [journal[current] EXCEPT !.state = "Processing", !.started = TRUE]
  <2>1. /\ current \in DOMAIN journal /\ journal' = Update(current, v)
        /\ snapshot' = snapshot /\ instruction # "DeleteLast"
    BY <1>11 DEF Schedule, Scheduling, Undecided
  <2>2. v.state = "Processing"
    BY <2>1, CurrentFacts DEF Record
  <2> HIDE DEF v
  <2>3. None(journal)'
    BY <1>1, <2>1, <2>2, Types DEF Update
  <2> QED BY <1>2, <1>4, <2>1, <2>3
<1>12. CASE UNCHANGED <<journal, snapshot, current, instruction>>
  BY <1>12 DEF CompletedLeave
<1>13. ASSUME \/ \E r \in RecordID : Cancel(r)
              \/ Network \/ User \/ EndInProgress \/ UNCHANGED vars
       PROVE  UNCHANGED <<journal, snapshot, current, instruction>>
  BY <1>13 DEF Cancel, Network, Respond, User, Answer, EndInProgress, walk, vars
<1> QED BY <1>5, <1>6, <1>7, <1>8, <1>9, <1>10, <1>11, <1>12, <1>13 DEF Next, Pass, Walking

-----------------------------------------------------------------------------
(* What is counted *)

LEMMA SetsOfRecords ==
  ASSUME NEW S, S \subseteq RecordID
  PROVE  /\ IsFiniteSet(S) /\ Cardinality(S) \in Nat
         /\ \A T : T \subseteq S => Cardinality(T) <= Cardinality(S)
         /\ \A x \in S : \A T : T \subseteq S \ {x} => Cardinality(T) <= Cardinality(S) - 1
         /\ \A x, T : T \subseteq S \cup {x} => Cardinality(T) <= Cardinality(S) + 1
<1>1. IsFiniteSet(RecordID)
  BY FS_Interval, BoundsAssumption DEF RecordID
<1>2. IsFiniteSet(S)
  BY <1>1, FS_Subset
<1>3. Cardinality(S) \in Nat
  BY <1>2, FS_CardinalityType
<1>4. ASSUME NEW T, T \subseteq S PROVE Cardinality(T) <= Cardinality(S)
  BY <1>2, <1>4, FS_Subset
<1>5. ASSUME NEW x \in S, NEW T, T \subseteq S \ {x} PROVE Cardinality(T) <= Cardinality(S) - 1
  <2>1. IsFiniteSet(S \ {x}) /\ Cardinality(S \ {x}) = Cardinality(S) - 1
    BY <1>2, FS_RemoveElement
  <2>2. Cardinality(T) <= Cardinality(S \ {x})
    BY <1>5, <2>1, FS_Subset
  <2> QED BY <2>1, <2>2
<1>6. ASSUME NEW x, NEW T, T \subseteq S \cup {x} PROVE Cardinality(T) <= Cardinality(S) + 1
  <2>1. /\ IsFiniteSet(S \cup {x})
        /\ Cardinality(S \cup {x}) = IF x \in S THEN Cardinality(S) ELSE Cardinality(S) + 1
    BY <1>2, FS_AddElement
  <2>2. IsFiniteSet(T) /\ Cardinality(T) <= Cardinality(S \cup {x})
    BY <1>6, <2>1, FS_Subset
  <2>3. Cardinality(T) \in Nat
    BY <2>2, FS_CardinalityType
  <2> QED BY <1>3, <2>1, <2>2, <2>3
<1> QED BY <1>2, <1>3, <1>4, <1>5, <1>6

\* Between walks, and at the end of one that found no record to process, no
\* record in progress on the lane is left out of the count.
LEMMA NoneLeftOnLane ==
  ASSUME Inductive, current = 0, NEW r \in OnLane(lane), Active(r)
  PROVE  Following # {} /\ r = Min(Following)
<1>1. /\ r \in DOMAIN journal /\ r \in Nat /\ last < r /\ journal[r].lane = lane
      /\ OnLane(lane) \subseteq DOMAIN journal /\ DOMAIN journal \subseteq Nat
  BY Types DEF Inductive, WalkInv, OnLane, RecordID
<1>2. r \in Following /\ Following \subseteq OnLane(lane) /\ Following \subseteq Nat
  BY <1>1 DEF Following
<1>3. Min(Following) \in Following /\ Min(Following) <= r
  BY <1>2, LeastExists
<1>4. r <= Min(Following)
  BY <1>1, <1>2, <1>3 DEF Inductive, DBInv, StartedInOrder, OnLane, Active
<1>5. Min(Following) \in Nat
  BY <1>2, <1>3
<1> QED BY <1>1, <1>2, <1>3, <1>4, <1>5

\* The current record is counted while it is processed, and a step that
\* processes it counts no other.
LEMMA CountedProcessing ==
  ASSUME Inductive, TypeOK', VisitInv, Walking, current # 0, NEW c
  PROVE  /\ Counted(c)' \subseteq Counted(c)
         /\ current \in DOMAIN journal /\ c \in Categories[journal[current].action] =>
              current \in Counted(c)
<1> USE DEF Inductive
<1>1. /\ UNCHANGED heads /\ (current' = 0 \/ current' = current)
      /\ current' = current => lane' = lane
  BY DEF Walking, FetchRecord, LeaveLane, HandleEvent, DeleteLast, CancelRecord, Sideline, Wait,
         Schedule, ScheduleLocal, Advance, StopLane
<1>2. Uncounted = heads.inProgress /\ heads.inProgress \subseteq Uncounted'
  BY <1>1 DEF Uncounted
<1>3. /\ DOMAIN journal' \subseteq DOMAIN journal
      /\ \A r \in DOMAIN journal' : /\ journal'[r].action = journal[r].action
                                    /\ journal'[r].lane = journal[r].lane
                                    /\ r # current => journal'[r] = journal[r]
  BY OnlyCurrentChanges
<1>4. current \in DOMAIN journal => journal[current].lane \notin Uncounted
  BY <1>2, CurrentFacts DEF VisitInv
<1>5. ASSUME NEW r \in Counted(c)' PROVE r \in Counted(c)
  <2>1. /\ r \in DOMAIN journal' /\ c \in Categories[journal[r].action]
        /\ journal[r].lane \notin Uncounted /\ r \in DOMAIN journal
    BY <1>2, <1>3, <1>5 DEF Counted
  <2>2. CASE r = current
    BY <2>1, <2>2 DEF Counted
  <2>3. CASE r # current
    <3>1. r # current'
      BY <1>1, <2>1, <2>3, Types DEF RecordID
    <3>2. journal'[r].state = "Processing" /\ ~ journal'[r].issue /\ journal'[r] = journal[r]
      BY <1>3, <1>5, <2>1, <2>3, <3>1 DEF Counted, Active
    <3> QED BY <2>1, <3>2 DEF Counted, Active
  <2> QED BY <2>2, <2>3
<1> QED BY <1>4, <1>5 DEF Counted

\* A record that leaves the journal, or waits for an answer, is not counted on.
LEMMA CountedWithout ==
  ASSUME Inductive, TypeOK', VisitInv, Walking, current # 0, current' = 0, NEW c,
         current \in DOMAIN journal' => journal'[current].issue
  PROVE  current \notin Counted(c)'
<1>1. current \in Counted(c)' => current \in DOMAIN journal' /\ ~ journal'[current].issue
  <2> PICK r \in RecordID : r = current
    BY Types DEF Inductive
  <2>1. r \in Counted(c)' => r \in DOMAIN journal' /\ ~ journal'[r].issue
    BY DEF Counted
  <2> QED BY <2>1
<1> QED BY <1>1

\* Every record a pass charged to a budget and did not give back is counted.
Charged == phase # "idle" => \A c \in Category : Cardinality(Counted(c)) <= running[c]

LEMMA CountedRecords ==
  ASSUME TypeOK, NEW c
  PROVE  Counted(c) \subseteq RecordID
BY Types DEF Counted

\* Fewer records under the same charge.
LEMMA ChargedKept ==
  ASSUME Inductive, Charged, UNCHANGED running, phase' # "idle" => phase # "idle",
         \A c \in Category : Counted(c)' \subseteq Counted(c)
  PROVE  Charged'
<1> SUFFICES ASSUME phase' # "idle", NEW c \in Category
             PROVE  Cardinality(Counted(c)') <= running[c]
  BY DEF Charged
<1>1. Cardinality(Counted(c)) <= running[c] /\ running[c] \in Int
  BY Types DEF Charged, Inductive
<1>2. Counted(c) \subseteq RecordID
  BY CountedRecords DEF Inductive
<1>3. /\ Cardinality(Counted(c)) \in Nat
      /\ \A T : T \subseteq Counted(c) => Cardinality(T) <= Cardinality(Counted(c))
  BY <1>2, SetsOfRecords
<1>4. Cardinality(Counted(c)') <= Cardinality(Counted(c))
  BY <1>3
<1>5. Counted(c)' \subseteq RecordID
  BY <1>2
<1>6. Cardinality(Counted(c)') \in Nat
  BY <1>5, SetsOfRecords
<1> QED BY <1>1, <1>3, <1>4, <1>6

\* One record less, and its charge given back.
LEMMA ChargeReturned ==
  ASSUME Inductive, TypeOK', VisitInv, Charged, Walking, current # 0, current' = 0,
         current \in DOMAIN journal,
         current \in DOMAIN journal' => journal'[current].issue,
         running' = Count(journal[current].action, -1), phase' = phase
  PROVE  Charged'
<1> SUFFICES ASSUME phase # "idle", NEW c \in Category
             PROVE  Cardinality(Counted(c)') <= running'[c]
  BY DEF Charged
<1>1. Cardinality(Counted(c)) <= running[c] /\ running[c] \in Int
  BY Types DEF Charged, Inductive
<1>2. /\ Counted(c)' \subseteq Counted(c)
      /\ c \in Categories[journal[current].action] => current \in Counted(c)
      /\ current \notin Counted(c)'
  BY CountedProcessing, CountedWithout
<1>3. Counted(c) \subseteq RecordID /\ Counted(c)' \subseteq RecordID
  BY <1>2, CountedRecords DEF Inductive
<1>4. /\ Cardinality(Counted(c)) \in Nat
      /\ \A T : T \subseteq Counted(c) => Cardinality(T) <= Cardinality(Counted(c))
      /\ \A x \in Counted(c) : \A T : T \subseteq Counted(c) \ {x} =>
           Cardinality(T) <= Cardinality(Counted(c)) - 1
      /\ Cardinality(Counted(c)') \in Nat
  BY <1>3, SetsOfRecords
<1>5. CASE c \in Categories[journal[current].action]
  <2>1. running'[c] = running[c] - 1
    BY <1>1, <1>5 DEF Count
  <2>2. Cardinality(Counted(c)') <= Cardinality(Counted(c)) - 1
    BY <1>2, <1>4, <1>5
  <2> QED BY <1>1, <1>4, <2>1, <2>2
<1>6. CASE c \notin Categories[journal[current].action]
  <2>1. running'[c] = running[c]
    BY <1>1, <1>6 DEF Count
  <2>2. Cardinality(Counted(c)') <= Cardinality(Counted(c))
    BY <1>2, <1>4
  <2> QED BY <1>1, <1>4, <2>1, <2>2
<1> QED BY <1>5, <1>6

\* A pass starts with nothing counted: the lanes with a record in progress are
\* all still to be visited.
LEMMA ChargedFromNothing ==
  ASSUME Inductive, TypeOK', StartPass
  PROVE  Charged'
<1> SUFFICES ASSUME NEW c \in Category
             PROVE  Cardinality(Counted(c)') <= running'[c]
  BY DEF Charged
<1>1. /\ journal' = journal /\ current' = 0 /\ running' = Zero
  BY DEF StartPass, walk, Inductive, WalkInv
<1>2. ASSUME NEW r \in Counted(c)' PROVE FALSE
  <2>1. r \in DOMAIN journal /\ r # 0
    BY <1>1, <1>2, Types DEF Counted, RecordID, Inductive
  <2>2. Active(r) /\ journal[r].lane \notin heads'.inProgress
    BY <1>1, <1>2, <2>1 DEF Counted, Uncounted, Active
  <2> QED BY <2>1, <2>2, StartedLanesFirst
<1>3. Counted(c)' = {}
  BY <1>2
<1>4. running'[c] = 0
  BY <1>1 DEF Zero
<1>5. Cardinality({}) = 0
  BY FS_EmptySet
<1> QED BY <1>3, <1>4, <1>5

\* A walk that finds nothing to process leaves no record in progress behind.
LEMMA ChargedWalkEnds ==
  ASSUME Inductive, TypeOK', Charged, current = 0, current' = 0, lane' = 0,
         UNCHANGED <<journal, heads, running, phase>>,
         \A r \in OnLane(lane) : ~ Active(r)
  PROVE  Charged'
<1>1. ASSUME NEW c \in Category, NEW r \in Counted(c)' PROVE r \in Counted(c)
  <2>1. /\ r \in DOMAIN journal /\ r # 0 /\ c \in Categories[journal[r].action]
        /\ journal[r].lane \notin heads.inProgress
    BY <1>1, Types DEF Counted, RecordID, Uncounted, Inductive
  <2>2. Active(r) /\ ~ journal[r].issue
    BY <1>1, <2>1 DEF Counted, Active
  <2>3. journal[r].lane # lane
    BY <2>1, <2>2 DEF OnLane
  <2> QED BY <2>1, <2>2, <2>3 DEF Counted, Uncounted
<1> QED BY <1>1, ChargedKept

\* The record that is taken is charged, and it is the one record in progress
\* its lane can have.
LEMMA ChargedFetch ==
  ASSUME Inductive, TypeOK', Charged, FetchRecord, current' # 0
  PROVE  Charged'
<1> DEFINE n == Min(Following)
           a == journal[n].action
<1>1. /\ current = 0 /\ current' = n /\ running' = Count(a, 1) /\ Following # {}
      /\ UNCHANGED <<journal, heads, phase, lane>>
  BY DEF FetchRecord, StopLane
<1> SUFFICES ASSUME phase # "idle", NEW c \in Category
             PROVE  Cardinality(Counted(c)') <= running'[c]
  BY <1>1 DEF Charged
<1>2. Cardinality(Counted(c)) <= running[c] /\ running[c] \in Int
  BY Types DEF Charged, Inductive
<1>3. ASSUME NEW r \in Counted(c)', r # n PROVE r \in Counted(c)
  <2>1. /\ r \in DOMAIN journal /\ c \in Categories[journal[r].action]
        /\ journal[r].lane \notin heads.inProgress
        /\ Active(r) /\ ~ journal[r].issue
    BY <1>1, <1>3 DEF Counted, Uncounted, Active
  <2>2. journal[r].lane # lane
    BY <1>1, <1>3, <2>1, NoneLeftOnLane DEF OnLane
  <2> QED BY <2>1, <2>2 DEF Counted, Uncounted
<1>4. n \in Counted(c)' => c \in Categories[a]
  BY <1>1 DEF Counted
<1> HIDE DEF n, a
<1>5. Counted(c) \subseteq RecordID
  BY CountedRecords DEF Inductive
<1>6. Counted(c)' \subseteq Counted(c) \cup {n}
  BY <1>3
<1>7. /\ Cardinality(Counted(c)) \in Nat
      /\ \A T : T \subseteq Counted(c) => Cardinality(T) <= Cardinality(Counted(c))
      /\ \A x, T : T \subseteq Counted(c) \cup {x} => Cardinality(T) <= Cardinality(Counted(c)) + 1
  BY <1>5, SetsOfRecords
<1>8. Cardinality(Counted(c)') \in Nat
  <2>1. Counted(c)' \subseteq RecordID
    BY DEF Counted, TypeOK, DB
  <2> QED BY <2>1, SetsOfRecords
<1>9. CASE c \in Categories[a]
  <2>1. running'[c] = running[c] + 1
    BY <1>1, <1>2, <1>9 DEF Count
  <2>2. Cardinality(Counted(c)') <= Cardinality(Counted(c)) + 1
    BY <1>6, <1>7
  <2> QED BY <1>2, <1>7, <1>8, <2>1, <2>2
<1>10. CASE c \notin Categories[a]
  <2>1. running'[c] = running[c]
    BY <1>1, <1>2, <1>10 DEF Count
  <2>2. Cardinality(Counted(c)') <= Cardinality(Counted(c))
    BY <1>4, <1>6, <1>7, <1>10
  <2> QED BY <1>2, <1>7, <1>8, <2>1, <2>2
<1> QED BY <1>9, <1>10

LEMMA ChargedStep ==
  ASSUME Inductive, TypeOK', VisitInv, Charged, [Next]_vars
  PROVE  Charged'
<1> USE DEF Inductive
<1>1. ASSUME \/ \E a \in Action : Submit(a)
             \/ User \/ FinishPass \/ YieldPass \/ Crash
      PROVE  phase' = "idle"
  BY <1>1 DEF Submit, User, Answer, FinishPass, YieldPass, Commit, Crash
<1>2. CASE VisitInProgress \/ EndInProgress \/ VisitReady
  <2>1. /\ current = 0 /\ current' = 0 /\ lane = 0 /\ UNCHANGED <<journal, running>>
        /\ phase # "idle"
        /\ heads.inProgress \subseteq heads'.inProgress \cup {lane'}
    BY <1>2 DEF VisitInProgress, EndInProgress, VisitReady, Visit, Between, walk, WalkInv, TypeOK
  <2>2. ASSUME NEW c \in Category, NEW r \in Counted(c)' PROVE r \in Counted(c)
    <3>1. journal[r].lane # 0 /\ r # 0 /\ r \in DOMAIN journal
      BY <2>1, <2>2, Types DEF Counted, Record, LaneID, RecordID
    <3> QED BY <2>1, <2>2, <3>1 DEF Counted, Uncounted, Active
  <2> QED BY <2>1, <2>2, ChargedKept
<1>3. CASE LeaveLane
  <2>1. /\ current = 0 /\ current' = 0 /\ lane' = 0 /\ Following = {}
        /\ UNCHANGED <<journal, heads, running, phase>>
    BY <1>3 DEF LeaveLane, StopLane
  <2>2. \A r \in OnLane(lane) : ~ Active(r)
    BY <2>1, NoneLeftOnLane
  <2> QED BY <2>1, <2>2, ChargedWalkEnds
<1>4. CASE FetchRecord /\ current' = 0
  <2>1. /\ current = 0 /\ Following # {} /\ UNCHANGED <<journal, heads, phase>>
    BY <1>4 DEF FetchRecord
  <2>2. Min(Following) # 0
    <3>1. Following \subseteq Nat /\ 0 \notin Following
      BY Types DEF Following, OnLane, RecordID
    <3> QED BY <2>1, <3>1, LeastExists
  <2>3. /\ journal[Min(Following)].state = "Ready" /\ lane' = 0 /\ running' = running
    BY <1>4, <2>2 DEF FetchRecord, StopLane
  <2>4. \A r \in OnLane(lane) : ~ Active(r)
    BY <2>1, <2>3, NoneLeftOnLane DEF Active
  <2> QED BY <1>4, <2>1, <2>3, <2>4, ChargedWalkEnds
<1>5. CASE FetchRecord /\ current' # 0
  BY <1>5, ChargedFetch
<1>6. CASE HandleEvent \/ CancelRecord \/ Wait \/ Schedule
  <2>1. current # 0 /\ UNCHANGED <<running, phase>>
    BY <1>6 DEF HandleEvent, CancelRecord, Wait, Schedule, Scheduling, Undecided, Handled
  <2>2. Walking
    BY <1>6 DEF Walking
  <2>3. \A c \in Category : Counted(c)' \subseteq Counted(c)
    BY <2>1, <2>2, CountedProcessing
  <2> QED BY <2>1, <2>3, ChargedKept
<1>7. CASE DeleteLast /\ current \notin DOMAIN journal
  <2>1. current # 0 /\ UNCHANGED <<running, phase>> /\ Walking
    BY <1>7 DEF DeleteLast, Handled, Walking
  <2>2. \A c \in Category : Counted(c)' \subseteq Counted(c)
    BY <2>1, CountedProcessing
  <2> QED BY <2>1, <2>2, ChargedKept
<1>8. CASE \/ DeleteLast /\ current \in DOMAIN journal
           \/ ScheduleLocal \/ Sideline
  <2>1. /\ current # 0 /\ current' = 0 /\ current \in DOMAIN journal /\ phase' = phase
        /\ running' = Count(journal[current].action, -1)
    BY <1>8 DEF DeleteLast, ScheduleLocal, Sideline, Scheduling, Undecided, Handled, Advance,
                StopLane
  <2>2. current \in DOMAIN journal' => journal'[current].issue
    BY <1>8 DEF DeleteLast, ScheduleLocal, Sideline, Without
  <2>3. Walking
    BY <1>8 DEF Walking
  <2> QED BY <2>1, <2>2, <2>3, ChargeReturned
<1>9. ASSUME \/ \E r \in RecordID : Cancel(r)
             \/ Network \/ UNCHANGED vars
      PROVE  UNCHANGED <<journal, phase, heads, lane, current, running>>
  BY <1>9 DEF Cancel, Network, Respond, walk, vars
<1>10. CASE UNCHANGED <<journal, phase, heads, lane, current, running>>
  BY <1>10 DEF Charged, Counted, Uncounted, Active
<1> QED BY <1>1, <1>2, <1>3, <1>4, <1>5, <1>6, <1>7, <1>8, <1>9, <1>10, ChargedFromNothing
        DEF Next, Pass, Walking, Charged

-----------------------------------------------------------------------------
(* Phase 2 stays within the budgets *)

\* Phase 2 takes a record only while each of its budgets has room for it.
WithinBudget ==
  phase = "ready" /\ current \in DOMAIN journal =>
    \A c \in Categories[journal[current].action] : Budget[c] > 0 => running[c] <= Budget[c]

LEMMA WithinBudgetStep ==
  ASSUME Inductive, TypeOK', ReadyLanesQuiet, CompletedLeave, WithinBudget, [Next]_vars
  PROVE  WithinBudget'
<1> USE DEF Inductive
<1>0. 0 \notin DOMAIN journal /\ 0 \notin DOMAIN journal'
  BY DEF TypeOK, DB, RecordID
<1>1. ASSUME phase' # "ready" \/ current' \notin DOMAIN journal' PROVE WithinBudget'
  BY <1>1 DEF WithinBudget
<1>2. ASSUME \/ \E a \in Action : Submit(a)
             \/ User \/ StartPass \/ VisitInProgress \/ EndInProgress \/ VisitReady
             \/ FinishPass \/ YieldPass \/ Crash \/ LeaveLane \/ DeleteLast \/ CancelRecord
             \/ Sideline \/ Wait \/ Schedule \/ ScheduleLocal
      PROVE  phase' # "ready" \/ current' = 0
  BY <1>2 DEF Submit, User, Answer, StartPass, VisitInProgress, EndInProgress, VisitReady, Visit,
              FinishPass, YieldPass, Commit, Crash, LeaveLane, DeleteLast, CancelRecord, Sideline,
              Wait, Schedule, ScheduleLocal, Advance, StopLane, Between, walk, WalkInv
<1>3. ASSUME FetchRecord, phase' = "ready", current' # 0 PROVE WithinBudget'
  <2> DEFINE n == Min(Following)
             a == journal[n].action
  <2>1. /\ current = 0 /\ current' = n /\ running' = Count(a, 1) /\ Following # {}
        /\ UNCHANGED <<journal, phase>>
        /\ journal[n].state = "Ready" => ShouldRun(a)
    BY <1>3 DEF FetchRecord, StopLane
  <2>2. n \in Following
    <3>1. Following \subseteq Nat
      BY Types DEF Following, OnLane, RecordID
    <3> QED BY <2>1, <3>1, LeastExists
  <2> HIDE DEF n
  <2>3. n \in DOMAIN journal /\ journal[n].lane = lane /\ n # 0 /\ journal[n] \in Record
    BY <1>0, <2>2, Types DEF Following, OnLane
  <2>4. journal[n].state \in State
    BY <2>3 DEF Record
  <2>5. journal[n].state # "Processing" /\ journal[n].state # "Completed"
    BY <1>3, <2>1, <2>3 DEF ReadyLanesQuiet, CompletedLeave, Active
  <2>6. ShouldRun(a)
    BY <2>1, <2>4, <2>5 DEF State
  <2>7. a \in Action /\ Categories[a] \subseteq Category
    BY <2>3, ActionAssumption DEF Record
  <2> HIDE DEF a
  <2>8. ASSUME NEW c \in Categories[a], Budget[c] > 0 PROVE running'[c] <= Budget[c]
    <3>1. c \in Category /\ running[c] \in Int /\ Budget[c] \in Nat
      BY <2>7, Types, ActionAssumption
    <3>2. running[c] < Budget[c]
      BY <2>6, <2>8, <3>1 DEF ShouldRun
    <3>3. running'[c] = running[c] + 1
      BY <2>1, <2>8, <3>1 DEF Count
    <3> QED BY <3>1, <3>2, <3>3
  <2> QED BY <2>1, <2>8 DEF WithinBudget, a
<1>4. CASE HandleEvent
  <2>1. UNCHANGED <<running, phase, current>>
    BY <1>4 DEF HandleEvent
  <2>2. /\ DOMAIN journal' \subseteq DOMAIN journal
        /\ \A r \in DOMAIN journal' : journal'[r].action = journal[r].action
    BY <1>4, OnlyCurrentChanges DEF Walking
  <2> QED BY <2>1, <2>2 DEF WithinBudget
<1>5. ASSUME \/ \E r \in RecordID : Cancel(r)
             \/ Network \/ UNCHANGED vars
      PROVE  UNCHANGED <<journal, phase, current, running>>
  BY <1>5 DEF Cancel, Network, Respond, walk, vars
<1>6. CASE UNCHANGED <<journal, phase, current, running>>
  BY <1>6 DEF WithinBudget
<1> QED BY <1>0, <1>1, <1>2, <1>3, <1>4, <1>5, <1>6 DEF Next, Pass, Walking

\* LoadInv, in the parts each of the lemmas above preserves.
LEMMA LoadParts ==
  LoadInv <=> VisitInv /\ ReadyLanesQuiet /\ CompletedLeave /\ Charged /\ WithinBudget
BY DEF LoadInv, ReadyInv, BudgetInv, ReadyLanesQuiet, CompletedLeave, Charged, WithinBudget

LEMMA LoadStep == Inductive /\ LoadInv /\ [Next]_vars => LoadInv'
<1> SUFFICES ASSUME Inductive, LoadInv, [Next]_vars PROVE LoadInv'
  OBVIOUS
<1>1. TypeOK'
  BY TypeStep DEF Inductive
<1>2. VisitInv' /\ ReadyLanesQuiet' /\ CompletedLeave' /\ Charged' /\ WithinBudget'
  BY <1>1, LoadParts, VisitStep, QuietStep, CompletedStep, ChargedStep, WithinBudgetStep
<1> QED BY <1>2 DEF LoadInv, ReadyInv, BudgetInv, ReadyLanesQuiet, CompletedLeave, Charged,
                    WithinBudget

LEMMA LoadInit == Init => LoadInv
<1> SUFFICES ASSUME Init PROVE LoadInv
  OBVIOUS
<1>1. /\ phase = "idle" /\ heads.inProgress = {} /\ heads.ready = {}
      /\ DOMAIN journal = {} /\ snapshot[1] = journal
  BY DEF Init, database
<1> QED BY <1>1 DEF LoadInv, VisitInv, ReadyInv, BudgetInv

\* In every pass, what is charged to a budget covers the records in progress on
\* the lanes the pass has counted.
THEOREM LoadCounted == Spec => []LoadInv
BY LoadInit, LoadStep, InductiveHolds, PTL DEF Spec

\* When phase 2 starts a record, all records in progress are counted.
LEMMA ReadyLanesStep ==
  ASSUME Inductive, TypeOK', LoadInv, LoadInv', Next,
         NEW r \in RecordID, phase = "ready", requests'[r] > requests[r],
         NEW c \in Categories[journal'[r].action], Budget[c] > 0
  PROVE  Cardinality(Transferring(c)') <= Budget[c]
<1> USE DEF Inductive
<1>1. Schedule
  <2>1. ASSUME UNCHANGED requests PROVE FALSE
    <3>1. requests[r] \in Nat
      BY DEF TypeOK
    <3> QED BY <2>1, <3>1
  <2>2. ASSUME NEW s \in RecordID, NEW outcome \in Outcome, Respond(s, outcome) PROVE FALSE
    <3>1. requests \in [RecordID -> Nat] /\ requests' = [requests EXCEPT ![s] = requests[s] - 1]
      BY <2>2 DEF Respond, TypeOK
    <3>2. requests'[r] <= requests[r]
      BY <3>1
    <3> QED BY <3>1, <3>2
  <2>3. Schedule \/ UNCHANGED requests \/ Network
    BY Zenon DEF Next, User, Pass, Walking, Submit, Answer, Cancel, Crash, StartPass,
      VisitInProgress, EndInProgress, VisitReady, FinishPass, YieldPass, Commit, FetchRecord,
      LeaveLane, HandleEvent, DeleteLast, CancelRecord, Sideline, Wait, ScheduleLocal
  <2> QED BY <2>1, <2>2, <2>3 DEF Network
<1>2. r = current /\ current \in DOMAIN journal
  <2>1. /\ requests \in [RecordID -> Nat] /\ current \in DOMAIN journal
        /\ requests' = [requests EXCEPT ![current] = requests[current] + 1]
    BY <1>1 DEF Schedule, Scheduling, TypeOK
  <2>2. r # current => requests'[r] = requests[r] /\ requests[r] \in Nat
    BY <2>1
  <2> QED BY <2>1, <2>2
<1>3. /\ UNCHANGED <<phase, heads, running>> /\ lane' = 0 /\ current' = 0 /\ current # 0
  BY <1>1 DEF Schedule, StopLane, Scheduling, Undecided, Handled
<1>4. c \in Categories[journal[current].action] /\ c \in Category
  <2>1. journal'[r].action = journal[r].action
    <3>1. r \in DOMAIN journal'
      BY <1>1, <1>2 DEF Schedule, Update
    <3> QED BY <1>1, <3>1, OnlyCurrentChanges DEF Walking
  <2>2. journal[r].action \in Action
    BY <1>2, Types DEF Record
  <2> QED BY <1>2, <2>1, <2>2, ActionAssumption
<1>5. running'[c] <= Budget[c] /\ Budget[c] \in Nat /\ running'[c] \in Int
  <2>1. running[c] <= Budget[c]
    BY <1>2, <1>4, LoadParts DEF WithinBudget
  <2> QED BY <1>3, <1>4, <2>1, Types, ActionAssumption
<1>6. Cardinality(Counted(c)') <= running'[c]
  BY <1>3, <1>4 DEF LoadInv, BudgetInv
<1>7. ASSUME NEW s \in Transferring(c)' PROVE s \in Counted(c)'
  <2>1. Uncounted' = {0}
    BY <1>3 DEF Uncounted, LoadInv, VisitInv
  <2>2. /\ s \in DOMAIN journal' /\ c \in Categories[journal'[s].action]
        /\ Active(s)' /\ ~ journal'[s].issue
    BY <1>7 DEF Transferring
  <2>3. journal'[s].lane # 0
    BY <2>2 DEF TypeOK, DB, Record, LaneID
  <2> QED BY <2>1, <2>2, <2>3 DEF Counted
<1>8. Counted(c)' \subseteq RecordID /\ Transferring(c)' \subseteq Counted(c)'
  <2>1. Counted(c)' \subseteq RecordID
    BY DEF Counted, TypeOK, DB
  <2> QED BY <1>7, <2>1
<1>9. /\ Cardinality(Counted(c)') \in Nat /\ Cardinality(Transferring(c)') \in Nat
      /\ Cardinality(Transferring(c)') <= Cardinality(Counted(c)')
  <2>1. Transferring(c)' \subseteq RecordID
    BY <1>8
  <2> QED BY <1>8, <2>1, SetsOfRecords
<1> QED BY <1>5, <1>6, <1>9

\* Phase 2 never starts a record that takes a category over its budget, though
\* every pass counts anew (-processSyncRecords, ProcessLane).
THEOREM ReadyLanesWithinBudget == Spec => ReadyLanesStayInBudget
<1> DEFINE A == \A r \in RecordID : phase = "ready" /\ requests'[r] > requests[r] =>
                  \A c \in Categories[journal'[r].action] :
                    Budget[c] > 0 => Cardinality(Transferring(c)') <= Budget[c]
<1>1. Inductive /\ LoadInv /\ LoadInv' /\ [Next]_vars => [A]_vars
  <2>1. ASSUME Inductive, LoadInv, LoadInv', Next PROVE A
    <3>1. TypeOK'
      BY <2>1, TypeStep DEF Inductive
    <3> QED BY <2>1, <3>1, ReadyLanesStep
  <2> HIDE DEF A
  <2> QED BY <2>1
<1>2. [][A]_vars => ReadyLanesStayInBudget
  BY DEF ReadyLanesStayInBudget
<1> HIDE DEF A
<1> QED BY <1>1, <1>2, InductiveHolds, LoadCounted, PTL DEF Spec
=============================================================================
