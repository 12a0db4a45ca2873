------------------------ MODULE RemoteTriggerProofs ------------------------
(***************************************************************************)
(* A record is carried out by its own process unless that was away, or was *)
(* taken for it: for any number of processes and records, any lanes, and   *)
(* any suspensions, terminations and stopped cores.                        *)
(***************************************************************************)
EXTENDS RemoteTrigger, TLAPS

\* The parts of TypeOK.
Disk == stateFile \in [Process -> Session] /\ activeProcessCores \subseteq Process
Journal ==
  /\ open \subseteq Record
  /\ state \in [Record -> {"Ready", "Processing", "Answered"}]
  /\ origin \in [Record -> Session]
Runs ==
  /\ session \in [Process -> Session]
  /\ run \in [Process -> {"down", "up", "suspended"}]
Memory ==
  /\ sessions \in [Process -> [Process -> Session]]
  /\ core \in [Process -> BOOLEAN] /\ needs \in [Process -> BOOLEAN]
  /\ timedOut \in [Process -> SUBSET Record]
Checks == checks \in [Process -> SUBSET [record : Record, acked : BOOLEAN]]
Notes ==
  /\ updates \subseteq Process /\ pings \subseteq Process /\ triggers \subseteq Process
  /\ acks \subseteq Process \X Process
Past ==
  /\ by \in [Record -> SUBSET Process] /\ absences \subseteq Record
  /\ abandoned \subseteq Record

\* A request was sent by somebody, nobody waits for itself, and what is down
\* has no memory.
Sent == \A r \in Record : state[r] # "Ready" => by[r] # {}
Others == \A p \in Process : \A c \in checks[p] : Owner[c.record] # p
Down == \A p \in Process : run[p] = "down" => ~ core[p] /\ ~ needs[p] /\ checks[p] = {}

LEMMA TypeParts ==
  TypeOK <=> /\ Disk /\ Journal /\ Runs /\ Memory /\ Checks /\ Notes /\ Past
             /\ Sent /\ Others /\ Down
BY Zenon DEF TypeOK, Disk, Journal, Runs, Memory, Checks, Notes, Past, Sent, Others, Down

-----------------------------------------------------------------------------
(* The inductive invariant *)

\* Each session but the first follows an absence.
Counted ==
  /\ aways \in 0 .. MaxAways
  /\ \A p \in Process : session[p] <= aways + (IF run[p] = "down" THEN 0 ELSE 1)
  /\ \A p \in Process : run[p] # "down" => session[p] # 0

\* Only submitted records are known to anybody.
Known ==
  /\ \A r \in open : origin[r] # 0
  /\ \A r \in Record : by[r] # {} => origin[r] # 0
  /\ \A p \in Process : \A r \in timedOut[p] : origin[r] # 0
  /\ \A p \in Process : \A c \in checks[p] : origin[c.record] # 0

Waiting == \A p \in Process : checks[p] # {} => core[p]

\* The owner of a record that was not absent is at work, everybody sees that it
\* is, and the record is not exempted.
Seen(r) ==
  LET o == Owner[r]
  IN  /\ run[o] = "up" /\ core[o] /\ o \in activeProcessCores
      /\ stateFile[o] = session[o] /\ origin[r] = session[o]
      /\ \A q \in Process : q # o => /\ sessions[q][o] \in {0, session[o]}
                                     /\ r \notin timedOut[q]
Healthy == \A r \in Record : origin[r] # 0 /\ r \notin absences => Seen(r)

\* A suspended process may miss an acknowledgement.
Asleep ==
  \A q \in Process : run[q] = "suspended" =>
    \A c \in checks[q] : c.record \in absences

\* A check of such a record is acknowledged, or will be before it runs out.
Noted ==
  \A q \in Process : \A c \in checks[q] :
    c.record \notin absences /\ ~ c.acked =>
      Owner[c.record] \in triggers \/ <<q, Owner[c.record]>> \in acks

Inductive ==
  /\ TypeOK /\ Counted /\ Known /\ Waiting /\ Healthy /\ Asleep /\ Noted
  /\ TakenOverOnlyAfterAbsence

-----------------------------------------------------------------------------
(* What a pass does, as far as this proof is concerned *)

\* It carries records out and removes some of them, and leaves others to their
\* owners; the owners that are gone lose their state file.
Passed(p, sent, removed, left, gone) ==
  /\ \A r \in sent \cup removed : ~ LeftToOwner(p, r)
  /\ \A r \in left : LeftToOwner(p, r)
  /\ \A o \in gone : ~ Responds(o)
  /\ open' = open \ removed
  /\ state' = [r \in Record |-> IF r \in sent THEN "Processing" ELSE state[r]]
  /\ by' = [r \in Record |-> IF r \in sent \cup removed THEN by[r] \cup {p} ELSE by[r]]
  /\ checks' = [checks EXCEPT ![p] =
                  @ \cup {[record |-> r, acked |-> FALSE] : r \in left}]
  /\ abandoned' = (abandoned \ left)
       \cup {r \in left : <<p, Owner[r]>> \in acks /\ ~ Active(Owner[r])}
  /\ stateFile' = [q \in Process |-> IF q \in gone THEN 0 ELSE stateFile[q]]
  /\ triggers' = triggers \cup Reached({Owner[r] : r \in left} \cap Cores)
  /\ pings' = pings \cup Reached(gone)
  /\ updates' = IF gone = {} THEN updates ELSE updates \cup Reached(Process)

LEMMA PassEffect ==
  ASSUME Journal, NEW p \in Process, Pass(p)
  PROVE  \E sent, removed, left \in SUBSET open : \E gone \in SUBSET Process :
           Passed(p, sent, removed, left, gone)
<1> DEFINE mine     == {r \in open : ~ LeftToOwner(p, r)}
           answered == {r \in mine : state[r] = "Answered"}
           removed  == {r \in answered : Before[r] \cap open \subseteq answered}
           visited  == {r \in open : Before[r] \cap open \subseteq removed}
           sent     == {r \in visited \cap mine : state[r] = "Ready"}
           left     == visited \ mine
           absent   == {r \in visited : /\ OriginChecked(p, r) /\ SessionStored(p, r)
                                        /\ ~ Responds(Owner[r])}
           gone     == {Owner[r] : r \in absent}
<1>1. sent \in SUBSET open /\ removed \in SUBSET open /\ left \in SUBSET open
  OBVIOUS
<1>2. gone \in SUBSET Process
  <2>1. absent \subseteq Record
    BY Zenon DEF Journal
  <2>2. \A r \in Record : Owner[r] \in Process
    BY TriggerAssumption, SMT DEF TriggerAssumption
  <2> QED BY <2>1, <2>2, SMT
<1>3. (\A r \in sent \cup removed : ~ LeftToOwner(p, r)) /\ (\A r \in left : LeftToOwner(p, r))
  OBVIOUS
<1>4. \A o \in gone : ~ Responds(o)
  OBVIOUS
<1>5. Passed(p, sent, removed, left, gone)
  <2> HIDE DEF mine, answered, removed, visited, sent, left, absent, gone
  <2>1. /\ open' = open \ removed
        /\ state' = [r \in Record |-> IF r \in sent THEN "Processing" ELSE state[r]]
        /\ by' = [r \in Record |-> IF r \in sent \cup removed THEN by[r] \cup {p} ELSE by[r]]
        /\ checks' = [checks EXCEPT ![p] =
                         @ \cup {[record |-> r, acked |-> FALSE] : r \in left}]
        /\ abandoned' = (abandoned \ left)
              \cup {r \in left : <<p, Owner[r]>> \in acks /\ ~ Active(Owner[r])}
    BY Zenon DEF Pass, mine, answered, removed, visited, sent, left
  <2>2. /\ stateFile' = [q \in Process |-> IF q \in gone THEN 0 ELSE stateFile[q]]
        /\ triggers' = triggers \cup Reached({Owner[r] : r \in left} \cap Cores)
        /\ pings' = pings \cup Reached(gone)
        /\ updates' = IF gone = {} THEN updates ELSE updates \cup Reached(Process)
    BY Zenon DEF Pass, mine, answered, removed, visited, left, absent, gone
  <2> QED BY <1>3, <1>4, <2>1, <2>2, Zenon DEF Passed
<1> QED BY <1>1, <1>2, <1>5, Zenon
-----------------------------------------------------------------------------
(* Types *)

LEMMA Numbers ==
  ASSUME Counted, Runs, NEW p \in Process
  PROVE  /\ session[p] \in Nat /\ session[p] \in Session /\ 0 \in Session
         /\ (run[p] = "down" => session[p] + 1 \in Session /\ session[p] + 1 <= aways + 1)
<1>1. MaxAways \in Nat
  BY TriggerAssumption, Zenon DEF TriggerAssumption
<1>2. session[p] \in 0 .. MaxAways + 1 /\ aways \in 0 .. MaxAways
  BY Zenon DEF Counted, Runs, Session
<1>3. run[p] = "down" => session[p] <= aways + 0
  BY Zenon DEF Counted
<1> QED BY <1>1, <1>2, <1>3, SMT DEF Session

LEMMA AckedCheck ==
  ASSUME NEW c \in [record : Record, acked : BOOLEAN], NEW b \in BOOLEAN
  PROVE  [c EXCEPT !.acked = b] \in [record : Record, acked : BOOLEAN]
BY SMT

LEMMA CheckParts ==
  ASSUME Checks, NEW p \in Process, NEW c \in checks[p]
  PROVE  c \in [record : Record, acked : BOOLEAN] /\ c.record \in Record /\ c.acked \in BOOLEAN
<1>1. c \in [record : Record, acked : BOOLEAN]
  <2>1. checks[p] \in SUBSET [record : Record, acked : BOOLEAN]
    BY Zenon DEF Checks
  <2> QED BY <2>1, Zenon
<1> QED BY <1>1, SMT

LEMMA DiskPreserved ==
  ASSUME Disk, Runs, Counted, [Next]_vars
  PROVE  Disk'
<1>1. ASSUME NEW p \in Process, Launch(p) PROVE Disk'
  BY <1>1, Numbers, SMT DEF Disk, Launch, disk
<1>2. ASSUME NEW p \in Process, AnswerPing(p) PROVE Disk'
  BY <1>2, Numbers, SMT DEF Disk, AnswerPing, disk
<1>3. ASSUME NEW p \in Process, StartCore(p) PROVE Disk'
  BY <1>3, SMT DEF Disk, StartCore, disk
<1>4. ASSUME NEW p \in Process, StopCore(p) PROVE Disk'
  BY <1>4, SMT DEF Disk, StopCore, disk
<1>5. ASSUME NEW p \in Process, Pass(p) PROVE Disk'
  BY <1>5, Numbers, SMT DEF Disk, Pass
<1>6. ASSUME NEW p \in Process, NEW c \in checks[p], CheckAck(p, c) PROVE Disk'
  BY <1>6, SMT DEF Disk, CheckAck, disk
<1>7. ASSUME NEW p \in Process, Terminate(p) PROVE Disk'
  BY <1>7, Numbers, SMT DEF Disk, Terminate, disk
<1>8. ASSUME NEW p \in Process,
              \/ LoadSessions(p) \/ Acknowledge(p) \/ Suspend(p) \/ Resume(p)
              \/ (\E r \in Record : Submit(p, r))
              \/ (\E r \in Record : Answer(p, r))
              \/ (\E o \in Process : ReceiveAck(p, o))
       PROVE  Disk'
  BY <1>8, Zenon DEF Disk, LoadSessions, Submit, Answer, Acknowledge,
     ReceiveAck, Suspend, Resume, disk
<1>9. CASE UNCHANGED vars
  BY <1>9, Zenon DEF Disk, vars, disk
<1> QED
  BY <1>1, <1>2, <1>3, <1>4, <1>5, <1>6, <1>7, <1>8, <1>9, Zenon DEF Next,
     Works, Returns

LEMMA JournalPreserved ==
  ASSUME Journal, Runs, [Next]_vars
  PROVE  Journal'
<1>1. ASSUME NEW p \in Process, NEW r \in Record, Submit(p, r) PROVE Journal'
  BY <1>1, SMT DEF Journal, Runs, Submit, journal
<1>2. ASSUME NEW p \in Process, NEW r \in Record, Answer(p, r) PROVE Journal'
  BY <1>2, SMT DEF Journal, Answer, journal
<1>3. ASSUME NEW p \in Process, Pass(p) PROVE Journal'
  BY <1>3, SMT DEF Journal, Pass, journal
<1>4. ASSUME NEW p \in Process,
              \/ Launch(p) \/ LoadSessions(p) \/ AnswerPing(p)
              \/ StartCore(p) \/ StopCore(p) \/ Acknowledge(p) \/ Suspend(p)
              \/ Resume(p) \/ Terminate(p)
              \/ (\E o \in Process : ReceiveAck(p, o))
              \/ (\E c \in checks[p] : CheckAck(p, c))
       PROVE  Journal'
  BY <1>4, Zenon DEF Journal, Launch, LoadSessions, AnswerPing, StartCore,
     StopCore, Acknowledge, ReceiveAck, CheckAck, Suspend, Resume, Terminate,
     journal
<1>5. CASE UNCHANGED vars
  BY <1>5, Zenon DEF Journal, vars, journal
<1> QED
  BY <1>1, <1>2, <1>3, <1>4, <1>5, Zenon DEF Next, Works, Returns

LEMMA RunsPreserved ==
  ASSUME Runs, Counted, [Next]_vars
  PROVE  Runs'
<1>1. ASSUME NEW p \in Process, Launch(p) PROVE Runs'
  BY <1>1, Numbers, SMT DEF Runs, Launch
<1>2. ASSUME NEW p \in Process, Suspend(p) PROVE Runs'
  BY <1>2, SMT DEF Runs, Suspend
<1>3. ASSUME NEW p \in Process, Resume(p) PROVE Runs'
  BY <1>3, SMT DEF Runs, Resume
<1>4. ASSUME NEW p \in Process, Terminate(p) PROVE Runs'
  BY <1>4, SMT DEF Runs, Terminate
<1>5. ASSUME NEW p \in Process,
              \/ LoadSessions(p) \/ AnswerPing(p) \/ StartCore(p)
              \/ StopCore(p) \/ Pass(p) \/ Acknowledge(p)
              \/ (\E r \in Record : Submit(p, r))
              \/ (\E r \in Record : Answer(p, r))
              \/ (\E o \in Process : ReceiveAck(p, o))
              \/ (\E c \in checks[p] : CheckAck(p, c))
       PROVE  Runs'
  BY <1>5, Zenon DEF Runs, LoadSessions, AnswerPing, StartCore, StopCore,
     Submit, Answer, Pass, Acknowledge, ReceiveAck, CheckAck
<1>6. CASE UNCHANGED vars
  BY <1>6, Zenon DEF Runs, vars
<1> QED
  BY <1>1, <1>2, <1>3, <1>4, <1>5, <1>6, Zenon DEF Next, Works, Returns

LEMMA MemoryPreserved ==
  ASSUME Disk, Runs, Memory, Checks, Counted, Disk', [Next]_vars
  PROVE  Memory'
<1>1. ASSUME NEW p \in Process, Launch(p) PROVE Memory'
  BY <1>1, SMT DEF Memory, Disk, Launch, memory
<1>2. ASSUME NEW p \in Process, LoadSessions(p) PROVE Memory'
  BY <1>2, SMT DEF Memory, Disk, LoadSessions, memory
<1>3. ASSUME NEW p \in Process, StartCore(p) PROVE Memory'
  BY <1>3, SMT DEF Memory, StartCore, memory
<1>4. ASSUME NEW p \in Process, StopCore(p) PROVE Memory'
  BY <1>4, SMT DEF Memory, StopCore, memory
<1>5. ASSUME NEW p \in Process, NEW r \in Record, Submit(p, r) PROVE Memory'
  BY <1>5, SMT DEF Memory, Submit, memory
<1>6. ASSUME NEW p \in Process, NEW r \in Record, Answer(p, r) PROVE Memory'
  BY <1>6, SMT DEF Memory, Answer, memory
<1>7. ASSUME NEW p \in Process, Pass(p) PROVE Memory'
  BY <1>7, SMT DEF Memory, Pass, memory
<1>8. ASSUME NEW p \in Process, Acknowledge(p) PROVE Memory'
  BY <1>8, SMT DEF Memory, Acknowledge, memory
<1>9. ASSUME NEW p \in Process, NEW c \in checks[p], CheckAck(p, c) PROVE Memory'
  <2>1. c.record \in Record
    BY CheckParts, Zenon
  <2>2. timedOut' \in [Process -> SUBSET Record] /\ needs' \in [Process -> BOOLEAN]
    <3>1. CASE DidTimeout(c)
      <4>1. /\ timedOut' = [timedOut EXCEPT ![p] = @ \cup {c.record}]
            /\ needs' = [needs EXCEPT ![p] = TRUE]
        BY <1>9, <3>1, Zenon DEF CheckAck
      <4>2. timedOut[p] \cup {c.record} \in SUBSET Record
        BY <2>1, SMT DEF Memory
      <4> QED BY <4>1, <4>2, Zenon DEF Memory
    <3>2. CASE ~ DidTimeout(c)
      BY <1>9, <3>2, SMT DEF Memory, CheckAck
    <3> QED BY <3>1, <3>2, Zenon
  <2> QED BY <1>9, <2>2, Zenon DEF Memory, CheckAck
<1>10. ASSUME NEW p \in Process, Terminate(p) PROVE Memory'
  BY <1>10, Numbers, SMT DEF Memory, Terminate
<1>11. ASSUME NEW p \in Process,
              \/ AnswerPing(p) \/ Suspend(p) \/ Resume(p)
              \/ (\E o \in Process : ReceiveAck(p, o))
       PROVE  Memory'
  BY <1>11, Zenon DEF Memory, AnswerPing, ReceiveAck, Suspend, Resume, memory
<1>12. CASE UNCHANGED vars
  BY <1>12, Zenon DEF Memory, vars, memory
<1> QED
  BY <1>1, <1>2, <1>3, <1>4, <1>5, <1>6, <1>7, <1>8, <1>9, <1>10, <1>11, <1>12,
     Zenon DEF Next, Works, Returns

LEMMA ChecksPreserved ==
  ASSUME Checks, Journal, [Next]_vars
  PROVE  Checks'
<1>1. ASSUME NEW p \in Process, StopCore(p) PROVE Checks'
  BY <1>1, SMT DEF Checks, StopCore
<1>2. ASSUME NEW p \in Process, Pass(p) PROVE Checks'
  <2>1. PICK sent, removed, left \in SUBSET open, gone \in SUBSET Process :
               Passed(p, sent, removed, left, gone)
    BY <1>2, PassEffect, Zenon
  <2>2. \A r \in left : [record |-> r, acked |-> FALSE] \in [record : Record, acked : BOOLEAN]
    <3>1. left \subseteq Record
      BY Zenon DEF Journal
    <3> QED BY <3>1, SMT
  <2>3. checks' = [checks EXCEPT ![p] =
                     @ \cup {[record |-> r, acked |-> FALSE] : r \in left}]
    BY <2>1, Zenon DEF Passed
  <2>4. \A c \in checks[p] \cup {[record |-> r, acked |-> FALSE] : r \in left} :
          c \in [record : Record, acked : BOOLEAN]
    BY <2>2, CheckParts, Zenon
  <2>5. checks[p] \cup {[record |-> r, acked |-> FALSE] : r \in left}
          \in SUBSET [record : Record, acked : BOOLEAN]
    BY <2>4, Zenon
  <2> QED BY <2>3, <2>5, Zenon DEF Checks
<1>3. ASSUME NEW p \in Process, NEW o \in Process, ReceiveAck(p, o) PROVE Checks'
  <2>1. \A c \in checks[p] : [c EXCEPT !.acked = @ \/ Owner[c.record] = o]
                               \in [record : Record, acked : BOOLEAN]
    <3>1. ASSUME NEW c \in [record : Record, acked : BOOLEAN]
          PROVE  [c EXCEPT !.acked = @ \/ Owner[c.record] = o]
                    \in [record : Record, acked : BOOLEAN]
      <4>1. (c.acked \/ Owner[c.record] = o) \in BOOLEAN
        OBVIOUS
      <4> QED BY <4>1, AckedCheck, Zenon
    <3> QED BY <3>1, CheckParts, Zenon
  <2>2. {[c EXCEPT !.acked = @ \/ Owner[c.record] = o] : c \in checks[p]}
          \in SUBSET [record : Record, acked : BOOLEAN]
    BY <2>1, Zenon
  <2> QED BY <1>3, <2>2, Zenon DEF Checks, ReceiveAck
<1>4. ASSUME NEW p \in Process, NEW c \in checks[p], CheckAck(p, c) PROVE Checks'
  BY <1>4, SMT DEF Checks, CheckAck
<1>5. ASSUME NEW p \in Process, Terminate(p) PROVE Checks'
  BY <1>5, SMT DEF Checks, Terminate
<1>6. ASSUME NEW p \in Process,
              \/ Launch(p) \/ LoadSessions(p) \/ AnswerPing(p)
              \/ StartCore(p) \/ Acknowledge(p) \/ Suspend(p) \/ Resume(p)
              \/ (\E r \in Record : Submit(p, r))
              \/ (\E r \in Record : Answer(p, r))
       PROVE  Checks'
  BY <1>6, Zenon DEF Checks, Launch, LoadSessions, AnswerPing, StartCore,
     Submit, Answer, Acknowledge, Suspend, Resume, memory
<1>7. CASE UNCHANGED vars
  BY <1>7, Zenon DEF Checks, vars, memory
<1> QED
  BY <1>1, <1>2, <1>3, <1>4, <1>5, <1>6, <1>7, Zenon DEF Next, Works, Returns

LEMMA NotesPreserved ==
  ASSUME Notes, Journal, [Next]_vars
  PROVE  Notes'
<1>1. ASSUME NEW p \in Process, Launch(p) PROVE Notes'
  <2>1. Reached({q \in {s \in Extension \ {p} : stateFile[s] # 0} : ~ Awake(q)}) \subseteq Process
    BY TriggerAssumption, SMT DEF Reached, TriggerAssumption
  <2>2. Reached(Process) \subseteq Process
    BY Zenon DEF Reached
  <2> QED BY <1>1, <2>1, <2>2, Zenon DEF Notes, Launch, notes
<1>2. ASSUME NEW p \in Process, LoadSessions(p) PROVE Notes'
  BY <1>2, SMT DEF Notes, LoadSessions, notes
<1>3. ASSUME NEW p \in Process, AnswerPing(p) PROVE Notes'
  BY <1>3, SMT DEF Notes, Reached, AnswerPing, notes
<1>4. ASSUME NEW p \in Process, StopCore(p) PROVE Notes'
  BY <1>4, SMT DEF Notes, StopCore, notes
<1>5. ASSUME NEW p \in Process, Pass(p) PROVE Notes'
  <2>1. PICK sent, removed, left \in SUBSET open, gone \in SUBSET Process :
               Passed(p, sent, removed, left, gone)
    BY <1>5, PassEffect, Zenon
  <2>2. Reached({Owner[r] : r \in left} \cap Cores) \subseteq Process
    BY SMT DEF Reached, Cores
  <2>3. Reached(gone) \subseteq Process /\ Reached(Process) \subseteq Process
    BY SMT DEF Reached
  <2>4. acks' = acks
    BY <1>5, Zenon DEF Pass
  <2> QED BY <2>1, <2>2, <2>3, <2>4, SMT DEF Notes, Passed
<1>6. ASSUME NEW p \in Process, Acknowledge(p) PROVE Notes'
  BY <1>6, SMT DEF Notes, Reached, Cores, Acknowledge, notes
<1>7. ASSUME NEW p \in Process, NEW o \in Process, ReceiveAck(p, o) PROVE Notes'
  BY <1>7, SMT DEF Notes, ReceiveAck, notes
<1>8. ASSUME NEW p \in Process, Resume(p) PROVE Notes'
  BY <1>8, SMT DEF Notes, Resume, notes
<1>9. ASSUME NEW p \in Process, Terminate(p) PROVE Notes'
  BY <1>9, SMT DEF Notes, Reached, Terminate
<1>10. ASSUME NEW p \in Process,
              \/ StartCore(p) \/ Suspend(p)
              \/ (\E r \in Record : Submit(p, r))
              \/ (\E r \in Record : Answer(p, r))
              \/ (\E c \in checks[p] : CheckAck(p, c))
       PROVE  Notes'
  BY <1>10, Zenon DEF Notes, StartCore, Submit, Answer, CheckAck, Suspend, notes
<1>11. CASE UNCHANGED vars
  BY <1>11, Zenon DEF Notes, vars, notes
<1> QED
  BY <1>1, <1>2, <1>3, <1>4, <1>5, <1>6, <1>7, <1>8, <1>9, <1>10, <1>11,
     Zenon DEF Next, Works, Returns

LEMMA PastPreserved ==
  ASSUME Past, Journal, Checks, [Next]_vars
  PROVE  Past'
<1>1. ASSUME NEW p \in Process, StopCore(p) PROVE Past'
  BY <1>1, SMT DEF Past, LeftUndone, Submitted, Journal, StopCore
<1>2. ASSUME NEW p \in Process, NEW r \in Record, Submit(p, r) PROVE Past'
  BY <1>2, SMT DEF Past, Submit
<1>3. ASSUME NEW p \in Process, Pass(p) PROVE Past'
  BY <1>3, SMT DEF Past, Journal, Pass
<1>4. ASSUME NEW p \in Process, NEW c \in checks[p], CheckAck(p, c) PROVE Past'
  BY <1>4, SMT DEF Past, Submitted, CheckAck
<1>5. ASSUME NEW p \in Process, Suspend(p) PROVE Past'
  BY <1>5, SMT DEF Past, LeftUndone, Submitted, Journal, Checks, Suspend
<1>6. ASSUME NEW p \in Process, Terminate(p) PROVE Past'
  BY <1>6, SMT DEF Past, LeftUndone, Submitted, Journal, Terminate
<1>7. ASSUME NEW p \in Process,
              \/ Launch(p) \/ LoadSessions(p) \/ AnswerPing(p)
              \/ StartCore(p) \/ Acknowledge(p) \/ Resume(p)
              \/ (\E r \in Record : Answer(p, r))
              \/ (\E o \in Process : ReceiveAck(p, o))
       PROVE  Past'
  BY <1>7, Zenon DEF Past, Launch, LoadSessions, AnswerPing, StartCore, Answer,
     Acknowledge, ReceiveAck, Resume
<1>8. CASE UNCHANGED vars
  BY <1>8, Zenon DEF Past, vars
<1> QED
  BY <1>1, <1>2, <1>3, <1>4, <1>5, <1>6, <1>7, <1>8, Zenon DEF Next, Works,
     Returns

-----------------------------------------------------------------------------
(* The history and the memory of processes *)

LEMMA SentPreserved ==
  ASSUME Journal, Past, Sent, [Next]_vars
  PROVE  Sent'
<1>1. ASSUME NEW p \in Process, NEW r \in Record, Answer(p, r) PROVE Sent'
  BY <1>1, SMT DEF Sent, Journal, Answer
<1>2. ASSUME NEW p \in Process, Pass(p) PROVE Sent'
  <2>1. PICK sent, removed, left \in SUBSET open, gone \in SUBSET Process :
               Passed(p, sent, removed, left, gone)
    BY <1>2, PassEffect, Zenon
  <2> QED BY <2>1, SMT DEF Sent, Passed, Past, Journal
<1>3. ASSUME NEW p \in Process,
              \/ Launch(p) \/ LoadSessions(p) \/ AnswerPing(p)
              \/ StartCore(p) \/ StopCore(p) \/ Acknowledge(p) \/ Suspend(p)
              \/ Resume(p) \/ Terminate(p)
              \/ (\E r \in Record : Submit(p, r))
              \/ (\E o \in Process : ReceiveAck(p, o))
              \/ (\E c \in checks[p] : CheckAck(p, c))
       PROVE  Sent'
  BY <1>3, Zenon DEF Sent, Launch, LoadSessions, AnswerPing, StartCore,
     StopCore, Submit, Acknowledge, ReceiveAck, CheckAck, Suspend, Resume,
     Terminate, journal
<1>4. CASE UNCHANGED vars
  BY <1>4, Zenon DEF Sent, vars, journal
<1> QED
  BY <1>1, <1>2, <1>3, <1>4, Zenon DEF Next, Works, Returns

\* A check d of q follows from c when p receives the acknowledgement of o.
Follows(p, o, q, c, d) ==
  /\ d.record = c.record
  /\ ~ d.acked => ~ c.acked /\ (q = p => Owner[c.record] # o)

LEMMA CheckChanged ==
  ASSUME Checks, NEW p \in Process, NEW o \in Process, ReceiveAck(p, o)
  PROVE  \A q \in Process : \A d \in checks'[q] : \E c \in checks[q] : Follows(p, o, q, c, d)
<1> SUFFICES ASSUME NEW q \in Process, NEW d \in checks'[q]
             PROVE  \E c \in checks[q] : Follows(p, o, q, c, d)
  OBVIOUS
<1>1. CASE q = p
  <2>1. checks'[p] = {[c EXCEPT !.acked = @ \/ Owner[c.record] = o] : c \in checks[p]}
    BY SMT DEF ReceiveAck, Checks
  <2>2. PICK c \in checks[p] : d = [c EXCEPT !.acked = @ \/ Owner[c.record] = o]
    BY <1>1, <2>1, Zenon
  <2>3. c \in [record : Record, acked : BOOLEAN]
    BY CheckParts, Zenon
  <2>4. d.record = c.record /\ d.acked = (c.acked \/ Owner[c.record] = o)
    BY <2>2, <2>3, SMT
  <2> QED BY <1>1, <2>4, Zenon DEF Follows
<1>2. CASE q # p
  <2>1. checks'[q] = checks[q]
    BY <1>2, SMT DEF ReceiveAck, Checks
  <2> QED BY <1>2, <2>1, Zenon DEF Follows
<1> QED BY <1>1, <1>2, Zenon

LEMMA OthersPreserved ==
  ASSUME Journal, Checks, Others, [Next]_vars
  PROVE  Others'
<1>1. ASSUME NEW p \in Process, StopCore(p) PROVE Others'
  BY <1>1, SMT DEF Others, Checks, StopCore
<1>2. ASSUME NEW p \in Process, Pass(p) PROVE Others'
  <2>1. PICK sent, removed, left \in SUBSET open, gone \in SUBSET Process :
               Passed(p, sent, removed, left, gone)
    BY <1>2, PassEffect, Zenon
  <2>2. \A r \in left : Owner[r] # p
    BY <2>1, SMT DEF Passed, LeftToOwner, OriginChecked
  <2>3. \A c \in {[record |-> r, acked |-> FALSE] : r \in left} : Owner[c.record] # p
    BY <2>2, SMT
  <2>4. checks' = [checks EXCEPT ![p] =
                     @ \cup {[record |-> r, acked |-> FALSE] : r \in left}]
    BY <2>1, Zenon DEF Passed
  <2> QED BY <2>3, <2>4, SMT DEF Others, Checks
<1>3. ASSUME NEW p \in Process, NEW o \in Process, ReceiveAck(p, o) PROVE Others'
  <2>1. \A q \in Process : \A d \in checks'[q] : \E c \in checks[q] : Follows(p, o, q, c, d)
    BY <1>3, CheckChanged, Zenon
  <2> QED BY <2>1, SMT DEF Others, Follows
<1>4. ASSUME NEW p \in Process, NEW c \in checks[p], CheckAck(p, c) PROVE Others'
  BY <1>4, SMT DEF Others, Checks, CheckAck
<1>5. ASSUME NEW p \in Process, Terminate(p) PROVE Others'
  BY <1>5, SMT DEF Others, Checks, Terminate
<1>6. ASSUME NEW p \in Process,
              \/ Launch(p) \/ LoadSessions(p) \/ AnswerPing(p)
              \/ StartCore(p) \/ Acknowledge(p) \/ Suspend(p) \/ Resume(p)
              \/ (\E r \in Record : Submit(p, r))
              \/ (\E r \in Record : Answer(p, r))
       PROVE  Others'
  BY <1>6, Zenon DEF Others, Launch, LoadSessions, AnswerPing, StartCore,
     Submit, Answer, Acknowledge, Suspend, Resume, memory
<1>7. CASE UNCHANGED vars
  BY <1>7, Zenon DEF Others, vars, memory
<1> QED
  BY <1>1, <1>2, <1>3, <1>4, <1>5, <1>6, <1>7, Zenon DEF Next, Works, Returns

\* Only what is awake gets a core, a pass or a check.
LEMMA DownPreserved ==
  ASSUME Runs, Memory, Checks, Down, [Next]_vars
  PROVE  Down'
<1>1. ASSUME NEW p \in Process, Launch(p) PROVE Down'
  BY <1>1, SMT DEF Down, Runs, Memory, Checks, Launch, memory
<1>2. ASSUME NEW p \in Process, StartCore(p) PROVE Down'
  BY <1>2, SMT DEF Down, Runs, Memory, Checks, Active, Awake, StartCore, memory
<1>3. ASSUME NEW p \in Process, StopCore(p) PROVE Down'
  BY <1>3, SMT DEF Down, Runs, Memory, Checks, Active, Awake, StopCore, memory
<1>4. ASSUME NEW p \in Process, NEW r \in Record, Submit(p, r) PROVE Down'
  BY <1>4, SMT DEF Down, Runs, Memory, Checks, Active, Awake, Submit, memory
<1>5. ASSUME NEW p \in Process, NEW r \in Record, Answer(p, r) PROVE Down'
  BY <1>5, SMT DEF Down, Runs, Memory, Checks, Active, Awake, Answer, memory
<1>6. ASSUME NEW p \in Process, Pass(p) PROVE Down'
  BY <1>6, SMT DEF Down, Runs, Memory, Checks, Active, Awake, Pass, memory
<1>7. ASSUME NEW p \in Process, Acknowledge(p) PROVE Down'
  BY <1>7, SMT DEF Down, Runs, Memory, Checks, Active, Awake, Acknowledge,
     memory
<1>8. ASSUME NEW p \in Process, NEW o \in Process, ReceiveAck(p, o) PROVE Down'
  BY <1>8, SMT DEF Down, Runs, Memory, Checks, Active, Awake, ReceiveAck, memory
<1>9. ASSUME NEW p \in Process, NEW c \in checks[p], CheckAck(p, c) PROVE Down'
  BY <1>9, SMT DEF Down, Runs, Memory, Checks, Active, Awake, CheckAck, memory
<1>10. ASSUME NEW p \in Process, Suspend(p) PROVE Down'
  BY <1>10, SMT DEF Down, Runs, Memory, Checks, Active, Awake, Suspend, memory
<1>11. ASSUME NEW p \in Process, Resume(p) PROVE Down'
  BY <1>11, SMT DEF Down, Runs, Memory, Checks, Resume, memory
<1>12. ASSUME NEW p \in Process, Terminate(p) PROVE Down'
  BY <1>12, SMT DEF Down, Runs, Memory, Checks, Terminate
<1>13. ASSUME NEW p \in Process,
              \/ LoadSessions(p) \/ AnswerPing(p)
       PROVE  Down'
  BY <1>13, Zenon DEF Down, LoadSessions, AnswerPing, memory
<1>14. CASE UNCHANGED vars
  BY <1>14, Zenon DEF Down, vars, memory
<1> QED
  BY <1>1, <1>2, <1>3, <1>4, <1>5, <1>6, <1>7, <1>8, <1>9, <1>10, <1>11, <1>12,
     <1>13, <1>14, Zenon DEF Next, Works, Returns

\* A process is launched again only after it was terminated.
LEMMA CountedPreserved ==
  ASSUME Runs, Counted, [Next]_vars
  PROVE  Counted'
<1>1. ASSUME NEW p \in Process, Launch(p) PROVE Counted'
  BY <1>1, Numbers, TriggerAssumption, SMT DEF Counted, Runs, TriggerAssumption,
     Session, Launch
<1>2. ASSUME NEW p \in Process, StopCore(p) PROVE Counted'
  BY <1>2, Numbers, TriggerAssumption, SMT DEF Counted, Runs, TriggerAssumption,
     Session, StopCore
<1>3. ASSUME NEW p \in Process, Suspend(p) PROVE Counted'
  BY <1>3, Numbers, TriggerAssumption, SMT DEF Counted, Runs, TriggerAssumption,
     Session, Awake, Suspend
<1>4. ASSUME NEW p \in Process, Resume(p) PROVE Counted'
  BY <1>4, Numbers, TriggerAssumption, SMT DEF Counted, Runs, TriggerAssumption,
     Session, Resume
<1>5. ASSUME NEW p \in Process, Terminate(p) PROVE Counted'
  BY <1>5, Numbers, TriggerAssumption, SMT DEF Counted, Runs, TriggerAssumption,
     Session, Terminate
<1>6. ASSUME NEW p \in Process,
              \/ LoadSessions(p) \/ AnswerPing(p) \/ StartCore(p) \/ Pass(p)
              \/ Acknowledge(p) \/ (\E r \in Record : Submit(p, r))
              \/ (\E r \in Record : Answer(p, r))
              \/ (\E o \in Process : ReceiveAck(p, o))
              \/ (\E c \in checks[p] : CheckAck(p, c))
       PROVE  Counted'
  BY <1>6, Zenon DEF Counted, LoadSessions, AnswerPing, StartCore, Submit,
     Answer, Pass, Acknowledge, ReceiveAck, CheckAck
<1>7. CASE UNCHANGED vars
  BY <1>7, Zenon DEF Counted, vars
<1> QED
  BY <1>1, <1>2, <1>3, <1>4, <1>5, <1>6, <1>7, Zenon DEF Next, Works, Returns

LEMMA KnownPreserved ==
  ASSUME Journal, Memory, Checks, Past, Runs, Counted, Known, [Next]_vars
  PROVE  Known'
<1>1. ASSUME NEW p \in Process, StopCore(p) PROVE Known'
  BY <1>1, SMT DEF Known, Memory, Checks, StopCore, journal
<1>2. ASSUME NEW p \in Process, NEW r \in Record, Submit(p, r) PROVE Known'
  <2>1. session[p] # 0
    BY <1>2, Zenon DEF Submit, Active, Awake, Counted
  <2>2. \A s \in Record : origin[s] # 0 => origin'[s] # 0
    BY <1>2, <2>1, SMT DEF Submit, Journal
  <2>3. origin'[r] # 0
    BY <1>2, <2>1, SMT DEF Submit, Journal
  <2>4. open' = open \cup {r} /\ by' = by /\ timedOut' = timedOut /\ checks' = checks
    BY <1>2, Zenon DEF Submit
  <2>5. \A s \in open' : origin'[s] # 0
    BY <2>2, <2>3, <2>4, Zenon DEF Known, Journal
  <2>6. \A s \in Record : by'[s] # {} => origin'[s] # 0
    BY <2>2, <2>4, Zenon DEF Known
  <2>7. \A q \in Process : \A s \in timedOut'[q] : origin'[s] # 0
    BY <2>2, <2>4, Zenon DEF Known, Memory
  <2>8. \A q \in Process : \A c \in checks'[q] : origin'[c.record] # 0
    BY <2>2, <2>4, CheckParts, Zenon DEF Known
  <2> QED BY <2>5, <2>6, <2>7, <2>8, Zenon DEF Known
<1>3. ASSUME NEW p \in Process, Pass(p) PROVE Known'
  <2>1. PICK sent, removed, left \in SUBSET open, gone \in SUBSET Process :
               Passed(p, sent, removed, left, gone)
    BY <1>3, PassEffect, Zenon
  <2>2. origin' = origin /\ timedOut' = timedOut
    BY <1>3, Zenon DEF Pass, journal
  <2>3. (\A r \in open' : origin'[r] # 0) /\ (\A r \in Record : by'[r] # {} => origin'[r] # 0)
    BY <2>1, <2>2, SMT DEF Known, Passed, Past
  <2>4. \A c \in {[record |-> r, acked |-> FALSE] : r \in left} : origin'[c.record] # 0
    BY <2>2, SMT DEF Known
  <2>5. checks' = [checks EXCEPT ![p] =
                     @ \cup {[record |-> r, acked |-> FALSE] : r \in left}]
    BY <2>1, Zenon DEF Passed
  <2>6. \A q \in Process : \A c \in checks'[q] : origin'[c.record] # 0
    BY <2>2, <2>4, <2>5, SMT DEF Known, Checks
  <2> QED BY <2>2, <2>3, <2>6, Zenon DEF Known
<1>4. ASSUME NEW p \in Process, NEW o \in Process, ReceiveAck(p, o) PROVE Known'
  <2>1. UNCHANGED <<open, origin, by, timedOut>>
    BY <1>4, Zenon DEF ReceiveAck, journal
  <2>2. \A q \in Process : \A d \in checks'[q] : \E c \in checks[q] : Follows(p, o, q, c, d)
    BY <1>4, CheckChanged, Zenon
  <2> QED BY <2>1, <2>2, SMT DEF Known, Follows
<1>5. ASSUME NEW p \in Process, NEW c \in checks[p], CheckAck(p, c) PROVE Known'
  <2>1. UNCHANGED <<open, origin, by>>
    BY <1>5, Zenon DEF CheckAck, journal
  <2>2. \A q \in Process : checks'[q] \subseteq checks[q]
    BY <1>5, SMT DEF CheckAck, Checks
  <2>3. \A q \in Process : timedOut'[q] \subseteq timedOut[q] \cup {c.record}
    <3>1. CASE DidTimeout(c)
      BY <1>5, <3>1, SMT DEF CheckAck, Memory
    <3>2. CASE ~ DidTimeout(c)
      BY <1>5, <3>2, SMT DEF CheckAck
    <3> QED BY <3>1, <3>2, Zenon
  <2>4. origin[c.record] # 0
    BY Zenon DEF Known
  <2> QED BY <2>1, <2>2, <2>3, <2>4, SMT DEF Known
<1>6. ASSUME NEW p \in Process, Terminate(p) PROVE Known'
  BY <1>6, SMT DEF Known, Memory, Checks, Terminate, journal
<1>7. ASSUME NEW p \in Process,
              \/ Launch(p) \/ LoadSessions(p) \/ AnswerPing(p)
              \/ StartCore(p) \/ Acknowledge(p) \/ Suspend(p) \/ Resume(p)
              \/ (\E r \in Record : Answer(p, r))
       PROVE  Known'
  BY <1>7, Zenon DEF Known, Launch, LoadSessions, AnswerPing, StartCore, Answer,
     Acknowledge, Suspend, Resume, journal, memory
<1>8. CASE UNCHANGED vars
  BY <1>8, Zenon DEF Known, vars, journal, memory
<1> QED
  BY <1>1, <1>2, <1>3, <1>4, <1>5, <1>6, <1>7, <1>8, Zenon DEF Next, Works,
     Returns

LEMMA WaitingPreserved ==
  ASSUME Memory, Checks, Waiting, Down, [Next]_vars
  PROVE  Waiting'
<1>1. ASSUME NEW p \in Process, StartCore(p) PROVE Waiting'
  BY <1>1, SMT DEF Waiting, Memory, Checks, StartCore, memory
<1>2. ASSUME NEW p \in Process, StopCore(p) PROVE Waiting'
  BY <1>2, SMT DEF Waiting, Memory, Checks, StopCore
<1>3. ASSUME NEW p \in Process, Pass(p) PROVE Waiting'
  BY <1>3, SMT DEF Waiting, Memory, Checks, Active, Pass, memory
<1>4. ASSUME NEW p \in Process, NEW o \in Process, ReceiveAck(p, o) PROVE Waiting'
  BY <1>4, SMT DEF Waiting, Memory, Checks, Active, ReceiveAck, memory
<1>5. ASSUME NEW p \in Process, NEW c \in checks[p], CheckAck(p, c) PROVE Waiting'
  BY <1>5, SMT DEF Waiting, Memory, Checks, Active, CheckAck, memory
<1>6. ASSUME NEW p \in Process, Terminate(p) PROVE Waiting'
  BY <1>6, SMT DEF Waiting, Memory, Checks, Terminate
<1>7. ASSUME NEW p \in Process,
              \/ Launch(p) \/ LoadSessions(p) \/ AnswerPing(p)
              \/ Acknowledge(p) \/ Suspend(p) \/ Resume(p)
              \/ (\E r \in Record : Submit(p, r))
              \/ (\E r \in Record : Answer(p, r))
       PROVE  Waiting'
  BY <1>7, Zenon DEF Waiting, Launch, LoadSessions, AnswerPing, Submit, Answer,
     Acknowledge, Suspend, Resume, memory
<1>8. CASE UNCHANGED vars
  BY <1>8, Zenon DEF Waiting, vars, memory
<1> QED
  BY <1>1, <1>2, <1>3, <1>4, <1>5, <1>6, <1>7, <1>8, Zenon DEF Next, Works,
     Returns

-----------------------------------------------------------------------------
(* Owners at work *)

\* A check runs out only for a record that was absent: the check of another one is
\* acknowledged, or its owner or the process that checks has a notification to
\* answer first, and no time passes.
LEMMA HealthyPreserved ==
  ASSUME Disk, Journal, Runs, Memory, Checks, Past, Counted, Known, Healthy,
         Noted, [Next]_vars
  PROVE  Healthy'
<1>1. ASSUME NEW p \in Process, Launch(p) PROVE Healthy'
  BY <1>1, SMT DEF Healthy, Seen, Disk, Journal, Runs, Memory, Awake, Launch,
     Seen, disk, journal, memory
<1>2. ASSUME NEW p \in Process, LoadSessions(p) PROVE Healthy'
  BY <1>2, SMT DEF Healthy, Seen, Disk, Journal, Runs, Memory, LoadSessions,
     Seen, disk, journal, memory
<1>3. ASSUME NEW p \in Process, AnswerPing(p) PROVE Healthy'
  BY <1>3, SMT DEF Healthy, Seen, Disk, Journal, Runs, Memory, AnswerPing, Seen,
     disk, journal, memory
<1>4. ASSUME NEW p \in Process, StartCore(p) PROVE Healthy'
  BY <1>4, SMT DEF Healthy, Seen, Disk, Journal, Runs, Memory, StartCore, Seen,
     disk, journal, memory
<1>5. ASSUME NEW p \in Process, StopCore(p) PROVE Healthy'
  BY <1>5, SMT DEF Healthy, Seen, Disk, Journal, Runs, Memory, Submitted,
     StopCore, Seen, disk, journal, memory
<1>6. ASSUME NEW p \in Process, NEW r \in Record, Submit(p, r) PROVE Healthy'
  <2> SUFFICES ASSUME NEW s \in Record, origin'[s] # 0, s \notin absences' PROVE Seen(s)'
    BY Zenon DEF Healthy
  <2>1. UNCHANGED <<stateFile, activeProcessCores, run, session, sessions, core, timedOut>>
    BY <1>6, Zenon DEF Submit, disk
  <2>2. CASE s = r
    <3>1. ~ NotNoticed(p) /\ Active(p) /\ Owner[r] = p /\ origin[r] = 0 /\ origin'[r] = session[p]
      BY <1>6, <2>2, SMT DEF Submit, Journal
    <3> QED BY <2>1, <2>2, <3>1, SMT DEF Seen, NotNoticed, Active, Awake, Known
  <2>3. CASE s # r
    <3>1. origin'[s] = origin[s] /\ s \notin absences
      BY <1>6, <2>3, SMT DEF Submit, Journal
    <3> QED BY <2>1, <3>1, SMT DEF Healthy, Seen
  <2> QED BY <2>2, <2>3, Zenon
<1>7. ASSUME NEW p \in Process, Pass(p) PROVE Healthy'
  <2>1. PICK sent, removed, left \in SUBSET open, gone \in SUBSET Process :
               Passed(p, sent, removed, left, gone)
    BY <1>7, PassEffect, Zenon
  <2>2. UNCHANGED <<origin, run, session, sessions, core, timedOut, absences>>
    BY <1>7, Zenon DEF Pass, journal
  <2>3. activeProcessCores \subseteq activeProcessCores'
    BY <1>7, SMT DEF Pass
  <2>4. \A o \in Process : run[o] = "up" => stateFile'[o] = stateFile[o]
    BY <2>1, SMT DEF Passed, Responds, Awake, Disk
  <2> QED BY <2>2, <2>3, <2>4, TriggerAssumption, SMT DEF Healthy, Seen, TriggerAssumption
<1>8. ASSUME NEW p \in Process, NEW c \in checks[p], CheckAck(p, c) PROVE Healthy'
  <2>1. CASE DidTimeout(c)
    <3>1. c.record \in Record /\ origin[c.record] # 0
      BY CheckParts, Zenon DEF Known
    <3>2. c.record \in absences
      <4> SUFFICES ASSUME c.record \notin absences PROVE FALSE
        OBVIOUS
      <4>1. Active(Owner[c.record]) /\ Owner[c.record] \in Process
        BY <3>1, TriggerAssumption, SMT DEF Healthy, Seen, Active, Awake, TriggerAssumption
      <4>2. Owner[c.record] \in triggers \/ <<p, Owner[c.record]>> \in acks
        BY <2>1, Zenon DEF Noted, DidTimeout
      <4>3. Active(p) /\ ~ Due
        BY <1>8, Zenon DEF CheckAck
      <4> QED BY <4>1, <4>2, <4>3, Zenon DEF Due
    <3>3. /\ UNCHANGED <<stateFile, origin, run, session, sessions, core>>
          /\ timedOut' = [timedOut EXCEPT ![p] = @ \cup {c.record}]
          /\ activeProcessCores' = activeProcessCores \ {Owner[c.record]}
          /\ absences' = absences \cup Submitted(Owner[c.record])
      BY <1>8, <2>1, <3>2, SMT DEF CheckAck, journal
    <3> QED BY <3>2, <3>3, TriggerAssumption, SMT DEF Healthy, Seen, Submitted,
          Memory, TriggerAssumption
  <2>2. CASE ~ DidTimeout(c)
    <3>1. UNCHANGED <<stateFile, activeProcessCores, origin, run, session, sessions, core,
                     timedOut, absences>>
      BY <1>8, <2>2, Zenon DEF CheckAck, journal
    <3> QED BY <3>1, Zenon DEF Healthy, Seen
  <2> QED BY <2>1, <2>2, Zenon
<1>9. ASSUME NEW p \in Process, Suspend(p) PROVE Healthy'
  BY <1>9, SMT DEF Healthy, Seen, Disk, Journal, Runs, Memory, Submitted, Awake,
     Suspend, Seen, disk, journal, memory
<1>10. ASSUME NEW p \in Process, Resume(p) PROVE Healthy'
  BY <1>10, SMT DEF Healthy, Seen, Disk, Journal, Runs, Memory, Resume, Seen,
     disk, journal, memory
<1>11. ASSUME NEW p \in Process, Terminate(p) PROVE Healthy'
  BY <1>11, SMT DEF Healthy, Seen, Disk, Journal, Runs, Memory, Submitted,
     Awake, Terminate, Seen, disk, journal
<1>12. ASSUME NEW p \in Process,
              \/ Acknowledge(p) \/ (\E r \in Record : Answer(p, r))
              \/ (\E o \in Process : ReceiveAck(p, o))
       PROVE  Healthy'
  BY <1>12, Zenon DEF Healthy, Seen, Answer, Acknowledge, ReceiveAck, disk,
     journal, memory
<1>13. CASE UNCHANGED vars
  BY <1>13, Zenon DEF Healthy, Seen, vars, disk, journal, memory
<1> QED
  BY <1>1, <1>2, <1>3, <1>4, <1>5, <1>6, <1>7, <1>8, <1>9, <1>10, <1>11, <1>12,
     <1>13, Zenon DEF Next, Works, Returns

LEMMA AsleepPreserved ==
  ASSUME Journal, Runs, Checks, Past, Asleep, [Next]_vars
  PROVE  Asleep'
<1>1. ASSUME NEW p \in Process, Launch(p) PROVE Asleep'
  BY <1>1, SMT DEF Asleep, Runs, Launch, memory
<1>2. ASSUME NEW p \in Process, StopCore(p) PROVE Asleep'
  BY <1>2, SMT DEF Asleep, Runs, Checks, StopCore
<1>3. ASSUME NEW p \in Process, NEW r \in Record, Submit(p, r) PROVE Asleep'
  BY <1>3, SMT DEF Asleep, Submit, memory
<1>4. ASSUME NEW p \in Process, Pass(p) PROVE Asleep'
  <2>1. PICK sent, removed, left \in SUBSET open, gone \in SUBSET Process :
               Passed(p, sent, removed, left, gone)
    BY <1>4, PassEffect, Zenon
  <2>2. run[p] = "up" /\ run' = run /\ absences' = absences
    BY <1>4, Zenon DEF Pass, Active, Awake
  <2>3. \A q \in Process : q # p => checks'[q] = checks[q]
    BY <2>1, SMT DEF Passed, Checks
  <2> QED BY <2>2, <2>3, SMT DEF Asleep
<1>5. ASSUME NEW p \in Process, NEW o \in Process, ReceiveAck(p, o) PROVE Asleep'
  BY <1>5, SMT DEF Asleep, Active, Awake, Checks, ReceiveAck
<1>6. ASSUME NEW p \in Process, NEW c \in checks[p], CheckAck(p, c) PROVE Asleep'
  <2>1. \A q \in Process : checks'[q] \subseteq checks[q]
    BY <1>6, SMT DEF CheckAck, Checks
  <2>2. run' = run /\ absences \subseteq absences'
    BY <1>6, SMT DEF CheckAck
  <2> QED BY <2>1, <2>2, SMT DEF Asleep
<1>7. ASSUME NEW p \in Process, Suspend(p) PROVE Asleep'
  BY <1>7, SMT DEF Asleep, Runs, Checks, Suspend, memory
<1>8. ASSUME NEW p \in Process, Resume(p) PROVE Asleep'
  BY <1>8, SMT DEF Asleep, Runs, Resume, memory
<1>9. ASSUME NEW p \in Process, Terminate(p) PROVE Asleep'
  BY <1>9, SMT DEF Asleep, Runs, Checks, Terminate
<1>10. ASSUME NEW p \in Process,
              \/ LoadSessions(p) \/ AnswerPing(p) \/ StartCore(p)
              \/ Acknowledge(p) \/ (\E r \in Record : Answer(p, r))
       PROVE  Asleep'
  BY <1>10, Zenon DEF Asleep, LoadSessions, AnswerPing, StartCore, Answer,
     Acknowledge, memory
<1>11. CASE UNCHANGED vars
  BY <1>11, Zenon DEF Asleep, vars, memory
<1> QED
  BY <1>1, <1>2, <1>3, <1>4, <1>5, <1>6, <1>7, <1>8, <1>9, <1>10, <1>11,
     Zenon DEF Next, Works, Returns

\* A trigger is gone only when its acknowledgement is under way, and that only when
\* the check has it; whoever loses one of them is, or was, away.
LEMMA NotedPreserved ==
  ASSUME Journal, Runs, Memory, Checks, Past, Others, Down, Known, Waiting,
         Healthy, Asleep, Noted, [Next]_vars
  PROVE  Noted'
<1>1. ASSUME NEW p \in Process, StopCore(p) PROVE Noted'
  <2>1. \A q \in Process : \A c \in checks'[q] :
          q # p /\ c \in checks[q] /\ (c.record \notin absences' => Owner[c.record] # p)
    BY <1>1, CheckParts, SMT DEF StopCore, Checks, Known, Submitted
  <2>2. /\ triggers' = triggers \ {p} /\ acks' = {a \in acks : a[1] # p}
        /\ absences \subseteq absences'
    BY <1>1, SMT DEF StopCore
  <2> QED BY <2>1, <2>2, SMT DEF Noted
<1>2. ASSUME NEW p \in Process, NEW r \in Record, Submit(p, r) PROVE Noted'
  BY <1>2, SMT DEF Noted, Submit, memory, notes
<1>3. ASSUME NEW p \in Process, Pass(p) PROVE Noted'
  <2>1. PICK sent, removed, left \in SUBSET open, gone \in SUBSET Process :
               Passed(p, sent, removed, left, gone)
    BY <1>3, PassEffect, Zenon
  <2>2. absences' = absences /\ acks' = acks
    BY <1>3, Zenon DEF Pass
  <2>3. \A r \in left : r \notin absences => Owner[r] \in triggers'
    BY <2>1, TriggerAssumption, SMT DEF Passed, Known, Healthy, Seen, Reached, Cores,
       Journal, TriggerAssumption
  <2>4. triggers \subseteq triggers'
    BY <2>1, SMT DEF Passed
  <2>5. checks' = [checks EXCEPT ![p] =
                     @ \cup {[record |-> r, acked |-> FALSE] : r \in left}]
    BY <2>1, Zenon DEF Passed
  <2>6. \A c \in {[record |-> r, acked |-> FALSE] : r \in left} :
          c.record \notin absences => Owner[c.record] \in triggers'
    BY <2>3, SMT
  <2> QED BY <2>2, <2>4, <2>5, <2>6, SMT DEF Noted, Checks
<1>4. ASSUME NEW p \in Process, Acknowledge(p) PROVE Noted'
  <2>1. /\ checks' = checks /\ absences' = absences /\ triggers' = triggers \ {p}
        /\ acks' = acks \cup (Reached(Cores \ {p}) \X {p})
    BY <1>4, Zenon DEF Acknowledge, memory
  <2>2. \A q \in Process : \A c \in checks[q] :
          Owner[c.record] = p => q \in Reached(Cores \ {p})
    BY SMT DEF Others, Waiting, Down, Reached, Cores
  <2> SUFFICES ASSUME NEW q \in Process, NEW c \in checks[q],
                      c.record \notin absences, ~ c.acked
               PROVE  Owner[c.record] \in triggers' \/ <<q, Owner[c.record]>> \in acks'
    BY <2>1, Zenon DEF Noted
  <2>3. CASE Owner[c.record] = p
    <3>1. q \in Reached(Cores \ {p})
      BY <2>2, <2>3, Zenon
    <3>2. <<q, p>> \in Reached(Cores \ {p}) \X {p}
      BY <3>1, Zenon
    <3> QED BY <2>1, <2>3, <3>2, SMT
  <2>4. CASE Owner[c.record] # p
    BY <2>1, <2>4, SMT DEF Noted
  <2> QED BY <2>3, <2>4, Zenon
<1>5. ASSUME NEW p \in Process, NEW o \in Process, ReceiveAck(p, o) PROVE Noted'
  <2>1. \A q \in Process : \A d \in checks'[q] : \E c \in checks[q] : Follows(p, o, q, c, d)
    BY <1>5, CheckChanged, Zenon
  <2>2. acks' = acks \ {<<p, o>>} /\ triggers' = triggers /\ absences' = absences
    BY <1>5, Zenon DEF ReceiveAck
  <2> QED BY <2>1, <2>2, SMT DEF Noted, Follows
<1>6. ASSUME NEW p \in Process, NEW c \in checks[p], CheckAck(p, c) PROVE Noted'
  <2>1. \A q \in Process : checks'[q] \subseteq checks[q]
    BY <1>6, SMT DEF CheckAck, Checks
  <2>2. UNCHANGED <<triggers, acks>> /\ absences \subseteq absences'
    BY <1>6, SMT DEF CheckAck, notes
  <2> QED BY <2>1, <2>2, SMT DEF Noted
<1>7. ASSUME NEW p \in Process, Suspend(p) PROVE Noted'
  BY <1>7, SMT DEF Noted, Suspend, memory, notes
<1>8. ASSUME NEW p \in Process, Resume(p) PROVE Noted'
  <2>1. acks \ {a \in acks : a[1] = p} \subseteq acks' /\ UNCHANGED <<checks, triggers, absences>>
    BY <1>8, SMT DEF Resume, memory
  <2>2. run[p] = "suspended"
    BY <1>8, Zenon DEF Resume
  <2> QED BY <2>1, <2>2, SMT DEF Noted, Asleep
<1>9. ASSUME NEW p \in Process, Terminate(p) PROVE Noted'
  <2>1. \A q \in Process : \A c \in checks'[q] :
          q # p /\ c \in checks[q] /\ (c.record \notin absences' => Owner[c.record] # p)
    BY <1>9, CheckParts, SMT DEF Terminate, Checks, Known, Submitted
  <2>2. /\ triggers' = triggers \ {p} /\ acks' = {a \in acks : a[1] # p}
        /\ absences \subseteq absences'
    BY <1>9, SMT DEF Terminate
  <2> QED BY <2>1, <2>2, SMT DEF Noted
<1>10. ASSUME NEW p \in Process,
              \/ Launch(p) \/ LoadSessions(p) \/ AnswerPing(p)
              \/ StartCore(p) \/ (\E r \in Record : Answer(p, r))
       PROVE  Noted'
  BY <1>10, Zenon DEF Noted, Launch, LoadSessions, AnswerPing, StartCore,
     Answer, memory, notes
<1>11. CASE UNCHANGED vars
  BY <1>11, Zenon DEF Noted, vars, memory, notes
<1> QED
  BY <1>1, <1>2, <1>3, <1>4, <1>5, <1>6, <1>7, <1>8, <1>9, <1>10, <1>11,
     Zenon DEF Next, Works, Returns

\* To everybody but its owner, a record that was not absent passes the check of its
\* origin.
LEMMA TakenOverPreserved ==
  ASSUME Disk, Journal, Runs, Memory, Past, Known, Healthy,
         TakenOverOnlyAfterAbsence, [Next]_vars
  PROVE  TakenOverOnlyAfterAbsence'
<1>1. ASSUME NEW p \in Process, StopCore(p) PROVE TakenOverOnlyAfterAbsence'
  BY <1>1, SMT DEF TakenOverOnlyAfterAbsence, StopCore
<1>2. ASSUME NEW p \in Process, NEW r \in Record, Submit(p, r) PROVE TakenOverOnlyAfterAbsence'
  BY <1>2, SMT DEF TakenOverOnlyAfterAbsence, Submit
<1>3. ASSUME NEW p \in Process, Pass(p) PROVE TakenOverOnlyAfterAbsence'
  <2>1. PICK sent, removed, left \in SUBSET open, gone \in SUBSET Process :
               Passed(p, sent, removed, left, gone)
    BY <1>3, PassEffect, Zenon
  <2>2. absences' = absences
    BY <1>3, Zenon DEF Pass
  <2>3. \A r \in open \ absences : Owner[r] # p => LeftToOwner(p, r)
    BY TriggerAssumption, SMT DEF Known, Healthy, Seen, LeftToOwner, OriginChecked,
       SessionStored, Responds, Awake, Journal, TriggerAssumption
  <2>4. \A r \in (sent \cup removed) \ absences : Owner[r] = p
    BY <2>1, <2>3, SMT DEF Passed
  <2> QED BY <2>1, <2>2, <2>4, SMT DEF TakenOverOnlyAfterAbsence, Passed, Past
<1>4. ASSUME NEW p \in Process, NEW c \in checks[p], CheckAck(p, c) PROVE TakenOverOnlyAfterAbsence'
  BY <1>4, SMT DEF TakenOverOnlyAfterAbsence, CheckAck
<1>5. ASSUME NEW p \in Process, Suspend(p) PROVE TakenOverOnlyAfterAbsence'
  BY <1>5, SMT DEF TakenOverOnlyAfterAbsence, Suspend
<1>6. ASSUME NEW p \in Process, Terminate(p) PROVE TakenOverOnlyAfterAbsence'
  BY <1>6, SMT DEF TakenOverOnlyAfterAbsence, Terminate
<1>7. ASSUME NEW p \in Process,
              \/ Launch(p) \/ LoadSessions(p) \/ AnswerPing(p)
              \/ StartCore(p) \/ Acknowledge(p) \/ Resume(p)
              \/ (\E r \in Record : Answer(p, r))
              \/ (\E o \in Process : ReceiveAck(p, o))
       PROVE  TakenOverOnlyAfterAbsence'
  BY <1>7, Zenon DEF TakenOverOnlyAfterAbsence, Launch, LoadSessions,
     AnswerPing, StartCore, Answer, Acknowledge, ReceiveAck, Resume
<1>8. CASE UNCHANGED vars
  BY <1>8, Zenon DEF TakenOverOnlyAfterAbsence, vars
<1> QED
  BY <1>1, <1>2, <1>3, <1>4, <1>5, <1>6, <1>7, <1>8, Zenon DEF Next, Works,
     Returns

-----------------------------------------------------------------------------
(* The theorems *)

LEMMA InitInductive == ASSUME Init PROVE Inductive
<1>1. Extension \subseteq Process /\ 0 \in Session /\ 1 \in Session /\ App \subseteq Process
  BY TriggerAssumption, SMT DEF TriggerAssumption, Session, App
<1>2. Disk /\ Journal /\ Runs
  BY <1>1, SMT DEF Init, Disk, Journal, Runs
<1>3. Memory
  BY <1>1, SMT DEF Init, Memory
<1>4. Checks /\ Notes /\ Past
  BY SMT DEF Init, Checks, Notes, Past
<1>5. Sent /\ Others /\ Down
  <2>1. Sent /\ Others
    BY SMT DEF Init, Sent, Others
  <2>2. \A p \in Process : run[p] = "down" => p \notin App
    BY SMT DEF Init
  <2>3. \A p \in Process : p \notin App => ~ core[p]
    BY Zenon DEF Init
  <2>4. \A p \in Process : ~ needs[p] /\ checks[p] = {}
    BY Zenon DEF Init
  <2> QED BY <2>1, <2>2, <2>3, <2>4, Zenon DEF Down
<1>6. Counted
  BY <1>1, TriggerAssumption, SMT DEF Init, Counted, TriggerAssumption
<1>7. Known /\ Waiting /\ Healthy /\ Asleep /\ Noted /\ TakenOverOnlyAfterAbsence
  BY SMT DEF Init, Known, Waiting, Healthy, Asleep, Noted, TakenOverOnlyAfterAbsence
<1> QED BY <1>2, <1>3, <1>4, <1>5, <1>6, <1>7, TypeParts, Zenon DEF Inductive

\* The inductive invariant holds in every behaviour of the processes.
THEOREM InductiveHolds == Spec => []Inductive
<1>1. Init => Inductive
  BY InitInductive, Zenon
<1>2. ASSUME Inductive, [Next]_vars
      PROVE  Inductive'
  <2>1. /\ Disk /\ Journal /\ Runs /\ Memory /\ Checks /\ Notes /\ Past
        /\ Sent /\ Others /\ Down
    BY <1>2, TypeParts, Zenon DEF Inductive
  <2>2. /\ Counted /\ Known /\ Waiting /\ Healthy /\ Asleep /\ Noted
        /\ TakenOverOnlyAfterAbsence
    BY <1>2, Zenon DEF Inductive
  <2>3. Disk' /\ Journal' /\ Runs' /\ Checks' /\ Notes' /\ Past'
    BY <1>2, <2>1, <2>2, DiskPreserved, JournalPreserved, RunsPreserved, ChecksPreserved,
       NotesPreserved, PastPreserved, Zenon
  <2>4. Memory'
    BY <1>2, <2>1, <2>2, <2>3, MemoryPreserved, Zenon
  <2>5. Sent' /\ Others' /\ Down'
    BY <1>2, <2>1, SentPreserved, OthersPreserved, DownPreserved, Zenon
  <2>6. TypeOK'
    BY <2>3, <2>4, <2>5, Zenon DEF TypeOK, Disk, Journal, Runs, Memory, Checks, Notes, Past,
       Sent, Others, Down
  <2>7. Counted' /\ Known' /\ Waiting'
    BY <1>2, <2>1, <2>2, CountedPreserved, KnownPreserved, WaitingPreserved, Zenon
  <2>8. Healthy' /\ Asleep' /\ Noted'
    BY <1>2, <2>1, <2>2, HealthyPreserved, AsleepPreserved, NotedPreserved, Zenon
  <2>9. TakenOverOnlyAfterAbsence'
    BY <1>2, <2>1, <2>2, TakenOverPreserved, Zenon
  <2> QED BY <2>6, <2>7, <2>8, <2>9, Zenon DEF Inductive
<1> QED BY <1>1, <1>2, PTL DEF Spec

\* Every variable keeps its type, nobody waits for its own acknowledgement, and
\* what is answered was sent, for any number of processes and records.
THEOREM TypeCorrect == Spec => []TypeOK
<1>1. Inductive => TypeOK
  BY Zenon DEF Inductive
<1> QED BY <1>1, InductiveHolds, PTL

\* No process carries out the record of another one that was at work, and known
\* to be, ever since the record was submitted.
THEOREM OwnersServe == Spec => []TakenOverOnlyAfterAbsence
<1>1. Inductive => TakenOverOnlyAfterAbsence
  BY Zenon DEF Inductive
<1> QED BY <1>1, InductiveHolds, PTL
=============================================================================
