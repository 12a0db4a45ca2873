---------------------------- MODULE RemoteTrigger ----------------------------
(***************************************************************************)
(* How the app and its extensions share the journal: a pass leaves the     *)
(* record of another process to that process, as long as it runs and has a *)
(* core for the account, and triggers it (-processSyncRecord:error:, first *)
(* part).  The other process acknowledges and runs a pass; if it does not  *)
(* within 7 seconds, the record is exempted from the check and the process *)
(* taken off the list of active cores.                                     *)
(*                                                                         *)
(* Whether a process runs is found out by OCProcessManager, from a file    *)
(* per process and, for extensions, a ping that has to be answered in time.*)
(*                                                                         *)
(* The pass is a single step, because its transaction is exclusive.  Time  *)
(* is not counted: an awake process answers pings, triggers and            *)
(* acknowledgements before they time out, and a suspended one does not.    *)
(***************************************************************************)
EXTENDS Integers, FiniteSets

CONSTANTS
  Process,
  Extension,   \* processes of type OCProcessTypeExtension; the others are apps
  Record,
  Owner,       \* originProcessSession of a record, its bundle identifier
  Before,      \* records that precede a record on its lane
  MaxAways     \* bound: suspensions, terminations, cores that are stopped

ASSUME TriggerAssumption ==
  /\ Extension \subseteq Process
  /\ Owner \in [Record -> Process] /\ Before \in [Record -> SUBSET Record]
  /\ MaxAways \in Nat

VARIABLES
  \* on disk
  stateFile,   \* number of the session in a process's state file, 0: no file
  activeProcessCores,
  open,        \* records of the journal
  state,       \* "Ready", "Processing", "Answered": its event is stored
  origin,      \* number of the session a record originates from
  \* of each process
  run,         \* "down", "up", "suspended"
  session,     \* number of its current session
  sessions,    \* _sessions: the session it last read of each process, or 0
  core,        \* it has a core for the account, which is set up
  needs,       \* a pass is due
  timedOut,    \* _remoteSyncEngineTimedOutSyncRecordIDs
  checks,      \* acknowledgement checks under way: record, and whether an
               \* acknowledgement came since the trigger
  \* notifications under way to a process
  updates,     \* the sessions were updated
  pings, triggers,
  acks,        \* pairs: receiver, process that acknowledges
  \* history
  by,          \* the processes that handled a record
  absences,    \* records whose owner was away, or not noticed to be back, or
               \* whose triggering process was suspended, or whose owner was
               \* taken off the list for such a record
  abandoned,   \* records that a process left undone as it went away, with
               \* nobody waiting for its acknowledgement
  aways

disk    == <<stateFile, activeProcessCores>>
journal == <<open, state, origin>>
memory  == <<sessions, core, needs, timedOut, checks>>
notes   == <<updates, pings, triggers, acks>>
vars == <<disk, journal, run, session, memory, notes, by, absences, abandoned, aways>>

App == Process \ Extension

\* The app runs with a core, no extension does.
Init ==
  /\ stateFile = [p \in Process |-> IF p \in App THEN 1 ELSE 0]
  /\ activeProcessCores = App
  /\ open = {} /\ state = [r \in Record |-> "Ready"] /\ origin = [r \in Record |-> 0]
  /\ run = [p \in Process |-> IF p \in App THEN "up" ELSE "down"]
  /\ session = stateFile
  /\ sessions = [p \in Process |->
                   IF p \in App THEN stateFile ELSE [q \in Process |-> 0]]
  /\ core = [p \in Process |-> p \in App]
  /\ needs = [p \in Process |-> FALSE]
  /\ timedOut = [p \in Process |-> {}]
  /\ checks = [p \in Process |-> {}]
  /\ updates = {} /\ pings = {} /\ triggers = {} /\ acks = {}
  /\ by = [r \in Record |-> {}] /\ absences = {} /\ abandoned = {}
  /\ aways = 0

Awake(p)  == run[p] = "up"
Active(p) == Awake(p) /\ core[p]
Cores     == {p \in Process : core[p]}
Submitted(p) == {r \in Record : Owner[r] = p /\ origin[r] # 0}

\* A notification to S reaches the processes that run; a suspended one gets it
\* when it goes on.
Reached(S) == {q \in S : run[q] # "down"}

-----------------------------------------------------------------------------
(* OCProcessManager *)

\* A process is launched: it writes its state file, reads those of the others
\* and pings the extensions among them.
Launch(p) ==
  /\ run[p] = "down"
  /\ run' = [run EXCEPT ![p] = "up"]
  /\ session' = [session EXCEPT ![p] = @ + 1]
  /\ LET known == {q \in Extension \ {p} : stateFile[q] # 0}
     IN  /\ stateFile' = [q \in Process |->
                            IF q = p THEN session[p] + 1
                            ELSE IF q \in known /\ ~ Awake(q) THEN 0 ELSE stateFile[q]]
         /\ pings' = pings \cup Reached({q \in known : ~ Awake(q)})
  /\ sessions' = [sessions EXCEPT ![p] = stateFile']
  /\ updates' = updates \cup Reached(Process)
  /\ UNCHANGED <<activeProcessCores, journal, core, needs, timedOut, checks,
                 triggers, acks, by, absences, abandoned, aways>>

\* -loadSessions
LoadSessions(p) ==
  /\ Awake(p) /\ p \in updates
  /\ updates' = updates \ {p}
  /\ sessions' = [sessions EXCEPT ![p] = stateFile]
  /\ UNCHANGED <<disk, journal, run, session, core, needs, timedOut, checks,
                 pings, triggers, acks, by, absences, abandoned, aways>>

\* A process that was suspended when it was pinged gets the ping now: it
\* writes its state file again.
AnswerPing(p) ==
  /\ Awake(p) /\ p \in pings
  /\ pings' = pings \ {p}
  /\ stateFile' = [stateFile EXCEPT ![p] = session[p]]
  /\ updates' = updates \cup Reached(Process)
  /\ UNCHANGED <<activeProcessCores, journal, run, session, memory, triggers,
                 acks, by, absences, abandoned, aways>>

-----------------------------------------------------------------------------
(* History: what a process leaves undone as it goes away *)

Awaited(r, q) ==
  \E p \in Process : /\ [record |-> r, acked |-> FALSE] \in checks[p]
                     /\ <<p, q>> \notin acks

LeftUndone(q) ==
  {r \in open : /\ ~ Awaited(r, q)
                /\ \/ needs[q] \/ q \in triggers
                   \/ q \in by[r] /\ state[r] = "Processing"}

-----------------------------------------------------------------------------
(* Core *)

\* -setupSyncEngine, and the pass that is due once the core is online.
StartCore(p) ==
  /\ Awake(p) /\ ~ core[p]
  /\ core' = [core EXCEPT ![p] = TRUE]
  /\ activeProcessCores' = activeProcessCores \cup {p}
  /\ needs' = [needs EXCEPT ![p] = TRUE]
  /\ UNCHANGED <<stateFile, journal, run, session, sessions, timedOut, checks,
                 notes, by, absences, abandoned, aways>>

\* -shutdownSyncEngine, after the passes that were queued.
StopCore(p) ==
  /\ Active(p) /\ ~ needs[p] /\ aways < MaxAways
  /\ aways' = aways + 1
  /\ core' = [core EXCEPT ![p] = FALSE]
  /\ activeProcessCores' = activeProcessCores \ {p}
  /\ timedOut' = [timedOut EXCEPT ![p] = {}]
  /\ checks' = [checks EXCEPT ![p] = {}]
  /\ triggers' = triggers \ {p}
  /\ acks' = {a \in acks : a[1] # p}
  /\ abandoned' = abandoned \cup LeftUndone(p)
  /\ absences' = absences \cup Submitted(p)
  /\ UNCHANGED <<stateFile, journal, run, session, sessions, needs, updates,
                 pings, by>>

\* Others cannot know yet that p is back after an absence.
NotNoticed(p) ==
  \/ p \notin activeProcessCores
  \/ stateFile[p] # session[p]
  \/ \E q \in Process \ {p} : sessions[q][p] \notin {0, session[p]}

\* A sync record is submitted.
Submit(p, r) ==
  /\ Active(p) /\ Owner[r] = p /\ origin[r] = 0
  /\ \A b \in Before[r] : origin[b] # 0
  /\ open' = open \cup {r}
  /\ origin' = [origin EXCEPT ![r] = session[p]]
  /\ needs' = [needs EXCEPT ![p] = TRUE]
  /\ absences' = IF NotNoticed(p) THEN absences \cup {r} ELSE absences
  /\ UNCHANGED <<disk, state, run, session, sessions, core, timedOut, checks,
                 notes, by, abandoned, aways>>

\* The HTTP pipelines of other processes deliver the response to q's request,
\* or restart it: q runs without a core, or is not found to run.
Orphaned(q) == IF Awake(q) THEN ~ core[q] ELSE q \in Extension \/ stateFile[q] = 0

\* The response to a request arrives: its event is stored and a pass is due.
Answer(p, r) ==
  /\ Active(p) /\ r \in open /\ state[r] = "Processing"
  /\ p \in by[r] \/ \A q \in by[r] : Orphaned(q)
  /\ state' = [state EXCEPT ![r] = "Answered"]
  /\ needs' = [needs EXCEPT ![p] = TRUE]
  /\ UNCHANGED <<disk, open, origin, run, session, sessions, core, timedOut,
                 checks, notes, by, absences, abandoned, aways>>

-----------------------------------------------------------------------------
(* -processSyncRecords *)

\* -findLatestSessionForProcessOf: and the part of -isSessionValid: that reads
\* the state file.
SessionStored(p, r) ==
  LET o == Owner[r]
  IN  stateFile[o] = IF sessions[p][o] # 0 THEN sessions[p][o] ELSE origin[r]

\* An extension is pinged.
Responds(o) == o \in Extension => Awake(o)

OriginCheckedAlways(p, r) == r \notin timedOut[p]  \* faulty: own records, too
OriginChecked(p, r) == Owner[r] # p /\ r \notin timedOut[p]

\* A pass of p leaves the record to its owner.
LeftToOwner(p, r) ==
  /\ OriginChecked(p, r)
  /\ SessionStored(p, r) /\ Responds(Owner[r])
  /\ Owner[r] \in activeProcessCores

Pass(p) ==
  /\ Active(p) /\ needs[p]
  /\ LET mine     == {r \in open : ~ LeftToOwner(p, r)}
         answered == {r \in mine : state[r] = "Answered"}
         removed  == {r \in answered : Before[r] \cap open \subseteq answered}
         visited  == {r \in open : Before[r] \cap open \subseteq removed}
         sent     == {r \in visited \cap mine : state[r] = "Ready"}
         left     == visited \ mine
         gone     == {Owner[r] : r \in {s \in visited : /\ OriginChecked(p, s)
                                                        /\ SessionStored(p, s)
                                                        /\ ~ Responds(Owner[s])}}
     IN  /\ open' = open \ removed
         /\ state' = [r \in Record |-> IF r \in sent THEN "Processing" ELSE state[r]]
         /\ by' = [r \in Record |-> IF r \in sent \cup removed THEN by[r] \cup {p} ELSE by[r]]
         /\ checks' = [checks EXCEPT ![p] =
                         @ \cup {[record |-> r, acked |-> FALSE] : r \in left}]
         /\ abandoned' = (abandoned \ left)
              \cup {r \in left : <<p, Owner[r]>> \in acks /\ ~ Active(Owner[r])}
         /\ stateFile' = [q \in Process |-> IF q \in gone THEN 0 ELSE stateFile[q]]
         /\ triggers' = triggers \cup Reached({Owner[r] : r \in left} \cap Cores)
         /\ pings' = pings \cup Reached(gone)
         /\ updates' = IF gone = {} THEN updates ELSE updates \cup Reached(Process)
  /\ activeProcessCores' = activeProcessCores \cup {p}
  /\ needs' = [needs EXCEPT ![p] = FALSE]
  /\ UNCHANGED <<origin, run, session, sessions, core, timedOut, acks, absences,
                 aways>>

-----------------------------------------------------------------------------
(* Trigger and acknowledgement *)

\* The observer of the trigger acknowledges on the core's queue and asks for a
\* pass.
Acknowledge(p) ==
  /\ Active(p) /\ p \in triggers
  /\ triggers' = triggers \ {p}
  /\ needs' = [needs EXCEPT ![p] = TRUE]
  /\ acks' = acks \cup (Reached(Cores \ {p}) \X {p})
  /\ UNCHANGED <<disk, journal, run, session, sessions, core, timedOut, checks,
                 updates, pings, by, absences, abandoned, aways>>

\* The observer of the acknowledgement keeps its date.
ReceiveAck(p, o) ==
  /\ Active(p) /\ <<p, o>> \in acks
  /\ acks' = acks \ {<<p, o>>}
  /\ checks' = [checks EXCEPT ![p] =
                  {[c EXCEPT !.acked = @ \/ Owner[c.record] = o] : c \in checks[p]}]
  /\ UNCHANGED <<disk, journal, run, session, sessions, core, needs, timedOut,
                 updates, pings, triggers, by, absences, abandoned, aways>>

\* No time passes while an awake process has a notification to answer.
Due == \/ \E p \in Process : Active(p) /\ (p \in triggers \/ \E o \in Process : <<p, o>> \in acks)
       \/ \E p \in Process : Awake(p) /\ p \in updates

DidTimeoutAlways(c) == TRUE  \* faulty: the acknowledgement is not looked up
DidTimeout(c) == ~ c.acked

\* Faulty: does not ask for a pass.
CheckAckQuietly(p, c) ==
  /\ Active(p) /\ c \in checks[p] /\ ~ Due
  /\ checks' = [checks EXCEPT ![p] = @ \ {c}]
  /\ IF DidTimeout(c)
     THEN /\ timedOut' = [timedOut EXCEPT ![p] = @ \cup {c.record}]
          /\ activeProcessCores' = activeProcessCores \ {Owner[c.record]}
          /\ absences' = absences \cup {r \in Submitted(Owner[c.record]) :
                                         c.record \in absences}
     ELSE UNCHANGED <<activeProcessCores, timedOut, absences>>
  /\ UNCHANGED <<stateFile, journal, run, session, sessions, core, needs, notes,
                 by, abandoned, aways>>

\* -checkRemoteSyncEngineTriggerAckForSyncRecordID:, 7 seconds after a trigger
CheckAck(p, c) ==
  /\ Active(p) /\ c \in checks[p] /\ ~ Due
  /\ checks' = [checks EXCEPT ![p] = @ \ {c}]
  /\ IF DidTimeout(c)
     THEN /\ timedOut' = [timedOut EXCEPT ![p] = @ \cup {c.record}]
          /\ activeProcessCores' = activeProcessCores \ {Owner[c.record]}
          /\ needs' = [needs EXCEPT ![p] = TRUE]
          /\ absences' = absences \cup {r \in Submitted(Owner[c.record]) :
                                         c.record \in absences}
     ELSE UNCHANGED <<activeProcessCores, needs, timedOut, absences>>
  /\ UNCHANGED <<stateFile, journal, run, session, sessions, core, notes, by,
                 abandoned, aways>>

-----------------------------------------------------------------------------
(* The system suspends, resumes and terminates processes *)

Suspend(p) ==
  /\ Awake(p) /\ aways < MaxAways
  /\ aways' = aways + 1
  /\ run' = [run EXCEPT ![p] = "suspended"]
  /\ absences' = absences \cup Submitted(p) \cup {c.record : c \in checks[p]}
  /\ abandoned' = abandoned \cup LeftUndone(p)
  /\ UNCHANGED <<disk, journal, session, memory, notes, by>>

\* A process goes on: the timers of its checks may have run out before it gets
\* the acknowledgements.
Resume(p) ==
  /\ run[p] = "suspended"
  /\ run' = [run EXCEPT ![p] = "up"]
  /\ acks' \in {acks, {a \in acks : a[1] # p}}
  /\ UNCHANGED <<disk, journal, session, memory, updates, pings, triggers, by,
                 absences, abandoned, aways>>

\* An app that is told removes its state file.  Nothing removes the process
\* from the active cores.
Terminate(p) ==
  /\ run[p] # "down" /\ aways < MaxAways
  /\ aways' = aways + 1
  /\ run' = [run EXCEPT ![p] = "down"]
  /\ \/ UNCHANGED stateFile /\ updates' = updates \ {p}
     \/ /\ Awake(p) /\ p \notin Extension
        /\ stateFile' = [stateFile EXCEPT ![p] = 0]
        /\ updates' = (updates \cup Reached(Process)) \ {p}
  /\ sessions' = [sessions EXCEPT ![p] = [q \in Process |-> 0]]
  /\ core' = [core EXCEPT ![p] = FALSE]
  /\ needs' = [needs EXCEPT ![p] = FALSE]
  /\ timedOut' = [timedOut EXCEPT ![p] = {}]
  /\ checks' = [checks EXCEPT ![p] = {}]
  /\ pings' = pings \ {p} /\ triggers' = triggers \ {p}
  /\ acks' = {a \in acks : a[1] # p}
  /\ absences' = absences \cup Submitted(p)
  /\ abandoned' = abandoned \cup LeftUndone(p)
  /\ UNCHANGED <<activeProcessCores, journal, session, by>>

\* What is queued in a process: notifications, blocks on the core's queue.
Works(p) == \/ LoadSessions(p) \/ AnswerPing(p) \/ Pass(p) \/ Acknowledge(p)
            \/ \E o \in Process : ReceiveAck(p, o)

Returns(p) == Launch(p) \/ Resume(p) \/ StartCore(p)

Next == \E p \in Process :
          \/ Works(p) \/ Returns(p)
          \/ \E c \in checks[p] : CheckAck(p, c)
          \/ \E r \in Record : Submit(p, r) \/ Answer(p, r)
          \/ Suspend(p) \/ Terminate(p) \/ StopCore(p)

Spec == Init /\ [][Next]_vars

\* An awake process does what is queued, timers fire, the server answers, and
\* the user comes back to the app.  Nothing brings back an extension.
Fairness ==
  /\ \A p \in Process : WF_vars(Works(p)) /\ WF_vars(\E c \in checks[p] : CheckAck(p, c))
  /\ WF_vars(\/ \E p \in Process, r \in Record : Answer(p, r)
             \/ \E p \in App : Returns(p))

FairSpec == Spec /\ Fairness

-----------------------------------------------------------------------------
(* Properties *)

Session == 0 .. MaxAways + 1

\* Every variable holds a value of its type; a record is answered only after
\* somebody sent its request, no process waits for its own acknowledgement, and
\* one that is down has nothing in memory.
TypeOK ==
  /\ stateFile \in [Process -> Session] /\ activeProcessCores \subseteq Process
  /\ open \subseteq Record
  /\ state \in [Record -> {"Ready", "Processing", "Answered"}]
  /\ origin \in [Record -> Session] /\ session \in [Process -> Session]
  /\ run \in [Process -> {"down", "up", "suspended"}]
  /\ sessions \in [Process -> [Process -> Session]]
  /\ core \in [Process -> BOOLEAN] /\ needs \in [Process -> BOOLEAN]
  /\ timedOut \in [Process -> SUBSET Record]
  /\ checks \in [Process -> SUBSET [record : Record, acked : BOOLEAN]]
  /\ updates \subseteq Process /\ pings \subseteq Process /\ triggers \subseteq Process
  /\ acks \subseteq Process \X Process
  /\ by \in [Record -> SUBSET Process] /\ absences \subseteq Record /\ abandoned \subseteq Record
  /\ \A r \in Record : state[r] # "Ready" => by[r] # {}
  /\ \A p \in Process : \A c \in checks[p] : Owner[c.record] # p
  /\ \A p \in Process : run[p] = "down" => ~ core[p] /\ ~ needs[p] /\ checks[p] = {}

\* "ensures that completionHandlers and progress objects provided in/by that
\* process can be called": a record is carried out by its own process, unless
\* that was away at some time since the record was submitted, or its return
\* had not been noticed when it was, or the process that triggered it was
\* suspended and missed the acknowledgement, or one of these befell another
\* record of that process, whose check then took the process off the list.
TakenOverOnlyAfterAbsence ==
  \A r \in Record \ absences : by[r] \subseteq {Owner[r]}

\* A pass that leaves a record to its owner does not leave it for good: the
\* record leaves the journal, unless the process that left it goes away, or
\* another one does with a pass due or the record's request under way, when
\* nobody waits for its acknowledgement.
LeftRecordsServed ==
  \A r \in Record : \A p \in Process \ {Owner[r]} :
    (\E c \in checks[p] : c.record = r)
      ~> \/ r \notin open
         \/ ~ Active(p)
         \/ r \in abandoned
=============================================================================
