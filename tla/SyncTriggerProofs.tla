------------------------- MODULE SyncTriggerProofs -------------------------
(***************************************************************************)
(* No wake-up of the sync engine is lost, whatever work, imports, outages, *)
(* lanes and uploads there are.                                            *)
(***************************************************************************)
EXTENDS SyncTrigger, WellFoundedInduction, TLAPS

Flags    == needs \in BOOLEAN /\ online \in BOOLEAN
Counters == /\ blocks \in 0 .. MaxBlocks /\ reconnects \in Nat
            /\ bulk \in Nat /\ flushing \in Nat
            /\ uploads \in 0 .. MaxUploads
            /\ starts \in Nat /\ imports \in Nat /\ outages \in Nat
Sets     == /\ step \in {"idle", "transfer", "defer", "begin", "heads", "lane"}
            /\ work \subseteq Work /\ finishing \subseteq Work
            /\ window \in {"none", "running", "expired"}
            /\ wakeUp \in {"none", "armed", "outdated"}
Walk     == /\ heads \subseteq Uploads /\ record \in Uploads \cup {0}
            /\ record # 0 <=> step = "lane"
Journal  == upload \in [Uploads -> Places] /\ lane \in [Uploads -> Uploads]

\* The parts of TypeOK, one for each kind of proof that they take.
LEMMA TypeParts == TypeOK <=> Flags /\ Counters /\ Sets /\ Walk /\ Journal
<1>1. 0 .. MaxUploads = Uploads \cup {0}
  BY TriggerAssumption, SMT DEF TriggerAssumption, Uploads
<1> QED BY <1>1, Zenon DEF TypeOK, Flags, Counters, Sets, Walk, Journal

LEMMA UploadsPositive == Uploads \subseteq Nat /\ 0 \notin Uploads
BY TriggerAssumption, SMT DEF TriggerAssumption, Uploads

LEMMA PendingUploads ==
  /\ Pending \subseteq Uploads
  /\ \A u \in Uploads :
       u \in Pending <=> upload[u] \in {"ready", "inFlight", "queued", "stored"}
BY Zenon DEF Pending, At

\* The first record of a lane exists.
LEMMA LeastExists ==
  ASSUME NEW S, S \subseteq Nat, S # {}
  PROVE  \E x \in S : \A y \in S : x <= y
<1> DEFINE less == {p \in Nat \X Nat : p[1] < p[2]}
<1>1. OpToRel(<, Nat) = less
  BY Zenon DEF OpToRel
<1>2. IsWellFoundedOn(less, Nat)
  BY <1>1, NatLessThanWellFounded
<1>3. PICK x \in S : \A y \in S : <<y, x>> \notin less
  <2> HIDE DEF less
  <2> QED BY <1>2, WFMin
<1>4. ASSUME NEW y \in S PROVE x <= y
  <2>1. <<y, x>> \in Nat \X Nat /\ <<y, x>>[1] = y /\ <<y, x>>[2] = x
    OBVIOUS
  <2>2. ~ (y < x)
    BY <1>3, <2>1
  <2> QED BY <2>2
<1> QED BY <1>4

-----------------------------------------------------------------------------
(* Steps that touch neither the pass nor the uploads *)

Elsewhere ==
  \/ \E w \in Work : StartWork(w) \/ EndWork(w) \/ FinishWork(w)
  \/ BeginBulk \/ EndBulk \/ FlushBulk
  \/ GoOffline \/ GoOnline \/ Reconnected
  \/ Expire \/ WakeUp
  \/ SkipBlock \/ YieldToQuery
  \/ UNCHANGED vars

LEMMA ElsewhereKeeps ==
  ASSUME Elsewhere
  PROVE  UNCHANGED <<step, heads, record, upload, lane, uploads>>
<1>1. CASE \E w \in Work : StartWork(w)
  BY <1>1, Zenon DEF StartWork, engine, pass
<1>2. CASE \E w \in Work : EndWork(w)
  BY <1>2, Zenon DEF EndWork, engine, pass
<1>3. CASE \E w \in Work : FinishWork(w)
  BY <1>3, Zenon DEF FinishWork, engine, pass
<1>4. CASE BeginBulk
  BY <1>4, Zenon DEF BeginBulk, engine, pass
<1>5. CASE EndBulk
  BY <1>5, Zenon DEF EndBulk, engine, pass
<1>6. CASE FlushBulk
  BY <1>6, Zenon DEF FlushBulk, engine, pass
<1>7. CASE GoOffline
  BY <1>7, Zenon DEF GoOffline, engine, pass
<1>8. CASE GoOnline
  BY <1>8, Zenon DEF GoOnline, engine, pass
<1>9. CASE Reconnected
  BY <1>9, Zenon DEF Reconnected, engine, pass
<1>10. CASE Expire
  BY <1>10, Zenon DEF Expire, pass, world
<1>11. CASE WakeUp
  BY <1>11, Zenon DEF WakeUp, pass, world
<1>12. CASE SkipBlock
  BY <1>12, Zenon DEF SkipBlock, engine, pass, world
<1>13. CASE YieldToQuery
  BY <1>13, Zenon DEF YieldToQuery, engine, pass, world
<1>14. CASE UNCHANGED vars
  BY <1>14, Zenon DEF vars
<1> QED
  BY <1>1, <1>2, <1>3, <1>4, <1>5, <1>6, <1>7, <1>8, <1>9, <1>10, <1>11, <1>12,
     <1>13, <1>14, Zenon DEF Elsewhere

LEMMA NextCases ==
  ASSUME [Next]_vars
  PROVE  \/ Elsewhere \/ Submit \/ \E u \in Uploads : Complete(u)
         \/ StartPass \/ TransferEvents \/ DeferPass \/ BeginPass \/ YieldPass
         \/ \E h \in heads : VisitLane(h) \/ PassOver(h)
         \/ HandleEvent \/ AwaitResult \/ ScheduleUpload \/ LeaveUpload
         \/ FinishPass
BY Zenon DEF Next, CoreQueue, Pass, Elsewhere

-----------------------------------------------------------------------------
(* Types *)

LEMMA FlagsPreserved ==
  ASSUME Flags, [Next]_vars
  PROVE  Flags'
<1>1. CASE Submit
  BY <1>1, Zenon DEF Flags, Submit, SetNeeds, More, pass, connection,
     importing, listing
<1>2. CASE \E u \in Uploads : Complete(u)
  BY <1>2, Zenon DEF Flags, Complete, SetNeeds, More, pass, world, connection,
     importing, listing
<1>3. CASE \E w \in Work : StartWork(w)
  BY <1>3, Zenon DEF Flags, StartWork, engine, pass, connection, importing
<1>4. CASE \E w \in Work : EndWork(w)
  BY <1>4, Zenon DEF Flags, EndWork, engine, pass, connection, importing
<1>5. CASE \E w \in Work : FinishWork(w)
  BY <1>5, Zenon DEF Flags, FinishWork, SetNeeds, More, engine, pass,
     connection, importing
<1>6. CASE BeginBulk
  BY <1>6, Zenon DEF Flags, BeginBulk, engine, pass, connection, listing
<1>7. CASE EndBulk
  BY <1>7, Zenon DEF Flags, EndBulk, engine, pass, connection, listing
<1>8. CASE FlushBulk
  BY <1>8, Zenon DEF Flags, FlushBulk, SetNeeds, More, engine, pass,
     connection, listing
<1>9. CASE GoOffline
  BY <1>9, Zenon DEF Flags, GoOffline, engine, pass, importing, listing
<1>10. CASE GoOnline
  BY <1>10, Zenon DEF Flags, GoOnline, engine, pass, importing, listing
<1>11. CASE Reconnected
  BY <1>11, Zenon DEF Flags, Reconnected, SetNeeds, More, engine, pass,
     importing, listing
<1>12. CASE Expire
  BY <1>12, Zenon DEF Flags, Expire, pass, world, connection, importing,
     listing
<1>13. CASE WakeUp
  BY <1>13, Zenon DEF Flags, WakeUp, SetNeeds, More, pass, world, connection,
     importing, listing
<1>14. CASE SkipBlock
  BY <1>14, Zenon DEF Flags, SkipBlock, NextBlock, engine, pass, world,
     connection, importing, listing
<1>15. CASE YieldToQuery
  BY <1>15, Zenon DEF Flags, YieldToQuery, NextBlock, engine, pass, world,
     connection, importing, listing
<1>16. CASE StartPass
  BY <1>16, Zenon DEF Flags, StartPass, NextBlock, world, connection,
     importing, listing
<1>17. CASE TransferEvents
  BY <1>17, Zenon DEF Flags, TransferEvents, world, connection, importing,
     listing
<1>18. CASE DeferPass
  BY <1>18, Zenon DEF Flags, DeferPass, Consult, ShouldDefer, world,
     connection, importing, listing
<1>19. CASE BeginPass
  BY <1>19, Zenon DEF Flags, BeginPass, world, connection, importing, listing
<1>20. CASE YieldPass
  BY <1>20, Zenon DEF Flags, YieldPass, Ask, Consult, world, connection,
     importing, listing
<1>21. CASE \E h \in heads : VisitLane(h)
  BY <1>21, Zenon DEF Flags, VisitLane, Ask, Consult, world, connection,
     importing, listing
<1>22. CASE \E h \in heads : PassOver(h)
  BY <1>22, Zenon DEF Flags, PassOver, Ask, Consult, world, connection,
     importing, listing
<1>23. CASE HandleEvent
  BY <1>23, Zenon DEF Flags, HandleEvent, LeaveLane, world, connection,
     importing, listing
<1>24. CASE AwaitResult
  BY <1>24, Zenon DEF Flags, AwaitResult, LeaveLane, world, connection,
     importing, listing
<1>25. CASE ScheduleUpload
  BY <1>25, Zenon DEF Flags, ScheduleUpload, LeaveLane, Ask, Consult, world,
     connection, importing, listing
<1>26. CASE LeaveUpload
  BY <1>26, Zenon DEF Flags, LeaveUpload, LeaveLane, Ask, Consult, world,
     connection, importing, listing
<1>27. CASE FinishPass
  BY <1>27, Zenon DEF Flags, FinishPass, world, connection, importing, listing
<1>28. CASE UNCHANGED vars
  BY <1>28, Zenon DEF Flags, vars
<1> QED
  BY <1>1, <1>2, <1>3, <1>4, <1>5, <1>6, <1>7, <1>8, <1>9, <1>10, <1>11, <1>12,
     <1>13, <1>14, <1>15, <1>16, <1>17, <1>18, <1>19, <1>20, <1>21, <1>22,
     <1>23, <1>24, <1>25, <1>26, <1>27, <1>28, Zenon
     DEF Next, CoreQueue, Pass

LEMMA CountersPreserved ==
  ASSUME Counters, [Next]_vars
  PROVE  Counters'
<1> USE TriggerAssumption DEF TriggerAssumption
<1>1. CASE Submit
  BY <1>1, SMT DEF Counters, Submit, SetNeeds, More, pass, connection,
     importing, listing
<1>2. CASE \E u \in Uploads : Complete(u)
  BY <1>2, SMT DEF Counters, Complete, SetNeeds, More, pass, world, connection,
     importing, listing
<1>3. CASE \E w \in Work : StartWork(w)
  BY <1>3, SMT DEF Counters, StartWork, engine, pass, connection, importing
<1>4. CASE \E w \in Work : EndWork(w)
  BY <1>4, SMT DEF Counters, EndWork, engine, pass, connection, importing
<1>5. CASE \E w \in Work : FinishWork(w)
  BY <1>5, SMT DEF Counters, FinishWork, SetNeeds, More, engine, pass,
     connection, importing
<1>6. CASE BeginBulk
  BY <1>6, SMT DEF Counters, BeginBulk, engine, pass, connection, listing
<1>7. CASE EndBulk
  BY <1>7, SMT DEF Counters, EndBulk, engine, pass, connection, listing
<1>8. CASE FlushBulk
  BY <1>8, SMT DEF Counters, FlushBulk, SetNeeds, More, engine, pass,
     connection, listing
<1>9. CASE GoOffline
  BY <1>9, SMT DEF Counters, GoOffline, engine, pass, importing, listing
<1>10. CASE GoOnline
  BY <1>10, SMT DEF Counters, GoOnline, engine, pass, importing, listing
<1>11. CASE Reconnected
  BY <1>11, SMT DEF Counters, Reconnected, SetNeeds, More, engine, pass,
     importing, listing
<1>12. CASE Expire
  BY <1>12, SMT DEF Counters, Expire, pass, world, connection, importing,
     listing
<1>13. CASE WakeUp
  BY <1>13, SMT DEF Counters, WakeUp, SetNeeds, More, pass, world, connection,
     importing, listing
<1>14. CASE SkipBlock
  BY <1>14, SMT DEF Counters, SkipBlock, NextBlock, engine, pass, world,
     connection, importing, listing
<1>15. CASE YieldToQuery
  BY <1>15, SMT DEF Counters, YieldToQuery, NextBlock, engine, pass, world,
     connection, importing, listing
<1>16. CASE StartPass
  BY <1>16, SMT DEF Counters, StartPass, NextBlock, world, connection,
     importing, listing
<1>17. CASE TransferEvents
  BY <1>17, SMT DEF Counters, TransferEvents, world, connection, importing,
     listing
<1>18. CASE DeferPass
  BY <1>18, SMT DEF Counters, DeferPass, Consult, ShouldDefer, world,
     connection, importing, listing
<1>19. CASE BeginPass
  BY <1>19, SMT DEF Counters, BeginPass, world, connection, importing, listing
<1>20. CASE YieldPass
  BY <1>20, SMT DEF Counters, YieldPass, Ask, Consult, world, connection,
     importing, listing
<1>21. CASE \E h \in heads : VisitLane(h)
  BY <1>21, SMT DEF Counters, VisitLane, Ask, Consult, world, connection,
     importing, listing
<1>22. CASE \E h \in heads : PassOver(h)
  BY <1>22, SMT DEF Counters, PassOver, Ask, Consult, world, connection,
     importing, listing
<1>23. CASE HandleEvent
  BY <1>23, SMT DEF Counters, HandleEvent, LeaveLane, world, connection,
     importing, listing
<1>24. CASE AwaitResult
  BY <1>24, SMT DEF Counters, AwaitResult, LeaveLane, world, connection,
     importing, listing
<1>25. CASE ScheduleUpload
  BY <1>25, SMT DEF Counters, ScheduleUpload, LeaveLane, Ask, Consult, world,
     connection, importing, listing
<1>26. CASE LeaveUpload
  BY <1>26, SMT DEF Counters, LeaveUpload, LeaveLane, Ask, Consult, world,
     connection, importing, listing
<1>27. CASE FinishPass
  BY <1>27, SMT DEF Counters, FinishPass, world, connection, importing, listing
<1>28. CASE UNCHANGED vars
  BY <1>28, SMT DEF Counters, vars
<1> QED
  BY <1>1, <1>2, <1>3, <1>4, <1>5, <1>6, <1>7, <1>8, <1>9, <1>10, <1>11, <1>12,
     <1>13, <1>14, <1>15, <1>16, <1>17, <1>18, <1>19, <1>20, <1>21, <1>22,
     <1>23, <1>24, <1>25, <1>26, <1>27, <1>28, Zenon
     DEF Next, CoreQueue, Pass

LEMMA SetsPreserved ==
  ASSUME Sets, [Next]_vars
  PROVE  Sets'
<1>1. CASE Submit
  BY <1>1, SMT DEF Sets, Submit, SetNeeds, More, pass, connection, importing,
     listing
<1>2. CASE \E u \in Uploads : Complete(u)
  BY <1>2, SMT DEF Sets, Complete, SetNeeds, More, pass, world, connection,
     importing, listing
<1>3. CASE \E w \in Work : StartWork(w)
  BY <1>3, SMT DEF Sets, StartWork, engine, pass, connection, importing
<1>4. CASE \E w \in Work : EndWork(w)
  BY <1>4, SMT DEF Sets, EndWork, engine, pass, connection, importing
<1>5. CASE \E w \in Work : FinishWork(w)
  BY <1>5, SMT DEF Sets, FinishWork, SetNeeds, More, engine, pass, connection,
     importing
<1>6. CASE BeginBulk
  BY <1>6, SMT DEF Sets, BeginBulk, engine, pass, connection, listing
<1>7. CASE EndBulk
  BY <1>7, SMT DEF Sets, EndBulk, engine, pass, connection, listing
<1>8. CASE FlushBulk
  BY <1>8, SMT DEF Sets, FlushBulk, SetNeeds, More, engine, pass, connection,
     listing
<1>9. CASE GoOffline
  BY <1>9, SMT DEF Sets, GoOffline, engine, pass, importing, listing
<1>10. CASE GoOnline
  BY <1>10, SMT DEF Sets, GoOnline, engine, pass, importing, listing
<1>11. CASE Reconnected
  BY <1>11, SMT DEF Sets, Reconnected, SetNeeds, More, engine, pass, importing,
     listing
<1>12. CASE Expire
  BY <1>12, SMT DEF Sets, Expire, pass, world, connection, importing, listing
<1>13. CASE WakeUp
  BY <1>13, SMT DEF Sets, WakeUp, SetNeeds, More, pass, world, connection,
     importing, listing
<1>14. CASE SkipBlock
  BY <1>14, SMT DEF Sets, SkipBlock, NextBlock, engine, pass, world,
     connection, importing, listing
<1>15. CASE YieldToQuery
  BY <1>15, SMT DEF Sets, YieldToQuery, NextBlock, engine, pass, world,
     connection, importing, listing
<1>16. CASE StartPass
  BY <1>16, SMT DEF Sets, StartPass, NextBlock, world, connection, importing,
     listing
<1>17. CASE TransferEvents
  BY <1>17, SMT DEF Sets, TransferEvents, world, connection, importing, listing
<1>18. CASE DeferPass
  BY <1>18, SMT DEF Sets, DeferPass, Consult, ShouldDefer, world, connection,
     importing, listing
<1>19. CASE BeginPass
  BY <1>19, SMT DEF Sets, BeginPass, world, connection, importing, listing
<1>20. CASE YieldPass
  BY <1>20, SMT DEF Sets, YieldPass, Ask, Consult, world, connection,
     importing, listing
<1>21. CASE \E h \in heads : VisitLane(h)
  BY <1>21, SMT DEF Sets, VisitLane, Ask, Consult, world, connection,
     importing, listing
<1>22. CASE \E h \in heads : PassOver(h)
  BY <1>22, SMT DEF Sets, PassOver, Ask, Consult, world, connection, importing,
     listing
<1>23. CASE HandleEvent
  BY <1>23, SMT DEF Sets, HandleEvent, LeaveLane, world, connection, importing,
     listing
<1>24. CASE AwaitResult
  BY <1>24, SMT DEF Sets, AwaitResult, LeaveLane, world, connection, importing,
     listing
<1>25. CASE ScheduleUpload
  BY <1>25, SMT DEF Sets, ScheduleUpload, LeaveLane, Ask, Consult, world,
     connection, importing, listing
<1>26. CASE LeaveUpload
  BY <1>26, SMT DEF Sets, LeaveUpload, LeaveLane, Ask, Consult, world,
     connection, importing, listing
<1>27. CASE FinishPass
  BY <1>27, SMT DEF Sets, FinishPass, world, connection, importing, listing
<1>28. CASE UNCHANGED vars
  BY <1>28, SMT DEF Sets, vars
<1> QED
  BY <1>1, <1>2, <1>3, <1>4, <1>5, <1>6, <1>7, <1>8, <1>9, <1>10, <1>11, <1>12,
     <1>13, <1>14, <1>15, <1>16, <1>17, <1>18, <1>19, <1>20, <1>21, <1>22,
     <1>23, <1>24, <1>25, <1>26, <1>27, <1>28, Zenon
     DEF Next, CoreQueue, Pass

LEMMA WalkPreserved ==
  ASSUME Walk, [Next]_vars
  PROVE  Walk'
<1>1. CASE Elsewhere
  BY <1>1, ElsewhereKeeps, SMT DEF Walk
<1>2. CASE Submit
  BY <1>2, SMT DEF Walk, Submit, SetNeeds, More, pass, connection, importing,
     listing
<1>3. CASE \E u \in Uploads : Complete(u)
  BY <1>3, SMT DEF Walk, Complete, SetNeeds, More, pass, world, connection,
     importing, listing
<1>4. CASE StartPass
  BY <1>4, SMT DEF Walk, StartPass, NextBlock, world, connection, importing,
     listing
<1>5. CASE TransferEvents
  BY <1>5, SMT DEF Walk, TransferEvents, world, connection, importing, listing
<1>6. CASE DeferPass
  BY <1>6, SMT DEF Walk, DeferPass, Consult, ShouldDefer, world, connection,
     importing, listing
<1>7. CASE BeginPass
  BY <1>7, SMT DEF Walk, BeginPass, world, connection, importing, listing
<1>8. CASE YieldPass
  BY <1>8, SMT DEF Walk, YieldPass, Ask, Consult, world, connection, importing,
     listing
<1>9. CASE \E h \in heads : VisitLane(h)
  BY <1>9, UploadsPositive, SMT DEF Walk, VisitLane
<1>10. CASE \E h \in heads : PassOver(h)
  BY <1>10, SMT DEF Walk, PassOver, Ask, Consult, world, connection, importing,
     listing
<1>11. CASE HandleEvent
  <2>1. CASE LeaveLane
    BY <1>11, <2>1, SMT DEF Walk, HandleEvent, LeaveLane
  <2>2. CASE record' \in Pending /\ step' = step
    BY <1>11, <2>2, PendingUploads, UploadsPositive, SMT DEF Walk, HandleEvent
  <2> QED BY <1>11, <2>1, <2>2, Zenon DEF HandleEvent, OnLaneOf
<1>12. CASE AwaitResult
  BY <1>12, SMT DEF Walk, AwaitResult, LeaveLane, world, connection, importing,
     listing
<1>13. CASE ScheduleUpload
  BY <1>13, SMT DEF Walk, ScheduleUpload, LeaveLane, Ask, Consult, world,
     connection, importing, listing
<1>14. CASE LeaveUpload
  BY <1>14, SMT DEF Walk, LeaveUpload, LeaveLane, Ask, Consult, world,
     connection, importing, listing
<1>15. CASE FinishPass
  BY <1>15, SMT DEF Walk, FinishPass, world, connection, importing, listing
<1> QED
  BY <1>1, <1>2, <1>3, <1>4, <1>5, <1>6, <1>7, <1>8, <1>9, <1>10, <1>11, <1>12,
     <1>13, <1>14, <1>15, NextCases, Zenon

LEMMA JournalPreserved ==
  ASSUME Journal, Counters, [Next]_vars
  PROVE  Journal'
<1>1. CASE Elsewhere
  BY <1>1, ElsewhereKeeps, SMT DEF Journal
<1>2. CASE Submit
  <2>1. uploads + 1 \in Uploads
    BY <1>2, TriggerAssumption, SMT
       DEF TriggerAssumption, Submit, Counters, Uploads
  <2> QED BY <1>2, <2>1, SMT DEF Journal, Submit, Places
<1>3. CASE \E u \in Uploads : Complete(u)
  BY <1>3, SMT DEF Journal, Complete, Places, world
<1>4. CASE StartPass
  BY <1>4, SMT DEF Journal, StartPass, NextBlock, world, connection, importing,
     listing
<1>5. CASE TransferEvents
  BY <1>5, SMT DEF Journal, TransferEvents, Places, world
<1>6. CASE DeferPass
  BY <1>6, SMT DEF Journal, DeferPass, Consult, ShouldDefer, world, connection,
     importing, listing
<1>7. CASE BeginPass
  BY <1>7, SMT DEF Journal, BeginPass, world, connection, importing, listing
<1>8. CASE YieldPass
  BY <1>8, SMT DEF Journal, YieldPass, Ask, Consult, world, connection,
     importing, listing
<1>9. CASE \E h \in heads : VisitLane(h)
  BY <1>9, SMT DEF Journal, VisitLane, Ask, Consult, world, connection,
     importing, listing
<1>10. CASE \E h \in heads : PassOver(h)
  BY <1>10, SMT DEF Journal, PassOver, Ask, Consult, world, connection,
     importing, listing
<1>11. CASE HandleEvent
  <2>1. upload' = [upload EXCEPT ![record] = "done"] /\ lane' = lane
    BY <1>11, Zenon DEF HandleEvent, world
  <2>2. "done" \in Places
    BY Zenon DEF Places
  <2> QED BY <2>1, <2>2, Zenon DEF Journal
<1>12. CASE AwaitResult
  BY <1>12, SMT DEF Journal, AwaitResult, LeaveLane, world, connection,
     importing, listing
<1>13. CASE ScheduleUpload
  <2>1. upload' = [upload EXCEPT ![record] = "inFlight"] /\ lane' = lane
    BY <1>13, Zenon DEF ScheduleUpload, world
  <2>2. "inFlight" \in Places
    BY Zenon DEF Places
  <2> QED BY <2>1, <2>2, Zenon DEF Journal
<1>14. CASE LeaveUpload
  BY <1>14, SMT DEF Journal, LeaveUpload, LeaveLane, Ask, Consult, world,
     connection, importing, listing
<1>15. CASE FinishPass
  BY <1>15, SMT DEF Journal, FinishPass, world, connection, importing, listing
<1> QED
  BY <1>1, <1>2, <1>3, <1>4, <1>5, <1>6, <1>7, <1>8, <1>9, <1>10, <1>11, <1>12,
     <1>13, <1>14, <1>15, NextCases, Zenon

-----------------------------------------------------------------------------
(* The lanes *)

LEMMA PlacesKept ==
  ASSUME upload' = upload
  PROVE  /\ At("ready")' = At("ready") /\ At("inFlight")' = At("inFlight")
         /\ At("queued")' = At("queued") /\ At("stored")' = At("stored")
         /\ Events' = Events /\ InProgress' = InProgress /\ Pending' = Pending
BY Zenon DEF At, Events, InProgress, Pending

LEMMA FirstShrinks ==
  ASSUME Pending' \subseteq Pending, lane' = lane,
         NEW u \in Pending', IsFirst(u)
  PROVE  IsFirst(u)'
BY Zenon DEF IsFirst, OnLaneOf

LEMMA OneFirst ==
  ASSUME NEW u, NEW v, IsFirst(u), IsFirst(v), lane[u] = lane[v]
  PROVE  u = v
<1>1. u \in Nat /\ v \in Nat
  BY PendingUploads, UploadsPositive DEF IsFirst
<1>2. u <= v /\ v <= u
  BY Zenon DEF IsFirst, OnLaneOf
<1> QED BY <1>1, <1>2

\* Steps that leave uploads where they are only have to visit first records.
LEMMA OrderKept ==
  ASSUME LanesInOrder, UNCHANGED <<upload, lane, uploads>>,
         \A u \in AtHand' : IsFirst(u), record' \notin heads'
  PROVE  LanesInOrder'
<1>1. ASSUME NEW u \in InProgress' \cup AtHand' PROVE IsFirst(u)'
  <2>1. IsFirst(u)
    BY PlacesKept DEF LanesInOrder
  <2> QED BY <2>1, PlacesKept, FirstShrinks DEF IsFirst
<1> QED BY <1>1, Zenon DEF LanesInOrder

LEMMA OrderPreserved ==
  ASSUME Counters, Walk, Journal, LanesInOrder, [Next]_vars
  PROVE  LanesInOrder'
<1>1. CASE Elsewhere
  <2>1. AtHand' = AtHand /\ record' \notin heads'
    BY <1>1, ElsewhereKeeps, Zenon DEF AtHand, LanesInOrder
  <2> QED BY <1>1, <2>1, ElsewhereKeeps, OrderKept DEF LanesInOrder
<1>2. CASE Submit
  <2> DEFINE new == uploads + 1
  <2>1. new \in Uploads /\ upload[new] = "none" /\ uploads \in Nat
    BY <1>2, TriggerAssumption, SMT
       DEF TriggerAssumption, Submit, Counters, Uploads,
       LanesInOrder
  <2>2. /\ upload' = [upload EXCEPT ![new] = "ready"] /\ uploads' = new
        /\ lane' = lane /\ AtHand' = AtHand /\ record' \notin heads'
    BY <1>2, Zenon DEF Submit, pass, AtHand, LanesInOrder
  <2>3. Pending' = Pending \cup {new} /\ InProgress' = InProgress
    BY <2>1, <2>2, SMT DEF Journal, Pending, InProgress, Events, At
  <2>4. ASSUME NEW u \in Uploads, u > uploads' PROVE upload'[u] = "none"
    BY <2>1, <2>2, <2>4, UploadsPositive, SMT DEF Journal, LanesInOrder
  <2>5. ASSUME NEW u \in InProgress' \cup AtHand' PROVE IsFirst(u)'
    <3>1. IsFirst(u)
      BY <2>2, <2>3 DEF LanesInOrder
    <3>2. u \in Uploads /\ upload[u] # "none"
      BY <3>1, PendingUploads DEF IsFirst
    <3>3. u <= new
      BY <2>1, <3>2, UploadsPositive, SMT DEF LanesInOrder
    <3> HIDE DEF new
    <3> QED BY <2>2, <2>3, <3>1, <3>3, Zenon DEF IsFirst, OnLaneOf
  <2> QED BY <2>2, <2>4, <2>5, Zenon DEF LanesInOrder
<1>3. CASE \E u \in Uploads : Complete(u)
  <2>0. PICK w \in Uploads : Complete(w)
    BY <1>3
  <2>1. /\ upload[w] = "inFlight" /\ upload' = [upload EXCEPT ![w] = "queued"]
        /\ UNCHANGED <<lane, uploads, heads, record>>
    BY <2>0, Zenon DEF Complete, pass, world
  <2>2. Pending' = Pending /\ InProgress' = InProgress
    BY <2>1, SMT DEF Journal, Pending, InProgress, Events, At
  <2>3. ASSUME NEW u \in Uploads, u > uploads' PROVE upload'[u] = "none"
    BY <2>1, <2>3, SMT DEF Journal, LanesInOrder
  <2>4. ASSUME NEW u \in InProgress' \cup AtHand' PROVE IsFirst(u)'
    <3>1. IsFirst(u)
      BY <2>1, <2>2, Zenon DEF LanesInOrder, AtHand
    <3> QED BY <2>1, <2>2, <3>1, FirstShrinks DEF IsFirst
  <2> QED BY <2>1, <2>3, <2>4, Zenon DEF LanesInOrder
<1>4. CASE StartPass
  <2>1. UNCHANGED <<upload, lane, uploads>>
    BY <1>4, Zenon DEF StartPass, NextBlock, world
  <2>2. AtHand' \subseteq AtHand /\ record' \notin heads'
    BY <1>4, UploadsPositive, Zenon
       DEF StartPass, NextBlock, AtHand, LanesInOrder, Walk
  <2> QED BY <2>1, <2>2, OrderKept DEF LanesInOrder
<1>5. CASE TransferEvents
  <2>1. /\ \A u \in Uploads : upload'[u] = IF upload[u] = "queued" THEN "stored"
                                                  ELSE upload[u]
        /\ UNCHANGED <<lane, uploads, heads, record>>
    BY <1>5, Zenon DEF TransferEvents, world
  <2>2. Pending' = Pending /\ InProgress' = InProgress
    BY <2>1, SMT DEF Journal, Pending, InProgress, Events, At
  <2>3. ASSUME NEW u \in Uploads, u > uploads' PROVE upload'[u] = "none"
    BY <2>1, <2>3, SMT DEF Journal, LanesInOrder
  <2>4. ASSUME NEW u \in InProgress' \cup AtHand' PROVE IsFirst(u)'
    <3>1. IsFirst(u)
      BY <2>1, <2>2, Zenon DEF LanesInOrder, AtHand
    <3> QED BY <2>1, <2>2, <3>1, FirstShrinks DEF IsFirst
  <2> QED BY <2>1, <2>3, <2>4, Zenon DEF LanesInOrder
<1>6. CASE DeferPass
  <2>1. UNCHANGED <<upload, lane, uploads>>
    BY <1>6, Zenon DEF DeferPass, world
  <2>2. AtHand' \subseteq AtHand /\ record' \notin heads'
    BY <1>6, UploadsPositive, Zenon DEF DeferPass, AtHand, LanesInOrder, Walk
  <2> QED BY <2>1, <2>2, OrderKept DEF LanesInOrder
<1>7. CASE BeginPass
  <2>1. UNCHANGED <<upload, lane, uploads>>
    BY <1>7, Zenon DEF BeginPass, world
  <2>2. record' = 0 /\ heads' = {u \in Uploads : IsFirst(u)}
    BY <1>7, SMT DEF BeginPass, Walk
  <2>3. record' \notin heads' /\ \A u \in AtHand' : IsFirst(u)
    BY <2>2, UploadsPositive, Zenon DEF AtHand
  <2> QED BY <2>1, <2>3, OrderKept
<1>8. CASE YieldPass
  <2>1. UNCHANGED <<upload, lane, uploads>>
    BY <1>8, Zenon DEF YieldPass, world
  <2>2. AtHand' \subseteq AtHand /\ record' \notin heads'
    BY <1>8, UploadsPositive, Zenon DEF YieldPass, AtHand, LanesInOrder, Walk
  <2> QED BY <2>1, <2>2, OrderKept DEF LanesInOrder
<1>9. CASE \E h \in heads : VisitLane(h)
  <2>1. UNCHANGED <<upload, lane, uploads>>
    BY <1>9, Zenon DEF VisitLane, world
  <2>2. AtHand' \subseteq AtHand /\ record' \notin heads'
    BY <1>9, Zenon DEF VisitLane, AtHand
  <2> QED BY <2>1, <2>2, OrderKept DEF LanesInOrder
<1>10. CASE \E h \in heads : PassOver(h)
  <2>1. UNCHANGED <<upload, lane, uploads>>
    BY <1>10, Zenon DEF PassOver, world
  <2>2. AtHand' \subseteq AtHand /\ record' \notin heads'
    BY <1>10, UploadsPositive, Zenon DEF PassOver, AtHand, LanesInOrder, Walk
  <2> QED BY <2>1, <2>2, OrderKept DEF LanesInOrder
<1>11. CASE HandleEvent
  <2>0. record \in Uploads /\ record \in AtHand /\ IsFirst(record)
    BY <1>11, Zenon DEF HandleEvent, Walk, AtHand, LanesInOrder
  <2>1. /\ upload[record] = "stored"
        /\ upload' = [upload EXCEPT ![record] = "done"]
        /\ UNCHANGED <<lane, uploads, heads>>
    BY <1>11, Zenon DEF HandleEvent, world
  <2>2. Pending' = Pending \ {record} /\ InProgress' = InProgress \ {record}
    BY <2>0, <2>1, SMT DEF Journal, Pending, InProgress, Events, At
  <2>3. ASSUME NEW u \in Uploads, u > uploads' PROVE upload'[u] = "none"
    BY <2>1, <2>3, SMT DEF Journal, LanesInOrder
  <2>4. ASSUME NEW u \in InProgress' \cup heads' PROVE IsFirst(u)'
    <3>1. IsFirst(u) /\ u # record
      BY <2>1, <2>2, Zenon DEF LanesInOrder, AtHand
    <3> QED BY <2>1, <2>2, <3>1, FirstShrinks DEF IsFirst
  <2>5. CASE record' = 0
    BY <2>1, <2>3, <2>4, <2>5, UploadsPositive, Zenon DEF LanesInOrder, AtHand,
       Walk
  <2>6. CASE record' # 0
    <3>1. PICK v \in OnLaneOf(record) \ {record} :
               record' = v /\ \A w \in OnLaneOf(record) \ {record} : v <= w
      BY <1>11, <2>6, Zenon DEF HandleEvent, LeaveLane
    <3>2. IsFirst(v)'
      BY <2>1, <2>2, <3>1, Zenon DEF IsFirst, OnLaneOf
    <3>3. v \notin heads
      BY <2>0, <3>1, OneFirst, Zenon DEF LanesInOrder, AtHand, OnLaneOf
    <3> QED BY <2>1, <2>3, <2>4, <3>1, <3>2, <3>3, Zenon
            DEF LanesInOrder, AtHand
  <2> QED BY <2>5, <2>6
<1>12. CASE AwaitResult
  <2>1. UNCHANGED <<upload, lane, uploads>>
    BY <1>12, Zenon DEF AwaitResult, world, LeaveLane
  <2>2. AtHand' \subseteq AtHand /\ record' \notin heads'
    BY <1>12, UploadsPositive, Zenon
       DEF AwaitResult, LeaveLane, AtHand, LanesInOrder, Walk
  <2> QED BY <2>1, <2>2, OrderKept DEF LanesInOrder
<1>13. CASE ScheduleUpload
  <2>0. record \in Uploads /\ record \in AtHand /\ IsFirst(record)
    BY <1>13, Zenon DEF ScheduleUpload, Walk, AtHand, LanesInOrder
  <2>1. /\ upload[record] = "ready"
        /\ upload' = [upload EXCEPT ![record] = "inFlight"]
        /\ UNCHANGED <<lane, uploads, heads>> /\ record' = 0
    BY <1>13, Zenon DEF ScheduleUpload, LeaveLane, world
  <2>2. Pending' = Pending /\ InProgress' = InProgress \cup {record}
    BY <2>0, <2>1, SMT DEF Journal, Pending, InProgress, Events, At
  <2>3. ASSUME NEW u \in Uploads, u > uploads' PROVE upload'[u] = "none"
    BY <2>1, <2>3, SMT DEF Journal, LanesInOrder
  <2>4. AtHand' \subseteq AtHand /\ record' \notin heads'
    BY <2>1, UploadsPositive, Zenon DEF AtHand, Walk
  <2>5. ASSUME NEW u \in InProgress' \cup AtHand' PROVE IsFirst(u)'
    <3>1. IsFirst(u)
      BY <2>0, <2>2, <2>4, Zenon DEF LanesInOrder
    <3> QED BY <2>1, <2>2, <3>1, FirstShrinks DEF IsFirst
  <2> QED BY <2>3, <2>4, <2>5, Zenon DEF LanesInOrder
<1>14. CASE LeaveUpload
  <2>1. UNCHANGED <<upload, lane, uploads>>
    BY <1>14, Zenon DEF LeaveUpload, world, LeaveLane
  <2>2. AtHand' \subseteq AtHand /\ record' \notin heads'
    BY <1>14, UploadsPositive, Zenon
       DEF LeaveUpload, LeaveLane, AtHand, LanesInOrder, Walk
  <2> QED BY <2>1, <2>2, OrderKept DEF LanesInOrder
<1>15. CASE FinishPass
  <2>1. UNCHANGED <<upload, lane, uploads>>
    BY <1>15, Zenon DEF FinishPass, world
  <2>2. AtHand' \subseteq AtHand /\ record' \notin heads'
    BY <1>15, UploadsPositive, Zenon DEF FinishPass, AtHand, LanesInOrder, Walk
  <2> QED BY <2>1, <2>2, OrderKept DEF LanesInOrder
<1> QED
  BY <1>1, <1>2, <1>3, <1>4, <1>5, <1>6, <1>7, <1>8, <1>9, <1>10, <1>11, <1>12,
     <1>13, <1>14, <1>15, NextCases, Zenon

-----------------------------------------------------------------------------
(* What is awaited *)

LEMMA WakesAwaited ==
  ASSUME Counters, SetNeeds, bulk' = bulk
  PROVE  Awaited'
<1>1. needs'
  BY Zenon DEF SetNeeds
<1>2. blocks' > 0 \/ bulk > 0
  BY TriggerAssumption, SMT DEF TriggerAssumption, Counters, SetNeeds, More
<1> QED BY <1>1, <1>2, Zenon DEF Awaited

\* Only the block that takes the flag ends a wait.
LEMMA AwaitedKept ==
  ASSUME Flags, Counters, Awaited, [Next]_vars
  PROVE  Awaited' \/ StartPass
<1>1. CASE Submit
  <2>1. SetNeeds /\ bulk' = bulk
    BY <1>1, Zenon DEF Submit, importing
  <2> QED BY <2>1, WakesAwaited
<1>2. CASE \E u \in Uploads : Complete(u)
  <2>1. SetNeeds /\ bulk' = bulk
    BY <1>2, Zenon DEF Complete, world, importing
  <2> QED BY <2>1, WakesAwaited
<1>3. CASE \E w \in Work : StartWork(w)
  BY <1>3, SMT DEF Awaited, Flags, Counters, StartWork, engine, pass,
     connection, importing
<1>4. CASE \E w \in Work : EndWork(w)
  BY <1>4, SMT DEF Awaited, Flags, Counters, EndWork, engine, pass, connection,
     importing
<1>5. CASE \E w \in Work : FinishWork(w)
  <2>1. PICK w \in Work : FinishWork(w)
    BY <1>5
  <2>2. CASE work = {}
    BY <2>1, <2>2, WakesAwaited, Zenon DEF FinishWork, importing
  <2>3. CASE work # {}
    BY <2>1, <2>3, SMT DEF Awaited, FinishWork
  <2> QED BY <2>2, <2>3
<1>6. CASE BeginBulk
  BY <1>6, SMT DEF Awaited, Flags, Counters, BeginBulk, engine, pass,
     connection, listing
<1>7. CASE EndBulk
  BY <1>7, SMT DEF Awaited, Flags, Counters, EndBulk, engine, pass, connection,
     listing
<1>8. CASE FlushBulk
  <2>1. SetNeeds /\ bulk' = bulk
    BY <1>8, Zenon DEF FlushBulk
  <2> QED BY <2>1, WakesAwaited
<1>9. CASE GoOffline
  BY <1>9, SMT DEF Awaited, Flags, Counters, GoOffline, engine, pass,
     importing, listing
<1>10. CASE GoOnline
  BY <1>10, SMT DEF Awaited, Flags, Counters, GoOnline, engine, pass,
     importing, listing
<1>11. CASE Reconnected
  <2>1. SetNeeds /\ bulk' = bulk
    BY <1>11, Zenon DEF Reconnected, importing
  <2> QED BY <2>1, WakesAwaited
<1>12. CASE Expire
  BY <1>12, SMT DEF Awaited, Flags, Counters, Expire, pass, world, connection,
     importing, listing
<1>13. CASE WakeUp
  <2>1. SetNeeds /\ bulk' = bulk
    BY <1>13, Zenon DEF WakeUp, world, importing
  <2> QED BY <2>1, WakesAwaited
<1>14. CASE SkipBlock
  BY <1>14, SMT DEF Awaited, Flags, Counters, SkipBlock, NextBlock, engine,
     pass, world, connection, importing, listing
<1>15. CASE YieldToQuery
  BY <1>15, SMT DEF Awaited, Flags, Counters, YieldToQuery, NextBlock, engine,
     pass, world, connection, importing, listing
<1>16. CASE StartPass
  BY <1>16
<1>17. CASE TransferEvents
  BY <1>17, SMT DEF Awaited, Flags, Counters, TransferEvents, world,
     connection, importing, listing
<1>18. CASE DeferPass
  BY <1>18, SMT DEF Awaited, Flags, Counters, DeferPass, ShouldDefer, world,
     connection, importing, listing
<1>19. CASE BeginPass
  BY <1>19, SMT DEF Awaited, Flags, Counters, BeginPass, world, connection,
     importing, listing
<1>20. CASE YieldPass
  BY <1>20, SMT DEF Awaited, Flags, Counters, YieldPass, world, connection,
     importing, listing
<1>21. CASE \E h \in heads : VisitLane(h)
  BY <1>21, SMT DEF Awaited, Flags, Counters, VisitLane, world, connection,
     importing, listing
<1>22. CASE \E h \in heads : PassOver(h)
  BY <1>22, SMT DEF Awaited, Flags, Counters, PassOver, world, connection,
     importing, listing
<1>23. CASE HandleEvent
  BY <1>23, SMT DEF Awaited, Flags, Counters, HandleEvent, world, connection,
     importing, listing
<1>24. CASE AwaitResult
  BY <1>24, SMT DEF Awaited, Flags, Counters, AwaitResult, world, connection,
     importing, listing
<1>25. CASE ScheduleUpload
  BY <1>25, SMT DEF Awaited, Flags, Counters, ScheduleUpload, world,
     connection, importing, listing
<1>26. CASE LeaveUpload
  BY <1>26, SMT DEF Awaited, Flags, Counters, LeaveUpload, world, connection,
     importing, listing
<1>27. CASE FinishPass
  BY <1>27, SMT DEF Awaited, Flags, Counters, FinishPass, world, connection,
     importing, listing
<1>28. CASE UNCHANGED vars
  BY <1>28, SMT DEF Awaited, Flags, Counters, vars
<1> QED
  BY <1>1, <1>2, <1>3, <1>4, <1>5, <1>6, <1>7, <1>8, <1>9, <1>10, <1>11, <1>12,
     <1>13, <1>14, <1>15, <1>16, <1>17, <1>18, <1>19, <1>20, <1>21, <1>22,
     <1>23, <1>24, <1>25, <1>26, <1>27, <1>28, Zenon
     DEF Next, CoreQueue, Pass

LEMMA InPass ==
  ASSUME Flags, Counters, [Next]_vars, Awaited,
         step \in {"defer", "begin", "heads", "lane"}
  PROVE  Awaited'
<1>1. ~ StartPass
  BY Zenon DEF StartPass, NextBlock
<1> QED BY <1>1, AwaitedKept

LEMMA LatePreserved ==
  ASSUME Flags, Counters, Journal, LateEventsAwaited, [Next]_vars
  PROVE  LateEventsAwaited'
<1>1. CASE Elsewhere
  <2>1. step' = step /\ At("queued")' = At("queued")
    BY <1>1, ElsewhereKeeps, PlacesKept
  <2>2. StartPass => step' = "transfer"
    BY Zenon DEF StartPass
  <2> QED BY <2>1, <2>2, AwaitedKept, Zenon DEF LateEventsAwaited
<1>2. CASE Submit
  BY <1>2, WakesAwaited, Zenon DEF Submit, importing, LateEventsAwaited
<1>3. CASE \E u \in Uploads : Complete(u)
  BY <1>3, WakesAwaited, Zenon DEF Complete, world, importing, LateEventsAwaited
<1>4. CASE StartPass
  BY <1>4, Zenon DEF StartPass, LateEventsAwaited
<1>5. CASE TransferEvents
  <2>1. At("queued")' = {}
    BY <1>5, SMT DEF TransferEvents, At
  <2> QED BY <2>1, Zenon DEF LateEventsAwaited
<1>6. CASE DeferPass
  <2>1. step \in {"defer", "begin", "heads", "lane"}
    BY <1>6, Zenon DEF DeferPass
  <2>2. At("queued")' \subseteq At("queued")
    BY <1>6, Zenon DEF DeferPass, At, Journal
  <2> QED BY <2>1, <2>2, InPass, Zenon DEF LateEventsAwaited
<1>7. CASE BeginPass
  <2>1. step \in {"defer", "begin", "heads", "lane"}
    BY <1>7, Zenon DEF BeginPass
  <2>2. At("queued")' \subseteq At("queued")
    BY <1>7, Zenon DEF BeginPass, At, Journal
  <2> QED BY <2>1, <2>2, InPass, Zenon DEF LateEventsAwaited
<1>8. CASE YieldPass
  <2>1. step \in {"defer", "begin", "heads", "lane"}
    BY <1>8, Zenon DEF YieldPass
  <2>2. At("queued")' \subseteq At("queued")
    BY <1>8, Zenon DEF YieldPass, At, Journal
  <2> QED BY <2>1, <2>2, InPass, Zenon DEF LateEventsAwaited
<1>9. CASE \E h \in heads : VisitLane(h)
  <2>1. step \in {"defer", "begin", "heads", "lane"}
    BY <1>9, Zenon DEF VisitLane
  <2>2. At("queued")' \subseteq At("queued")
    BY <1>9, Zenon DEF VisitLane, At, Journal
  <2> QED BY <2>1, <2>2, InPass, Zenon DEF LateEventsAwaited
<1>10. CASE \E h \in heads : PassOver(h)
  <2>1. step \in {"defer", "begin", "heads", "lane"}
    BY <1>10, Zenon DEF PassOver
  <2>2. At("queued")' \subseteq At("queued")
    BY <1>10, Zenon DEF PassOver, At, Journal
  <2> QED BY <2>1, <2>2, InPass, Zenon DEF LateEventsAwaited
<1>11. CASE HandleEvent
  <2>1. step \in {"defer", "begin", "heads", "lane"}
    BY <1>11, Zenon DEF HandleEvent
  <2>2. At("queued")' \subseteq At("queued")
    BY <1>11, SMT DEF HandleEvent, At, Journal
  <2> QED BY <2>1, <2>2, InPass, Zenon DEF LateEventsAwaited
<1>12. CASE AwaitResult
  <2>1. step \in {"defer", "begin", "heads", "lane"}
    BY <1>12, Zenon DEF AwaitResult
  <2>2. At("queued")' \subseteq At("queued")
    BY <1>12, Zenon DEF AwaitResult, At, Journal
  <2> QED BY <2>1, <2>2, InPass, Zenon DEF LateEventsAwaited
<1>13. CASE ScheduleUpload
  <2>1. step \in {"defer", "begin", "heads", "lane"}
    BY <1>13, Zenon DEF ScheduleUpload
  <2>2. At("queued")' \subseteq At("queued")
    BY <1>13, SMT DEF ScheduleUpload, At, Journal
  <2> QED BY <2>1, <2>2, InPass, Zenon DEF LateEventsAwaited
<1>14. CASE LeaveUpload
  <2>1. step \in {"defer", "begin", "heads", "lane"}
    BY <1>14, Zenon DEF LeaveUpload
  <2>2. At("queued")' \subseteq At("queued")
    BY <1>14, Zenon DEF LeaveUpload, At, Journal
  <2> QED BY <2>1, <2>2, InPass, Zenon DEF LateEventsAwaited
<1>15. CASE FinishPass
  <2>1. step \in {"defer", "begin", "heads", "lane"}
    BY <1>15, Zenon DEF FinishPass
  <2>2. At("queued")' \subseteq At("queued")
    BY <1>15, Zenon DEF FinishPass, At, Journal
  <2> QED BY <2>1, <2>2, InPass, Zenon DEF LateEventsAwaited
<1> QED
  BY <1>1, <1>2, <1>3, <1>4, <1>5, <1>6, <1>7, <1>8, <1>9, <1>10, <1>11, <1>12,
     <1>13, <1>14, <1>15, NextCases, Zenon

-----------------------------------------------------------------------------
(* What a pass leaves behind *)

\* What keeps an upload back on a lane visited before is under way, or has been
\* left to something that is awaited.
LEMMA HeldBackAwaited ==
  ASSUME LateEventsAwaited, LeftAwaited, step \in {"heads", "lane"},
         NEW u, record \in {0, u}, HeldBack(u)
  PROVE  Awaited \/ At("inFlight") # {}
<1>1. PICK v \in Pending :
        lane[v] # lane[u] /\ \A g \in heads : lane[g] # lane[v]
  BY Zenon DEF HeldBack
<1>2. CASE v \in At("inFlight")
  BY <1>2
<1>3. CASE v \in At("queued")
  BY <1>3, Zenon DEF LateEventsAwaited
<1>4. CASE v \in At("ready") \cup At("stored")
  <2>1. \A h \in AtHand : lane[h] # lane[v]
    BY <1>1, Zenon DEF AtHand
  <2> QED BY <1>4, <2>1, Zenon DEF LeftAwaited
<1> QED BY <1>2, <1>3, <1>4, Zenon DEF Pending

LEMMA LeftPreserved ==
  ASSUME Flags, Counters, Walk, Journal, LanesInOrder, LateEventsAwaited,
         LeftAwaited, [Next]_vars
  PROVE  LeftAwaited'
<1>1. CASE Elsewhere
  <2>1. /\ UNCHANGED <<step, lane, upload>> /\ AtHand' = AtHand
        /\ At("ready")' = At("ready") /\ At("stored")' = At("stored")
        /\ At("inFlight")' = At("inFlight")
    BY <1>1, ElsewhereKeeps, PlacesKept, Zenon DEF AtHand
  <2>2. step \in {"heads", "lane"} => (Awaited => Awaited')
    BY InPass
  <2> QED BY <2>1, <2>2, Zenon DEF LeftAwaited
<1>2. CASE Submit
  <2>1. step' \notin {"heads", "lane"}
    BY <1>2, Zenon DEF Submit, pass
  <2> QED BY <2>1, Zenon DEF LeftAwaited
<1>3. CASE \E u \in Uploads : Complete(u)
  BY <1>3, WakesAwaited, Zenon DEF Complete, world, importing, LeftAwaited
<1>4. CASE StartPass
  <2>1. step' \notin {"heads", "lane"}
    BY <1>4, Zenon DEF StartPass
  <2> QED BY <2>1, Zenon DEF LeftAwaited
<1>5. CASE TransferEvents
  <2>1. step' \notin {"heads", "lane"}
    BY <1>5, Zenon DEF TransferEvents
  <2> QED BY <2>1, Zenon DEF LeftAwaited
<1>6. CASE DeferPass
  <2>1. step' \notin {"heads", "lane"}
    BY <1>6, Zenon DEF DeferPass
  <2> QED BY <2>1, Zenon DEF LeftAwaited
<1>7. CASE BeginPass
  <2>1. UNCHANGED <<upload, lane>> /\ heads' = {u \in Uploads : IsFirst(u)}
    BY <1>7, Zenon DEF BeginPass, world
  <2>2. ASSUME NEW u \in At("ready") \cup At("stored")
        PROVE  \E h \in heads' : lane[h] = lane[u]
    <3>1. u \in OnLaneOf(u) /\ OnLaneOf(u) \subseteq Nat
      BY PendingUploads, UploadsPositive, Zenon DEF OnLaneOf, Pending
    <3>2. PICK h \in OnLaneOf(u) : \A v \in OnLaneOf(u) : h <= v
      BY <3>1, LeastExists
    <3>3. h \in Uploads /\ IsFirst(h) /\ lane[h] = lane[u]
      BY <3>2, PendingUploads, Zenon DEF OnLaneOf, IsFirst
    <3> QED BY <2>1, <3>3
  <2> QED BY <2>1, <2>2, PlacesKept, Zenon DEF LeftAwaited, AtHand
<1>8. CASE YieldPass
  <2>1. step' \notin {"heads", "lane"}
    BY <1>8, Zenon DEF YieldPass
  <2> QED BY <2>1, Zenon DEF LeftAwaited
<1>9. CASE \E h \in heads : VisitLane(h)
  <2>1. UNCHANGED <<upload, lane>> /\ AtHand \subseteq AtHand'
    BY <1>9, UploadsPositive, Zenon DEF VisitLane, world, AtHand, Walk
  <2>2. step = "heads"
    BY <1>9, Zenon DEF VisitLane
  <2> QED BY <2>1, <2>2, PlacesKept, InPass, Zenon DEF LeftAwaited
<1>10. CASE \E h \in heads : PassOver(h)
  <2>0. PICK p \in heads : PassOver(p)
    BY <1>10
  <2>1. /\ UNCHANGED <<upload, lane>> /\ step = "heads" /\ HeldBack(p)
        /\ heads \subseteq At("ready") /\ record = 0
    BY <2>0, Zenon DEF PassOver, IsNext, world, Walk
  <2>2. Awaited' \/ At("inFlight")' # {}
    BY <2>1, HeldBackAwaited, InPass, PlacesKept
  <2>3. ASSUME NEW u \in At("ready") \cup At("stored")
        PROVE  Awaited' \/ (upload[u] = "ready" /\ At("inFlight")' # {})
    <3>1. CASE u \in At("ready")
      BY <2>2, <3>1, Zenon DEF At
    <3>2. CASE u \in At("stored")
      <4>1. ASSUME NEW h \in AtHand, lane[h] = lane[u] PROVE FALSE
        <5>1. IsFirst(h) /\ IsFirst(u) /\ h \in At("ready")
          BY <2>1, <3>2, <4>1, Zenon
             DEF LanesInOrder, InProgress, Events, AtHand
        <5> QED BY <3>2, <4>1, <5>1, OneFirst, Zenon DEF At
      <4>2. upload[u] # "ready"
        BY <3>2, Zenon DEF At
      <4> QED BY <2>1, <3>2, <4>1, <4>2, InPass, Zenon DEF LeftAwaited
    <3> QED BY <3>1, <3>2
  <2> QED BY <2>1, <2>3, PlacesKept, Zenon DEF LeftAwaited
<1>11. CASE HandleEvent
  <2>0. record \in Uploads /\ step = "lane"
    BY <1>11, Zenon DEF HandleEvent, Walk
  <2>1. /\ upload[record] = "stored"
        /\ upload' = [upload EXCEPT ![record] = "done"]
        /\ UNCHANGED <<lane, heads>>
    BY <1>11, Zenon DEF HandleEvent, world
  <2>2. /\ At("ready")' = At("ready") /\ At("inFlight")' = At("inFlight")
        /\ At("stored")' = At("stored") \ {record}
    BY <2>0, <2>1, SMT DEF Journal, At
  <2>3. ASSUME NEW u \in At("ready") \cup (At("stored") \ {record}),
               lane[u] = lane[record]
        PROVE  \E h \in AtHand' : lane[h] = lane[u]
    <3>1. u \in OnLaneOf(record) \ {record}
      BY <2>1, <2>3, Zenon DEF OnLaneOf, Pending, At
    <3>2. PICK v \in OnLaneOf(record) \ {record} : record' = v
      BY <1>11, <3>1, Zenon DEF HandleEvent
    <3>3. lane[v] = lane[u] /\ v \in AtHand'
      BY <2>3, <3>2, PendingUploads, UploadsPositive, Zenon DEF OnLaneOf, AtHand
    <3> QED BY <3>3
  <2>4. ASSUME NEW u \in At("ready") \cup (At("stored") \ {record}),
               NEW h \in AtHand, lane[h] = lane[u]
        PROVE  \E g \in AtHand' : lane[g] = lane[u]
    BY <2>1, <2>3, <2>4, Zenon DEF AtHand
  <2>5. \A u \in At("ready") : upload'[u] = "ready"
    BY <2>1, <2>2, Zenon DEF At
  <2> QED BY <2>0, <2>1, <2>2, <2>4, <2>5, InPass, Zenon DEF LeftAwaited, At
<1>12. CASE AwaitResult
  <2>0. record \in Uploads /\ step = "lane" /\ IsFirst(record)
    BY <1>12, Zenon DEF AwaitResult, Walk, AtHand, LanesInOrder
  <2>1. /\ UNCHANGED <<lane, heads, upload>> /\ record' = 0
        /\ record \in At("inFlight") \cup At("queued")
    BY <1>12, <2>0, Zenon DEF AwaitResult, LeaveLane, world, At
  <2>2. ASSUME NEW u \in At("ready") \cup At("stored"), lane[record] = lane[u]
        PROVE  Awaited' \/ (upload[u] = "ready" /\ At("inFlight") # {})
    <3>1. CASE record \in At("queued")
      BY <2>0, <3>1, InPass, Zenon DEF LateEventsAwaited
    <3>2. CASE record \in At("inFlight")
      <4>1. u \notin At("stored")
        BY <2>0, <2>2, <3>2, OneFirst, Zenon
           DEF LanesInOrder, InProgress, Events, At
      <4> QED BY <3>2, <4>1, Zenon DEF At
    <3> QED BY <2>1, <3>1, <3>2
  <2> QED BY <2>0, <2>1, <2>2, PlacesKept, InPass, Zenon DEF LeftAwaited, AtHand
<1>13. CASE ScheduleUpload
  <2>0. record \in Uploads /\ step = "lane" /\ IsFirst(record)
    BY <1>13, Zenon DEF ScheduleUpload, Walk, AtHand, LanesInOrder
  <2>1. /\ upload[record] = "ready"
        /\ upload' = [upload EXCEPT ![record] = "inFlight"]
        /\ UNCHANGED <<lane, heads>> /\ record' = 0
    BY <1>13, Zenon DEF ScheduleUpload, LeaveLane, world
  <2>2. /\ At("ready")' = At("ready") \ {record}
        /\ At("inFlight")' = At("inFlight") \cup {record}
        /\ At("stored")' = At("stored")
    BY <2>0, <2>1, SMT DEF Journal, At
  <2>3. ASSUME NEW u \in At("ready")' PROVE upload'[u] = "ready"
    BY Zenon DEF At
  <2>4. ASSUME NEW u \in At("stored") PROVE lane[record] # lane[u]
    <3>1. IsFirst(u) /\ u # record
      BY <2>1, Zenon DEF LanesInOrder, InProgress, Events, At
    <3> QED BY <2>0, <3>1, OneFirst
  <2>5. \A u \in At("stored") : upload[u] # "ready"
    BY Zenon DEF At
  <2> QED BY <2>0, <2>1, <2>2, <2>3, <2>4, <2>5, InPass, Zenon
          DEF LeftAwaited, AtHand
<1>14. CASE LeaveUpload
  <2>0. record \in Uploads /\ step = "lane" /\ IsFirst(record)
    BY <1>14, Zenon DEF LeaveUpload, Walk, AtHand, LanesInOrder
  <2>1. /\ UNCHANGED <<lane, heads, upload>> /\ record' = 0
        /\ upload[record] = "ready"
    BY <1>14, Zenon DEF LeaveUpload, LeaveLane, world
  <2>2. Awaited \/ At("inFlight") # {}
    <3>1. CASE GivesWay
      BY <3>1, SMT DEF GivesWay, ShouldDefer, Awaited
    <3>2. CASE HeldBack(record)
      BY <2>0, <3>2, HeldBackAwaited
    <3> QED BY <1>14, <3>1, <3>2, Zenon DEF LeaveUpload
  <2>3. ASSUME NEW u \in At("stored") PROVE lane[record] # lane[u]
    <3>1. IsFirst(u) /\ u # record
      BY <2>1, Zenon DEF LanesInOrder, InProgress, Events, At
    <3> QED BY <2>0, <3>1, OneFirst
  <2>4. \A u \in Uploads : u \in At("ready") <=> upload[u] = "ready"
    BY Zenon DEF At
  <2>5. \A u \in At("ready") \cup At("stored") : u \in Uploads
    BY Zenon DEF At
  <2> QED BY <2>0, <2>1, <2>2, <2>3, <2>4, <2>5, PlacesKept, InPass, Zenon
          DEF LeftAwaited, AtHand
<1>15. CASE FinishPass
  <2>1. step' \notin {"heads", "lane"}
    BY <1>15, Zenon DEF FinishPass
  <2> QED BY <2>1, Zenon DEF LeftAwaited
<1> QED
  BY <1>1, <1>2, <1>3, <1>4, <1>5, <1>6, <1>7, <1>8, <1>9, <1>10, <1>11, <1>12,
     <1>13, <1>14, <1>15, NextCases, Zenon

-----------------------------------------------------------------------------
(* No wake-up is lost *)

LEMMA WakePreserved ==
  ASSUME Flags, Counters, Sets, Walk, NoLostWakeUp, LateEventsAwaited,
         LeftAwaited, [Next]_vars
  PROVE  NoLostWakeUp'
<1>1. CASE Elsewhere
  <2>1. /\ step' = step /\ Events' = Events
        /\ At("ready")' = At("ready") /\ At("inFlight")' = At("inFlight")
    BY <1>1, ElsewhereKeeps, PlacesKept
  <2>2. StartPass => step' = "transfer"
    BY Zenon DEF StartPass
  <2> QED BY <2>1, <2>2, AwaitedKept, Zenon DEF NoLostWakeUp
<1>2. CASE Submit
  BY <1>2, WakesAwaited, Zenon DEF Submit, importing, NoLostWakeUp
<1>3. CASE \E u \in Uploads : Complete(u)
  BY <1>3, WakesAwaited, Zenon DEF Complete, world, importing, NoLostWakeUp
<1>4. CASE StartPass
  <2>1. step' # "idle"
    BY <1>4, Zenon DEF StartPass
  <2> QED BY <2>1, Zenon DEF NoLostWakeUp
<1>5. CASE TransferEvents
  <2>1. step' # "idle"
    BY <1>5, Zenon DEF TransferEvents
  <2> QED BY <2>1, Zenon DEF NoLostWakeUp
<1>6. CASE DeferPass
  <2>1. CASE ShouldDefer
    <3>1. Awaited
      BY <2>1, Zenon DEF ShouldDefer, Awaited, Sets
    <3>2. step = "defer"
      BY <1>6, Zenon DEF DeferPass
    <3> QED BY <3>1, <3>2, InPass, Zenon DEF NoLostWakeUp
  <2>2. CASE ~ ShouldDefer
    BY <1>6, <2>2, Zenon DEF DeferPass, NoLostWakeUp
  <2> QED BY <2>1, <2>2
<1>7. CASE BeginPass
  <2>1. step' # "idle"
    BY <1>7, Zenon DEF BeginPass
  <2> QED BY <2>1, Zenon DEF NoLostWakeUp
<1>8. CASE YieldPass
  <2>1. Awaited /\ step = "heads"
    BY <1>8, SMT DEF YieldPass, GivesWay, ShouldDefer, Awaited
  <2> QED BY <2>1, InPass, Zenon DEF NoLostWakeUp
<1>9. CASE \E h \in heads : VisitLane(h)
  <2>1. step' # "idle"
    BY <1>9, Zenon DEF VisitLane
  <2> QED BY <2>1, Zenon DEF NoLostWakeUp
<1>10. CASE \E h \in heads : PassOver(h)
  <2>1. step' # "idle"
    BY <1>10, Zenon DEF PassOver
  <2> QED BY <2>1, Zenon DEF NoLostWakeUp
<1>11. CASE HandleEvent
  <2>1. step' # "idle"
    BY <1>11, Zenon DEF HandleEvent, LeaveLane
  <2> QED BY <2>1, Zenon DEF NoLostWakeUp
<1>12. CASE AwaitResult
  <2>1. step' # "idle"
    BY <1>12, Zenon DEF AwaitResult, LeaveLane
  <2> QED BY <2>1, Zenon DEF NoLostWakeUp
<1>13. CASE ScheduleUpload
  <2>1. step' # "idle"
    BY <1>13, Zenon DEF ScheduleUpload, LeaveLane
  <2> QED BY <2>1, Zenon DEF NoLostWakeUp
<1>14. CASE LeaveUpload
  <2>1. step' # "idle"
    BY <1>14, Zenon DEF LeaveUpload, LeaveLane
  <2> QED BY <2>1, Zenon DEF NoLostWakeUp
<1>15. CASE FinishPass
  <2>1. AtHand = {} /\ step = "heads" /\ upload' = upload
    BY <1>15, Zenon DEF FinishPass, AtHand, Walk
  <2>2. /\ At("queued") # {} => Awaited
        /\ At("stored") # {} => Awaited
        /\ At("ready") # {} => Awaited \/ At("inFlight") # {}
    BY <2>1, Zenon DEF LateEventsAwaited, LeftAwaited, At
  <2> QED BY <2>1, <2>2, PlacesKept, InPass, Zenon DEF NoLostWakeUp, Events
<1> QED
  BY <1>1, <1>2, <1>3, <1>4, <1>5, <1>6, <1>7, <1>8, <1>9, <1>10, <1>11, <1>12,
     <1>13, <1>14, <1>15, NextCases, Zenon

LEMMA InitInductive == Init => Inductive
<1> SUFFICES ASSUME Init PROVE Inductive
  OBVIOUS
<1>1. Flags /\ Walk /\ Journal
  BY Zenon DEF Init, Flags, Walk, Journal, Places
<1>2. Counters /\ Sets
  BY TriggerAssumption, SMT DEF TriggerAssumption, Init, Counters, Sets
<1>3. \A p \in Places : p # "none" => At(p) = {}
  BY Zenon DEF Init, At
<1>4. /\ At("ready") = {} /\ At("inFlight") = {} /\ At("queued") = {}
      /\ At("stored") = {}
  BY <1>3 DEF Places
<1>5. LanesInOrder
  BY <1>4, Zenon DEF Init, LanesInOrder, InProgress, Events, AtHand
<1>6. NoLostWakeUp /\ LateEventsAwaited /\ LeftAwaited
  BY <1>4, Zenon DEF NoLostWakeUp, LateEventsAwaited, LeftAwaited, Events
<1> QED BY <1>1, <1>2, <1>5, <1>6, TypeParts, Zenon DEF Inductive

LEMMA StepInductive == Inductive /\ [Next]_vars => Inductive'
<1> SUFFICES ASSUME Inductive, [Next]_vars PROVE Inductive'
  OBVIOUS
<1>1. /\ Flags /\ Counters /\ Sets /\ Walk /\ Journal
      /\ LanesInOrder /\ NoLostWakeUp /\ LateEventsAwaited /\ LeftAwaited
  BY TypeParts, Zenon DEF Inductive
<1>2. Flags' /\ Counters' /\ Sets' /\ Walk' /\ Journal'
  BY <1>1, FlagsPreserved, CountersPreserved, SetsPreserved, WalkPreserved,
     JournalPreserved
<1>3. TypeOK'
  BY <1>2, TypeParts, PTL
<1>4. LanesInOrder' /\ NoLostWakeUp' /\ LateEventsAwaited' /\ LeftAwaited'
  BY <1>1, OrderPreserved, WakePreserved, LatePreserved, LeftPreserved
<1> QED BY <1>3, <1>4, Zenon DEF Inductive

\* Every reachable state satisfies the strengthened invariant.
THEOREM InductiveHolds == Spec => []Inductive
BY InitInductive, StepInductive, PTL DEF Spec

\* Every variable holds a value of its type, for any bounds and kinds of work.
THEOREM TypeCorrect == Spec => []TypeOK
<1>1. Inductive => TypeOK
  BY DEF Inductive
<1> QED BY <1>1, InductiveHolds, PTL

\* Whenever no pass runs, the events and uploads that were left for later are
\* taken up by a block that finds the flag set, or the connection, an import,
\* item list work or, for uploads, an upload under way will set it.
THEOREM WakeUpsKept == Spec => []NoLostWakeUp
<1>1. Inductive => NoLostWakeUp
  BY DEF Inductive
<1> QED BY <1>1, InductiveHolds, PTL
=============================================================================
