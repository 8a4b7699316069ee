-------------------------- MODULE SyncCyclesProofs --------------------------
(***************************************************************************)
(* Proofs about SyncCycles, for every set of destinations and paths and    *)
(* every bound.                                                            *)
(***************************************************************************)
EXTENDS SyncCycles, TLAPS

USE DEF dbVars, recVars, envVars, cfgVars, schedVars, webVars, passVars, engVars

-----------------------------------------------------------------------------
(* Type correctness, one lemma per part of TypeOK and one step per action. *)

LEMMA InitType == Init => TypeOK
  <1> SUFFICES ASSUME Init PROVE TypeOK
    OBVIOUS
  <1> USE CycleConstants DEF Init, Cyc, Cyc0, Item, Config, NoConfig
  <1>1. DbTypeOK BY DEF DbTypeOK, CycleStatus, Colour
  <1>2. EnvTypeOK BY DEF EnvTypeOK
  <1>3. ThreadTypeOK BY DEF ThreadTypeOK
  <1>4. EngTypeOK BY DEF EngTypeOK, NoSnap, NoWork
  <1>5. FlagTypeOK BY DEF FlagTypeOK
  <1>6. QED BY <1>1, <1>2, <1>3, <1>4, <1>5 DEF TypeOK

\* Closing a cycle keeps its table well typed, whichever cycle was read before.
LEMMA CloseType ==
  ASSUME DbTypeOK, NEW k \in Cyc0, CloseCycle(k)
  PROVE  last' \in Cyc /\ cstat' \in [Cyc -> CycleStatus]
  <1>1. CASE cstat[k] = "open"
    <2>1. last \in Cyc /\ last' = last + 1 /\ last < MaxCycle
      BY <1>1 DEF CloseCycle, DbTypeOK
    <2>2. last' \in Cyc
      BY <2>1, CycleConstants DEF Cyc
    <2>3. cstat' = [cstat EXCEPT ![k] = "closed", ![last + 1] = "open"]
      BY <1>1 DEF CloseCycle
    <2>4. QED BY <2>2, <2>3 DEF DbTypeOK, CycleStatus
  <1>2. CASE cstat[k] # "open"
    BY <1>2 DEF CloseCycle, DbTypeOK
  <1>3. QED BY <1>1, <1>2

\* Every step keeps the rows of the database well typed.
LEMMA DbStep == ASSUME TypeOK, [Next]_vars PROVE DbTypeOK'
  <1> USE CycleConstants DEF TypeOK, DbTypeOK, Cyc, Cyc0, Item
  <1>1. CASE RecordBatch
    BY <1>1 DEF RecordBatch, EnvTypeOK, Inserted
  <1>2. CASE RecordInsert
    BY <1>2 DEF RecordInsert, EnvTypeOK, Inserted
  <1>3. CASE SchedGap
    <2>1. Inserted({Rescan}, scyc) \subseteq [cycle : Cyc, path : Item]
      BY <1>3 DEF Inserted, SchedGap, ThreadTypeOK
    <2>2. QED BY <1>3, <2>1 DEF SchedGap
  <1>4. CASE SchedClose
    BY <1>4, CloseType DEF SchedClose, ThreadTypeOK
  <1>5. CASE SchedTarget
    BY <1>5 DEF SchedTarget, ThreadTypeOK, SetTargets, Colour
  <1>6. CASE WebClose
    BY <1>6, CloseType DEF WebClose, ThreadTypeOK
  <1>7. CASE WebTarget
    BY <1>7 DEF WebTarget, ThreadTypeOK, SetTargets, Colour
  <1>8. CASE WebFlag
    BY <1>8 DEF WebFlag, ThreadTypeOK
  <1>9. ASSUME NEW c \in Cyc, EngSkip(c) PROVE DbTypeOK'
    BY <1>9 DEF EngSkip, CycleStatus
  <1>10. ASSUME NEW c \in Cyc, EngSourceGone(c) PROVE DbTypeOK'
    BY <1>10 DEF EngSourceGone, CycleStatus, Colour
  <1>11. ASSUME NEW c \in Cyc, EngBegin(c) PROVE DbTypeOK'
    BY <1>11 DEF EngBegin, CycleStatus, Colour, EngTypeOK
  <1>12. ASSUME NEW d \in Dst, EngFinish(d) PROVE DbTypeOK'
    <2>1. CASE FinishVerified(d)
      BY <1>12, <2>1 DEF EngFinish, FinishVerified, EngTypeOK, Inserted, Colour
    <2>2. CASE FinishCancelled(d)
      BY <1>12, <2>2 DEF EngFinish, FinishCancelled, EngTypeOK, Colour
    <2>3. CASE FinishFailed(d)
      BY <1>12, <2>3 DEF EngFinish, FinishFailed, EngTypeOK, Colour
    <2>4. QED BY <1>12, <2>1, <2>2, <2>3 DEF EngFinish
  <1>13. CASE EngSettle
    BY <1>13 DEF EngSettle, EngTypeOK, Settled, CycleStatus
  <1>14. CASE EngEnd
    BY <1>14 DEF EngEnd
  <1>15. ASSUME NEW d \in Dst, ResetOffset(d) PROVE DbTypeOK'
    BY <1>15 DEF ResetOffset, Colour
  <1>16. CASE UNCHANGED <<last, cstat, needs, manual, log, target, verified, colour>>
    BY <1>16
  <1>17. QED
    BY <1>1, <1>2, <1>3, <1>4, <1>5, <1>6, <1>7, <1>8, <1>9, <1>10, <1>11,
       <1>12, <1>13, <1>14, <1>15, <1>16 DEF Next, Watcher, Scheduler, Web,
       Engine, User, vars, Change, Overflow, RecordRead, SchedTick,
       SchedAdvance, SchedRead, SchedGate, WebRequest, ManualGate, EngList,
       EngCancelled, EngCopy, EngPrefetchCancelled, EngPrefetchFailed,
       CancelRequest, TogglePaused, ToggleEnabled, MovePath, Crash

\* Every step keeps the source tree, the configuration file and the bounds well typed.
LEMMA EnvStep == ASSUME TypeOK, [Next]_vars PROVE EnvTypeOK'
  <1> USE CycleConstants DEF TypeOK, EnvTypeOK, Cyc, Cyc0, Item
  <1>1. ASSUME NEW p \in Path, Change(p) PROVE EnvTypeOK'
    BY <1>1 DEF Change, Spend, Kinds
  <1>2. CASE Overflow
    BY <1>2 DEF Overflow, Spend, Kinds
  <1>3. CASE RecordBatch
    BY <1>3 DEF RecordBatch
  <1>4. CASE RecordRead
    BY <1>4 DEF RecordRead, DbTypeOK
  <1>5. CASE RecordInsert
    BY <1>5 DEF RecordInsert
  <1>6. CASE SchedTick
    BY <1>6 DEF SchedTick
  <1>7. CASE WebRequest
    BY <1>7 DEF WebRequest, Spend, Kinds
  <1>8. ASSUME NEW c \in Cyc, EngSourceGone(c) PROVE EnvTypeOK'
    BY <1>8 DEF EngSourceGone, Spend, Kinds
  <1>9. ASSUME NEW c \in Cyc, EngBegin(c) PROVE EnvTypeOK'
    BY <1>9 DEF EngBegin, SpendIf, Spend, Kinds
  <1>10. ASSUME NEW d \in Dst, EngCopy(d) PROVE EnvTypeOK'
    BY <1>10 DEF EngCopy, Spend, Kinds, Reach, EngTypeOK
  <1>11. CASE EngPrefetchFailed
    BY <1>11 DEF EngPrefetchFailed, Spend, Kinds
  <1>12. CASE CancelRequest
    BY <1>12 DEF CancelRequest, Spend, Kinds
  <1>13. ASSUME NEW d \in Dst, TogglePaused(d) PROVE EnvTypeOK'
    BY <1>13 DEF TogglePaused, Spend, Kinds
  <1>14. ASSUME NEW d \in Dst, ToggleEnabled(d) PROVE EnvTypeOK'
    BY <1>14 DEF ToggleEnabled, Spend, Kinds
  <1>15. ASSUME NEW d \in Dst, MovePath(d) PROVE EnvTypeOK'
    BY <1>15 DEF MovePath, Spend, Kinds
  <1>16. ASSUME NEW d \in Dst, ResetOffset(d) PROVE EnvTypeOK'
    BY <1>16 DEF ResetOffset
  <1>17. CASE Crash
    BY <1>17 DEF Crash, Spend, Kinds
  <1>18. CASE UNCHANGED <<inflight, dirty, missed, rcyc, ritem, enabled,
                         paused, resetDue, edited, used>>
    BY <1>18
  <1>19. QED
    BY <1>1, <1>2, <1>3, <1>4, <1>5, <1>6, <1>7, <1>8, <1>9, <1>10, <1>11,
       <1>12, <1>13, <1>14, <1>15, <1>16, <1>17, <1>18 DEF Next, Watcher,
       Scheduler, Web, Engine, User, vars, SchedGap, SchedAdvance, SchedRead,
       SchedClose, SchedTarget, SchedGate, WebClose, WebTarget, WebFlag,
       ManualGate, EngList, EngCancelled, EngSkip, EngPrefetchCancelled,
       EngFinish, EngSettle, EngEnd

\* Every step keeps the locals of the scheduler and web threads well typed.
LEMMA ThreadStep == ASSUME TypeOK, [Next]_vars PROVE ThreadTypeOK'
  <1> USE CycleConstants DEF TypeOK, ThreadTypeOK, Cyc, Cyc0, Item
  <1>1. CASE SchedTick
    BY <1>1 DEF SchedTick, EnvTypeOK, DbTypeOK, LoadConfig, Config
  <1>2. CASE SchedGap
    BY <1>2 DEF SchedGap
  <1>3. CASE SchedAdvance
    BY <1>3 DEF SchedAdvance
  <1>4. CASE SchedRead
    BY <1>4 DEF SchedRead, DbTypeOK
  <1>5. CASE SchedClose
    BY <1>5 DEF SchedClose, NoAdvance
  <1>6. CASE SchedTarget
    BY <1>6 DEF SchedTarget, NoAdvance
  <1>7. CASE SchedGate
    BY <1>7 DEF SchedGate, NoConfig, Config
  <1>8. CASE WebRequest
    BY <1>8 DEF WebRequest, EnvTypeOK, DbTypeOK, LoadConfig, Config
  <1>9. CASE WebClose
    BY <1>9 DEF WebClose
  <1>10. CASE WebTarget
    BY <1>10 DEF WebTarget
  <1>11. CASE WebFlag
    BY <1>11 DEF WebFlag, NoRequest, NoConfig, Config
  <1>12. CASE ManualGate
    BY <1>12 DEF ManualGate
  <1>13. CASE EngCancelled
    BY <1>13 DEF EngCancelled, ReleaseGate
  <1>14. CASE EngPrefetchCancelled
    BY <1>14 DEF EngPrefetchCancelled, ReleaseGate
  <1>15. CASE EngEnd
    BY <1>15 DEF EngEnd, ReleaseGate
  <1>16. ASSUME NEW d \in Dst, MovePath(d) PROVE ThreadTypeOK'
    BY <1>16 DEF MovePath, Config
  <1>17. CASE Crash
    BY <1>17 DEF Crash, EnvTypeOK, NoAdvance, NoRequest, NoConfig, Config
  <1>18. CASE UNCHANGED <<spc, sig, scfg, scyc, sneeds, sdue, wpc, wcfg, wcyc,
                         wdst, wfull, mq>>
    BY <1>18
  <1>19. QED
    BY <1>1, <1>2, <1>3, <1>4, <1>5, <1>6, <1>7, <1>8, <1>9, <1>10, <1>11,
       <1>12, <1>13, <1>14, <1>15, <1>16, <1>17, <1>18 DEF Next, Watcher,
       Scheduler, Web, Engine, User, vars, Change, Overflow, RecordBatch,
       RecordRead, RecordInsert, EngList, EngSkip, EngSourceGone, EngBegin,
       EngCopy, EngPrefetchFailed, EngFinish, EngSettle, CancelRequest,
       TogglePaused, ToggleEnabled, ResetOffset

\* Every step keeps the locals of the engine well typed.
LEMMA EngStep == ASSUME TypeOK, [Next]_vars PROVE EngTypeOK'
  <1> USE CycleConstants DEF TypeOK, EngTypeOK, Cyc, Cyc0, Item
  <1>1. ASSUME NEW p \in Path, Change(p) PROVE EngTypeOK'
    BY <1>1 DEF Change
  <1>2. CASE SchedGate
    BY <1>2 DEF SchedGate, ThreadTypeOK, StartEngine
  <1>3. CASE ManualGate
    BY <1>3 DEF ManualGate, ThreadTypeOK, StartEngine
  <1>4. CASE EngList
    BY <1>4 DEF EngList, DbTypeOK
  <1>5. CASE EngCancelled
    BY <1>5 DEF EngCancelled, ReleaseGate, NoEngine, NoPass, NoConfig, NoSnap,
       NoWork, Config
  <1>6. ASSUME NEW c \in Cyc, EngSkip(c) PROVE EngTypeOK'
    BY <1>6 DEF EngSkip
  <1>7. ASSUME NEW c \in Cyc, EngSourceGone(c) PROVE EngTypeOK'
    BY <1>7 DEF EngSourceGone
  <1>8. ASSUME NEW c \in Cyc, EngBegin(c) PROVE EngTypeOK'
    <2>1. work' \in [Dst -> SUBSET Path]
      BY <1>8 DEF EngBegin, NeedsFull, Backlog, DbTypeOK
    <2>2. ready' \subseteq Dst
      BY <1>8 DEF EngBegin, Config
    <2>3. QED BY <1>8, <2>1, <2>2 DEF EngBegin
  <1>9. ASSUME NEW d \in Dst, EngCopy(d) PROVE EngTypeOK'
    BY <1>9 DEF EngCopy, EnvTypeOK
  <1>10. CASE EngPrefetchCancelled
    BY <1>10 DEF EngPrefetchCancelled, ReleaseGate, NoEngine, NoPass, NoConfig,
       NoSnap, NoWork, Config
  <1>11. CASE EngPrefetchFailed
    BY <1>11 DEF EngPrefetchFailed, NoPass, NoWork
  <1>12. ASSUME NEW d \in Dst, EngFinish(d) PROVE EngTypeOK'
    BY <1>12 DEF EngFinish
  <1>13. CASE EngSettle
    BY <1>13 DEF EngSettle, NoPass, NoWork
  <1>14. CASE EngEnd
    BY <1>14 DEF EngEnd, ReleaseGate, NoEngine, NoPass, NoConfig, NoSnap,
       NoWork, Config
  <1>15. CASE CancelRequest
    BY <1>15 DEF CancelRequest
  <1>16. ASSUME NEW d \in Dst, MovePath(d) PROVE EngTypeOK'
    BY <1>16 DEF MovePath, Config
  <1>17. CASE Crash
    BY <1>17 DEF Crash, NoEngine, NoPass, NoConfig, NoSnap, NoWork, Config
  <1>18. CASE UNCHANGED <<epc, owner, ecfg, todo, snap, ecyc, ready, full,
                         work, late, cur, out, chg, allv, blk, ubf, prog,
                         anyBlk, cancel>>
    BY <1>18
  <1>19. QED
    BY <1>1, <1>2, <1>3, <1>4, <1>5, <1>6, <1>7, <1>8, <1>9, <1>10, <1>11,
       <1>12, <1>13, <1>14, <1>15, <1>16, <1>17, <1>18 DEF Next, Watcher,
       Scheduler, Web, Engine, User, vars, Overflow, RecordBatch, RecordRead,
       RecordInsert, SchedTick, SchedGap, SchedAdvance, SchedRead, SchedClose,
       SchedTarget, WebRequest, WebClose, WebTarget, WebFlag, TogglePaused,
       ToggleEnabled, ResetOffset

\* Every step keeps the Boolean locals well typed.
LEMMA FlagStep == ASSUME TypeOK, [Next]_vars PROVE FlagTypeOK'
  <1> USE CycleConstants DEF TypeOK, FlagTypeOK, Cyc, Cyc0, Item
  <1>1. CASE SchedAdvance
    BY <1>1 DEF SchedAdvance
  <1>2. CASE SchedRead
    BY <1>2 DEF SchedRead
  <1>3. CASE SchedClose
    BY <1>3 DEF SchedClose, NoAdvance
  <1>4. CASE SchedTarget
    BY <1>4 DEF SchedTarget, NoAdvance
  <1>5. CASE WebRequest
    BY <1>5 DEF WebRequest
  <1>6. CASE WebFlag
    BY <1>6 DEF WebFlag, NoRequest
  <1>7. CASE EngList
    BY <1>7 DEF EngList
  <1>8. CASE EngCancelled
    BY <1>8 DEF EngCancelled, ReleaseGate, NoEngine, NoPass
  <1>9. ASSUME NEW c \in Cyc, EngBegin(c) PROVE FlagTypeOK'
    BY <1>9 DEF EngBegin, NeedsFull
  <1>10. CASE EngPrefetchCancelled
    BY <1>10 DEF EngPrefetchCancelled, ReleaseGate, NoEngine, NoPass
  <1>11. CASE EngPrefetchFailed
    BY <1>11 DEF EngPrefetchFailed, NoPass
  <1>12. ASSUME NEW d \in Dst, EngFinish(d) PROVE FlagTypeOK'
    BY <1>12 DEF EngFinish
  <1>13. CASE EngSettle
    BY <1>13 DEF EngSettle, NoPass
  <1>14. CASE EngEnd
    BY <1>14 DEF EngEnd, ReleaseGate, NoEngine, NoPass
  <1>15. CASE Crash
    BY <1>15 DEF Crash, NoEngine, NoPass, NoAdvance, NoRequest
  <1>16. CASE UNCHANGED <<sneeds, wfull, full, allv, blk, ubf, prog, anyBlk>>
    BY <1>16
  <1>17. QED
    BY <1>1, <1>2, <1>3, <1>4, <1>5, <1>6, <1>7, <1>8, <1>9, <1>10, <1>11,
       <1>12, <1>13, <1>14, <1>15, <1>16 DEF Next, Watcher, Scheduler, Web,
       Engine, User, vars, Change, Overflow, RecordBatch, RecordRead,
       RecordInsert, SchedTick, SchedGap, SchedGate, WebClose, WebTarget,
       ManualGate, EngSkip, EngSourceGone, EngCopy, CancelRequest,
       TogglePaused, ToggleEnabled, MovePath, ResetOffset, StartEngine

\* Every variable keeps the type its column, field or local has in the code.
THEOREM TypeCorrect == Spec => []TypeOK
  <1>1. TypeOK /\ [Next]_vars => TypeOK'
    BY DbStep, EnvStep, ThreadStep, EngStep, FlagStep DEF TypeOK
  <1>2. QED BY InitType, <1>1, PTL DEF Spec

-----------------------------------------------------------------------------
(* No change is lost: the parts of LogInv, one lemma each. *)

\* Whoever closes the cycle it read as open, that cycle is afterwards older
\* than the open one, also when another thread closed it first.
LEMMA CloseOrder ==
  ASSUME TypeOK, CycleInv, NEW k \in 1..last, CloseCycle(k)
  PROVE  /\ last' \in Cyc /\ last <= last' /\ k < last'
         /\ cstat'[last'] = "open"
         /\ \A c \in Cyc : /\ c < last' => cstat'[c] # "open"
                           /\ c > last' => cstat'[c] = "none"
  <1> USE CycleConstants DEF TypeOK, DbTypeOK, CycleInv, Cyc
  <1>1. CASE cstat[k] = "open"
    <2>1. k = last
      BY <1>1
    <2>2. /\ last' = last + 1 /\ last < MaxCycle
          /\ cstat' = [cstat EXCEPT ![k] = "closed", ![last + 1] = "open"]
      BY <1>1 DEF CloseCycle
    <2>3. QED BY <2>1, <2>2
  <1>2. CASE cstat[k] # "open"
    BY <1>2 DEF CloseCycle
  <1>3. QED BY <1>1, <1>2

\* Every step keeps the cycles in order.
LEMMA CycleStep == ASSUME TypeOK, CycleInv, [Next]_vars PROVE CycleInv'
  <1> USE CycleConstants DEF CycleInv, Cyc
  <1>1. CASE SchedTick
    BY <1>1 DEF SchedTick, TypeOK, DbTypeOK
  <1>2. CASE SchedGap
    BY <1>2 DEF SchedGap
  <1>3. CASE SchedAdvance
    BY <1>3 DEF SchedAdvance
  <1>4. CASE SchedRead
    BY <1>4 DEF SchedRead, TypeOK, DbTypeOK
  <1>5. CASE SchedClose
    BY <1>5, CloseOrder DEF SchedClose, TypeOK, DbTypeOK, NoAdvance, Cyc0
  <1>6. CASE SchedTarget
    BY <1>6 DEF SchedTarget, TypeOK, DbTypeOK, SetTargets, NoAdvance
  <1>7. CASE SchedGate
    BY <1>7 DEF SchedGate, StartEngine
  <1>8. CASE WebRequest
    BY <1>8 DEF WebRequest, TypeOK, DbTypeOK
  <1>9. CASE WebClose
    BY <1>9, CloseOrder DEF WebClose, TypeOK, DbTypeOK, Cyc0
  <1>10. CASE WebTarget
    BY <1>10 DEF WebTarget, TypeOK, DbTypeOK, SetTargets
  <1>11. CASE WebFlag
    BY <1>11 DEF WebFlag, NoRequest
  <1>12. CASE ManualGate
    BY <1>12 DEF ManualGate, StartEngine
  <1>13. CASE EngList
    BY <1>13 DEF EngList, TypeOK, DbTypeOK, Listed
  <1>14. CASE EngCancelled
    BY <1>14 DEF EngCancelled, ReleaseGate, NoEngine, NoPass
  <1>15. ASSUME NEW c \in Cyc, EngSkip(c) PROVE CycleInv'
    BY <1>15 DEF EngSkip, TypeOK, DbTypeOK, Oldest
  <1>16. ASSUME NEW c \in Cyc, EngSourceGone(c) PROVE CycleInv'
    BY <1>16 DEF EngSourceGone, TypeOK, DbTypeOK, Oldest
  <1>17. ASSUME NEW c \in Cyc, EngBegin(c) PROVE CycleInv'
    BY <1>17 DEF EngBegin, TypeOK, DbTypeOK, EngTypeOK, Oldest
  <1>18. ASSUME NEW d \in Dst, EngCopy(d) PROVE CycleInv'
    BY <1>18 DEF EngCopy
  <1>19. CASE EngPrefetchCancelled
    BY <1>19 DEF EngPrefetchCancelled, ReleaseGate, NoEngine, NoPass
  <1>20. CASE EngPrefetchFailed
    BY <1>20 DEF EngPrefetchFailed, NoPass
  <1>21. ASSUME NEW d \in Dst, EngFinish(d) PROVE CycleInv'
    <2> USE DEF TypeOK, DbTypeOK, Cyc0
    <2>1. /\ UNCHANGED <<last, cstat, spc, scyc, wpc, wcyc, ecyc, todo>>
          /\ epc = "finish" /\ epc' \in {"copy", "settle"}
      BY <1>21 DEF EngFinish
    <2>2. ecyc < last /\ ecyc \in Nat
      BY <2>1
    <2>3. \A x \in Dst : target'[x] < last /\ verified'[x] < last
      <3>1. CASE FinishVerified(d)
        BY <2>2, <3>1 DEF FinishVerified
      <3>2. CASE FinishCancelled(d)
        BY <2>2, <3>2 DEF FinishCancelled
      <3>3. CASE FinishFailed(d)
        BY <3>3 DEF FinishFailed
      <3>4. QED BY <1>21, <3>1, <3>2, <3>3 DEF EngFinish
    <2>4. QED BY <2>1, <2>3
  <1>22. CASE EngSettle
    <2>1. Settled(allv, blk, ubf) \in {"verified", "closed", "failed"}
      BY DEF Settled
    <2>2. /\ ecyc \in 1..(last - 1) /\ UNCHANGED <<last, target, verified>>
          /\ UNCHANGED <<spc, scyc, wpc, wcyc>> /\ epc' = "pick" /\ todo' \subseteq todo
          /\ cstat' = [cstat EXCEPT ![ecyc] = Settled(allv, blk, ubf)]
      BY <1>22 DEF EngSettle
    <2>3. QED BY <2>1, <2>2 DEF TypeOK, DbTypeOK
  <1>23. CASE EngEnd
    BY <1>23 DEF EngEnd, ReleaseGate, NoEngine, NoPass
  <1>24. ASSUME NEW d \in Dst, ResetOffset(d) PROVE CycleInv'
    BY <1>24 DEF ResetOffset, TypeOK, DbTypeOK
  <1>25. CASE Crash
    BY <1>25 DEF Crash, NoAdvance, NoRequest, NoEngine, NoPass
  <1>26. CASE UNCHANGED <<last, cstat, target, verified, spc, scyc, wpc, wcyc,
                         epc, ecyc, todo>>
    BY <1>26
  <1>27. QED
    BY <1>1, <1>2, <1>3, <1>4, <1>5, <1>6, <1>7, <1>8, <1>9, <1>10, <1>11,
       <1>12, <1>13, <1>14, <1>15, <1>16, <1>17, <1>18, <1>19, <1>20, <1>21,
       <1>22, <1>23, <1>24, <1>25, <1>26 DEF Next, Watcher, Scheduler, Web,
       Engine, User, vars, Change, Overflow, RecordBatch, RecordRead,
       RecordInsert, CancelRequest, TogglePaused, ToggleEnabled, MovePath

\* Every step keeps an untouched destination in all configurations in use.
LEMMA ConfigStep == ASSUME TypeOK, ConfigInv, [Next]_vars PROVE ConfigInv'
  <1> USE DEF ConfigInv
  <1>1. CASE SchedTick
    BY <1>1 DEF SchedTick, LoadConfig
  <1>2. CASE SchedGap
    BY <1>2 DEF SchedGap
  <1>3. CASE SchedAdvance
    BY <1>3 DEF SchedAdvance
  <1>4. CASE SchedRead
    BY <1>4 DEF SchedRead
  <1>5. CASE SchedClose
    BY <1>5 DEF SchedClose
  <1>6. CASE SchedTarget
    BY <1>6 DEF SchedTarget
  <1>7. CASE SchedGate
    BY <1>7 DEF SchedGate, StartEngine, NoConfig
  <1>8. CASE WebRequest
    BY <1>8 DEF WebRequest, LoadConfig
  <1>9. CASE WebClose
    BY <1>9 DEF WebClose
  <1>10. CASE WebTarget
    BY <1>10 DEF WebTarget
  <1>11. CASE WebFlag
    BY <1>11 DEF WebFlag, NoRequest, NoConfig
  <1>12. CASE ManualGate
    BY <1>12 DEF ManualGate, StartEngine
  <1>13. CASE EngList
    BY <1>13 DEF EngList
  <1>14. CASE EngCancelled
    BY <1>14 DEF EngCancelled, ReleaseGate, NoEngine, NoPass, NoConfig
  <1>15. ASSUME NEW c \in Cyc, EngBegin(c) PROVE ConfigInv'
    BY <1>15 DEF EngBegin
  <1>16. ASSUME NEW d \in Dst, EngCopy(d) PROVE ConfigInv'
    BY <1>16 DEF EngCopy
  <1>17. CASE EngPrefetchCancelled
    BY <1>17 DEF EngPrefetchCancelled, ReleaseGate, NoEngine, NoPass, NoConfig
  <1>18. CASE EngPrefetchFailed
    BY <1>18 DEF EngPrefetchFailed
  <1>19. ASSUME NEW d \in Dst, EngFinish(d) PROVE ConfigInv'
    BY <1>19 DEF EngFinish
  <1>20. CASE EngSettle
    BY <1>20 DEF EngSettle
  <1>21. CASE EngEnd
    BY <1>21 DEF EngEnd, ReleaseGate, NoEngine, NoPass, NoConfig
  <1>22. ASSUME NEW d \in Dst, TogglePaused(d) PROVE ConfigInv'
    BY <1>22 DEF TogglePaused
  <1>23. ASSUME NEW d \in Dst, ToggleEnabled(d) PROVE ConfigInv'
    BY <1>23 DEF ToggleEnabled
  <1>24. ASSUME NEW d \in Dst, MovePath(d) PROVE ConfigInv'
    BY <1>24 DEF MovePath, TypeOK, ThreadTypeOK, EngTypeOK, Config
  <1>25. ASSUME NEW d \in Dst, ResetOffset(d) PROVE ConfigInv'
    BY <1>25 DEF ResetOffset
  <1>26. CASE Crash
    BY <1>26 DEF Crash, NoRequest, NoEngine, NoConfig
  <1>27. CASE UNCHANGED <<enabled, resetDue, edited, spc, scfg, wpc, wcfg, mq,
                         epc, ecfg>>
    BY <1>27
  <1>28. QED
    BY <1>1, <1>2, <1>3, <1>4, <1>5, <1>6, <1>7, <1>8, <1>9, <1>10, <1>11,
       <1>12, <1>13, <1>14, <1>15, <1>16, <1>17, <1>18, <1>19, <1>20, <1>21,
       <1>22, <1>23, <1>24, <1>25, <1>26, <1>27 DEF Next, Watcher, Scheduler,
       Web, Engine, User, vars, Change, Overflow, RecordBatch, RecordRead,
       RecordInsert, EngSkip, EngSourceGone, CancelRequest

\* A step takes at most one unit from the budget of the environment.
LEMMA UsedStep == ASSUME [Next]_vars PROVE UNCHANGED used \/ \E k \in Kinds : Spend(k)
  <1> USE DEF Kinds
  <1>1. ASSUME NEW p \in Path, Change(p) PROVE \E k \in Kinds : Spend(k)
    BY <1>1 DEF Change
  <1>2. CASE Overflow
    BY <1>2 DEF Overflow
  <1>3. CASE WebRequest
    BY <1>3 DEF WebRequest
  <1>4. ASSUME NEW c \in Cyc, EngSourceGone(c) PROVE \E k \in Kinds : Spend(k)
    BY <1>4 DEF EngSourceGone
  <1>5. ASSUME NEW c \in Cyc, EngBegin(c) PROVE UNCHANGED used \/ \E k \in Kinds : Spend(k)
    BY <1>5 DEF EngBegin, SpendIf
  <1>6. ASSUME NEW d \in Dst, EngCopy(d) PROVE UNCHANGED used \/ \E k \in Kinds : Spend(k)
    BY <1>6 DEF EngCopy, SpendIf
  <1>7. CASE EngPrefetchFailed
    BY <1>7 DEF EngPrefetchFailed
  <1>8. CASE CancelRequest
    BY <1>8 DEF CancelRequest
  <1>9. ASSUME NEW d \in Dst, TogglePaused(d) PROVE \E k \in Kinds : Spend(k)
    BY <1>9 DEF TogglePaused
  <1>10. ASSUME NEW d \in Dst, ToggleEnabled(d) PROVE \E k \in Kinds : Spend(k)
    BY <1>10 DEF ToggleEnabled
  <1>11. ASSUME NEW d \in Dst, MovePath(d) PROVE \E k \in Kinds : Spend(k)
    BY <1>11 DEF MovePath
  <1>12. CASE Crash
    BY <1>12 DEF Crash
  <1>13. CASE UNCHANGED used
    BY <1>13
  <1>14. QED
    BY <1>1, <1>2, <1>3, <1>4, <1>5, <1>6, <1>7, <1>8, <1>9, <1>10, <1>11,
       <1>12, <1>13 DEF Next, Watcher, Scheduler, Web, Engine, User, vars,
       RecordBatch, RecordRead, RecordInsert, SchedTick, SchedGap, SchedAdvance,
       SchedRead, SchedClose, SchedTarget, SchedGate, WebClose, WebTarget, WebFlag,
       ManualGate, EngList, EngSkip, EngCancelled, EngPrefetchCancelled, EngFinish,
       EngSettle, EngEnd, ResetOffset

\* No box holds both manual requests and enabling edits, so no run does.
LEMMA Exclusive ==
  ASSUME TypeOK, NoGapRace, GapInv, [Next]_vars
  PROVE  /\ used'["request"] = 0 \/ used'["switch"] = 0
         /\ used'["request"] = 0 => used["request"] = 0
         /\ used'["switch"] = 0 => used["switch"] = 0
  <1>1. CASE UNCHANGED used
    BY <1>1 DEF GapInv
  <1>2. ASSUME NEW k \in Kinds, Spend(k)
        PROVE  /\ used'["request"] = 0 \/ used'["switch"] = 0
               /\ used'["request"] = 0 => used["request"] = 0
               /\ used'["switch"] = 0 => used["switch"] = 0
    <2>1. \A j \in Kinds : used[j] \in Nat /\ used'[j] \in Nat /\ used[j] <= used'[j]
      BY <1>2 DEF Spend, TypeOK, EnvTypeOK
    <2>2. PICK b \in Bound : \A j \in Kinds : used'[j] <= b[j]
      BY <1>2 DEF Spend, Within
    <2>3. "request" \in Kinds /\ "switch" \in Kinds
      BY DEF Kinds
    <2>4. b["request"] = 0 \/ b["switch"] = 0
      BY DEF NoGapRace
    <2>5. QED BY <2>1, <2>2, <2>3, <2>4
  <1>3. QED BY <1>1, <1>2, UsedStep

\* Every step keeps the cycle of a gap open until the rescan is in it.
LEMMA GapStep == ASSUME TypeOK, NoGapRace, GapInv, [Next]_vars PROVE GapInv'
  <1> USE Exclusive DEF GapInv
  <1>1. CASE SchedTick
    BY <1>1 DEF SchedTick, SignatureChanged
  <1>2. CASE SchedGap
    BY <1>2 DEF SchedGap
  <1>3. CASE SchedAdvance
    BY <1>3 DEF SchedAdvance
  <1>4. CASE SchedRead
    BY <1>4 DEF SchedRead
  <1>5. CASE SchedClose
    BY <1>5 DEF SchedClose, NoAdvance
  <1>6. CASE SchedTarget
    BY <1>6 DEF SchedTarget, NoAdvance
  <1>7. CASE SchedGate
    BY <1>7 DEF SchedGate, StartEngine
  <1>8. CASE WebRequest
    <2>1. used'["request"] # 0
      BY <1>8 DEF WebRequest, Spend, TypeOK, EnvTypeOK, Kinds
    <2>2. QED BY <1>8, <2>1 DEF WebRequest
  <1>9. CASE WebClose
    BY <1>9 DEF WebClose
  <1>10. CASE WebTarget
    BY <1>10 DEF WebTarget
  <1>11. CASE WebFlag
    BY <1>11 DEF WebFlag, NoRequest
  <1>12. CASE ManualGate
    BY <1>12 DEF ManualGate, StartEngine
  <1>13. CASE EngCancelled
    BY <1>13 DEF EngCancelled, ReleaseGate, NoEngine
  <1>14. CASE EngPrefetchCancelled
    BY <1>14 DEF EngPrefetchCancelled, ReleaseGate, NoEngine
  <1>15. CASE EngEnd
    BY <1>15 DEF EngEnd, ReleaseGate, NoEngine
  <1>16. ASSUME NEW d \in Dst, ToggleEnabled(d) PROVE GapInv'
    <2>1. used'["switch"] # 0
      BY <1>16 DEF ToggleEnabled, Spend, TypeOK, EnvTypeOK, Kinds
    <2>2. QED BY <1>16, <2>1 DEF ToggleEnabled
  <1>17. CASE Crash
    BY <1>17 DEF Crash, NoAdvance, NoRequest, NoEngine
  <1>18. CASE UNCHANGED <<owner, spc, scyc, last, wpc, sig, enabled>>
    BY <1>18
  <1>19. QED
    BY <1>1, <1>2, <1>3, <1>4, <1>5, <1>6, <1>7, <1>8, <1>9, <1>10, <1>11,
       <1>12, <1>13, <1>14, <1>15, <1>16, <1>17, <1>18 DEF Next, Watcher,
       Scheduler, Web, Engine, User, vars, Change, Overflow, RecordBatch,
       RecordRead, RecordInsert, EngList, EngSkip, EngSourceGone, EngBegin,
       EngCopy, EngPrefetchFailed, EngFinish, EngSettle, CancelRequest,
       TogglePaused, MovePath, ResetOffset

\* A later cycle's announcement also counts from an earlier one.
LEMMA BeyondLower ==
  ASSUME TypeOK, NEW p \in Path, NEW a \in Cyc0, NEW b \in Cyc0, b <= a, Beyond(p, a)
  PROVE  Beyond(p, b)
  BY CycleConstants DEF Beyond, TypeOK, DbTypeOK, Cyc, Cyc0

\* On a fanotify host a batch is recorded in one transaction.
LEMMA NoRecordPending ==
  ASSUME Fanotify, rcyc = 0, [Next]_vars
  PROVE  rcyc' = 0
  BY DEF Next, Watcher, Scheduler, Web, Engine, User, vars, Overflow, RecordBatch,
     RecordRead, RecordInsert, SchedTick, SchedGap, SchedAdvance, SchedRead, SchedClose,
     SchedTarget, SchedGate, WebRequest, WebClose, WebTarget, WebFlag, ManualGate,
     EngList, EngCancelled, EngSkip, EngSourceGone, EngBegin, EngCopy,
     EngPrefetchCancelled, EngPrefetchFailed, EngFinish, EngSettle, EngEnd,
     CancelRequest, Crash, Change, TogglePaused, ToggleEnabled, MovePath, ResetOffset

\* Only pruning takes an announcement away: an overflow and a watcher restart
\* leave a rescan behind, and what a crash drops is covered by the notice.
LEMMA BeyondKept ==
  ASSUME Fanotify, TypeOK, CycleInv, GapInv, rcyc = 0, [Next]_vars, ~EngEnd,
         NEW p \in Path, NEW k \in Cyc0, k < last, Beyond(p, k)
  PROVE  Beyond(p, k)'
  <1>1. rcyc' = 0
    BY NoRecordPending
  <1>2. /\ Unrecorded = inflight \union (IF spc = "gap" THEN {Rescan} ELSE {})
        /\ Unrecorded' = inflight' \union (IF spc' = "gap" THEN {Rescan} ELSE {})
    BY <1>1 DEF Unrecorded
  <1> USE <1>1, <1>2, CycleConstants DEF Beyond
  <1>3. ASSUME NEW x \in Path, Change(x) PROVE Beyond(p, k)'
    BY <1>3 DEF Change
  <1>4. CASE Overflow
    BY <1>4 DEF Overflow
  <1>5. CASE RecordBatch
    <2>1. PICK S \in SUBSET inflight : /\ log' = log \union Inserted(S, last)
                                      /\ inflight' = inflight \ S
      BY <1>5 DEF RecordBatch
    <2>2. CASE {p, Rescan} \intersect S # {}
      <3>1. PICK x \in {p, Rescan} : x \in S
        BY <2>2
      <3>2. [cycle |-> last, path |-> x] \in log'
        BY <2>1, <3>1 DEF Inserted
      <3>3. QED BY <3>2
    <2>3. CASE {p, Rescan} \intersect S = {}
      BY <2>1, <2>3, <1>5 DEF RecordBatch
    <2>4. QED BY <2>2, <2>3
  <1>6. CASE SchedTick
    BY <1>6 DEF SchedTick
  <1>7. CASE SchedGap
    <2>1. [cycle |-> last, path |-> Rescan] \in log'
      BY <1>7 DEF SchedGap, GapInv, Inserted
    <2>2. QED BY <2>1
  <1>8. ASSUME NEW d \in Dst, EngFinish(d) PROVE Beyond(p, k)'
    <2>1. log \subseteq log' /\ UNCHANGED <<missed, inflight, spc>>
      BY <1>8 DEF EngFinish, FinishVerified, FinishCancelled, FinishFailed
    <2>2. QED BY <2>1
  <1>9. CASE Crash
    BY <1>9 DEF Crash
  <1>10. CASE UNCHANGED <<log, missed, inflight>> /\ (spc = "gap" => spc' = "gap")
    BY <1>10
  <1>11. QED
    BY <1>3, <1>4, <1>5, <1>6, <1>7, <1>8, <1>9, <1>10 DEF Next, Watcher, Scheduler,
       Web, Engine, User, vars, RecordRead, RecordInsert, SchedAdvance, SchedRead,
       SchedClose, SchedTarget, SchedGate, WebRequest, WebClose, WebTarget, WebFlag,
       ManualGate, EngList, EngCancelled, EngSkip, EngSourceGone, EngBegin, EngCopy,
       EngPrefetchCancelled, EngPrefetchFailed, EngSettle, CancelRequest,
       TogglePaused, ToggleEnabled, MovePath, ResetOffset, ReleaseGate, GapInv

\* A path gets stale at a destination only by a change that the kernel has
\* just queued, or by a move of the destination.
LEMMA DirtyKept ==
  ASSUME TypeOK, [Next]_vars, NEW d \in Dst, ~MovePath(d)
  PROVE  \A p \in dirty'[d] : p \in dirty[d] \/ p \in inflight'
  <1> USE DEF TypeOK, EnvTypeOK
  <1>1. ASSUME NEW x \in Path, Change(x)
        PROVE  \A p \in dirty'[d] : p \in dirty[d] \/ p \in inflight'
    BY <1>1 DEF Change
  <1>2. ASSUME NEW x \in Dst, EngCopy(x) PROVE dirty'[d] \subseteq dirty[d]
    BY <1>2 DEF EngCopy
  <1>3. ASSUME NEW x \in Dst, MovePath(x) PROVE dirty'[d] \subseteq dirty[d]
    BY <1>3 DEF MovePath
  <1>4. CASE UNCHANGED dirty
    BY <1>4
  <1>5. QED
    BY <1>1, <1>2, <1>3, <1>4 DEF Next, Watcher, Scheduler, Web, Engine, User,
       vars, Overflow, RecordBatch, RecordRead, RecordInsert, SchedTick, SchedGap, SchedAdvance,
       SchedRead, SchedClose, SchedTarget, SchedGate, WebRequest, WebClose, WebTarget,
       WebFlag, ManualGate, EngList, EngCancelled, EngSkip, EngSourceGone, EngBegin,
       EngPrefetchCancelled, EngPrefetchFailed, EngFinish, EngSettle, EngEnd,
       CancelRequest, TogglePaused, ToggleEnabled, ResetOffset, Crash

\* What was switched or moved once stays so marked.
LEMMA EditedKept ==
  ASSUME [Next]_vars
  PROVE  edited \subseteq edited' /\ \A d \in Dst : MovePath(d) => d \in edited'
  <1>1. ASSUME NEW x \in Dst, MovePath(x) \/ ToggleEnabled(x)
        PROVE  edited \subseteq edited' /\ \A d \in Dst : MovePath(d) => d \in edited'
    BY <1>1 DEF MovePath, ToggleEnabled
  <1>2. CASE \A x \in Dst : ~MovePath(x) /\ ~ToggleEnabled(x)
    BY <1>2 DEF Next, Watcher, Scheduler, Web, Engine, User, vars, Change, Overflow,
       RecordBatch, RecordRead, RecordInsert, SchedTick, SchedGap, SchedAdvance, SchedRead,
       SchedClose, SchedTarget, SchedGate, WebRequest, WebClose, WebTarget, WebFlag,
       ManualGate, EngList, EngCancelled, EngSkip, EngSourceGone, EngBegin, EngCopy,
       EngPrefetchCancelled, EngPrefetchFailed, EngFinish, EngSettle, EngEnd,
       CancelRequest, TogglePaused, ResetOffset, Crash
  <1>3. QED BY <1>1, <1>2

-----------------------------------------------------------------------------
(* The promise to one destination d, in three parts: what the log          *)
(* announces to it, what a pass has still to do or to record for it, and   *)
(* what changed since the pass read the source.                            *)

Safe(d) == verified[d] # 0 => \A p \in dirty[d] : Announced(d, p)

Covered(d) ==
    /\ epc \in {"copy", "finish"} /\ d \in ready =>
          \A p \in dirty[d] : p \in work[d] \/ Beyond(p, ecyc)
    /\ epc = "finish" /\ out \in {"ok", "changing"} /\ d \in cur =>
          \A p \in dirty[d] : p \in chg \/ Beyond(p, ecyc)

LateBeyond == epc \in {"copy", "finish"} => \A p \in late : Beyond(p, ecyc)

\* no row of d is to be reset, and the engine works on its present root
Steady(d) == d \notin resetDue /\ d \notin ecfg.old /\ (epc # "off" => d \in ecfg.en)

LogBase == TypeOK /\ CycleInv /\ GapInv /\ rcyc = 0

\* A pass that goes on keeps its cycle and its plan.
LEMMA PassKept ==
  ASSUME [Next]_vars, epc' \in {"copy", "finish"}, \A c \in Cyc : ~EngBegin(c)
  PROVE  /\ epc \in {"copy", "finish"} /\ ~EngEnd
         /\ ecyc' = ecyc /\ work' = work /\ ready' \subseteq ready
         /\ \A p \in late' : p \in late \/ p \in inflight'
  BY DEF Next, Watcher, Scheduler, Web, Engine, User, vars, Overflow, RecordBatch,
     RecordRead, RecordInsert, SchedTick, SchedGap, SchedAdvance, SchedRead, SchedClose,
     SchedTarget, SchedGate, StartEngine, WebRequest, WebClose, WebTarget, WebFlag,
     ManualGate, EngList, EngCancelled, EngSkip, EngSourceGone, EngCopy,
     EngPrefetchCancelled, EngPrefetchFailed, EngFinish, EngSettle, EngEnd, NoEngine,
     ReleaseGate, CancelRequest, Crash, Change, TogglePaused, ToggleEnabled, MovePath,
     ResetOffset

\* A copy is the only way into "finish", and nothing else touches its result.
LEMMA FinishEntered ==
  ASSUME [Next]_vars, epc' = "finish", NEW d \in cur'
  PROVE  EngCopy(d) \/ (epc = "finish" /\ UNCHANGED <<out, cur, chg>>)
  <1>1. ASSUME NEW x \in Dst, EngCopy(x) PROVE EngCopy(d)
    BY <1>1 DEF EngCopy
  <1>2. QED
    BY <1>1 DEF Next, Watcher, Scheduler, Web, Engine, User, vars, Overflow, RecordBatch,
     RecordRead, RecordInsert, SchedTick, SchedGap, SchedAdvance, SchedRead, SchedClose,
     SchedTarget, SchedGate, StartEngine, WebRequest, WebClose, WebTarget, WebFlag,
     ManualGate, EngList, EngCancelled, EngSkip, EngSourceGone, EngBegin,
     EngPrefetchCancelled, EngPrefetchFailed, EngFinish, EngSettle, EngEnd, NoEngine,
     ReleaseGate, CancelRequest, Crash, Change, TogglePaused, ToggleEnabled, MovePath,
     ResetOffset

\* A pass starts with a plan that covers everything stale at a ready
\* destination that no later cycle announces.
LEMMA PlanCovers ==
  ASSUME LogBase, NEW c \in Cyc, EngBegin(c), NEW d \in Dst, d \in ready', Safe(d),
         NEW p \in dirty[d]
  PROVE  p \in work'[d] \/ Beyond(p, c)
  <1>1. p \in Path
    BY DEF LogBase, TypeOK, EnvTypeOK
  <1>2. /\ full' = NeedsFull(c, ready')
        /\ work'[d] = IF ~full' THEN {e.path : e \in Backlog(d, c)} ELSE Path
    BY <1>1 DEF EngBegin
  <1>3. CASE NeedsFull(c, ready')
    BY <1>1, <1>2, <1>3
  <1>4. CASE ~NeedsFull(c, ready')
    <2>1. /\ verified[d] # 0
          /\ \A e \in Backlog(d, c) : e.path # Rescan
      BY <1>4 DEF NeedsFull
    <2>2. Beyond(p, verified[d])
      BY <1>1, <2>1 DEF Safe, Announced
    <2>3. CASE \E e \in log : verified[d] < e.cycle /\ e.path \in {p, Rescan}
      <3>1. PICK e \in log : verified[d] < e.cycle /\ e.path \in {p, Rescan}
        BY <2>3
      <3>2. e.cycle \in Nat
        BY CycleConstants DEF LogBase, TypeOK, DbTypeOK, Cyc
      <3>3. CASE e.cycle <= c
        <4>1. e \in Backlog(d, c)
          BY <3>1, <3>3 DEF Backlog
        <4>2. QED BY <1>2, <1>4, <2>1, <3>1, <4>1
      <3>4. CASE c < e.cycle
        BY <3>1, <3>4 DEF Beyond
      <3>5. QED BY <3>2, <3>3, <3>4, CycleConstants DEF Cyc
    <2>4. QED BY <2>2, <2>3 DEF Beyond
  <1>5. QED BY <1>3, <1>4

\* What a copy leaves stale at its destination is either deferred as changing
\* or was already announced for a later cycle.
LEMMA CopyCovers ==
  ASSUME LogBase, LateBeyond, NEW d \in Dst, EngCopy(d), Covered(d), d \notin ecfg.old,
         out' \in {"ok", "changing"}, NEW p \in dirty'[d]
  PROVE  p \in chg' \/ Beyond(p, ecyc)
  <1>1. /\ dirty \in [Dst -> SUBSET Path]
        /\ epc = "copy" /\ d \in ready
    BY DEF LogBase, TypeOK, EnvTypeOK, EngCopy
  <1>2. PICK K \in SUBSET late : dirty'[d] = dirty[d] \ (work[d] \ (chg' \union K))
    <2>1. CASE out' = "ok"
      BY <1>1, <2>1 DEF EngCopy, Reach
    <2>2. CASE out' = "changing"
      BY <1>1, <2>2 DEF EngCopy, Reach
    <2>3. QED BY <2>1, <2>2
  <1>3. /\ \A x \in late : Beyond(x, ecyc)
        /\ \A x \in dirty[d] : x \in work[d] \/ Beyond(x, ecyc)
    BY <1>1 DEF LateBeyond, Covered
  <1>4. QED BY <1>2, <1>3

\* While a pass goes on, what announces a path beyond its cycle goes on too.
LEMMA PassBeyondKept ==
  ASSUME Fanotify, LogBase, [Next]_vars, epc' \in {"copy", "finish"}, \A c \in Cyc : ~EngBegin(c),
         NEW p \in Path, Beyond(p, ecyc)
  PROVE  Beyond(p, ecyc)'
  <1>1. epc \in {"copy", "finish"} /\ ~EngEnd /\ ecyc' = ecyc
    BY PassKept
  <1>2. ecyc < last
    BY <1>1, CycleConstants DEF LogBase, CycleInv, TypeOK, DbTypeOK, EngTypeOK, Cyc, Cyc0
  <1>3. PICK k \in Cyc0 : k = ecyc
    BY DEF LogBase, TypeOK, EngTypeOK
  <1>4. Beyond(p, k)'
    BY <1>1, <1>2, <1>3, BeyondKept DEF LogBase
  <1>5. QED BY <1>1, <1>3, <1>4

\* What the kernel has queued is beyond every cycle.
LEMMA QueuedIsBeyond ==
  ASSUME NEW p \in inflight', NEW k PROVE Beyond(p, k)'
  BY DEF Beyond, Unrecorded

\* Every step keeps what changed during a pass announced beyond its cycle.
LEMMA LateStep ==
  ASSUME Fanotify, LogBase, LateBeyond, [Next]_vars
  PROVE  LateBeyond'
  <1>t. late \subseteq Path /\ late' \subseteq Path
    BY EngStep DEF LogBase, TypeOK, EngTypeOK
  <1>1. CASE epc' \notin {"copy", "finish"}
    BY <1>1 DEF LateBeyond
  <1>2. ASSUME NEW c \in Cyc, EngBegin(c) PROVE LateBeyond'
    BY <1>2 DEF EngBegin, LateBeyond
  <1>3. CASE epc' \in {"copy", "finish"} /\ \A c \in Cyc : ~EngBegin(c)
    <2>1. epc \in {"copy", "finish"} /\ \A p \in late' : p \in late \/ p \in inflight'
      BY <1>3, PassKept
    <2>2. \A p \in late' : Beyond(p, ecyc)'
      BY <1>t, <1>3, <2>1, PassBeyondKept, QueuedIsBeyond DEF LateBeyond
    <2>3. QED BY <2>2 DEF LateBeyond
  <1>4. QED BY <1>1, <1>2, <1>3

\* Every step keeps the promise of the pass in progress to a steady destination.
LEMMA CoverStep ==
  ASSUME Fanotify, LogBase, LateBeyond, [Next]_vars,
         NEW d \in Dst, Safe(d), Covered(d), Steady(d), ~MovePath(d)
  PROVE  Covered(d)'
  <1>t. dirty \in [Dst -> SUBSET Path] /\ dirty' \in [Dst -> SUBSET Path]
    BY EnvStep DEF LogBase, TypeOK, EnvTypeOK
  <1>1. CASE epc' \notin {"copy", "finish"}
    BY <1>1 DEF Covered
  <1>2. ASSUME NEW c \in Cyc, EngBegin(c) PROVE Covered(d)'
    <2>1. /\ cur' = {} /\ ecyc' = c
          /\ UNCHANGED <<dirty, log, missed, inflight, rcyc, ritem, spc>>
      BY <1>2 DEF EngBegin
    <2>2. \A p : Beyond(p, c) => Beyond(p, c)'
      BY <2>1 DEF Beyond, Unrecorded
    <2>3. d \in ready' => \A p \in dirty'[d] : p \in work'[d] \/ Beyond(p, c)'
      BY <1>2, <2>1, <2>2, PlanCovers
    <2>4. QED BY <2>1, <2>3 DEF Covered
  <1>3. CASE epc' \in {"copy", "finish"} /\ \A c \in Cyc : ~EngBegin(c)
    <2>1. /\ epc \in {"copy", "finish"} /\ ~EngEnd
          /\ ecyc' = ecyc /\ work' = work /\ ready' \subseteq ready
      BY <1>3, PassKept
    <2>2. \A p \in dirty'[d] : p \in Path /\ (p \in dirty[d] \/ Beyond(p, ecyc)')
      BY <1>t, DirtyKept, QueuedIsBeyond DEF LogBase
    <2>3. ASSUME d \in ready', NEW p \in dirty'[d]
          PROVE  p \in work'[d] \/ Beyond(p, ecyc)'
      BY <1>3, <2>1, <2>2, <2>3, PassBeyondKept DEF Covered
    <2>4. ASSUME epc' = "finish", out' \in {"ok", "changing"}, d \in cur', NEW p \in dirty'[d]
          PROVE  p \in chg' \/ Beyond(p, ecyc)'
      <3>1. CASE EngCopy(d)
        BY <1>3, <2>2, <2>4, <3>1, CopyCovers, PassBeyondKept DEF Steady
      <3>2. CASE epc = "finish" /\ UNCHANGED <<out, cur, chg>>
        BY <1>3, <2>2, <2>4, <3>2, PassBeyondKept DEF Covered
      <3>3. EngCopy(d) \/ (epc = "finish" /\ UNCHANGED <<out, cur, chg>>)
        BY <2>4, FinishEntered
      <3>4. QED BY <3>1, <3>2, <3>3
    <2>5. QED BY <2>3, <2>4 DEF Covered
  <1>4. QED BY <1>1, <1>2, <1>3

\* An offset moves only when a finished destination is written back, when a
\* pass verifies one, or when the row of a moved one is reset.
LEMMA OffsetMoves ==
  ASSUME TypeOK, [Next]_vars, NEW d \in Dst, verified'[d] # verified[d]
  PROVE  \/ \E c \in Cyc : EngBegin(c) /\ verified'[d] = c /\ c <= verified[d]
         \/ /\ EngFinish(d) /\ out \in {"ok", "changing"} /\ FinishVerified(d)
         \/ ResetOffset(d)
  <1>1. ASSUME NEW c \in Cyc, EngBegin(c) PROVE verified'[d] = c /\ c <= verified[d]
    BY <1>1 DEF EngBegin
  <1>2. ASSUME NEW x \in Dst, EngFinish(x)
        PROVE  x = d /\ out \in {"ok", "changing"} /\ FinishVerified(d)
    BY <1>2 DEF EngFinish, FinishVerified, FinishCancelled, FinishFailed, TypeOK, DbTypeOK
  <1>3. ASSUME NEW x \in Dst, ResetOffset(x) PROVE x = d
    BY <1>3 DEF ResetOffset, TypeOK, DbTypeOK
  <1>4. QED
    BY <1>1, <1>2, <1>3 DEF Next, Watcher, Scheduler, Web, Engine, User, vars, Overflow,
       RecordBatch, RecordRead, RecordInsert, SchedTick, SchedGap, SchedAdvance, SchedRead,
       SchedClose, SchedTarget, SchedGate, WebRequest, WebClose, WebTarget, WebFlag,
       ManualGate, EngList, EngCancelled, EngSkip, EngSourceGone, EngCopy,
       EngPrefetchCancelled, EngPrefetchFailed, EngSettle, EngEnd, CancelRequest, Crash,
       Change, TogglePaused, ToggleEnabled, MovePath

\* Every step keeps the promise of the log to a steady destination.
LEMMA SafeStep ==
  ASSUME Fanotify, LogBase, [Next]_vars,
         NEW d \in Dst, Safe(d), Covered(d), Steady(d), ~MovePath(d)
  PROVE  Safe(d)'
  <1> SUFFICES ASSUME verified'[d] # 0, NEW p \in dirty'[d]
               PROVE  Beyond(p, verified[d])'
    BY DEF Safe, Announced
  <1> USE DEF LogBase
  <1>1. rcyc' = 0 /\ (p \in dirty[d] \/ p \in inflight')
    BY NoRecordPending, DirtyKept
  <1>2. /\ p \in Path /\ verified[d] \in Cyc0 /\ verified'[d] \in Cyc0
        /\ verified[d] < last /\ last \in Cyc
    BY EnvStep, DbStep DEF TypeOK, EnvTypeOK, DbTypeOK, CycleInv
  <1>3. CASE p \in inflight'
    BY <1>1, <1>3 DEF Beyond, Unrecorded
  <1> SUFFICES ASSUME p \in dirty[d] PROVE Beyond(p, verified[d])'
    BY <1>1, <1>3
  <1>4. verified[d] # 0 => Beyond(p, verified[d])
    BY <1>1 DEF Safe, Announced
  \* pruning spares what is not behind every enabled destination
  <1>5. CASE EngEnd
    <2>1. /\ UNCHANGED <<verified, missed, inflight, rcyc, ritem>>
          /\ \A e \in log : ~Prunable(e) => e \in log'
          /\ spc = "gap" => spc' = "gap"
      BY <1>5 DEF EngEnd, ReleaseGate, GapInv
    <2>2. d \in ecfg.en
      BY <1>5 DEF Steady, EngEnd
    <2>3. ASSUME NEW e \in log, verified[d] < e.cycle PROVE e \in log'
      <3>1. e.cycle \in Cyc
        BY DEF TypeOK, DbTypeOK
      <3>2. ~Prunable(e)
        BY <1>2, <2>2, <2>3, <3>1, CycleConstants DEF Prunable, Cyc, Cyc0
      <3>3. QED BY <2>1, <3>2
    <2>4. QED BY <1>4, <2>1, <2>3 DEF Beyond, Unrecorded
  <1>6. CASE ~EngEnd /\ verified'[d] = verified[d]
    <2>1. PICK k \in Cyc0 : k = verified[d]
      BY <1>2
    <2>2. Beyond(p, k)'
      BY <1>2, <1>4, <1>6, <2>1, BeyondKept
    <2>3. QED BY <1>6, <2>1, <2>2
  <1>7. ASSUME NEW c \in Cyc, EngBegin(c), verified'[d] = c, c <= verified[d]
        PROVE  Beyond(p, verified[d])'
    <2>1. UNCHANGED <<log, missed, inflight, rcyc, ritem, spc>>
      BY <1>7 DEF EngBegin
    <2>2. Beyond(p, c)
      BY <1>2, <1>4, <1>7, BeyondLower, CycleConstants DEF Cyc, Cyc0
    <2>3. QED BY <1>7, <2>1, <2>2 DEF Beyond, Unrecorded
  <1>8. CASE EngFinish(d) /\ out \in {"ok", "changing"} /\ FinishVerified(d)
    <2>1. /\ log' = log \union Inserted(chg, last) /\ verified'[d] = ecyc
          /\ UNCHANGED <<missed, inflight, rcyc, ritem, spc>>
          /\ epc = "finish" /\ d \in cur
      BY <1>1, <1>8 DEF EngFinish, FinishVerified, TypeOK, DbTypeOK
    <2>2. p \in chg \/ Beyond(p, ecyc)
      BY <1>1, <1>8, <2>1 DEF Covered
    <2>3. CASE Beyond(p, ecyc)
      BY <2>1, <2>3 DEF Beyond, Unrecorded
    <2>4. CASE p \in chg
      <3>1. [cycle |-> last, path |-> p] \in log'
        BY <2>1, <2>4 DEF Inserted
      <3>2. ecyc < last
        BY <1>2, <2>1, CycleConstants DEF CycleInv, Cyc
      <3>3. QED BY <2>1, <3>1, <3>2 DEF Beyond
    <2>5. QED BY <2>2, <2>3, <2>4
  <1>9. CASE ResetOffset(d)
    BY <1>1, <1>9 DEF ResetOffset, Steady
  <1>10. QED
    BY <1>1, <1>2, <1>5, <1>6, <1>7, <1>8, <1>9, OffsetMoves

\* LogInv is inductive.
LEMMA LogInitially == Init => LogInv
  <1> SUFFICES ASSUME Init PROVE LogInv
    OBVIOUS
  <1>1. TypeOK
    BY InitType
  <1>2. CycleInv
    BY CycleConstants DEF Init, CycleInv, Cyc
  <1>3. rcyc = 0 /\ GapInv /\ ConfigInv /\ PassInv /\ NoLostChange
    BY DEF Init, GapInv, ConfigInv, PassInv, NoLostChange, NoConfig, Kinds
  <1>4. QED BY <1>1, <1>2, <1>3 DEF LogInv

\* The promises of the invariant, one destination at a time.
LEMMA LogParts ==
  ASSUME TypeOK
  PROVE  /\ NoLostChange <=> \A d \in Dst \ edited : Safe(d)
         /\ PassInv <=> LateBeyond /\ \A d \in Dst \ edited : Covered(d)
  <1>1. ready \subseteq Dst /\ cur \subseteq Dst
    BY DEF TypeOK, EngTypeOK
  <1>2. NoLostChange <=> \A d \in Dst \ edited : Safe(d)
    BY DEF NoLostChange, Safe
  <1>3. PassInv => LateBeyond /\ \A d \in Dst \ edited : Covered(d)
    BY DEF PassInv, LateBeyond, Covered
  <1>4. LateBeyond /\ (\A d \in Dst \ edited : Covered(d)) => PassInv
    BY <1>1 DEF PassInv, LateBeyond, Covered
  <1>5. QED BY <1>2, <1>3, <1>4

\* The same of the next state.
LEMMA LogPartsNext ==
  ASSUME TypeOK'
  PROVE  /\ (\A d \in Dst \ edited' : Safe(d)') => NoLostChange'
         /\ LateBeyond' /\ (\A d \in Dst \ edited' : Covered(d)') => PassInv'
  <1>1. ready' \subseteq Dst /\ cur' \subseteq Dst
    BY DEF TypeOK, EngTypeOK
  <1>2. (\A d \in Dst \ edited' : Safe(d)') => NoLostChange'
    BY DEF NoLostChange, Safe
  <1>3. LateBeyond' /\ (\A d \in Dst \ edited' : Covered(d)') => PassInv'
    BY <1>1 DEF PassInv, LateBeyond, Covered
  <1>4. QED BY <1>2, <1>3

\* Every step keeps the invariant of the log.
LEMMA LogStep ==
  ASSUME Fanotify, NoGapRace, LogInv, [Next]_vars
  PROVE  LogInv'
  <1>1. TypeOK'
    BY DbStep, EnvStep, ThreadStep, EngStep, FlagStep DEF LogInv, TypeOK
  <1>2. rcyc' = 0 /\ GapInv' /\ CycleInv' /\ ConfigInv'
    BY NoRecordPending, GapStep, CycleStep, ConfigStep DEF LogInv
  <1>3. /\ LogBase /\ LateBeyond
        /\ \A d \in Dst \ edited : Safe(d) /\ Covered(d)
    BY LogParts DEF LogInv, LogBase
  <1>4. ASSUME NEW d \in Dst \ edited' PROVE Safe(d)' /\ Covered(d)'
    <2>1. d \in Dst \ edited /\ ~MovePath(d)
      BY EditedKept
    <2>2. Steady(d)
      BY <2>1 DEF Steady, LogInv, ConfigInv
    <2>3. QED BY <1>3, <2>1, <2>2, SafeStep, CoverStep
  <1>5. LateBeyond'
    BY <1>3, LateStep
  <1>6. NoLostChange' /\ PassInv'
    BY <1>1, <1>4, <1>5, LogPartsNext
  <1>7. QED BY <1>1, <1>2, <1>6 DEF LogInv

\* On a fanotify host no change is lost, for any number of destinations,
\* paths, cycles, cancels, faults, overflows, crashes and path edits, and of
\* either manual requests or enabling edits: whatever is stale at a
\* destination that was never switched off nor moved is announced ahead of
\* its verified offset, so that the next pass over the event log
\* (events_between_cycles) copies it.
THEOREM NoChangeLost == ASSUME Fanotify, NoGapRace PROVE Spec => []NoLostChange
  <1>1. Init => LogInv
    BY LogInitially
  <1>2. LogInv /\ [Next]_vars => LogInv'
    BY LogStep
  <1>3. LogInv => NoLostChange
    BY DEF LogInv
  <1>4. QED BY <1>1, <1>2, <1>3, PTL DEF Spec

\* Exactly one cycle is open, the newest, and every cycle that a thread
\* closes, targets, lists or verifies is older, although the scheduler and the
\* web thread read the open cycle and close it in separate statements.
THEOREM CyclesInOrder == Spec => []CycleInv
  <1>1. TypeOK /\ CycleInv /\ [Next]_vars => (TypeOK /\ CycleInv)'
    BY CycleStep, DbStep, EnvStep, ThreadStep, EngStep, FlagStep DEF TypeOK
  <1>2. Init => TypeOK /\ CycleInv
    BY LogInitially DEF LogInv
  <1>3. QED BY <1>1, <1>2, PTL DEF Spec

\* What a pass has copied and not yet recorded, and what it still has to copy,
\* leaves nothing stale at an untouched destination that only the cycles up to
\* the one being verified announce: the offset may move (sync_cycle_for_source,
\* whose event paths are read before the changes that race it).
THEOREM PassesCover == ASSUME Fanotify, NoGapRace PROVE Spec => []PassInv
  <1>1. Init => LogInv
    BY LogInitially
  <1>2. LogInv /\ [Next]_vars => LogInv'
    BY LogStep
  <1>3. LogInv => PassInv
    BY DEF LogInv
  <1>4. QED BY <1>1, <1>2, <1>3, PTL DEF Spec

-----------------------------------------------------------------------------
(* Pending work can be driven, on a host where nobody asks for a sync by   *)
(* hand and no destination is switched off: only the scheduler closes      *)
(* cycles and only its runs drive them, and every configuration in use     *)
(* enables every destination.                                              *)

Never(k) == \A b \in Bound : b[k] = 0

Alone ==
    /\ used["request"] = 0 /\ used["switch"] = 0
    /\ wpc = "idle" /\ mq = {} /\ enabled = Dst /\ sig = Dst /\ spc # "gap"
    /\ spc \notin {"idle", "run"} => scfg.en = Dst
    /\ epc # "off" => ecfg.en = Dst /\ spc = "run" /\ owner = "sched"

\* the cycle the scheduler is about to target is one the engine will list
Handover ==
    /\ spc = "close" => scyc = last
    /\ spc = "target" => cstat[scyc] = "closed"

\* a pass that may still settle its cycle as verified leaves nobody behind
Driving ==
    /\ epc = "finish" => cur \subseteq ready
    /\ epc \in {"copy", "finish"} => \A d \in ready : target[d] \in {0, ecyc}
    /\ epc = "settle" => ready = {}
    /\ epc \in {"copy", "finish", "settle"} /\ allv =>
          \A d \in Dst : Pending(d) /\ target[d] = ecyc => d \in ready

DriveInv == TypeOK /\ CycleInv /\ Alone /\ Handover /\ Driving /\ PendingIsListed

\* What the bounds never allow is never used.
LEMMA Unused ==
  ASSUME TypeOK, NEW k \in Kinds, Never(k), used[k] = 0, [Next]_vars
  PROVE  used'[k] = 0
  <1>1. ASSUME NEW j \in Kinds, Spend(j) PROVE used'[k] = 0
    <2>1. used'[k] \in Nat
      BY <1>1 DEF Spend, TypeOK, EnvTypeOK
    <2>2. PICK b \in Bound : \A i \in Kinds : used'[i] <= b[i]
      BY <1>1 DEF Spend, Within
    <2>3. b[k] = 0
      BY DEF Never
    <2>4. QED BY <2>1, <2>2, <2>3
  <1>2. QED BY <1>1, UsedStep

\* A step that spends of a kind leaves its count above zero.
LEMMA Spent ==
  ASSUME TypeOK, NEW k \in Kinds, Spend(k) PROVE used'[k] # 0
  BY DEF Spend, TypeOK, EnvTypeOK

\* Every step keeps the scheduler alone.
LEMMA AloneStep ==
  ASSUME TypeOK, Alone, Never("request"), Never("switch"), [Next]_vars
  PROVE  Alone'
  <1>1. used'["request"] = 0 /\ used'["switch"] = 0
    BY Unused DEF Alone, Kinds
  <1> USE <1>1 DEF Alone
  <1>2. CASE SchedTick
    BY <1>2 DEF SchedTick, SignatureChanged, LoadConfig
  <1>3. CASE SchedAdvance
    BY <1>3 DEF SchedAdvance
  <1>4. CASE SchedRead
    BY <1>4 DEF SchedRead
  <1>5. CASE SchedClose
    BY <1>5 DEF SchedClose, NoAdvance
  <1>6. CASE SchedTarget
    BY <1>6 DEF SchedTarget, NoAdvance
  <1>7. CASE SchedGate
    BY <1>7 DEF SchedGate, StartEngine
  <1>8. CASE WebRequest
    BY <1>8, Spent DEF WebRequest, Kinds
  <1>9. CASE ManualGate
    BY <1>9 DEF ManualGate
  <1>10. CASE EngCancelled
    BY <1>10 DEF EngCancelled, ReleaseGate, NoEngine
  <1>11. CASE EngPrefetchCancelled
    BY <1>11 DEF EngPrefetchCancelled, ReleaseGate, NoEngine
  <1>12. CASE EngEnd
    BY <1>12 DEF EngEnd, ReleaseGate, NoEngine
  <1>13. ASSUME NEW d \in Dst, ToggleEnabled(d) PROVE Alone'
    BY <1>13, Spent DEF ToggleEnabled, Kinds
  <1>14. ASSUME NEW d \in Dst, MovePath(d) PROVE Alone'
    BY <1>14 DEF MovePath, TypeOK, ThreadTypeOK, EngTypeOK, Config
  <1>15. CASE Crash
    BY <1>15 DEF Crash, NoRequest, NoEngine
  <1>16. CASE EngList
    BY <1>16 DEF EngList
  <1>17. ASSUME NEW c \in Cyc, EngBegin(c) PROVE Alone'
    BY <1>17 DEF EngBegin
  <1>18. ASSUME NEW d \in Dst, EngCopy(d) PROVE Alone'
    BY <1>18 DEF EngCopy
  <1>19. CASE EngPrefetchFailed
    BY <1>19 DEF EngPrefetchFailed
  <1>20. ASSUME NEW d \in Dst, EngFinish(d) PROVE Alone'
    BY <1>20 DEF EngFinish
  <1>21. CASE EngSettle
    BY <1>21 DEF EngSettle
  <1>22. CASE UNCHANGED <<wpc, mq, enabled, sig, spc, scfg, epc, ecfg, owner>>
    BY <1>22
  <1>23. QED
    BY <1>2, <1>3, <1>4, <1>5, <1>6, <1>7, <1>8, <1>9, <1>10, <1>11, <1>12, <1>13, <1>14,
       <1>15, <1>16, <1>17, <1>18, <1>19, <1>20, <1>21, <1>22 DEF Next, Watcher, Scheduler,
       Web, Engine, User, vars, Change, Overflow, RecordBatch, RecordRead, RecordInsert,
       SchedGap, WebClose, WebTarget, WebFlag, EngSkip, EngSourceGone, CancelRequest,
       TogglePaused, ResetOffset

\* Every step keeps the cycle that is handed over closed until it is targeted.
LEMMA HandoverStep ==
  ASSUME TypeOK, CycleInv, Alone, Handover, [Next]_vars
  PROVE  Handover'
  <1> USE CycleConstants DEF Handover
  <1>1. CASE SchedRead
    BY <1>1 DEF SchedRead
  <1>2. CASE SchedClose
    <2>1. /\ last \in Cyc /\ scyc = last /\ cstat[last] = "open"
          /\ cstat \in [Cyc -> CycleStatus]
      BY <1>2 DEF SchedClose, TypeOK, DbTypeOK, CycleInv
    <2>2. cstat' = [cstat EXCEPT ![last] = "closed", ![last + 1] = "open"]
      BY <1>2, <2>1 DEF SchedClose, CloseCycle
    <2>3. cstat'[last] = "closed"
      BY <2>1, <2>2 DEF Cyc
    <2>4. spc' # "target" \/ scyc' = last
      BY <1>2, <2>1 DEF SchedClose, NoAdvance
    <2>5. spc' # "close"
      BY <1>2 DEF SchedClose
    <2>6. QED BY <2>3, <2>4, <2>5
  <1>3. CASE spc' \notin {"close", "target"}
    BY <1>3
  <1>4. CASE UNCHANGED <<spc, scyc, last, cstat>>
    BY <1>4
  <1>5. CASE epc # "off"
    <2>1. spc = "run"
      BY <1>5 DEF Alone
    <2>2. spc' \notin {"close", "target"}
      BY <1>5, <2>1 DEF Next, Watcher, Scheduler, Web, Engine, User, vars, Change, Overflow,
         RecordBatch, RecordRead, RecordInsert, SchedTick, SchedGap, SchedAdvance, SchedRead,
         SchedClose, SchedTarget, SchedGate, WebRequest, WebClose, WebTarget, WebFlag,
         ManualGate, StartEngine, EngList, EngCancelled, EngSkip, EngSourceGone, EngBegin,
         EngCopy, EngPrefetchCancelled, EngPrefetchFailed, EngFinish, EngSettle, EngEnd,
         ReleaseGate, CancelRequest, TogglePaused, ToggleEnabled, MovePath, ResetOffset, Crash
    <2>3. QED BY <2>2
  <1>6. CASE epc = "off"
    BY <1>1, <1>2, <1>3, <1>4, <1>6 DEF Next, Watcher, Scheduler, Web, Engine, User, vars,
       Change, Overflow, RecordBatch, RecordRead, RecordInsert, SchedTick, SchedGap,
       SchedAdvance, SchedTarget, SchedGate, WebRequest, WebClose, WebTarget, WebFlag, Alone,
       ManualGate, EngList, EngCancelled, EngSkip, EngSourceGone, EngBegin, EngCopy,
       EngPrefetchCancelled, EngPrefetchFailed, EngFinish, EngSettle, EngEnd,
       CancelRequest, TogglePaused, ToggleEnabled, MovePath, ResetOffset, Crash
  <1>7. QED BY <1>5, <1>6

\* A pass that begins sorts out everybody who is pending at its cycle.
LEMMA BeginDrives ==
  ASSUME TypeOK, Alone, NEW c \in Cyc, EngBegin(c)
  PROVE  Driving'
  <1> USE CycleConstants DEF Cyc
  <1>1. /\ ecyc' = c /\ cur' = {} /\ epc' = (IF ready' = {} THEN "settle" ELSE "copy")
        /\ UNCHANGED target
    BY DEF EngBegin
  <1>2. \A d \in ready' : target'[d] = c
    BY DEF EngBegin
  <1>3. ASSUME allv', NEW d \in Dst, Pending(d)', target'[d] = c PROVE d \in ready'
    <2> DEFINE T == {x \in ecfg.en : target[x] = c}
               Fin == {x \in T : verified[x] >= c}
    <2>1. T = Fin \cup ready'
      BY <1>3 DEF EngBegin
    <2>2. d \in T
      BY <1>1, <1>3 DEF Alone, EngBegin
    <2>3. \A x \in Fin : verified'[x] = c
      BY DEF EngBegin, TypeOK, EngTypeOK, Config
    <2>4. d \notin Fin
      BY <1>1, <1>3, <2>3 DEF Pending
    <2>5. QED BY <2>1, <2>2, <2>4
  <1>4. QED BY <1>1, <1>2, <1>3 DEF Driving

\* A destination written back is no longer pending, or the pass has failed.
LEMMA FinishDrives ==
  ASSUME TypeOK, CycleInv, Driving, NEW d \in Dst, EngFinish(d)
  PROVE  Driving'
  <1> USE DEF TypeOK, DbTypeOK
  <1>1. /\ epc = "finish" /\ d \in cur /\ ready' = ready \ {d} /\ cur' = {}
        /\ ecyc' = ecyc /\ epc' = IF ready' = {} THEN "settle" ELSE "copy"
    BY DEF EngFinish
  <1>0. allv' => allv /\ out = "ok"
    BY DEF EngFinish
  <1>2. \A x \in Dst \ {d} : target'[x] = target[x] /\ verified'[x] = verified[x]
    BY DEF EngFinish, FinishVerified, FinishCancelled, FinishFailed
  <1>3. out = "ok" => verified'[d] = ecyc /\ target'[d] = target[d]
    BY DEF EngFinish, FinishVerified
  <1>4. ecyc \in Nat
    BY <1>1, CycleConstants DEF CycleInv, Cyc
  <1>5. \A x \in ready' : x \in Dst \ {d}
    BY <1>1 DEF EngTypeOK
  <1>6. ASSUME allv', NEW x \in Dst, Pending(x)', target'[x] = ecyc PROVE x \in ready'
    <2>1. x # d
      BY <1>0, <1>3, <1>4, <1>6 DEF Pending
    <2>2. QED BY <1>0, <1>1, <1>2, <1>6, <2>1 DEF Driving, Pending
  <1>7. QED BY <1>1, <1>2, <1>5, <1>6 DEF Driving

\* Every step keeps the promise of the pass in progress.
LEMMA DrivingStep ==
  ASSUME TypeOK, CycleInv, Alone, Driving, [Next]_vars
  PROVE  Driving'
  <1> USE DEF Driving
  <1>1. ASSUME NEW c \in Cyc, EngBegin(c) PROVE Driving'
    BY <1>1, BeginDrives
  <1>2. ASSUME NEW d \in Dst, EngFinish(d) PROVE Driving'
    BY <1>2, FinishDrives
  <1>3. ASSUME NEW d \in Dst, EngCopy(d) PROVE Driving'
    BY <1>3 DEF EngCopy, Pending
  <1>4. ASSUME NEW d \in Dst, ResetOffset(d) PROVE Driving'
    <2>1. /\ \A x \in Dst : target'[x] \in {0, target[x]}
          /\ \A x \in Dst : Pending(x)' => Pending(x) /\ target'[x] = target[x]
      BY <1>4 DEF ResetOffset, Pending, TypeOK, DbTypeOK
    <2>2. UNCHANGED <<epc, cur, ready, ecyc, allv>> /\ ready \subseteq Dst
      BY <1>4 DEF ResetOffset, TypeOK, EngTypeOK
    <2>3. QED BY <2>1, <2>2
  <1>5. CASE epc' \notin {"copy", "finish", "settle"}
    BY <1>5
  <1>6. CASE UNCHANGED <<epc, cur, ready, target, verified, ecyc, allv>>
    BY <1>6 DEF Pending
  <1>7. CASE SchedTarget
    BY <1>7 DEF SchedTarget, Alone
  <1>8. QED
    BY <1>1, <1>2, <1>3, <1>4, <1>5, <1>6, <1>7 DEF Next, Watcher, Scheduler, Web, Engine,
       User, vars, Change, Overflow, RecordBatch, RecordRead, RecordInsert, SchedTick,
       SchedGap, SchedAdvance, SchedRead, SchedClose, SchedGate, StartEngine, WebRequest,
       WebClose, WebTarget, WebFlag, ManualGate, Alone, EngList, EngCancelled, EngSkip,
       EngSourceGone, EngPrefetchCancelled, EngPrefetchFailed, EngSettle, EngEnd, ReleaseGate,
       NoEngine, CancelRequest, TogglePaused, ToggleEnabled, MovePath, Crash

\* Every step keeps the cycle of a pending target listed.
LEMMA ListedStep ==
  ASSUME TypeOK, CycleInv, Alone, Alone', Handover, Driving, PendingIsListed, [Next]_vars
  PROVE  PendingIsListed'
  <1> USE DEF PendingIsListed
  <1>t. /\ \A d \in Dst : target[d] \in Nat /\ target[d] < last /\ verified[d] \in Nat
        /\ \A d \in Dst : target[d] # 0 => target[d] \in Cyc
        /\ cstat \in [Cyc -> CycleStatus] /\ last \in Nat /\ enabled = Dst /\ enabled' = Dst
        /\ target \in [Dst -> Cyc0] /\ verified \in [Dst -> Cyc0]
    BY CycleConstants DEF TypeOK, DbTypeOK, CycleInv, Alone, Cyc, Cyc0
  <1>1. CASE SchedClose
    <2>1. /\ UNCHANGED <<target, verified>> /\ scyc = last /\ cstat[last] = "open"
      BY <1>1 DEF SchedClose, Handover, CycleInv
    <2>2. cstat' = [cstat EXCEPT ![last] = "closed", ![last + 1] = "open"]
      BY <1>1, <2>1 DEF SchedClose, CloseCycle
    <2>3. \A d \in Dst : target[d] # 0 => cstat'[target[d]] = cstat[target[d]]
      BY <1>t, <2>2
    <2>4. QED BY <1>t, <2>1, <2>3 DEF Pending, Listed
  <1>2. CASE SchedTarget
    <2>1. UNCHANGED <<cstat, verified>> /\ cstat[scyc] = "closed"
      BY <1>2 DEF SchedTarget, Handover
    <2>2. \A d \in Dst : target'[d] \in {scyc, target[d]}
      BY <1>2 DEF SchedTarget, SetTargets
    <2>3. QED BY <1>t, <2>1, <2>2 DEF Pending, Listed
  <1>3. ASSUME NEW c \in Cyc, EngSkip(c) PROVE PendingIsListed'
    <2>1. /\ \A d \in Dst : target[d] # c
          /\ UNCHANGED <<target, verified>>
          /\ \A k \in Cyc \ {c} : cstat'[k] = cstat[k]
      BY <1>3 DEF EngSkip, HasTarget
    <2>2. QED BY <1>t, <2>1 DEF Pending, Listed
  <1>4. ASSUME NEW c \in Cyc, EngSourceGone(c) PROVE PendingIsListed'
    BY <1>t, <1>4 DEF EngSourceGone, Pending, Listed
  <1>5. ASSUME NEW c \in Cyc, EngBegin(c) PROVE PendingIsListed'
    <2>1. /\ UNCHANGED target
          /\ \A k \in Cyc : cstat'[k] \in {"syncing", cstat[k]}
      BY <1>t, <1>5 DEF EngBegin
    <2>2. \A d \in Dst : verified'[d] = verified[d] \/ verified'[d] = target[d]
      BY <1>5 DEF EngBegin
    <2>3. ASSUME NEW d \in Dst, Pending(d)' PROVE Pending(d)
      BY <1>t, <2>1, <2>2, <2>3 DEF Pending
    <2>4. QED BY <1>t, <2>1, <2>3 DEF Pending, Listed
  <1>6. ASSUME NEW x \in Dst, EngFinish(x) PROVE PendingIsListed'
    <2>1. /\ UNCHANGED cstat /\ target[x] \in {0, ecyc} /\ ecyc \in Nat
      BY <1>6, CycleConstants DEF EngFinish, Driving, CycleInv, Cyc
    <2>2. \A d \in Dst \ {x} : target'[d] = target[d] /\ verified'[d] = verified[d]
      BY <1>t, <1>6 DEF EngFinish, FinishVerified, FinishCancelled, FinishFailed
    <2>3. \/ target'[x] = 0 \/ target'[x] = verified'[x]
          \/ target'[x] = target[x] /\ verified'[x] = verified[x]
      <3>1. CASE FinishVerified(x)
        BY <1>t, <2>1, <3>1 DEF FinishVerified
      <3>2. CASE FinishCancelled(x)
        BY <1>t, <3>2 DEF FinishCancelled
      <3>3. CASE FinishFailed(x)
        BY <3>3 DEF FinishFailed
      <3>4. QED BY <1>6, <3>1, <3>2, <3>3 DEF EngFinish
    <2>4. ASSUME NEW d \in Dst, Pending(d)' PROVE Pending(d) /\ target'[d] = target[d]
      <3>1. target'[d] # 0 /\ verified'[d] < target'[d] /\ target'[d] # verified'[d]
        <4>1. verified'[d] \in Nat
          BY <1>6, DbStep, CycleConstants DEF TypeOK, DbTypeOK, Cyc, Cyc0
        <4>2. QED BY <2>4, <4>1 DEF Pending
      <3>2. QED BY <2>2, <2>3, <3>1 DEF Pending
    <2>5. QED BY <1>t, <2>1, <2>4 DEF Listed
  <1>7. CASE EngSettle
    <2>1. /\ UNCHANGED <<target, verified>> /\ ready = {} /\ epc = "settle"
          /\ cstat' = [cstat EXCEPT ![ecyc] = Settled(allv, blk, ubf)]
      BY <1>7 DEF EngSettle, Driving
    <2>2. CASE allv
      <3>1. \A d \in Dst : Pending(d) => target[d] # ecyc
        BY <2>1, <2>2 DEF Driving
      <3>2. QED BY <1>t, <2>1, <3>1 DEF Pending, Listed
    <2>3. CASE ~allv
      BY <1>t, <2>1, <2>3 DEF Settled, Pending, Listed
    <2>4. QED BY <2>2, <2>3
  <1>8. ASSUME NEW d \in Dst, ResetOffset(d) PROVE PendingIsListed'
    BY <1>t, <1>8 DEF ResetOffset, Pending, Listed
  <1>9. CASE UNCHANGED <<cstat, target, verified>>
    BY <1>t, <1>9 DEF Pending, Listed
  <1>10. QED
    BY <1>1, <1>2, <1>3, <1>4, <1>5, <1>6, <1>7, <1>8, <1>9 DEF Next, Watcher, Scheduler, Web,
       Engine, User, vars, Change, Overflow, RecordBatch, RecordRead, RecordInsert, SchedTick,
       SchedGap, SchedAdvance, SchedRead, SchedGate, WebRequest, WebClose, WebTarget, WebFlag,
       ManualGate, Alone, EngList, EngCancelled, EngCopy, EngPrefetchCancelled,
       EngPrefetchFailed, EngEnd, CancelRequest, TogglePaused, ToggleEnabled, MovePath, Crash

\* At first nothing is pending.
LEMMA DriveInitially == ASSUME Init PROVE DriveInv
  <1>1. TypeOK /\ CycleInv
    BY LogInitially DEF LogInv
  <1>2. Alone
    BY DEF Init, Alone, Kinds
  <1>3. Handover /\ Driving /\ PendingIsListed
    BY DEF Init, Handover, Driving, PendingIsListed, Pending
  <1>4. QED BY <1>1, <1>2, <1>3 DEF DriveInv

\* Every step keeps pending work within reach of the engine.
LEMMA DriveStep ==
  ASSUME Never("request"), Never("switch"), DriveInv, [Next]_vars
  PROVE  DriveInv'
  <1>1. TypeOK /\ CycleInv /\ Alone /\ Handover /\ Driving /\ PendingIsListed
    BY DEF DriveInv
  <1>2. TypeOK'
    BY <1>1, DbStep, EnvStep, ThreadStep, EngStep, FlagStep DEF TypeOK
  <1>3. CycleInv' /\ Alone'
    BY <1>1, CycleStep, AloneStep
  <1>4. Handover' /\ Driving'
    BY <1>1, HandoverStep, DrivingStep
  <1>5. PendingIsListed'
    BY <1>1, <1>3, ListedStep
  <1>6. QED BY <1>2, <1>3, <1>4, <1>5 DEF DriveInv

\* Without manual requests and switched destinations, the cycle an enabled
\* destination still has to verify is always one closed_cycles_for_source
\* lists, for any number of destinations, paths, changes, faults, cancels,
\* crashes, pauses and moves: no target is stranded.
THEOREM PendingListed == ASSUME Never("request"), Never("switch")
                         PROVE  Spec => []PendingIsListed
  <1>1. Init => DriveInv
    BY DriveInitially
  <1>2. DriveInv /\ [Next]_vars => DriveInv'
    BY DriveStep
  <1>3. DriveInv => PendingIsListed
    BY DEF DriveInv
  <1>4. QED BY <1>1, <1>2, <1>3, PTL DEF Spec

-----------------------------------------------------------------------------
(* A destination that is switched off and on again resumes without a loss: *)
(* the rescan of the watcher's restart stands for what was pruned while it *)
(* was off.  Its signature is the one every configuration in use enables.  *)

\* No run has both an edit that switches a destination and a crash: the
\* scheduler takes its first signature from the file, so that a destination
\* switched on just before a restart gets no rescan.
NoRestartedSwitch == \A b \in Bound : b["switch"] = 0 \/ b["crash"] = 0

Signed(cfg) == cfg.en = sig /\ cfg.old = {}

Loaded ==
    /\ used["move"] = 0 /\ resetDue = {}
    /\ used["switch"] = 0 \/ used["crash"] = 0
    /\ used["request"] = 0 => mq = {} /\ owner # "manual"
    /\ spc \notin {"idle", "run"} => Signed(scfg)
    /\ wpc # "idle" => Signed(wcfg)
    /\ \A cfg \in mq : Signed(cfg)
    /\ epc # "off" => Signed(ecfg) /\ owner # "none"
    /\ scfg.old = {} /\ wcfg.old = {} /\ ecfg.old = {}

\* The signature changes only while no configuration but the new one is in use.
Resigned == sig' # sig => epc = "off" /\ wpc = "idle" /\ mq = {}

\* The scheduler takes a new signature only before anything else of it runs.
LEMMA SignatureKept ==
  ASSUME TypeOK, NoGapRace, NoRestartedSwitch, GapInv, Loaded, [Next]_vars
  PROVE  /\ used'["switch"] = 0 \/ used'["crash"] = 0
         /\ SchedTick \/ UNCHANGED sig
         /\ Resigned
  <1>1. used'["switch"] = 0 \/ used'["crash"] = 0
    <2>1. CASE UNCHANGED used
      BY <2>1 DEF Loaded
    <2>2. ASSUME NEW k \in Kinds, Spend(k) PROVE used'["switch"] = 0 \/ used'["crash"] = 0
      <3>1. \A j \in Kinds : used'[j] \in Nat
        BY <2>2 DEF Spend, TypeOK, EnvTypeOK
      <3>2. PICK b \in Bound : \A j \in Kinds : used'[j] <= b[j]
        BY <2>2 DEF Spend, Within
      <3>3. b["switch"] = 0 \/ b["crash"] = 0
        BY DEF NoRestartedSwitch
      <3>4. QED BY <3>1, <3>2, <3>3 DEF Kinds
    <2>3. QED BY <2>1, <2>2, UsedStep
  <1>2. CASE Crash
    <2>1. used'["crash"] # 0 /\ used'["switch"] = used["switch"]
      BY <1>2 DEF Crash, Spend, TypeOK, EnvTypeOK, Kinds
    <2>2. sig = enabled
      BY <1>1, <2>1 DEF GapInv
    <2>3. QED BY <1>1, <1>2, <2>2 DEF Crash, Resigned
  <1>3. CASE SchedTick
    <2>1. CASE used["request"] = 0
      <3>1. wpc = "idle" /\ mq = {}
        BY <2>1 DEF GapInv, Loaded
      <3>2. epc = "off"
        BY <1>3, <2>1 DEF SchedTick, GapInv, Loaded, TypeOK, EngTypeOK
      <3>3. QED BY <1>1, <1>3, <3>1, <3>2 DEF Resigned
    <2>2. CASE used["request"] # 0
      BY <1>1, <1>3, <2>2 DEF SchedTick, GapInv, Resigned
    <2>3. QED BY <2>1, <2>2
  <1>4. CASE UNCHANGED sig
    BY <1>1, <1>4 DEF Resigned
  <1>5. QED
    BY <1>2, <1>3, <1>4 DEF Next, Watcher, Scheduler, Web, Engine, User, vars, Change, Overflow,
       RecordBatch, RecordRead, RecordInsert, SchedGap, SchedAdvance, SchedRead, SchedClose,
       SchedTarget, SchedGate, WebRequest, WebClose, WebTarget, WebFlag, ManualGate, EngList,
       EngCancelled, EngSkip, EngSourceGone, EngBegin, EngCopy, EngPrefetchCancelled,
       EngPrefetchFailed, EngFinish, EngSettle, EngEnd, CancelRequest, TogglePaused,
       ToggleEnabled, MovePath, ResetOffset

\* Every step keeps the configurations in use in accord with the signature.
LEMMA LoadedStep ==
  ASSUME TypeOK, NoGapRace, NoRestartedSwitch, Never("move"), GapInv, Loaded, [Next]_vars
  PROVE  Loaded'
  <1>1. /\ used'["move"] = 0 /\ (used'["switch"] = 0 \/ used'["crash"] = 0)
        /\ used'["request"] = 0 => used["request"] = 0
    BY Unused, SignatureKept, Exclusive DEF Loaded, Kinds
  <1> USE <1>1 DEF Loaded, Signed
  <1>2. CASE SchedTick
    BY <1>2, SignatureKept DEF SchedTick, LoadConfig, Resigned
  <1>3. CASE SchedGap
    BY <1>3 DEF SchedGap
  <1>4. CASE SchedAdvance
    BY <1>4 DEF SchedAdvance
  <1>5. CASE SchedRead
    BY <1>5 DEF SchedRead
  <1>6. CASE SchedClose
    BY <1>6 DEF SchedClose
  <1>7. CASE SchedTarget
    BY <1>7 DEF SchedTarget
  <1>8. CASE SchedGate
    BY <1>8 DEF SchedGate, StartEngine, NoConfig
  <1>9. CASE WebRequest
    <2>1. used'["request"] # 0 /\ used'["switch"] = used["switch"]
      BY <1>9 DEF WebRequest, Spend, TypeOK, EnvTypeOK, Kinds
    <2>2. used'["switch"] = 0
      BY <2>1, Exclusive
    <2>3. sig = enabled
      BY <2>1, <2>2 DEF GapInv
    <2>4. QED BY <1>9, <2>1, <2>3 DEF WebRequest, LoadConfig
  <1>10. CASE WebClose
    BY <1>10 DEF WebClose
  <1>11. CASE WebTarget
    BY <1>11 DEF WebTarget
  <1>12. CASE WebFlag
    BY <1>12 DEF WebFlag, NoRequest, NoConfig, GapInv
  <1>13. CASE ManualGate
    BY <1>13 DEF ManualGate, StartEngine
  <1>14. CASE EngList
    BY <1>14 DEF EngList
  <1>15. CASE EngCancelled
    BY <1>15 DEF EngCancelled, ReleaseGate, NoEngine, NoConfig
  <1>16. ASSUME NEW c \in Cyc, EngBegin(c) PROVE Loaded'
    BY <1>16 DEF EngBegin
  <1>17. ASSUME NEW d \in Dst, EngCopy(d) PROVE Loaded'
    BY <1>17 DEF EngCopy
  <1>18. CASE EngPrefetchCancelled
    BY <1>18 DEF EngPrefetchCancelled, ReleaseGate, NoEngine, NoConfig
  <1>19. CASE EngPrefetchFailed
    BY <1>19 DEF EngPrefetchFailed
  <1>20. ASSUME NEW d \in Dst, EngFinish(d) PROVE Loaded'
    BY <1>20 DEF EngFinish
  <1>21. CASE EngSettle
    BY <1>21 DEF EngSettle
  <1>22. CASE EngEnd
    BY <1>22 DEF EngEnd, ReleaseGate, NoEngine, NoConfig
  <1>23. ASSUME NEW d \in Dst, MovePath(d) PROVE Loaded'
    BY <1>23, Spent DEF MovePath, Kinds
  <1>24. ASSUME NEW d \in Dst, ResetOffset(d) PROVE Loaded'
    BY <1>24 DEF ResetOffset
  <1>25. CASE Crash
    BY <1>25 DEF Crash, NoRequest, NoEngine, NoConfig
  <1>26. CASE UNCHANGED <<resetDue, sig, scfg, spc, wcfg, wpc, mq, epc, ecfg, owner>>
    BY <1>26
  <1>27. QED
    BY <1>2, <1>3, <1>4, <1>5, <1>6, <1>7, <1>8, <1>9, <1>10, <1>11, <1>12, <1>13, <1>14,
       <1>15, <1>16, <1>17, <1>18, <1>19, <1>20, <1>21, <1>22, <1>23, <1>24, <1>25,
       <1>26 DEF Next, Watcher, Scheduler, Web, Engine, User, vars, Change, Overflow,
       RecordBatch, RecordRead, RecordInsert, EngSkip, EngSourceGone, CancelRequest,
       TogglePaused, ToggleEnabled

\* The promise of the log, to every destination of the signature.
EditInv == LogBase /\ Loaded /\ LateBeyond /\ \A d \in sig : Safe(d) /\ Covered(d)

\* Every step keeps the promise of the log to the destinations of the signature.
LEMMA EditStep ==
  ASSUME Fanotify, NoGapRace, NoRestartedSwitch, Never("move"), EditInv, [Next]_vars
  PROVE  EditInv'
  <1> USE DEF EditInv
  <1>1. LogBase'
    BY DbStep, EnvStep, ThreadStep, EngStep, FlagStep, NoRecordPending, GapStep, CycleStep
       DEF LogBase, TypeOK
  <1>2. Loaded' /\ LateBeyond'
    BY LoadedStep, LateStep DEF LogBase
  <1>3. \A d \in Dst : ~MovePath(d)
    BY <1>2, Spent DEF MovePath, Kinds, Loaded, LogBase
  <1>4. sig \subseteq Dst /\ sig' \subseteq Dst
    BY <1>1 DEF LogBase, TypeOK, ThreadTypeOK
  <1>5. ASSUME NEW d \in sig PROVE Safe(d)' /\ Covered(d)'
    <2>1. Steady(d)
      BY <1>5 DEF Loaded, Signed, Steady
    <2>2. QED BY <1>3, <1>4, <1>5, <2>1, SafeStep, CoverStep
  <1>6. CASE sig' = sig
    BY <1>1, <1>2, <1>5, <1>6
  <1>7. CASE sig' # sig
    <2>1. SchedTick /\ epc = "off"
      BY <1>7, SignatureKept DEF LogBase, Resigned
    <2>2. spc' = "gap" /\ epc' = "off"
      BY <1>7, <2>1 DEF SchedTick, SignatureChanged
    <2>3. \A d \in Dst : Safe(d)' /\ Covered(d)'
      BY <2>2 DEF Safe, Announced, Beyond, Unrecorded, Covered
    <2>4. QED BY <1>1, <1>2, <1>4, <2>3
  <1>8. QED BY <1>6, <1>7

\* Re-enabling resumes where it left off: whenever the watcher watches for
\* exactly the enabled destinations, whatever is stale at one of them that has
\* verified a cycle is announced ahead of its offset, also at one that was
\* switched off while the events it had not applied were pruned
\* (prune_removed_destination_offsets, config_signature, record_gap_event).
THEOREM EditSurvived ==
  ASSUME Fanotify, NoGapRace, NoRestartedSwitch, Never("move")
  PROVE  Spec => []SurvivesEdit
  <1>1. ASSUME Init PROVE EditInv
    <2>1. LogBase /\ LateBeyond
      BY <1>1, LogInitially DEF LogInv, LogBase, Init, LateBeyond
    <2>2. Loaded
      BY <1>1 DEF Init, Loaded, NoConfig, Kinds
    <2>3. \A d \in sig : Safe(d) /\ Covered(d)
      BY <1>1 DEF Init, Safe, Covered
    <2>4. QED BY <2>1, <2>2, <2>3 DEF EditInv
  <1>2. EditInv /\ [Next]_vars => EditInv'
    BY EditStep
  <1>3. EditInv => SurvivesEdit
    BY DEF EditInv, SurvivesEdit, Safe
  <1>4. QED BY <1>1, <1>2, <1>3, PTL DEF Spec

-----------------------------------------------------------------------------
(* The green dot of a realtime destination, where there are only realtime  *)
(* ones and nothing goes wrong: they are due, targeted and driven together, *)
(* so that the events of every closed cycle have been applied.             *)

\* Nothing but changes of files and overflows of the queue happens.
Troubles == Kinds \ {"change", "overflow"}
Undisturbed == \A k \in Troubles : Never(k)

\* Nothing is paused or cancelled in any configuration in use.
Calm ==
    /\ \A k \in Troubles : used[k] = 0
    /\ paused = {} /\ resetDue = {} /\ edited = {} /\ cancel = "no"
    /\ spc \notin {"idle", "run"} => scfg.pa = {}
    /\ epc # "off" => ecfg.pa = {}

\* All destinations are due, targeted and driven together.
Together ==
    /\ \A d, e \in Dst : target[d] = target[e]
    /\ \A d \in Dst : verified[d] <= target[d]
    /\ spc \in {"idle", "advance", "read", "close", "target"} => \A d \in Dst : ~Pending(d)
    /\ spc \in {"read", "close", "target"} => sdue = Dst
    /\ spc = "target" => scyc = last - 1
    /\ spc = "run" => epc # "off"

\* A run leaves nobody pending.
Driven ==
    /\ epc = "pick" => \A d \in Dst : Pending(d) => target[d] \in todo
    /\ epc \in {"copy", "finish"} =>
          /\ \A d \in Dst : Pending(d) => d \in ready
          /\ \A d \in ready : target[d] = ecyc
    /\ epc = "finish" => out = "ok"
    /\ epc = "settle" => \A d \in Dst : ~Pending(d)

\* The events of closed cycles are at or below the target.
Served ==
    \A e \in log, d \in Dst :
        e.cycle = last \/ e.cycle <= target[d] \/ (spc = "target" /\ e.cycle = scyc)

CalmInv == LogInv /\ DriveInv /\ Calm /\ Together /\ Driven /\ Served

\* What is left of the next-state relation when nobody interferes.
Undisturbedly ==
    \/ \E p \in Path : Change(p)
    \/ Overflow \/ RecordBatch
    \/ SchedTick \/ SchedAdvance \/ SchedRead \/ SchedClose \/ SchedTarget \/ SchedGate
    \/ EngList \/ EngSettle \/ EngEnd
    \/ \E c \in Cyc : EngSkip(c) \/ EngBegin(c)
    \/ \E d \in Dst : EngCopy(d) \/ EngFinish(d)
    \/ UNCHANGED vars

\* Without requests, edits, faults, cancels and crashes only the watcher, the
\* scheduler and its runs of the engine take steps.
LEMMA NothingElse ==
  ASSUME Undisturbed, Fanotify, CalmInv, [Next]_vars
  PROVE  Undisturbedly /\ \A k \in Troubles : used'[k] = 0 /\ ~Spend(k)
  <1>1. TypeOK /\ rcyc = 0 /\ Alone /\ Calm
    BY DEF CalmInv, LogInv, DriveInv
  <1>2. ASSUME NEW k \in Troubles PROVE used'[k] = 0 /\ ~Spend(k)
    <2>1. k \in Kinds /\ Never(k) /\ used[k] = 0
      BY <1>1 DEF Troubles, Undisturbed, Calm
    <2>2. used'[k] = 0
      BY <1>1, <2>1, Unused
    <2>3. QED BY <1>1, <2>1, <2>2, Spent
  <1>3. /\ ~Spend("fault") /\ ~Spend("request") /\ ~Spend("cancel") /\ ~Spend("crash")
        /\ ~Spend("pause") /\ ~Spend("switch") /\ ~Spend("move")
    BY <1>2 DEF Troubles, Kinds
  <1>4. ~RecordRead /\ ~RecordInsert /\ ~SchedGap /\ ~Web
    BY <1>1, <1>3 DEF RecordRead, RecordInsert, SchedGap, Web, WebRequest, WebClose, WebTarget,
       WebFlag, ManualGate, Alone
  <1>5. ~EngCancelled /\ ~EngPrefetchCancelled /\ ~EngPrefetchFailed /\ \A c \in Cyc : ~EngSourceGone(c)
    BY <1>1, <1>3 DEF EngCancelled, EngPrefetchCancelled, EngPrefetchFailed, EngSourceGone, Calm
  <1>6. /\ ~CancelRequest /\ ~Crash
        /\ \A d \in Dst : ~TogglePaused(d) /\ ~ToggleEnabled(d) /\ ~MovePath(d) /\ ~ResetOffset(d)
    BY <1>1, <1>3 DEF CancelRequest, Crash, TogglePaused, ToggleEnabled, MovePath, ResetOffset, Calm
  <1>7. Undisturbedly
    BY <1>4, <1>5, <1>6 DEF Next, Watcher, Scheduler, Engine, User, Undisturbedly
  <1>8. QED BY <1>2, <1>7

\* No configuration comes to pause, edit or cancel anything.
LEMMA CalmStep ==
  ASSUME Undisturbed, Fanotify, CalmInv, [Next]_vars
  PROVE  Calm'
  <1>1. Undisturbedly /\ \A k \in Troubles : used'[k] = 0
    BY NothingElse
  <1>2. Alone /\ Calm
    BY DEF CalmInv, DriveInv
  <1>3. /\ paused' = {} /\ resetDue' = {} /\ edited' = {} /\ cancel' = "no"
    BY <1>1, <1>2 DEF Undisturbedly, Calm, Change, Overflow, RecordBatch, SchedTick, SchedAdvance, SchedRead,
       SchedClose, SchedTarget, SchedGate, StartEngine, EngList, EngSettle, EngEnd, ReleaseGate, NoEngine,
       EngSkip, EngBegin, EngCopy, EngFinish, vars
  <1>4. spc' \notin {"idle", "run"} => scfg'.pa = {}
    BY <1>1, <1>2 DEF Undisturbedly, Calm, Alone, Change, Overflow, RecordBatch, SchedTick, LoadConfig, SchedAdvance, SchedRead,
       SchedClose, SchedTarget, SchedGate, StartEngine, EngList, EngSettle, EngEnd, ReleaseGate, NoEngine,
       EngSkip, EngBegin, EngCopy, EngFinish, vars
  <1>5. epc' # "off" => ecfg'.pa = {}
    BY <1>1, <1>2 DEF Undisturbedly, Calm, Alone, Change, Overflow, RecordBatch, SchedTick, SchedAdvance, SchedRead,
       SchedClose, SchedTarget, SchedGate, StartEngine, EngList, EngSettle, EngEnd, ReleaseGate, NoEngine,
       EngSkip, EngBegin, EngCopy, EngFinish, vars
  <1>6. QED BY <1>1, <1>3, <1>4, <1>5 DEF Calm


\* The rows of the offsets are numbers below the open cycle.
LEMMA Numbers ==
  ASSUME TypeOK, CycleInv
  PROVE  /\ last \in Nat /\ target \in [Dst -> Cyc0] /\ verified \in [Dst -> Cyc0]
         /\ \A d \in Dst : /\ target[d] \in Nat /\ verified[d] \in Nat
                           /\ target[d] < last /\ verified[d] < last
         /\ \A d \in Dst : target[d] # 0 => target[d] \in Cyc
  BY CycleConstants DEF TypeOK, DbTypeOK, CycleInv, Cyc, Cyc0

\* What a decision of the scheduler makes due, it makes due everywhere.
LEMMA AllDue ==
  ASSUME Realtime = Dst, CalmInv, SchedAdvance, spc' = "read"
  PROVE  sdue' = Dst
  <1>1. /\ \A d \in Dst : target[d] \in Nat /\ verified[d] \in Nat
        /\ scfg.en = Dst /\ scfg.pa = {} /\ \A d \in Dst : ~Pending(d)
        /\ \A d, e \in Dst : target[d] = target[e]
        /\ \A d \in Dst : verified[d] <= target[d]
    BY Numbers DEF SchedAdvance, CalmInv, LogInv, DriveInv, Alone, Calm, Together
  <1>2. PICK passed \in SUBSET (Dst \ Realtime) :
           LET D == {d \in Dst : Due(d, passed)} IN (D # {} \/ HasEvents(last)) /\ sdue' = D
    BY DEF SchedAdvance
  <1>3. CASE HasEvents(last)
    BY <1>1, <1>2, <1>3 DEF Due
  <1>4. CASE ~HasEvents(last)
    <2>1. PICK d \in Dst : Due(d, passed)
      BY <1>2, <1>4
    <2>2. target[d] = 0 /\ verified[d] = 0
      BY <1>2, <1>4, <2>1 DEF Due
    <2>3. \A x \in Dst : target[x] = 0 /\ verified[x] = 0
      BY <1>1, <2>2
    <2>4. QED BY <1>1, <1>2, <2>3 DEF Due
  <1>5. QED BY <1>3, <1>4

\* The cycle the scheduler closes is the newest, and a new one follows it.
LEMMA ClosesNewest ==
  ASSUME CalmInv, SchedClose
  PROVE  scyc = last /\ last' = last + 1
  <1>1. scyc = last /\ cstat[last] = "open"
    BY DEF SchedClose, CalmInv, LogInv, DriveInv, Handover, CycleInv
  <1>2. QED BY <1>1 DEF SchedClose, CloseCycle

\* A pass that nothing disturbs verifies its destination for what it targets.
LEMMA FinishServes ==
  ASSUME CalmInv, NEW x \in Dst, EngFinish(x)
  PROVE  /\ x \in ready /\ target[x] = ecyc
         /\ FinishVerified(x) /\ verified' = [verified EXCEPT ![x] = target[x]]
         /\ UNCHANGED <<target, last, ecyc, ecfg, todo, spc, scyc, sdue>>
         /\ ready' = ready \ {x}
         /\ epc' = IF ready' = {} THEN "settle" ELSE "copy"
  <1>1. out = "ok" /\ x \in ready /\ target[x] = ecyc
    BY DEF EngFinish, CalmInv, DriveInv, Driving, Driven
  <1>2. FinishVerified(x)
    BY <1>1 DEF EngFinish
  <1>3. QED BY <1>1, <1>2 DEF EngFinish, FinishVerified

\* A pass that nothing disturbs takes up every destination that has work.
LEMMA BeginServes ==
  ASSUME Undisturbed, Fanotify, CalmInv, [Next]_vars, NEW c \in Cyc, EngBegin(c)
  PROVE  /\ ecyc' = c /\ UNCHANGED <<target, last, todo, spc, scyc, sdue>>
         /\ \A d \in Dst : target[d] = c
         /\ ready' = {d \in Dst : verified[d] < c}
         /\ verified' = [d \in Dst |-> IF verified[d] < c THEN verified[d] ELSE c]
         /\ epc' = IF ready' = {} THEN "settle" ELSE "copy"
  <1>1. /\ ecfg.en = Dst /\ ecfg.pa = {} /\ ~Spend("fault")
        /\ \A d \in Dst : target[d] \in Nat /\ verified[d] \in Nat
        /\ \A d, e \in Dst : target[d] = target[e]
    <2>1. TypeOK /\ CycleInv /\ Alone /\ Calm /\ Together
      BY DEF CalmInv, LogInv, DriveInv
    <2>2. "fault" \in Troubles
      BY DEF Troubles, Kinds
    <2>3. ~Spend("fault")
      BY <2>2, NothingElse
    <2>4. QED BY <2>1, <2>3, Numbers DEF EngBegin, Alone, Calm, Together
  <1>2. \A d \in Dst : target[d] = c
    BY <1>1 DEF EngBegin, HasTarget
  <1> DEFINE T == {d \in ecfg.en : target[d] = c}
             Fin == {d \in T : verified[d] >= c}
             Held == (T \ Fin) \intersect ecfg.pa
  <1>3. T = Dst /\ Held = {} /\ Fin = {d \in Dst : verified[d] >= c}
    BY <1>1, <1>2
  <1>4. PICK Gated \in SUBSET (T \ (Fin \union Held)) :
        \E Off \in SUBSET (T \ (Fin \union Held \union Gated)) :
           LET R == T \ (Fin \union Held \union Gated \union Off)
           IN  /\ SpendIf(Gated \union Off # {})
               /\ verified' = [d \in Dst |-> IF d \in Fin THEN c ELSE verified[d]]
               /\ ready' = R
               /\ epc' = IF R = {} THEN "settle" ELSE "copy"
    BY DEF EngBegin
  <1>5. PICK Off \in SUBSET (T \ (Fin \union Held \union Gated)) :
           LET R == T \ (Fin \union Held \union Gated \union Off)
           IN  /\ SpendIf(Gated \union Off # {})
               /\ verified' = [d \in Dst |-> IF d \in Fin THEN c ELSE verified[d]]
               /\ ready' = R
               /\ epc' = IF R = {} THEN "settle" ELSE "copy"
    BY <1>4
  <1>6. Gated = {} /\ Off = {}
    BY <1>1, <1>5 DEF SpendIf
  <1>7. /\ ready' = Dst \ Fin
        /\ verified' = [d \in Dst |-> IF d \in Fin THEN c ELSE verified[d]]
        /\ epc' = IF ready' = {} THEN "settle" ELSE "copy"
    BY <1>3, <1>5, <1>6
  <1>8. c \in Nat
    BY CycleConstants DEF Cyc
  <1>9. /\ ready' = {d \in Dst : verified[d] < c}
        /\ verified' = [d \in Dst |-> IF verified[d] < c THEN verified[d] ELSE c]
    BY <1>1, <1>3, <1>7, <1>8
  <1>10. QED BY <1>2, <1>7, <1>9 DEF EngBegin

\* The destinations stay together: whatever becomes due, is targeted or is
\* verified, all of them do.
LEMMA TogetherStep ==
  ASSUME Undisturbed, Fanotify, Realtime = Dst, CalmInv, [Next]_vars
  PROVE  Together'
  <1>1. /\ Undisturbedly /\ Alone /\ Handover /\ Driving /\ Together /\ Driven
        /\ TypeOK /\ CycleInv
    BY NothingElse DEF CalmInv, LogInv, DriveInv
  <1>2. /\ last \in Nat
        /\ \A d \in Dst : /\ target[d] \in Nat /\ verified[d] \in Nat
                          /\ target[d] < last /\ verified[d] < last
    BY <1>1, Numbers
  <1> USE <1>1, <1>2 DEF Together, Pending
  <1>3. CASE SchedTick
    BY <1>3 DEF SchedTick, Alone, SignatureChanged
  <1>4. CASE SchedAdvance
    BY <1>4, AllDue DEF SchedAdvance
  <1>5. CASE SchedRead
    BY <1>5 DEF SchedRead
  <1>6. CASE SchedClose
    BY <1>6, ClosesNewest DEF SchedClose
  <1>7. CASE SchedTarget
    <2>1. sdue = Dst /\ scyc = last - 1 /\ spc' = "gate" /\ UNCHANGED verified
      BY <1>7 DEF SchedTarget
    <2>2. target' = [d \in Dst |-> scyc]
      BY <1>7, <2>1 DEF SchedTarget, SetTargets
    <2>3. QED BY <2>1, <2>2
  <1>8. CASE SchedGate
    BY <1>8 DEF SchedGate, StartEngine
  <1>9. CASE EngEnd
    <2>1. \A d \in Dst : ~Pending(d)
      BY <1>9 DEF EngEnd, Driven
    <2>2. /\ UNCHANGED <<target, verified>> /\ spc = "run"
          /\ spc' = "idle" \/ (spc' = spc /\ epc' = "list")
      BY <1>9 DEF EngEnd, ReleaseGate, Alone
    <2>3. QED BY <2>1, <2>2
  <1>10. ASSUME NEW c \in Cyc, EngBegin(c) PROVE Together'
    <2>1. /\ epc' # "off" /\ epc # "off" /\ spc = "run"
      BY <1>10, BeginServes DEF EngBegin, Alone
    <2>2. c \in Nat
      BY CycleConstants DEF Cyc
    <2>3. QED BY <1>10, <2>1, <2>2, BeginServes
  <1>11. ASSUME NEW x \in Dst, EngFinish(x) PROVE Together'
    <2>1. /\ epc' # "off" /\ epc # "off" /\ spc = "run"
      BY <1>11, FinishServes DEF EngFinish, Alone
    <2>2. /\ UNCHANGED <<target, spc, scyc, sdue, last>>
          /\ verified' = [verified EXCEPT ![x] = target[x]] /\ verified \in [Dst -> Cyc0]
      BY <1>11, FinishServes DEF TypeOK, DbTypeOK
    <2>3. QED BY <2>1, <2>2
  <1>12. CASE /\ UNCHANGED <<target, verified, spc, scyc, sdue, last>>
              /\ epc = "off" <=> epc' = "off"
    BY <1>12
  <1>13. QED
    BY <1>3, <1>4, <1>5, <1>6, <1>7, <1>8, <1>9, <1>10, <1>11, <1>12 DEF Undisturbedly, vars, Change,
       Overflow, RecordBatch, EngList, EngSettle, EngSkip, EngCopy

\* A run lists the cycle everybody targets, and its pass takes everybody up.
LEMMA DrivenStep ==
  ASSUME Undisturbed, Fanotify, Realtime = Dst, CalmInv, [Next]_vars
  PROVE  Driven'
  <1>1. /\ Undisturbedly /\ Alone /\ Handover /\ Driving /\ Together /\ Driven
        /\ TypeOK /\ CycleInv /\ PendingIsListed
    BY NothingElse DEF CalmInv, LogInv, DriveInv
  <1>2. /\ last \in Nat
        /\ \A d \in Dst : target[d] \in Nat /\ verified[d] \in Nat
        /\ \A d \in Dst : target[d] # 0 => target[d] \in Cyc
    BY <1>1, Numbers
  <1> USE <1>1, <1>2 DEF Driven, Pending
  <1>3. CASE SchedTarget \/ SchedGate
    BY <1>3 DEF SchedTarget, SchedGate, StartEngine, Alone
  <1>4. CASE EngList
    BY <1>4 DEF EngList, PendingIsListed, Alone
  <1>5. ASSUME NEW c \in Cyc, EngSkip(c) PROVE Driven'
    BY <1>5 DEF EngSkip, HasTarget
  <1>6. ASSUME NEW c \in Cyc, EngBegin(c) PROVE Driven'
    <2>1. c \in Nat
      BY CycleConstants DEF Cyc
    <2>2. epc' \in {"copy", "settle"}
      BY <1>6, BeginServes
    <2>3. QED BY <1>6, <2>1, <2>2, BeginServes
  <1>7. ASSUME NEW x \in Dst, EngCopy(x) PROVE Driven'
    <2>1. out' = "ok"
      <3>1. "fault" \in Troubles /\ "cancel" \in Troubles
        BY DEF Troubles, Kinds
      <3>2. ~Spend("fault") /\ cancel = "no"
        BY <3>1, NothingElse DEF CalmInv, Calm
      <3>3. QED BY <1>7, <3>2 DEF EngCopy
    <2>2. UNCHANGED <<target, verified, ready, ecyc>> /\ epc = "copy" /\ epc' = "finish"
      BY <1>7 DEF EngCopy
    <2>3. QED BY <2>1, <2>2
  <1>8. ASSUME NEW x \in Dst, EngFinish(x) PROVE Driven'
    <2>1. /\ UNCHANGED <<target, ecyc>> /\ epc = "finish" /\ ready' = ready \ {x}
          /\ epc' = IF ready' = {} THEN "settle" ELSE "copy"
          /\ verified' = [verified EXCEPT ![x] = target[x]] /\ verified \in [Dst -> Cyc0]
      BY <1>8, FinishServes DEF TypeOK, DbTypeOK, EngFinish
    <2>2. \A d \in Dst : Pending(d)' => Pending(d) /\ d # x
      BY <2>1
    <2>3. QED BY <2>1, <2>2
  <1>9. CASE EngSettle
    BY <1>9 DEF EngSettle
  <1>10. CASE EngEnd
    BY <1>10 DEF EngEnd, ReleaseGate, NoEngine
  <1>11. CASE UNCHANGED <<epc, target, verified, todo, ready, ecyc, out>>
    BY <1>11
  <1>12. QED
    BY <1>3, <1>4, <1>5, <1>6, <1>7, <1>8, <1>9, <1>10, <1>11 DEF Undisturbedly, vars, Change,
       Overflow, RecordBatch, SchedTick, SchedAdvance, SchedRead, SchedClose

\* Events enter the open cycle only, and a closed one is targeted next.
LEMMA ServedStep ==
  ASSUME Undisturbed, Fanotify, Realtime = Dst, CalmInv, [Next]_vars
  PROVE  Served'
  <1>1. /\ Undisturbedly /\ Alone /\ Handover /\ Together /\ Served
        /\ TypeOK /\ CycleInv
    BY NothingElse DEF CalmInv, LogInv, DriveInv
  <1>2. /\ last \in Nat
        /\ \A d \in Dst : target[d] \in Nat /\ target[d] < last
        /\ \A e \in log : e.cycle \in Nat
    BY <1>1, Numbers, CycleConstants DEF TypeOK, DbTypeOK, Cyc
  <1> USE <1>1, <1>2 DEF Served
  <1>3. CASE RecordBatch
    BY <1>3 DEF RecordBatch, Inserted
  <1>4. CASE SchedClose
    BY <1>4, ClosesNewest DEF SchedClose, Together
  <1>5. CASE SchedTarget
    <2>1. sdue = Dst /\ scyc = last - 1 /\ spc' = "gate" /\ UNCHANGED <<log, last>>
      BY <1>5 DEF SchedTarget, Together
    <2>2. target' = [d \in Dst |-> scyc]
      BY <1>5, <2>1 DEF SchedTarget, SetTargets
    <2>3. QED BY <2>1, <2>2
  <1>6. ASSUME NEW x \in Dst, EngFinish(x) PROVE Served'
    <2>1. UNCHANGED <<target, last, spc, scyc>> /\ log' = log \union Inserted(chg, last)
      BY <1>6, FinishServes DEF FinishVerified
    <2>2. QED BY <2>1 DEF Inserted
  <1>7. CASE EngEnd
    BY <1>7 DEF EngEnd, ReleaseGate, Alone
  <1>8. CASE /\ UNCHANGED <<log, target, last>>
             /\ spc = "target" => spc' = "target" /\ scyc' = scyc
    BY <1>8
  <1>9. QED
    BY <1>3, <1>4, <1>5, <1>6, <1>7, <1>8 DEF Undisturbedly, vars, Change, Overflow, SchedTick,
       SchedAdvance, SchedRead, SchedGate, EngList, EngSettle, EngSkip, EngBegin, EngCopy

\* Every step of such a host keeps the whole invariant.
LEMMA CalmInvStep ==
  ASSUME Undisturbed, Fanotify, Realtime = Dst, CalmInv, [Next]_vars
  PROVE  CalmInv'
  <1>1. Never("request") /\ Never("switch") /\ NoGapRace
    BY DEF Undisturbed, Troubles, Kinds, Never, NoGapRace
  <1>2. LogInv'
    BY <1>1, LogStep DEF CalmInv
  <1>3. DriveInv'
    BY <1>1, DriveStep DEF CalmInv
  <1>4. QED BY <1>2, <1>3, CalmStep, TogetherStep, DrivenStep, ServedStep DEF CalmInv

\* Where every destination is realtime and nobody interferes, a green dot
\* tells the truth: once no open cycle and no pass in progress holds an event,
\* everything persisted has been applied to the destination it stands for
\* (advance_due_destination_targets, close_current_cycle_for_source,
\* destination_views), for any number of destinations, paths, changes and
\* overflows.
THEOREM GreenMeansApplied ==
  ASSUME Undisturbed, Fanotify, Realtime = Dst
  PROVE  Spec => []GreenRealtimeIsApplied
  <1>1. ASSUME Init PROVE CalmInv
    <2>1. LogInv /\ DriveInv
      BY <1>1, LogInitially, DriveInitially
    <2>2. Calm /\ Together
      BY <1>1 DEF Init, Calm, Together, Troubles, Kinds, Pending
    <2>3. Driven /\ Served
      BY <1>1 DEF Init, Driven, Served
    <2>4. QED BY <2>1, <2>2, <2>3 DEF CalmInv
  <1>2. CalmInv /\ [Next]_vars => CalmInv'
    BY CalmInvStep
  <1>3. ASSUME CalmInv PROVE GreenRealtimeIsApplied
    <2> SUFFICES ASSUME NEW d \in Dst, Green(d), spc \in {"idle", "advance"}, ~HasEvents(last),
                        NEW p \in dirty[d]
                 PROVE  p \in missed \/ {p, Rescan} \intersect Unrecorded # {}
      BY DEF GreenRealtimeIsApplied
    <2>1. TypeOK /\ CycleInv /\ NoLostChange /\ Calm /\ Served
      BY <1>3 DEF CalmInv, LogInv
    <2>2. verified[d] \in Nat /\ target[d] \in Nat /\ target[d] <= verified[d] /\ verified[d] # 0
      BY <2>1, Numbers DEF Green
    <2>3. Announced(d, p)
      BY <2>1, <2>2 DEF NoLostChange, Calm
    <2>4. ASSUME NEW e \in log PROVE ~(verified[d] < e.cycle)
      <3>1. e.cycle \in Nat /\ e.cycle # last
        BY <2>1, CycleConstants DEF HasEvents, TypeOK, DbTypeOK, Cyc
      <3>2. e.cycle <= target[d]
        BY <2>1, <3>1 DEF Served
      <3>3. QED BY <2>2, <3>1, <3>2
    <2>5. QED BY <2>3, <2>4 DEF Announced, Beyond
  <1>4. QED BY <1>1, <1>2, <1>3, PTL DEF Spec

=============================================================================
