--------------------------- MODULE WatchersProofs ---------------------------
(***************************************************************************)
(* Proofs about Watchers, for every kind of host, every capacity of the    *)
(* queue of the kernel and every budget of environment steps.              *)
(***************************************************************************)
EXTENDS Watchers, FiniteSetTheorems, SequenceTheorems, TLAPS

USE WatchersAssumption DEF dbVars, schedVars, sigVars, fanVars, winVars, history

-----------------------------------------------------------------------------
(* Type correctness, in the parts the steps disturb. *)

FanPc == {"off", "setup", "degraded", "read", "persist", "dying", "backoff"}
UsnPc == {"rebase", "check", "reset", "uread", "upersist", "requery", "setcur"}
DirPc == {"dopen", "dfirst", "dtop", "dread", "dpersist", "dfail", "retry"}

Journals == [jid : Nat \ {0}, low : Nat, recs : Seq(Path)]
Sessions == [jid : Nat, next : Nat, tip : Nat, todo : Seq(Path), rebuild : BOOLEAN]

SourceType ==
    /\ host \in Host /\ made \in BOOLEAN /\ stale \subseteq Path /\ dirty \subseteq Path
    /\ journal \in Journals
    /\ budget \in [Env -> Nat]

RowsType == log \in Rows /\ taken \in Rows /\ batch \in Rows

FlagType ==
    /\ fresh \in BOOLEAN /\ notice \in BOOLEAN /\ wake \in BOOLEAN /\ owes \in BOOLEAN
    /\ armed \in BOOLEAN /\ stop \in BOOLEAN /\ over \in BOOLEAN /\ sticky \in BOOLEAN
    /\ reported \in BOOLEAN

ThreadType ==
    /\ sched \in {"down", "boot", "top", "join", "rearm", "sync", "wait"}
    /\ pass \in {"idle", "sched", "manual"} /\ (sched = "sync" <=> pass = "sched")
    /\ known \in {"new", "yes", "blind", "lost"}

QueueType == queue \subseteq Path /\ Cardinality(queue) <= Cap

\* The journal only moves on: a session and the cursor are of it or of an older one
UsnType ==
    /\ usn \in Sessions /\ usn.jid <= journal.jid
    /\ InSession => usn.jid >= 1
    /\ cursor = None \/ (cursor \in [jid : Nat \ {0}, next : Nat] /\ cursor.jid <= journal.jid)

HistoryType == downtime \subseteq stale /\ unheard \subseteq stale /\ dropped \subseteq stale

TypeInv == SourceType /\ RowsType /\ FlagType /\ ThreadType /\ QueueType /\ UsnType /\ HistoryType

\* The strengthened type invariant implies the one the runs check.
LEMMA TypeInvTypes == TypeInv => TypeOK
  <1> SUFFICES ASSUME TypeInv PROVE TypeOK
    OBVIOUS
  <1> USE DEF TypeInv, SourceType, RowsType, FlagType, ThreadType, QueueType, UsnType, HistoryType
  <1>1. cursor # None => cursor.jid \in 1 .. journal.jid /\ cursor.next \in Nat
    BY DEF Journals
  <1>2. usn.next \in Nat /\ usn.tip \in Nat /\ usn.todo \in Seq(Path)
    BY DEF Sessions
  <1>3. {fresh, notice, wake, owes, armed, stop, over, sticky, reported} \subseteq BOOLEAN
    BY DEF FlagType
  <1>4. (sched = "sync") = (pass = "sched")
    BY DEF ThreadType
  <1>5. downtime \cup unheard \cup dropped \subseteq stale
    BY DEF HistoryType
  <1>6. QED BY <1>1, <1>2, <1>3, <1>4, <1>5 DEF TypeOK

\* Before the process is started everything is empty.
LEMMA InitType == Init => TypeInv
  <1> SUFFICES ASSUME Init PROVE TypeInv
    OBVIOUS
  <1> USE DEF Init
  <1>1. SourceType BY DEF SourceType, Journals
  <1>2. RowsType BY DEF RowsType, Rows, NoRows
  <1>3. FlagType /\ ThreadType /\ HistoryType BY DEF FlagType, ThreadType, HistoryType
  <1>4. QueueType BY FS_EmptySet DEF QueueType
  <1>5. UsnType BY DEF UsnType, Sessions, NoUsn, InSession
  <1>6. QED BY <1>1, <1>2, <1>3, <1>4, <1>5 DEF TypeInv

\* Spending a step leaves a budget of natural numbers.
LEMMA SpendType ==
  ASSUME budget \in [Env -> Nat], NEW k \in Env, Spend(k)
  PROVE  budget' \in [Env -> Nat]
  BY DEF Spend

\* What the file system does to the journal leaves a journal.
LEMMA JournalGrows ==
  ASSUME NEW j \in Journals, NEW p \in Path
  PROVE  /\ [j EXCEPT !.recs = Append(@, p)] \in Journals
         /\ [j EXCEPT !.recs = Append(@, p)].jid = j.jid
         /\ [j EXCEPT !.recs = Append(@, p)].low = j.low
         /\ [j EXCEPT !.recs = Append(@, p)].recs = Append(j.recs, p)
  <1>1. Append(j.recs, p) \in Seq(Path)
    BY DEF Journals
  <1>2. QED BY <1>1 DEF Journals

\* Dropping the oldest record leaves a journal.
LEMMA JournalShrinks ==
  ASSUME NEW j \in Journals, j.recs # <<>>
  PROVE  /\ [j EXCEPT !.low = @ + 1, !.recs = Tail(@)] \in Journals
         /\ [j EXCEPT !.low = @ + 1, !.recs = Tail(@)].jid = j.jid
         /\ [j EXCEPT !.low = @ + 1, !.recs = Tail(@)].low = j.low + 1
         /\ [j EXCEPT !.low = @ + 1, !.recs = Tail(@)].recs = Tail(j.recs)
  <1>1. Tail(j.recs) \in Seq(Path)
    BY DEF Journals
  <1>2. j.low + 1 \in Nat
    BY DEF Journals
  <1>3. QED BY <1>1, <1>2 DEF Journals

\* So does creating it again, under a new number.
LEMMA JournalReplaced ==
  ASSUME NEW j \in Journals
  PROVE  [jid |-> j.jid + 1, low |-> 0, recs |-> <<>>] \in Journals
  <1>1. j.jid + 1 \in Nat \ {0}
    BY DEF Journals
  <1>2. QED BY <1>1 DEF Journals

\* What a read of fanotify makes of its events and of Dir.
LEMMA Reading ==
  ASSUME TypeInv, FanRead
  PROVE  /\ known' \in {"new", "yes", "blind", "lost"}
         /\ ByFid /\ Dir \in queue => known' \in {"yes", "blind"}
         /\ ~(ByFid /\ Dir \in queue) => known' = known \/ known' = "yes"
         /\ batch' \in Rows /\ batch'.paths = queue \ Unresolved /\ (over => batch'.rescan)
         /\ budget' \in [Env -> Nat]
  <1> DEFINE S == IF ByFid /\ Dir \in queue THEN Tracked ELSE Kept
  <1>1. PICK m \in S :
          /\ known' = m[1]
          /\ batch' = [paths |-> queue \ Unresolved, rescan |-> over \/ m[2]]
          /\ IF m[2] THEN Spend("die") ELSE UNCHANGED budget
    BY DEF FanRead
  <1>2. /\ \/ ~(ByFid /\ Dir \in queue) /\ m = <<known, FALSE>>
           \/ m = <<"yes", FALSE>>
           \/ (ByFid /\ Dir \in queue) /\ (m = <<"blind", FALSE>> \/ m = <<"blind", TRUE>>)
    <2>1. CASE ByFid /\ Dir \in queue
      BY <1>1, <2>1 DEF Tracked
    <2>2. CASE ~(ByFid /\ Dir \in queue)
      BY <1>1, <2>2 DEF Kept
    <2>3. QED BY <2>1, <2>2
  <1>3. /\ <<known, FALSE>>[1] = known /\ <<known, FALSE>>[2] = FALSE
        /\ <<"yes", FALSE>>[1] = "yes" /\ <<"yes", FALSE>>[2] = FALSE
        /\ <<"blind", FALSE>>[1] = "blind" /\ <<"blind", FALSE>>[2] = FALSE
        /\ <<"blind", TRUE>>[1] = "blind" /\ <<"blind", TRUE>>[2] = TRUE
    OBVIOUS
  <1> HIDE DEF S
  <1>4. /\ \/ ~(ByFid /\ Dir \in queue) /\ m[1] = known
           \/ m[1] = "yes"
           \/ (ByFid /\ Dir \in queue) /\ m[1] = "blind"
        /\ m[2] \in BOOLEAN
    BY <1>2, <1>3
  <1>5. budget' \in [Env -> Nat]
    BY <1>1, SpendType DEF TypeInv, SourceType, Env
  <1>6. batch' \in Rows
    BY <1>1, <1>4 DEF TypeInv, QueueType, Rows
  <1>7. batch'.paths = queue \ Unresolved /\ (over => batch'.rescan)
    BY <1>1
  <1>8. QED BY <1>1, <1>4, <1>5, <1>6, <1>7 DEF TypeInv, ThreadType

\* The host, and whether Dir was ever made, are settled for good.
LEMMA SourceStep == ASSUME TypeInv, [Next]_vars PROVE SourceType'
  <1> USE SpendType DEF TypeInv, SourceType, Env
  <1>1. ASSUME NEW p \in Path, NEW k \in {"content", "entry"}, Change(p, k) PROVE SourceType'
    <2>1. journal' \in Journals
      BY <1>1, JournalGrows DEF Change
    <2>2. QED BY <1>1, <2>1 DEF Change
  <1>2. CASE JournalTrimmed
    BY <1>2, JournalShrinks DEF JournalTrimmed
  <1>3. CASE JournalRecreated
    BY <1>3, JournalReplaced DEF JournalRecreated
  <1>4. CASE PassDone
    BY <1>4 DEF PassDone, PassOver
  <1>5. CASE PassFails
    BY <1>5 DEF PassFails, PassOver
  <1>6. CASE Crash
    BY <1>6 DEF Crash
  <1>7. CASE PassStart \/ ManualStart
    BY <1>7 DEF PassStart, ManualStart, Take
  <1>8. CASE FanDegrade \/ FanRead \/ FanPersist \/ FanFails \/ FanGap \/ UsnEnds \/ DirEnds
             \/ DirReport \/ Reconfigure \/ Rearmed \/ BootArmed
    <2>1. budget' \in [Env -> Nat]
      BY <1>8, Reading DEF FanDegrade, FanPersist, FanFails, FanGap, UsnEnds, DirEnds,
         DirReport, Reconfigure, Rearmed, RearmGap, BootArmed, RaiseNotice
    <2>2. UNCHANGED <<host, made, stale, dirty, journal>>
      BY <1>8 DEF FanDegrade, FanRead, FanPersist, FanFails, FanEnds, FanGap, UsnEnds, DirEnds,
         DirClosed, DirReport, Reconfigure, Rearmed, BootArmed
    <2>3. QED BY <2>1, <2>2
  <1>9. CASE UNCHANGED <<host, made, stale, dirty, journal, budget>>
    BY <1>9
  <1>10. QED
    BY <1>1, <1>2, <1>3, <1>4, <1>5, <1>6, <1>7, <1>8, <1>9 DEF Next, Watcher, Scheduler, World,
       Fan, Usn, WinDir, vars, Notify, FanSetup, FanMark, FanStop, FanEnds, FanRestart, UsnOpen,
       UsnRebase, UsnCheck, UsnReset, UsnRead, UsnGap, UsnRequery, UsnPersist, UsnBatchEnd,
       UsnSetCursor, SetCursor, DirOpen, DirWait, DirRead, DirPersist, DirStop, DirClosed,
       DirRetry, Boot, BootArmed, Joined, NothingDue, Awake
\* The union of two sets of rows is one.
LEMMA PlusType ==
  ASSUME NEW rows \in Rows, NEW ps \in SUBSET Path, NEW r \in BOOLEAN
  PROVE  Plus(rows, ps, r) \in Rows
  BY DEF Plus, Rows

\* Every step keeps the rows, those a pass has taken and the batch well typed.
LEMMA RowsStep == ASSUME TypeInv, [Next]_vars PROVE RowsType'
  <1> USE PlusType DEF TypeInv, RowsType
  <1>1. NoRows \in Rows
    BY DEF NoRows, Rows
  <1>2. ASSUME NEW rows \in Rows PROVE rows.paths \in SUBSET Path /\ rows.rescan \in BOOLEAN
    BY <1>2 DEF Rows
  <1>3. TRUE \in BOOLEAN /\ FALSE \in BOOLEAN /\ {} \in SUBSET Path
    OBVIOUS
  <1>4. CASE FanSetup \/ FanMark
    BY <1>4, <1>1 DEF FanSetup, FanMark
  <1>5. CASE FanDegrade \/ FanGap
    BY <1>5, <1>3 DEF FanDegrade, FanGap, Record
  <1>6. CASE FanRead
    BY <1>6, Reading DEF FanRead
  <1>7. CASE FanPersist
    <2>1. (batch.rescan \/ sticky) \in BOOLEAN
      OBVIOUS
    <2>2. log' \in Rows
      BY <1>7, <1>2, <2>1 DEF FanPersist, Record
    <2>3. QED BY <1>7, <1>1, <2>2 DEF FanPersist
  <1>8. CASE FanStop \/ FanFails
    BY <1>8, <1>1 DEF FanStop, FanFails, FanEnds
  <1>9. CASE UsnOpen
    BY <1>9, <1>3 DEF UsnOpen, Record
  <1>10. CASE UsnCheck
    BY <1>10, <1>3 DEF UsnCheck, Record
  <1>11. CASE UsnPersist
    <2>1. Head(usn.todo) \in Path
      BY <1>11 DEF UsnPersist, UsnType, Sessions
    <2>2. QED BY <1>11, <1>3, <2>1 DEF UsnPersist, Record
  <1>12. CASE DirOpen \/ DirStop \/ DirEnds
    BY <1>12, <1>1 DEF DirOpen, DirStop, DirEnds, DirClosed
  <1>13. CASE DirRead
    <2>1. [NoRows EXCEPT !.paths = queue] \in Rows
      BY DEF NoRows, Rows, QueueType
    <2>2. QED BY <1>13, <1>3, <2>1 DEF DirRead, Record
  <1>14. CASE DirPersist
    <2>1. PICK p \in batch.paths : Record({p}, FALSE) /\ batch' = [batch EXCEPT !.paths = @ \ {p}]
      BY <1>14 DEF DirPersist
    <2>2. p \in Path
      BY <1>2
    <2>3. log' \in Rows
      BY <1>3, <2>1, <2>2 DEF Record
    <2>4. batch' \in Rows
      BY <2>1 DEF Rows
    <2>5. QED BY <1>14, <2>3, <2>4 DEF DirPersist
  <1>15. CASE DirReport
    BY <1>15, <1>3 DEF DirReport, Record
  <1>16. CASE Rearmed
    BY <1>16, <1>3 DEF Rearmed, RearmGap
  <1>17. CASE PassStart \/ ManualStart
    BY <1>17, <1>1 DEF PassStart, ManualStart, Take
  <1>18. CASE PassDone
    BY <1>18, <1>1 DEF PassDone, PassOver
  <1>19. CASE PassFails
    BY <1>19, <1>1, <1>2 DEF PassFails, PassOver
  <1>20. CASE Crash
    BY <1>20, <1>1, <1>2 DEF Crash
  <1>21. CASE UNCHANGED <<log, taken, batch>>
    BY <1>21
  <1>22. QED
    BY <1>4, <1>5, <1>6, <1>7, <1>8, <1>9, <1>10, <1>11, <1>12, <1>13, <1>14, <1>15, <1>16,
       <1>17, <1>18, <1>19, <1>20, <1>21 DEF Next, Watcher, Scheduler, World, Fan, Usn, WinDir,
       vars, Notify, FanRestart, UsnRebase, UsnReset, UsnRead, UsnGap, UsnRequery, UsnBatchEnd,
       UsnSetCursor, SetCursor, UsnEnds, DirWait, DirRetry, Boot, BootArmed, Reconfigure, Joined,
       NothingDue, Awake, Change, JournalTrimmed, JournalRecreated

\* Every step keeps the flags Boolean.
LEMMA FlagStep == ASSUME TypeInv, [Next]_vars PROVE FlagType'
  <1> USE DEF TypeInv, FlagType
  <1>1. CASE FanSetup \/ FanMark
    BY <1>1 DEF FanSetup, FanMark
  <1>2. CASE FanDegrade \/ FanGap
    BY <1>2 DEF FanDegrade, FanGap, Record
  <1>3. CASE FanRead \/ FanPersist
    BY <1>3 DEF FanRead, FanPersist, Record
  <1>4. CASE FanStop \/ FanFails
    BY <1>4 DEF FanStop, FanFails, FanEnds
  <1>5. CASE UsnOpen \/ UsnCheck
    BY <1>5 DEF UsnOpen, UsnCheck, Record
  <1>6. CASE UsnPersist \/ UsnGap
    BY <1>6 DEF UsnPersist, UsnGap, Record
  <1>7. CASE DirOpen \/ DirStop \/ DirEnds
    BY <1>7 DEF DirOpen, DirStop, DirEnds, DirClosed
  <1>8. CASE DirRead \/ DirPersist
    BY <1>8 DEF DirRead, DirPersist, Record
  <1>9. CASE DirReport
    BY <1>9 DEF DirReport, Record
  <1>10. CASE Notify
    BY <1>10 DEF Notify
  <1>11. CASE Boot \/ Joined
    BY <1>11 DEF Boot, Joined, StartWatcher
  <1>12. CASE BootArmed
    <2>1. (notice \/ Fanotify) \in BOOLEAN
      OBVIOUS
    <2>2. QED BY <1>12, <2>1 DEF BootArmed, RaiseNotice
  <1>13. CASE Reconfigure
    BY <1>13 DEF Reconfigure
  <1>14. CASE Rearmed
    BY <1>14 DEF Rearmed, RearmGap
  <1>15. CASE PassStart \/ ManualStart
    BY <1>15 DEF PassStart, ManualStart, Take
  <1>16. CASE PassDone \/ PassFails
    BY <1>16 DEF PassDone, PassFails, PassOver, EnterWait
  <1>17. CASE NothingDue \/ Awake
    BY <1>17 DEF NothingDue, Awake, EnterWait
  <1>18. CASE Crash
    BY <1>18 DEF Crash
  <1>19. ASSUME NEW p \in Path, NEW k \in {"content", "entry"}, Change(p, k) PROVE FlagType'
    BY <1>19 DEF Change, Heard
  <1>20. CASE UNCHANGED <<fresh, notice, wake, owes, armed, stop, over, sticky, reported>>
    BY <1>20
  <1>21. QED
    BY <1>1, <1>2, <1>3, <1>4, <1>5, <1>6, <1>7, <1>8, <1>9, <1>10, <1>11, <1>12, <1>13, <1>14,
       <1>15, <1>16, <1>17, <1>18, <1>19, <1>20 DEF Next, Watcher, Scheduler, World, Fan, Usn,
       WinDir, vars, FanRestart, UsnRebase, UsnReset, UsnRead, UsnRequery, UsnBatchEnd,
       UsnSetCursor, SetCursor, UsnEnds, DirWait, DirRetry, JournalTrimmed, JournalRecreated

\* Every step keeps the state of the scheduler and of the marks well typed.
LEMMA ThreadStep == ASSUME TypeInv, [Next]_vars PROVE ThreadType'
  <1> USE DEF TypeInv, ThreadType
  <1>1. ASSUME NEW p \in Path, NEW k \in {"content", "entry"}, Change(p, k) PROVE ThreadType'
    BY <1>1 DEF Change, Heard, Untracked
  <1>2. CASE FanSetup \/ UsnOpen \/ UsnCheck \/ UsnRequery \/ UsnBatchEnd
    BY <1>2 DEF FanSetup, UsnOpen, UsnCheck, UsnRequery, UsnBatchEnd
  <1>3. CASE FanRead
    BY <1>3, Reading DEF FanRead
  <1>4. CASE Boot \/ BootArmed \/ Reconfigure \/ Joined \/ Rearmed
    BY <1>4 DEF Boot, BootArmed, Reconfigure, Joined, Rearmed, StartWatcher
  <1>5. CASE PassStart \/ ManualStart
    BY <1>5 DEF PassStart, ManualStart, Take, Up
  <1>6. CASE PassDone \/ PassFails
    BY <1>6 DEF PassDone, PassFails, PassOver, EnterWait
  <1>7. CASE NothingDue \/ Awake
    BY <1>7 DEF NothingDue, Awake, EnterWait
  <1>8. CASE Crash
    BY <1>8 DEF Crash
  <1>9. CASE UNCHANGED <<sched, pass, known>>
    BY <1>9
  <1>10. QED
    BY <1>1, <1>2, <1>3, <1>4, <1>5, <1>6, <1>7, <1>8, <1>9 DEF Next, Watcher, Scheduler, World,
       Fan, Usn, WinDir, vars, Notify, FanDegrade, FanMark, FanPersist, FanStop, FanFails,
       FanEnds, FanGap, FanRestart, UsnRebase, UsnReset, UsnRead, UsnGap, UsnPersist,
       UsnSetCursor, SetCursor, UsnEnds, DirOpen, DirWait, DirRead, DirPersist, DirStop, DirEnds,
       DirClosed, DirReport, DirRetry, JournalTrimmed, JournalRecreated

\* The queue of the kernel never outgrows its capacity.
LEMMA QueueStep == ASSUME TypeInv, [Next]_vars PROVE QueueType'
  <1> USE DEF TypeInv, QueueType
  <1>1. {} \subseteq Path /\ Cardinality({}) <= Cap
    BY FS_EmptySet
  <1>2. ASSUME NEW p \in Path, NEW k \in {"content", "entry"}, Change(p, k) PROVE QueueType'
    <2>1. CASE queue' = queue
      BY <2>1
    <2>2. CASE queue' # queue
      <3>1. queue' = queue \cup {p} /\ p \notin queue /\ Cardinality(queue) < Cap
        BY <1>2, <2>2 DEF Change, Heard
      <3>2. IsFiniteSet(queue)
        <4>1. IsFiniteSet(Path)
          <5>1. IsFiniteSet({Dir})
            BY FS_Singleton
          <5>2. Path = {Dir} \cup {Child}
            BY DEF Path
          <5>3. QED BY <5>1, <5>2, FS_AddElement
        <4>2. QED BY <4>1, FS_Subset
      <3>3. Cardinality(queue) \in Nat
        BY <3>2, FS_CardinalityType
      <3>4. Cardinality(queue') = Cardinality(queue) + 1
        BY <3>1, <3>2, FS_AddElement
      <3>5. QED BY <3>1, <3>3, <3>4
    <2>3. QED BY <2>1, <2>2
  <1>3. CASE queue' = {}
    BY <1>1, <1>3
  <1>4. CASE UNCHANGED queue
    BY <1>4
  <1>5. QED
    BY <1>2, <1>3, <1>4 DEF Next, Watcher, Scheduler, World, Fan, Usn, WinDir, vars, Notify,
       FanSetup, FanDegrade, FanMark, FanRead, FanPersist, FanStop, FanFails, FanEnds, FanGap,
       FanRestart, UsnOpen, UsnRebase, UsnCheck, UsnReset, UsnRead, UsnGap, UsnRequery,
       UsnPersist, UsnBatchEnd, UsnSetCursor, SetCursor, UsnEnds, DirOpen, DirWait, DirRead,
       DirPersist, DirStop, DirEnds, DirClosed, DirReport, DirRetry, Boot, BootArmed,
       Reconfigure, Joined, Rearmed, PassStart, ManualStart, Take, NothingDue, PassDone,
       PassFails, PassOver, Awake, JournalTrimmed, JournalRecreated, Crash

\* The histories only ever name changes no pass has read yet.
LEMMA HistoryStep == ASSUME TypeInv, [Next]_vars PROVE HistoryType'
  <1> USE DEF TypeInv, HistoryType
  <1>1. ASSUME NEW p \in Path, NEW k \in {"content", "entry"}, Change(p, k) PROVE HistoryType'
    BY <1>1 DEF Change
  <1>2. CASE FanDegrade \/ FanGap \/ FanRead
    BY <1>2 DEF FanDegrade, FanGap, FanRead
  <1>3. CASE UsnGap \/ UsnRequery
    BY <1>3 DEF UsnGap, UsnRequery
  <1>4. CASE DirStop \/ DirEnds
    BY <1>4 DEF DirStop, DirEnds, DirClosed
  <1>5. CASE DirReport
    BY <1>5 DEF DirReport
  <1>6. CASE Rearmed \/ BootArmed
    BY <1>6 DEF Rearmed, RearmGap, BootArmed, RaiseNotice
  <1>7. CASE PassDone
    BY <1>7 DEF PassDone, PassOver
  <1>8. CASE Crash
    BY <1>8 DEF Crash
  <1>9. CASE UNCHANGED <<stale, downtime, unheard, dropped>>
    BY <1>9
  <1>10. QED
    BY <1>1, <1>2, <1>3, <1>4, <1>5, <1>6, <1>7, <1>8, <1>9 DEF Next, Watcher, Scheduler, World,
       Fan, Usn, WinDir, vars, Notify, FanSetup, FanMark, FanRead, FanPersist, FanStop, FanFails,
       FanEnds, FanRestart, UsnOpen, UsnRebase, UsnCheck, UsnReset, UsnRead, UsnPersist,
       UsnBatchEnd, UsnSetCursor, SetCursor, UsnEnds, DirOpen, DirWait, DirRead, DirPersist,
       DirRetry, Boot, BootArmed, Reconfigure, Joined, PassStart, ManualStart, Take, NothingDue,
       PassFails, PassOver, Awake, JournalTrimmed, JournalRecreated

-----------------------------------------------------------------------------
(* The sessions of the USN watcher. *)

\* The start of a session at a cursor, and the steps of one.
SessionAt(j, n, t) == [NoUsn EXCEPT !.jid = j, !.next = n, !.tip = t]

\* A session that starts at n of journal j has these fields,
LEMMA SessionFields ==
  ASSUME NEW j \in Nat, NEW n \in Nat, NEW t \in Nat
  PROVE  /\ SessionAt(j, n, t) \in Sessions
         /\ SessionAt(j, n, t).jid = j
         /\ SessionAt(j, n, t).next = n
         /\ SessionAt(j, n, t).tip = t
  <1>1. NoUsn \in Sessions
    BY DEF NoUsn, Sessions
  <1>2. QED BY <1>1 DEF Sessions, SessionAt

\* and nothing to persist yet.
LEMMA SessionIdle ==
  ASSUME NEW j \in Nat, NEW n \in Nat, NEW t \in Nat
  PROVE  SessionAt(j, n, t).todo = <<>> /\ ~SessionAt(j, n, t).rebuild
  <1>1. NoUsn \in Sessions
    BY DEF NoUsn, Sessions
  <1>2. SessionAt(j, n, t).todo = NoUsn.todo /\ (SessionAt(j, n, t).rebuild <=> NoUsn.rebuild)
    BY <1>1 DEF Sessions, SessionAt
  <1>3. NoUsn.todo = <<>> /\ ~NoUsn.rebuild
    BY DEF NoUsn
  <1>4. QED BY <1>2, <1>3

\* The end of the journal is a place in it.
LEMMA TipType == ASSUME TypeInv PROVE Tip \in Nat /\ journal.low \in Nat /\ Len(journal.recs) \in Nat
  BY DEF TypeInv, SourceType, Journals, Tip

\* The session is one of the journal as it was when it was last queried, and so
\* is the cursor that is written from it.
LEMMA UsnStep == ASSUME TypeInv, [Next]_vars PROVE UsnType'
  <1> USE DEF TypeInv, UsnType
  <1>1. journal \in Journals /\ journal.jid \in Nat \ {0} /\ journal.low \in Nat
        /\ journal.recs \in Seq(Path)
    BY DEF SourceType, Journals
  <1>2. usn.jid \in Nat /\ usn.next \in Nat /\ usn.tip \in Nat /\ usn.todo \in Seq(Path)
        /\ usn.rebuild \in BOOLEAN
    BY DEF Sessions
  <1>3. NoUsn \in Sessions /\ NoUsn.jid = 0
    BY DEF NoUsn, Sessions
  <1>4. CASE UsnOpen
    <2>1. CASE cursor # None /\ Readable(cursor)
      <3>1. usn' = SessionAt(journal.jid, cursor.next, Tip)
        BY <1>4, <2>1 DEF UsnOpen, SessionAt
      <3>2. usn' \in Sessions /\ usn'.jid = journal.jid
        <4>1. cursor.next \in Nat /\ journal.jid \in Nat /\ Tip \in Nat
          BY <1>1, <2>1, TipType
        <4>2. QED BY <3>1, <4>1, SessionFields
      <3>3. QED BY <1>1, <1>4, <3>2 DEF UsnOpen
    <2>2. CASE ~(cursor # None /\ Readable(cursor))
      <3>1. usn' = SessionAt(journal.jid, Tip, Tip)
        BY <1>4, <2>2 DEF UsnOpen, SessionAt
      <3>2. usn' \in Sessions /\ usn'.jid = journal.jid
        <4>1. journal.jid \in Nat /\ Tip \in Nat
          BY <1>1, TipType
        <4>2. QED BY <3>1, <4>1, SessionFields
      <3>3. QED BY <1>1, <1>4, <3>2 DEF UsnOpen
    <2>3. QED BY <2>1, <2>2
  <1>5. CASE UsnRebase \/ UsnReset \/ UsnSetCursor
    <2>1. cursor' = [jid |-> usn.jid, next |-> usn.next] /\ UNCHANGED <<usn, journal>>
          /\ InSession
      BY <1>5 DEF UsnRebase, UsnReset, UsnSetCursor, SetCursor, InSession
    <2>2. cursor' \in [jid : Nat \ {0}, next : Nat] /\ cursor'.jid = usn.jid
      BY <1>2, <2>1
    <2>3. QED BY <2>1, <2>2
  <1>6. CASE UsnCheck
    <2>1. CASE stop
      BY <1>6, <2>1 DEF UsnCheck, InSession
    <2>2. CASE ~stop /\ Readable(usn)
      <3>1. usn' = [usn EXCEPT !.tip = Tip]
        BY <1>6, <2>2 DEF UsnCheck
      <3>2. usn' \in Sessions /\ usn'.jid = usn.jid
        BY <3>1, TipType DEF Sessions
      <3>3. QED BY <1>6, <2>2, <3>2 DEF UsnCheck, InSession
    <2>3. CASE ~stop /\ ~Readable(usn)
      <3>1. usn' = SessionAt(journal.jid, Tip, Tip)
        BY <1>6, <2>3 DEF UsnCheck, SessionAt
      <3>2. usn' \in Sessions /\ usn'.jid = journal.jid
        <4>1. journal.jid \in Nat /\ Tip \in Nat
          BY <1>1, TipType
        <4>2. QED BY <3>1, <4>1, SessionFields
      <3>3. QED BY <1>1, <1>6, <3>2 DEF UsnCheck
    <2>4. QED BY <2>1, <2>2, <2>3
  <1>7. CASE UsnRead
    <2>1. CASE usn' = usn
      BY <1>7, <2>1 DEF UsnRead, InSession
    <2>2. CASE usn' # usn
      <3> DEFINE from == usn.next - journal.low
                 left == Len(journal.recs) - from
      <3>1. PICK n \in 1 .. left :
              usn' = [usn EXCEPT !.next = @ + n, !.todo = SubSeq(journal.recs, from + 1, from + n)]
        BY <1>7, <2>2 DEF UsnRead
      <3>2. from \in Nat /\ n \in Nat
        <4>1. usn.next >= journal.low
          BY <1>7 DEF UsnRead, Readable
        <4>2. from \in Nat
          BY <1>1, <1>2, <4>1
        <4>3. Len(journal.recs) \in Nat
          BY <1>1
        <4>4. QED BY <3>1, <4>2, <4>3
      <3>3. SubSeq(journal.recs, from + 1, from + n) \in Seq(Path)
        BY <1>1, <3>1, <3>2
      <3>4. usn' \in Sessions /\ usn'.jid = usn.jid
        <4> HIDE DEF from
        <4>1. usn.next + n \in Nat
          BY <1>2, <3>2
        <4>2. QED BY <3>1, <3>3, <4>1 DEF Sessions
      <3>5. QED BY <1>7, <3>4 DEF UsnRead, InSession
    <2>3. QED BY <2>1, <2>2
  <1>8. CASE UsnRequery
    <2>1. usn' = [usn EXCEPT !.jid = journal.jid, !.next = Tip]
      BY <1>8 DEF UsnRequery
    <2>2. usn' \in Sessions /\ usn'.jid = journal.jid
      BY <1>1, <2>1, TipType DEF Sessions
    <2>3. QED BY <1>1, <1>8, <2>2 DEF UsnRequery
  <1>9. CASE UsnPersist
    <2>1. usn' = [usn EXCEPT !.todo = Tail(@), !.rebuild = @ \/ Head(usn.todo) = Dir]
      BY <1>9 DEF UsnPersist
    <2>2. Tail(usn.todo) \in Seq(Path)
      BY <1>2, <1>9 DEF UsnPersist
    <2>3. (usn.rebuild \/ Head(usn.todo) = Dir) \in BOOLEAN
      OBVIOUS
    <2>4. usn' \in Sessions /\ usn'.jid = usn.jid
      BY <2>1, <2>2, <2>3 DEF Sessions
    <2>5. QED BY <1>9, <2>4 DEF UsnPersist, InSession
  <1>10. CASE UsnBatchEnd
    <2>1. usn' \in Sessions /\ usn'.jid = usn.jid
      BY <1>10 DEF UsnBatchEnd, Sessions
    <2>2. QED BY <1>10, <2>1 DEF UsnBatchEnd, InSession
  <1>11. CASE UsnEnds \/ Crash
    BY <1>1, <1>3, <1>11 DEF UsnEnds, Crash, InSession
  <1>12. ASSUME NEW p \in Path, NEW k \in {"content", "entry"}, Change(p, k) PROVE UsnType'
    <2>1. journal'.jid = journal.jid
      BY <1>1, <1>12, JournalGrows DEF Change
    <2>2. UNCHANGED <<usn, cursor, pc>>
      BY <1>12 DEF Change
    <2>3. QED BY <2>1, <2>2 DEF InSession
  <1>13. CASE JournalTrimmed
    <2>1. journal'.jid = journal.jid
      BY <1>1, <1>13, JournalShrinks DEF JournalTrimmed
    <2>2. QED BY <1>13, <2>1 DEF JournalTrimmed, InSession
  <1>14. CASE JournalRecreated
    <2>1. journal'.jid = journal.jid + 1
      BY <1>14 DEF JournalRecreated
    <2>2. QED BY <1>1, <1>2, <1>14, <2>1 DEF JournalRecreated, InSession
  <1>15. CASE UNCHANGED <<usn, cursor, journal>> /\ (InSession' => InSession)
    BY <1>15
  <1>16. CASE FanSetup \/ FanDegrade \/ FanMark \/ FanRead \/ FanPersist \/ FanStop \/ FanFails
              \/ FanGap \/ FanRestart
    BY <1>15, <1>16 DEF FanSetup, FanDegrade, FanMark, FanRead, FanPersist, FanStop, FanFails,
       FanEnds, FanGap, FanRestart, InSession
  <1>17. CASE UsnGap
    BY <1>15, <1>17 DEF UsnGap, InSession
  <1>18. CASE DirOpen \/ DirWait \/ DirRead \/ DirPersist \/ DirStop \/ DirEnds \/ DirReport
              \/ DirRetry
    <2>1. pc' \in {"dfirst", "dread", "dtop", "dpersist", "off", "dfail", "retry", "open"}
      BY <1>18 DEF DirOpen, DirWait, DirRead, DirPersist, DirStop, DirEnds, DirClosed, DirReport,
         DirRetry
    <2>2. UNCHANGED <<usn, cursor, journal>>
      BY <1>18 DEF DirOpen, DirWait, DirRead, DirPersist, DirStop, DirEnds, DirClosed, DirReport,
         DirRetry
    <2>3. QED BY <1>15, <2>1, <2>2 DEF InSession
  <1>19. CASE Boot \/ Joined
    BY <1>15, <1>19 DEF Boot, Joined, StartWatcher, InSession
  <1>20. CASE UNCHANGED <<usn, cursor, journal, pc>>
    BY <1>20 DEF InSession
  <1>21. QED
    BY <1>4, <1>5, <1>6, <1>7, <1>8, <1>9, <1>10, <1>11, <1>12, <1>13, <1>14, <1>16, <1>17,
       <1>18, <1>19, <1>20 DEF Next, Watcher, Scheduler, World, Fan, Usn, WinDir, vars, Notify,
       BootArmed, Reconfigure, Rearmed, PassStart, ManualStart, Take, NothingDue, PassDone,
       PassFails, PassOver, Awake

\* Every step keeps the parts together.
LEMMA TypeStep == ASSUME TypeInv, [Next]_vars PROVE TypeInv'
  BY SourceStep, RowsStep, FlagStep, ThreadStep, QueueStep, UsnStep, HistoryStep DEF TypeInv

\* TypeOK of Watchers: whatever the host, the budgets and the capacity.
THEOREM TypeCorrect == Spec => []TypeOK
  <1>1. Init => TypeInv
    BY InitType
  <1>2. TypeInv /\ [Next]_vars => TypeInv'
    BY TypeStep
  <1>3. TypeInv => TypeOK
    BY TypeInvTypes
  <1>4. QED BY <1>1, <1>2, <1>3, PTL DEF Spec

-----------------------------------------------------------------------------
(* The wakeup of the scheduler. *)

\* Rows are there when they name a path or ask for a reconcile.
LEMMA SomeRows ==
  ASSUME NEW rows \in Rows
  PROVE  rows # NoRows <=> rows.paths # {} \/ rows.rescan
  BY DEF Rows, NoRows

\* A union has the paths and the rescan of both, and is empty only if both are.
LEMMA PlusRows ==
  ASSUME NEW rows \in Rows, NEW ps \in SUBSET Path, NEW r \in BOOLEAN
  PROVE  /\ Plus(rows, ps, r).paths = rows.paths \cup ps
         /\ Plus(rows, ps, r).rescan <=> rows.rescan \/ r
         /\ rows # NoRows \/ ps # {} \/ r => Plus(rows, ps, r) # NoRows
  <1>1. /\ Plus(rows, ps, r).paths = rows.paths \cup ps
        /\ Plus(rows, ps, r).rescan <=> rows.rescan \/ r
    BY DEF Plus
  <1>2. QED BY <1>1, SomeRows, PlusType

\* A scheduler that syncs or waits has been told of every row since the last
\* pass, or the thread that committed it is about to.  NothingDue enters the
\* wait with no rows, so a fresh row must still be in the log; and a batch is
\* persisted only when there is something in it.
FullBatch == pc = "persist" => batch.paths # {} \/ batch.rescan
FreshLogged == fresh => log # NoRows
Told == sched \in {"sync", "wait"} /\ fresh => wake \/ owes

\* FanRead starts a batch only for an event or an overflow.
LEMMA BatchStep == ASSUME TypeInv, FullBatch, [Next]_vars PROVE FullBatch'
  <1> USE DEF FullBatch
  <1>1. CASE FanRead
    <2>1. batch' \in Rows
      BY <1>1, Reading
    <2>2. CASE batch' = NoRows
      BY <1>1, <2>2 DEF FanRead
    <2>3. CASE batch' # NoRows
      BY <2>1, <2>3, SomeRows
    <2>4. QED BY <2>2, <2>3
  <1>2. CASE pc' # "persist"
    BY <1>2
  <1>3. CASE UNCHANGED <<pc, batch>>
    BY <1>3
  <1>4. QED
    BY <1>1, <1>2, <1>3 DEF Next, Watcher, Scheduler, World, Fan, Usn, WinDir, vars, Notify,
       FanSetup, FanDegrade, FanMark, FanPersist, FanStop, FanFails, FanEnds, FanGap, FanRestart,
       UsnOpen, UsnRebase, UsnCheck, UsnReset, UsnRead, UsnGap, UsnRequery, UsnPersist,
       UsnBatchEnd, UsnSetCursor, SetCursor, UsnEnds, DirOpen, DirWait, DirRead, DirPersist,
       DirStop, DirEnds, DirClosed, DirReport, DirRetry, Boot, BootArmed, Reconfigure, Joined,
       Rearmed, StartWatcher, PassStart, ManualStart, Take, NothingDue, PassDone, PassFails,
       PassOver, Awake, Change, JournalTrimmed, JournalRecreated, Crash

\* What a step that records rows does to the log.
LEMMA RecordEffect ==
  ASSUME TypeInv, NEW ps \in SUBSET Path, NEW r \in BOOLEAN, Record(ps, r), ps # {} \/ r
  PROVE  log' # NoRows /\ owes'
  BY PlusRows DEF Record, TypeInv, RowsType

\* Every step of a watcher, and of the marker of a rearm, that commits a row
\* owes or raises a wakeup.
LEMMA LogStep ==
  ASSUME TypeInv, FullBatch, FreshLogged, [Next]_vars
  PROVE  /\ FreshLogged'
         /\ fresh' => fresh \/ owes' \/ sched' = "top"
  <1> USE DEF FreshLogged
  <1>1. TRUE \in BOOLEAN /\ FALSE \in BOOLEAN /\ {} \in SUBSET Path
    OBVIOUS
  <1>2. ASSUME Record({}, TRUE) PROVE log' # NoRows /\ owes'
    BY <1>1, <1>2, RecordEffect
  <1>3. ASSUME NEW p \in Path, Record({p}, FALSE) PROVE log' # NoRows /\ owes'
    BY <1>1, <1>3, RecordEffect
  <1>4. log \in Rows /\ taken \in Rows /\ batch \in Rows
    BY DEF TypeInv, RowsType
  <1>5. CASE FanDegrade \/ FanGap
    <2>1. CASE Record({}, TRUE)
      BY <1>2, <2>1
    <2>2. CASE UNCHANGED <<log, fresh>>
      BY <2>2
    <2>3. QED BY <1>5, <2>1, <2>2 DEF FanDegrade, FanGap
  <1>6. CASE FanPersist
    <2>1. CASE Record(batch.paths, batch.rescan \/ sticky)
      <3>1. batch.paths # {} \/ (batch.rescan \/ sticky)
        BY <1>6 DEF FullBatch, FanPersist
      <3>2. batch.paths \in SUBSET Path /\ (batch.rescan \/ sticky) \in BOOLEAN
        BY <1>4 DEF Rows
      <3>3. QED BY <2>1, <3>1, <3>2, RecordEffect
    <2>2. CASE UNCHANGED <<log, fresh>>
      BY <2>2
    <2>3. QED BY <1>6, <2>1, <2>2 DEF FanPersist
  <1>7. CASE UsnOpen \/ UsnCheck
    BY <1>2, <1>7 DEF UsnOpen, UsnCheck
  <1>8. CASE UsnPersist
    <2>1. CASE UNCHANGED <<log, fresh>>
      BY <2>1
    <2>2. CASE ~UNCHANGED <<log, fresh>>
      <3> DEFINE p == Head(usn.todo)
      <3>1. p \in Path
        BY <1>8 DEF UsnPersist, TypeInv, UsnType, Sessions
      <3>2. Record({p}, FALSE)
        BY <1>8, <2>2 DEF UsnPersist
      <3> HIDE DEF p
      <3>3. QED BY <1>3, <3>1, <3>2
    <2>3. QED BY <2>1, <2>2
  <1>9. CASE DirRead
    BY <1>2, <1>9 DEF DirRead
  <1>10. CASE DirPersist
    <2>1. PICK p \in batch.paths : Record({p}, FALSE)
      BY <1>10 DEF DirPersist
    <2>2. p \in Path
      BY <1>4 DEF Rows
    <2>3. QED BY <1>3, <2>1, <2>2
  <1>11. CASE DirReport
    BY <1>2, <1>11 DEF DirReport
  <1>12. CASE Rearmed
    <2>1. log' = Plus(log, {}, TRUE) => log' # NoRows
      BY <1>1, <1>4, PlusRows
    <2>2. QED BY <1>12, <2>1 DEF Rearmed, RearmGap
  <1>13. CASE PassFails
    <2>1. taken.paths \in SUBSET Path /\ taken.rescan \in BOOLEAN
      BY <1>4 DEF Rows
    <2>2. log # NoRows => log' # NoRows
      <3>1. log' = Plus(log, taken.paths, taken.rescan)
        BY <1>13 DEF PassFails
      <3>2. log.paths # {} \/ log.rescan => log'.paths # {} \/ log'.rescan
        BY <3>1 DEF Plus
      <3>3. log' \in Rows
        BY <1>4, <2>1, <3>1, PlusType
      <3>4. QED BY <1>4, <3>2, <3>3, SomeRows
    <2>3. QED BY <1>13, <2>2 DEF PassFails
  <1>14. CASE ~fresh'
    BY <1>14
  <1>15. CASE UNCHANGED <<log, fresh>>
    BY <1>15
  <1>16. QED
    BY <1>5, <1>6, <1>7, <1>8, <1>9, <1>10, <1>11, <1>12, <1>13, <1>14, <1>15 DEF Next, Watcher,
       Scheduler, World, Fan, Usn, WinDir, vars, Notify, FanSetup, FanMark, FanRead, FanStop,
       FanFails, FanEnds, FanRestart, UsnRebase, UsnReset, UsnRead, UsnGap, UsnRequery,
       UsnBatchEnd, UsnSetCursor, SetCursor, UsnEnds, DirOpen, DirWait, DirStop, DirEnds,
       DirClosed, DirRetry, Boot, BootArmed, Reconfigure, Joined, PassStart, ManualStart, Take,
       NothingDue, PassDone, PassOver, Awake, Change, JournalTrimmed, JournalRecreated, Crash

\* Awake and Rearmed clear or skip the flag only on the way to the top of the loop.
LEMMA ToldStep ==
  ASSUME TypeInv, FullBatch, FreshLogged, Told, [Next]_vars
  PROVE  Told'
  <1> USE DEF Told, TypeInv, FlagType, ThreadType
  <1>1. CASE Notify
    BY <1>1 DEF Notify
  <1>2. CASE NothingDue
    BY <1>2 DEF NothingDue, EnterWait, FreshLogged
  <1>3. CASE PassStart \/ ManualStart
    BY <1>3 DEF PassStart, ManualStart, Take
  <1>4. CASE PassDone \/ PassFails
    BY <1>4 DEF PassDone, PassFails, PassOver, EnterWait
  <1>5. CASE sched' \notin {"sync", "wait"}
    BY <1>5
  <1>6. CASE UNCHANGED <<sched, wake>> /\ (owes => owes')
    BY <1>6, LogStep
  <1>7. QED
    BY <1>1, <1>2, <1>3, <1>4, <1>5, <1>6 DEF Next, Watcher, Scheduler, World, Fan, Usn, WinDir,
       vars, Record, FanSetup, FanDegrade, FanMark, FanRead, FanPersist, FanStop, FanFails, FanEnds,
       FanGap, FanRestart, UsnOpen, UsnRebase, UsnCheck, UsnReset, UsnRead, UsnGap, UsnRequery,
       UsnPersist, UsnBatchEnd, UsnSetCursor, SetCursor, UsnEnds, DirOpen, DirWait, DirRead,
       DirPersist, DirStop, DirEnds, DirClosed, DirReport, DirRetry, Boot, BootArmed, Reconfigure,
       Joined, Rearmed, Awake, Change, JournalTrimmed, JournalRecreated, Crash

\* WakePending of Watchers, signal.rs: no row is left to the five seconds of
\* the wait.
THEOREM RowsWake == Spec => []WakePending
  <1> DEFINE Inv == TypeInv /\ FullBatch /\ FreshLogged /\ Told
  <1>1. Init => Inv
    BY InitType DEF Init, FullBatch, FreshLogged, Told
  <1>2. Inv /\ [Next]_vars => Inv'
    BY TypeStep, BatchStep, LogStep, ToldStep
  <1>3. Inv => WakePending
    BY DEF Told, WakePending
  <1>4. QED BY <1>1, <1>2, <1>3, PTL DEF Spec

-----------------------------------------------------------------------------
(* Where the threads can be.  A fanotify watcher is off only before it is    *)
(* started or while it is joined, so a window without marks is one that      *)
(* some marker stands for; only the directory watcher runs on two hosts.     *)

Listening == {"read", "persist", "dtop", "dread", "dpersist"}

ThreadInv ==
    /\ IF Fanotify THEN pc \in FanPc ELSE pc \in {"off", "open"} \cup UsnPc \cup DirPc
    /\ pc \in UsnPc => host = "usn"
    /\ pc = "degraded" => host = "path"
    /\ stop => sched = "join"
    /\ Fanotify /\ pc = "off" => sched \in {"down", "join"}
    /\ sched = "down" => pc = "off"

BufferInv ==
    /\ host # "usn" /\ pc \notin Listening => queue = {} /\ ~over
    /\ pc \notin {"persist", "dpersist"} => batch.paths = {} /\ ~batch.rescan
    /\ sticky => pc \in {"read", "persist"}
    /\ pc = "dpersist" => ~batch.rescan
    /\ ~Fanotify => downtime = {} /\ ~sticky

\* The kind of watcher is that of the machine.
LEMMA HostStep == ASSUME [Next]_vars PROVE host' = host
  BY DEF Next, Watcher, Scheduler, World, Fan, Usn, WinDir, vars, Notify, FanSetup, FanDegrade,
     FanMark, FanRead, FanPersist, FanStop, FanFails, FanEnds, FanGap, FanRestart, UsnOpen,
     UsnRebase, UsnCheck, UsnReset, UsnRead, UsnGap, UsnRequery, UsnPersist, UsnBatchEnd,
     UsnSetCursor, SetCursor, UsnEnds, DirOpen, DirWait, DirRead, DirPersist, DirStop, DirEnds,
     DirClosed, DirReport, DirRetry, Boot, BootArmed, Reconfigure, Joined, Rearmed, PassStart,
     ManualStart, Take, NothingDue, PassDone, PassFails, PassOver, Awake, Change, JournalTrimmed,
     JournalRecreated, Crash

\* Every step keeps the threads where they can be.
LEMMA ThreadInvStep == ASSUME TypeInv, ThreadInv, [Next]_vars PROVE ThreadInv'
  <1> USE HostStep DEF ThreadInv, FanPc, UsnPc, DirPc, Fanotify, ByFid
  <1>1. CASE FanSetup
    BY <1>1 DEF FanSetup
  <1>2. CASE FanDegrade
    BY <1>2 DEF FanDegrade
  <1>3. CASE FanMark
    BY <1>3 DEF FanMark
  <1>4. CASE FanRead
    <2>1. pc = "read" /\ pc' \in {"read", "persist"} /\ UNCHANGED <<stop, sched>>
      BY <1>4 DEF FanRead
    <2>2. QED BY <2>1
  <1>5. CASE FanPersist
    BY <1>5 DEF FanPersist
  <1>6. CASE FanStop \/ FanFails
    BY <1>6 DEF FanStop, FanFails, FanEnds
  <1>7. CASE FanGap \/ FanRestart
    <2>1. \/ pc = "dying" /\ pc' = "backoff"
          \/ pc = "backoff" /\ pc' = IF stop THEN "off" ELSE "setup"
      BY <1>7 DEF FanGap, FanRestart
    <2>2. UNCHANGED <<stop, sched>>
      BY <1>7 DEF FanGap, FanRestart
    <2>3. QED BY <2>1, <2>2
  <1>8. CASE UsnOpen
    BY <1>8 DEF UsnOpen
  <1>9. CASE UsnRebase \/ UsnReset \/ UsnSetCursor
    BY <1>9 DEF UsnRebase, UsnReset, UsnSetCursor, SetCursor
  <1>10. CASE UsnCheck
    BY <1>10 DEF UsnCheck
  <1>11. CASE UsnRead
    BY <1>11 DEF UsnRead
  <1>12. CASE UsnGap \/ UsnRequery
    BY <1>12 DEF UsnGap, UsnRequery
  <1>13. CASE UsnBatchEnd
    BY <1>13 DEF UsnBatchEnd
  <1>14. CASE UsnEnds
    BY <1>14 DEF UsnEnds, TypeInv, SourceType
  <1>15. CASE DirOpen \/ DirWait
    BY <1>15 DEF DirOpen, DirWait
  <1>16. CASE DirStop \/ DirEnds
    BY <1>16 DEF DirStop, DirEnds, DirClosed
  <1>17. CASE DirRead
    BY <1>17 DEF DirRead
  <1>18. CASE DirPersist
    BY <1>18 DEF DirPersist
  <1>19. CASE DirReport \/ DirRetry
    <2>1. \/ pc = "dfail" /\ pc' = "retry"
          \/ pc = "retry" /\ pc' = IF stop THEN "off" ELSE "open"
      BY <1>19 DEF DirReport, DirRetry
    <2>2. UNCHANGED <<stop, sched>>
      BY <1>19 DEF DirReport, DirRetry
    <2>3. QED BY <2>1, <2>2
  <1>20. CASE Boot
    BY <1>20 DEF Boot, StartWatcher
  <1>21. CASE BootArmed \/ Reconfigure \/ Rearmed
    BY <1>21 DEF BootArmed, Reconfigure, Rearmed
  <1>22. CASE Joined
    BY <1>22 DEF Joined, StartWatcher
  <1>23. CASE PassStart \/ ManualStart
    BY <1>23 DEF PassStart, ManualStart, Take
  <1>24. CASE PassDone \/ PassFails
    BY <1>24 DEF PassDone, PassFails, PassOver, EnterWait, TypeInv, ThreadType
  <1>25. CASE NothingDue \/ Awake
    BY <1>25 DEF NothingDue, Awake, EnterWait
  <1>26. CASE Crash
    BY <1>26 DEF Crash
  <1>27. CASE UNCHANGED <<pc, stop, sched>>
    BY <1>27
  <1>28. QED
    BY <1>1, <1>2, <1>3, <1>4, <1>5, <1>6, <1>7, <1>8, <1>9, <1>10, <1>11, <1>12, <1>13, <1>14,
       <1>15, <1>16, <1>17, <1>18, <1>19, <1>20, <1>21, <1>22, <1>23, <1>24, <1>25, <1>26, <1>27
       DEF Next, Watcher, Scheduler, World, Fan, Usn, WinDir, vars, Notify, UsnPersist, Change,
       JournalTrimmed, JournalRecreated

\* Every step keeps the buffers of a watcher that does not listen empty.
LEMMA BufferInvStep == ASSUME TypeInv, ThreadInv, BufferInv, [Next]_vars PROVE BufferInv'
  <1> USE HostStep DEF BufferInv, Listening, Fanotify, ByFid
  <1>1. NoRows.paths = {} /\ ~NoRows.rescan
    BY DEF NoRows
  <1>2. ASSUME NEW p \in Path, NEW k \in {"content", "entry"}, Change(p, k) PROVE BufferInv'
    <2>1. UNCHANGED <<pc, batch, sticky>> /\ (~Fanotify => downtime' = downtime)
      BY <1>2 DEF Change
    <2>2. ~Audible(p, k) => UNCHANGED <<queue, over>>
      BY <1>2 DEF Change, Heard
    <2>3. Audible(p, k) => pc \in Listening
      BY DEF Audible, Live
    <2>4. QED BY <2>1, <2>2, <2>3
  <1>3. CASE FanSetup
    BY <1>1, <1>3 DEF FanSetup, TypeInv, SourceType
  <1>4. CASE FanDegrade
    BY <1>4 DEF FanDegrade
  <1>5. CASE FanMark
    BY <1>1, <1>5 DEF FanMark, ThreadInv
  <1>6. CASE FanRead
    <2>1. /\ pc = "read" /\ pc' \in {"read", "persist"} /\ (batch' = NoRows \/ pc' = "persist")
          /\ queue' = {} /\ ~over' /\ UNCHANGED <<host, sticky, downtime>>
      BY <1>6 DEF FanRead
    <2>2. QED BY <1>1, <2>1
  <1>7. CASE FanPersist
    BY <1>1, <1>7 DEF FanPersist, ThreadInv, DirPc, UsnPc
  <1>8. CASE FanStop \/ FanFails
    BY <1>1, <1>8 DEF FanStop, FanFails, FanEnds
  <1>9. CASE FanGap \/ FanRestart
    <2>1. pc \in {"dying", "backoff"} /\ pc' \in {"backoff", "off", "setup"}
      BY <1>9 DEF FanGap, FanRestart
    <2>2. UNCHANGED <<queue, over, batch, sticky, downtime>>
      BY <1>9 DEF FanGap, FanRestart
    <2>3. QED BY <2>1, <2>2
  <1>10. CASE UsnOpen \/ UsnCheck
    <2>1. host = "usn" /\ pc \notin {"persist", "dpersist"}
      BY <1>10 DEF UsnOpen, UsnCheck, ThreadInv, UsnPc
    <2>2. pc' \in {"check", "rebase", "off", "uread", "reset"}
      BY <1>10 DEF UsnOpen, UsnCheck
    <2>3. UNCHANGED <<queue, over, batch, sticky, downtime>>
      BY <1>10 DEF UsnOpen, UsnCheck
    <2>4. QED BY <2>1, <2>2, <2>3
  <1>11. CASE UsnRebase \/ UsnReset \/ UsnSetCursor
    BY <1>11 DEF UsnRebase, UsnReset, UsnSetCursor, SetCursor
  <1>12. CASE UsnRead \/ UsnGap \/ UsnRequery
    <2>1. host = "usn" /\ pc \notin {"persist", "dpersist"}
      BY <1>12 DEF UsnRead, UsnGap, UsnRequery, ThreadInv, UsnPc
    <2>2. pc' \in {"setcur", "upersist", "requery"}
      BY <1>12 DEF UsnRead, UsnGap, UsnRequery
    <2>3. UNCHANGED <<queue, over, batch, sticky, downtime>>
      BY <1>12 DEF UsnRead, UsnGap, UsnRequery
    <2>4. QED BY <2>1, <2>2, <2>3
  <1>13. CASE UsnBatchEnd \/ UsnEnds
    BY <1>13 DEF UsnBatchEnd, UsnEnds
  <1>14. CASE DirOpen \/ DirStop \/ DirEnds
    BY <1>1, <1>14 DEF DirOpen, DirStop, DirEnds, DirClosed
  <1>15. CASE DirWait
    BY <1>15 DEF DirWait
  <1>16. CASE DirRead
    <2>1. CASE over
      BY <1>16, <2>1 DEF DirRead
    <2>2. CASE ~over
      <3>1. batch' = [NoRows EXCEPT !.paths = queue]
        BY <1>16, <2>2 DEF DirRead
      <3>2. ~batch'.rescan
        BY <3>1 DEF NoRows
      <3>3. QED BY <1>16, <2>2, <3>2 DEF DirRead
    <2>3. QED BY <2>1, <2>2
  <1>17. CASE DirPersist
    <2>1. PICK p \in batch.paths : batch' = [batch EXCEPT !.paths = @ \ {p}]
            /\ pc' = IF batch'.paths = {} THEN "dtop" ELSE pc
      BY <1>17 DEF DirPersist
    <2>2. batch'.rescan <=> batch.rescan
      BY <2>1 DEF TypeInv, RowsType, Rows
    <2>3. QED BY <1>17, <2>1, <2>2 DEF DirPersist
  <1>18. CASE DirReport \/ DirRetry
    <2>1. pc \in {"dfail", "retry"} /\ pc' \in {"retry", "off", "open"}
      BY <1>18 DEF DirReport, DirRetry
    <2>2. UNCHANGED <<queue, over, batch, sticky, downtime>>
      BY <1>18 DEF DirReport, DirRetry
    <2>3. QED BY <2>1, <2>2
  <1>19. CASE Boot \/ Joined
    BY <1>19 DEF Boot, Joined, StartWatcher, ThreadInv
  <1>20. CASE PassDone
    BY <1>20 DEF PassDone, PassOver
  <1>21. CASE Crash
    BY <1>1, <1>21 DEF Crash
  <1>22. CASE UNCHANGED <<pc, queue, over, batch, sticky, downtime>>
    BY <1>22
  <1>23. QED
    BY <1>2, <1>3, <1>4, <1>5, <1>6, <1>7, <1>8, <1>9, <1>10, <1>11, <1>12, <1>13, <1>14,
       <1>15, <1>16, <1>17, <1>18, <1>19, <1>20, <1>21, <1>22 DEF Next, Watcher, Scheduler,
       World, Fan, Usn, WinDir, vars, Notify, UsnPersist, BootArmed, Reconfigure, Rearmed,
       PassStart, ManualStart, Take, NothingDue, PassFails, PassOver, Awake, JournalTrimmed,
       JournalRecreated

-----------------------------------------------------------------------------
(* What the rows cover, path by path. *)

Reads(rows, p) == rows.rescan \/ p \in rows.paths \/ (p = Child /\ Dir \in rows.paths)

\* What the pass that consumes these rows reads, path by path.
LEMMA ReadByIs ==
  ASSUME NEW rows, NEW p \in Path
  PROVE  p \in ReadBy(rows) <=> Reads(rows, p)
  <1>1. CASE rows.rescan
    BY <1>1 DEF ReadBy, Reads
  <1>2. CASE ~rows.rescan
    BY <1>2 DEF ReadBy, Reads, Beneath
  <1>3. QED BY <1>1, <1>2

\* A union covers what either part covers.
LEMMA PlusReads ==
  ASSUME NEW rows, NEW ps, NEW r \in BOOLEAN, NEW p \in Path
  PROVE  /\ Reads(rows, p) => Reads(Plus(rows, ps, r), p)
         /\ r \/ p \in ps \/ (p = Child /\ Dir \in ps) => Reads(Plus(rows, ps, r), p)
  BY DEF Reads, Plus

\* The row of a step covers what it names.
LEMMA Recorded ==
  ASSUME NEW ps, NEW r \in BOOLEAN, NEW p \in Path, Record(ps, r)
  PROVE  /\ Reads(log, p) => Reads(log', p)
         /\ r \/ p \in ps \/ (p = Child /\ Dir \in ps) => p \in Logged'
  <1>1. log' = Plus(log, ps, r)
    BY DEF Record
  <1>2. Reads(log', p) => p \in Logged'
    BY ReadByIs DEF Logged
  <1>3. QED BY <1>1, <1>2, PlusReads

\* A marker covers every path.
LEMMA MarkerLogged ==
  ASSUME NEW p \in Path, Record({}, TRUE)
  PROVE  p \in Logged' /\ (Reads(log, p) => Reads(log', p))
  BY Recorded

\* Logged, path by path, before and after a step.
LEMMA LoggedIs ==
  ASSUME NEW p \in Path
  PROVE  /\ p \in Logged <=> Reads(log, p) \/ (pass # "idle" /\ Reads(taken, p) /\ p \notin dirty)
         /\ p \in Logged' <=> Reads(log', p) \/ (pass' # "idle" /\ Reads(taken', p) /\ p \notin dirty')
  BY ReadByIs DEF Logged

\* What no step of a thread but those of a pass does: to take a row back.
LEMMA LogGrows ==
  ASSUME TypeInv, [Next]_vars, NEW p \in Path,
         ~(PassStart \/ ManualStart)
  PROVE  Reads(log, p) => Reads(log', p)
  <1>1. log \in Rows /\ taken \in Rows /\ batch \in Rows
    BY DEF TypeInv, RowsType
  <1>2. CASE FanDegrade \/ FanGap
    <2>1. CASE Record({}, TRUE)
      BY <2>1, MarkerLogged
    <2>2. CASE UNCHANGED log
      BY <2>2
    <2>3. QED BY <1>2, <2>1, <2>2 DEF FanDegrade, FanGap
  <1>3. CASE FanPersist
    <2>1. CASE Record(batch.paths, batch.rescan \/ sticky)
      <3>1. (batch.rescan \/ sticky) \in BOOLEAN
        OBVIOUS
      <3>2. QED BY <2>1, <3>1, Recorded
    <2>2. CASE UNCHANGED log
      BY <2>2
    <2>3. QED BY <1>3, <2>1, <2>2 DEF FanPersist
  <1>4. CASE UsnOpen \/ UsnCheck
    <2>1. CASE Record({}, TRUE)
      BY <2>1, MarkerLogged
    <2>2. CASE UNCHANGED log
      BY <2>2
    <2>3. QED BY <1>4, <2>1, <2>2 DEF UsnOpen, UsnCheck
  <1>5. CASE UsnPersist
    <2>1. CASE Record({Head(usn.todo)}, FALSE)
      BY <2>1, Recorded
    <2>2. CASE UNCHANGED log
      BY <2>2
    <2>3. QED BY <1>5, <2>1, <2>2 DEF UsnPersist
  <1>6. CASE DirRead
    <2>1. CASE Record({}, TRUE)
      BY <2>1, MarkerLogged
    <2>2. CASE UNCHANGED log
      BY <2>2
    <2>3. QED BY <1>6, <2>1, <2>2 DEF DirRead
  <1>7. CASE DirPersist
    <2>1. PICK x \in batch.paths : Record({x}, FALSE)
      BY <1>7 DEF DirPersist
    <2>2. QED BY <2>1, Recorded
  <1>8. CASE DirReport
    <2>1. CASE Record({}, TRUE)
      BY <2>1, MarkerLogged
    <2>2. CASE UNCHANGED log
      BY <2>2
    <2>3. QED BY <1>8, <2>1, <2>2 DEF DirReport
  <1>9. CASE Rearmed
    <2>1. log' = Plus(log, {}, TRUE) \/ log' = log
      BY <1>9 DEF Rearmed, RearmGap
    <2>2. CASE log' = Plus(log, {}, TRUE)
      <3>1. log'.rescan
        BY <2>2 DEF Plus
      <3>2. QED BY <3>1 DEF Reads
    <2>3. CASE log' = log
      BY <2>3
    <2>4. QED BY <2>1, <2>2, <2>3
  <1>10. CASE PassFails \/ Crash
    <2>1. log' = Plus(log, taken.paths, taken.rescan) /\ taken.rescan \in BOOLEAN
      BY <1>1, <1>10 DEF PassFails, Crash, Rows
    <2>2. QED BY <2>1, PlusReads
  <1>11. CASE UNCHANGED log
    BY <1>11
  <1>12. QED
    BY <1>2, <1>3, <1>4, <1>5, <1>6, <1>7, <1>8, <1>9, <1>10, <1>11 DEF Next, Watcher, Scheduler,
       World, Fan, Usn, WinDir, vars, Notify, FanSetup, FanMark, FanRead, FanStop, FanFails,
       FanEnds, FanRestart, UsnRebase, UsnReset, UsnRead, UsnGap, UsnRequery, UsnBatchEnd,
       UsnSetCursor, SetCursor, UsnEnds, DirOpen, DirWait, DirStop, DirEnds, DirClosed, DirRetry,
       Boot, BootArmed, Reconfigure, Joined, NothingDue, PassDone, PassOver, Awake, Change,
       JournalTrimmed, JournalRecreated

Changed(p) == \E k \in {"content", "entry"} : Change(p, k)

\* What the rows and the running pass cover stays covered until a pass has read
\* it, unless the path changes again.
LEMMA LoggedStays ==
  ASSUME TypeInv, [Next]_vars, NEW p \in Path, p \in Logged, p \in stale', ~Changed(p)
  PROVE  p \in Logged'
  <1>1. taken \in Rows /\ taken.rescan \in BOOLEAN
    BY DEF TypeInv, RowsType, Rows
  <1>2. CASE PassStart \/ ManualStart
    <2>1. pass = "idle" /\ taken' = log /\ dirty' = {} /\ pass' # "idle"
      BY <1>2 DEF PassStart, ManualStart, Take
    <2>2. QED BY <2>1, LoggedIs
  <1>3. CASE PassDone
    <2>1. p \notin ReadBy(taken) \ dirty /\ log' = log /\ pass # "idle"
      BY <1>3 DEF PassDone
    <2>2. QED BY <2>1, LoggedIs, ReadByIs
  <1>4. CASE PassFails \/ Crash
    <2>1. log' = Plus(log, taken.paths, taken.rescan)
      BY <1>4 DEF PassFails, Crash
    <2>2. Reads(log, p) \/ Reads(taken, p) => Reads(log', p)
      BY <1>1, <2>1 DEF Reads, Plus
    <2>3. QED BY <2>2, LoggedIs
  <1>5. ASSUME NEW x \in Path, NEW k \in {"content", "entry"}, Change(x, k) PROVE p \in Logged'
    <2>1. x # p
      BY <1>5 DEF Changed
    <2>2. log' = log /\ pass' = pass /\ taken' = taken /\ (pass # "idle" => dirty' = dirty \cup {x})
      BY <1>5 DEF Change
    <2>3. QED BY <2>1, <2>2, LoggedIs
  <1>6. CASE UNCHANGED <<pass, taken, dirty>> /\ ~(PassStart \/ ManualStart)
    BY <1>6, LogGrows, LoggedIs
  <1>7. QED
    BY <1>2, <1>3, <1>4, <1>5, <1>6 DEF Next, Watcher, Scheduler, World, Fan, Usn, WinDir, vars,
       Notify, FanSetup, FanDegrade, FanMark, FanRead, FanPersist, FanStop, FanFails, FanEnds,
       FanGap, FanRestart, UsnOpen, UsnRebase, UsnCheck, UsnReset, UsnRead, UsnGap, UsnRequery,
       UsnPersist, UsnBatchEnd, UsnSetCursor, SetCursor, UsnEnds, DirOpen, DirWait, DirRead,
       DirPersist, DirStop, DirEnds, DirClosed, DirReport, DirRetry, Boot, BootArmed, Reconfigure,
       Joined, Rearmed, NothingDue, Awake, JournalTrimmed, JournalRecreated

\* A path goes stale by a change of it only, and the histories keep it as long.
LEMMA StaleStays ==
  ASSUME TypeInv, [Next]_vars, NEW p \in Path, p \in stale', ~Changed(p)
  PROVE  /\ p \in stale
         /\ p \in unheard => p \in unheard'
         /\ p \in dropped => p \in dropped'
         /\ p \in downtime => p \in downtime'
  <1>1. CASE PassDone
    BY <1>1 DEF PassDone
  <1>2. ASSUME NEW x \in Path, NEW k \in {"content", "entry"}, Change(x, k)
        PROVE /\ p \in stale
              /\ p \in unheard => p \in unheard'
              /\ p \in dropped => p \in dropped'
              /\ p \in downtime => p \in downtime'
    <2>1. x # p
      BY <1>2 DEF Changed
    <2>2. QED BY <1>2, <2>1 DEF Change
  <1>3. CASE Crash
    BY <1>3 DEF Crash
  <1>4. CASE UNCHANGED stale /\ UNCHANGED downtime /\ unheard \subseteq unheard' /\ dropped \subseteq dropped'
    BY <1>4
  <1>5. CASE FanDegrade \/ FanGap \/ FanRead \/ Rearmed \/ BootArmed
    <2>1. UNCHANGED <<stale, downtime, dropped>> /\ unheard \subseteq unheard'
      BY <1>5 DEF FanDegrade, FanGap, FanRead, Rearmed, RearmGap, BootArmed, RaiseNotice
    <2>2. QED BY <1>4, <2>1
  <1>6. CASE DirStop \/ DirEnds \/ DirReport
    <2>1. UNCHANGED <<stale, downtime, dropped>> /\ unheard \subseteq unheard'
      BY <1>6 DEF DirStop, DirEnds, DirClosed, DirReport
    <2>2. QED BY <1>4, <2>1
  <1>7. CASE UsnGap \/ UsnRequery
    <2>1. UNCHANGED <<stale, downtime, unheard>> /\ dropped \subseteq dropped'
      BY <1>7 DEF UsnGap, UsnRequery
    <2>2. QED BY <1>4, <2>1
  <1>8. CASE UNCHANGED <<stale, downtime, unheard, dropped>>
    BY <1>8
  <1>9. QED
    BY <1>1, <1>2, <1>3, <1>5, <1>6, <1>7, <1>8 DEF Next, Watcher, Scheduler, World, Fan, Usn,
       WinDir, vars, Notify, FanSetup, FanMark, FanRead, FanPersist, FanStop, FanFails, FanEnds,
       FanRestart, UsnOpen, UsnRebase, UsnCheck, UsnReset, UsnRead, UsnPersist, UsnBatchEnd,
       UsnSetCursor, SetCursor, UsnEnds, DirOpen, DirWait, DirRead, DirPersist, DirRetry, Boot,
       BootArmed, Reconfigure, Joined, PassStart, ManualStart, Take, NothingDue, PassFails,
       PassOver, Awake, JournalTrimmed, JournalRecreated

-----------------------------------------------------------------------------
(* Hosts that read events: fanotify and ReadDirectoryChangesW. *)

\* With a mark per directory, Dir goes unmarked only while it does not exist or
\* its event is still in the queue.
MarkInv == ByDir /\ Live /\ known = "new" => ~made \/ Dir \in queue

\* A new Dir is marked by the batch that reads its event, or its event is lost with an overflow.
LEMMA MarkStep == ASSUME TypeInv, ThreadInv, MarkInv, [Next]_vars PROVE MarkInv'
  <1> USE HostStep DEF MarkInv, Live, ByDir
  <1>1. ASSUME NEW p \in Path, NEW k \in {"content", "entry"}, Change(p, k) PROVE MarkInv'
    <2>1. SUFFICES ASSUME ByDir, Live, known' = "new" PROVE Dir \in queue'
      BY <1>1 DEF Change
    <2>2. queue \subseteq queue' /\ (known' = known \/ known' = "lost")
      BY <1>1 DEF Change, Heard, Untracked
    <2>3. known = "new"
      BY <2>1, <2>2
    <2>4. CASE p = Child
      <3>1. made
        BY <1>1, <2>4 DEF Change
      <3>2. QED BY <2>1, <2>2, <2>3, <3>1
    <2>5. CASE p = Dir
      <3>1. Audible(p, k)
        BY <2>1, <2>5 DEF Audible, Fanotify, ByFid
      <3>2. QED BY <1>1, <2>1, <2>3, <2>5, <3>1 DEF Change, Heard, Untracked
    <2>6. QED BY <2>4, <2>5 DEF Path
  <1>2. CASE FanSetup
    BY <1>2 DEF FanSetup
  <1>3. CASE FanMark
    BY <1>3 DEF FanMark, ThreadInv
  <1>4. CASE FanRead
    <2>1. SUFFICES ASSUME ByDir, known' = "new" PROVE ~made' \/ Dir \in queue'
      BY <1>4 DEF FanRead
    <2>2. known = "new" /\ Dir \notin queue
      BY <1>4, <2>1, Reading DEF ByFid
    <2>3. QED BY <1>4, <2>1, <2>2 DEF FanRead
  <1>5. CASE FanPersist
    BY <1>5 DEF FanPersist
  <1>6. CASE pc' \notin {"read", "persist"}
    BY <1>6
  <1>7. CASE UNCHANGED <<made, pc, known, queue>>
    BY <1>7
  <1>8. CASE UsnBatchEnd \/ UsnRead \/ UsnCheck \/ DirRead \/ DirPersist
    <2>1. pc' \notin {"read", "persist"}
      BY <1>8 DEF UsnBatchEnd, UsnRead, UsnCheck, DirRead, DirPersist
    <2>2. QED BY <1>6, <2>1
  <1>9. CASE UsnPersist
    <2>1. pc' \notin {"read", "persist"}
      BY <1>9 DEF UsnPersist
    <2>2. QED BY <1>6, <2>1
  <1>10. QED
    BY <1>1, <1>2, <1>3, <1>4, <1>5, <1>6, <1>7, <1>8, <1>9 DEF Next, Watcher, Scheduler, World,
       Fan, Usn, WinDir, vars, Notify, FanDegrade, FanStop, FanFails, FanEnds, FanGap,
       FanRestart, UsnOpen, UsnRebase, UsnReset, UsnGap, UsnRequery, UsnSetCursor, SetCursor,
       UsnEnds, DirOpen, DirWait, DirStop, DirEnds, DirClosed, DirReport, DirRetry, Boot,
       BootArmed, Reconfigure, Joined, Rearmed, StartWatcher, PassStart, ManualStart, Take,
       NothingDue, PassDone, PassFails, PassOver, Awake, JournalTrimmed, JournalRecreated, Crash

\* What the watcher holds of a path, or the marker it is due to record.
Held(p) == MarkerDue \/ p \in queue \/ (p = Child /\ Dir \in queue) \/ Reads(batch, p)
Noticed(p) == (notice \/ sched \in {"down", "boot"}) /\ p \in downtime
Heeded(p) == p \in Logged \/ Held(p) \/ Noticed(p) \/ p \in unheard

HeardInv == host # "usn" => \A p \in stale : Heeded(p)

\* The kinds of host are those of the header of Watchers.
LEMMA HostKinds == ASSUME TypeInv PROVE host = "usn" \/ host = "dir" \/ Fanotify
  BY DEF TypeInv, SourceType, Fanotify, ByFid

\* The kernel has an event of the change, or has said that it lost some.
LEMMA AudibleHeld ==
  ASSUME NEW p \in Path, NEW k \in {"content", "entry"}, Change(p, k), Audible(p, k)
  PROVE  p \in queue' \/ over'
  BY DEF Change, Heard

\* A change is heeded at once: the kernel queues it or overflows, a marker is
\* due for the window it falls in, the notice of the restart stands for it, or
\* it is of the windows that the code leaves open.
LEMMA ChangeHeeded ==
  ASSUME TypeInv, ThreadInv, MarkInv, host # "usn",
         NEW p \in Path, NEW k \in {"content", "entry"}, Change(p, k)
  PROVE  Heeded(p)'
  <1> USE DEF Heeded, Held
  <1>1. UNCHANGED <<host, pc, sched, notice, batch, sticky, reported>>
    BY DEF Change
  <1>2. ASSUME Audible(p, k) PROVE Heeded(p)'
    BY <1>2, AudibleHeld DEF MarkerDue
  <1>3. CASE Fanotify /\ sched \in {"down", "boot"}
    BY <1>1, <1>3 DEF Change, Noticed
  <1>4. CASE Hole(p, k)
    BY <1>4 DEF Change
  <1>5. CASE ~Fanotify /\ ~Hole(p, k) /\ ~Audible(p, k)
    <2>1. host = "dir"
      BY <1>5, HostKinds
    <2>2. sched \in {"down", "boot"}
      BY <1>5, <2>1 DEF Hole, Audible
    <2>3. p \in unheard'
      BY <1>5, <2>1, <2>2 DEF Change
    <2>4. QED BY <2>3
  <1>6. CASE Fanotify /\ sched \in {"join", "rearm"}
    BY <1>1, <1>6 DEF MarkerDue, Fanotify, ByFid
  <1>7. CASE Fanotify /\ pc = "dying"
    BY <1>1, <1>7 DEF MarkerDue, Fanotify, ByFid
  <1>8. CASE /\ Fanotify /\ sched \notin {"down", "boot", "join", "rearm"} /\ pc # "dying"
             /\ ~Hole(p, k) /\ ~Audible(p, k)
    <2>1. pc \in {"read", "persist"}
      BY <1>8 DEF Hole, ThreadInv, FanPc
    <2>2. host # "path" \/ k = "content"
      <3>1. k = "content" \/ k = "entry"
        OBVIOUS
      <3>2. QED BY <1>8, <3>1 DEF Hole
    <2>3. ByDir /\ p = Child /\ known # "yes"
      BY <1>8, <2>1, <2>2 DEF Audible, Live
    <2>4. known = "new"
      BY <1>8, <2>3 DEF Hole, TypeInv, ThreadType
    <2>5. made
      BY <2>3 DEF Change
    <2>6. Dir \in queue
      BY <2>1, <2>3, <2>4, <2>5 DEF MarkInv, Live
    <2>7. queue \subseteq queue'
      BY DEF Change, Heard
    <2>8. QED BY <2>3, <2>6, <2>7
  <1>9. QED BY <1>2, <1>3, <1>4, <1>5, <1>6, <1>7, <1>8

\* The restart notice stands for the downtime from the start of the process,
\* unless it could not be written.
LEMMA NoticeStays ==
  ASSUME TypeInv, BufferInv, [Next]_vars, NEW p \in Path, p \in stale', ~Changed(p), Noticed(p),
         p \notin Logged
  PROVE  Noticed(p)' \/ p \in unheard'
  <1> USE StaleStays DEF Noticed
  <1>1. CASE BootArmed
    <2>1. Fanotify
      BY DEF BufferInv
    <2>2. notice' \/ unheard' = unheard \cup (downtime \ Logged)
      BY <1>1, <2>1 DEF BootArmed, RaiseNotice
    <2>3. QED BY <2>2
  <1>2. CASE Boot
    BY <1>2 DEF Boot
  <1>3. CASE notice' = notice /\ (sched \in {"down", "boot"} => sched' \in {"down", "boot"})
    BY <1>3
  <1>4. CASE PassDone \/ PassFails
    BY <1>3, <1>4 DEF PassDone, PassFails, PassOver, EnterWait, TypeInv, ThreadType
  <1>5. CASE Crash
    BY <1>3, <1>5 DEF Crash
  <1>6. CASE Reconfigure \/ Joined \/ Rearmed \/ PassStart \/ NothingDue \/ Awake
    <2>1. notice' = notice
      BY <1>6 DEF Reconfigure, Joined, Rearmed, PassStart, Take, NothingDue, Awake
    <2>2. sched \notin {"down", "boot"}
      BY <1>6 DEF Reconfigure, Joined, Rearmed, PassStart, NothingDue, Awake
    <2>3. QED BY <1>3, <2>1, <2>2
  <1>7. CASE UNCHANGED <<notice, sched>>
    BY <1>3, <1>7
  <1>8. QED
    BY <1>1, <1>2, <1>4, <1>5, <1>6, <1>7 DEF Next, Watcher, Scheduler, World, Fan, Usn,
       WinDir, vars, Notify, FanSetup, FanDegrade, FanMark, FanRead, FanPersist, FanStop, FanFails,
       FanEnds, FanGap, FanRestart, UsnOpen, UsnRebase, UsnCheck, UsnReset, UsnRead, UsnGap,
       UsnRequery, UsnPersist, UsnBatchEnd, UsnSetCursor, SetCursor, UsnEnds, DirOpen, DirWait,
       DirRead, DirPersist, DirStop, DirEnds, DirClosed, DirReport, DirRetry, ManualStart, Take,
       Change, JournalTrimmed, JournalRecreated

\* What the watcher held before a step is held, logged or accounted for after.
LEMMA HeldStep ==
  ASSUME TypeInv, ThreadInv, BufferInv, host # "usn", [Next]_vars,
         NEW p \in Path, p \in stale, p \in stale', ~Changed(p), Held(p),
         p \notin Logged
  PROVE  Heeded(p)'
  <1> USE HostStep, HostKinds DEF Heeded, Held
  <1>1. UNCHANGED Fanotify
    BY DEF Fanotify, ByFid
  <1>2. ASSUME p \in unheard' PROVE Heeded(p)'
    BY <1>2
  <1>3. ASSUME Record({}, TRUE) PROVE Heeded(p)'
    BY <1>3, MarkerLogged
  <1>4. batch \in Rows /\ log \in Rows
    BY DEF TypeInv, RowsType
  <1>5. CASE UNCHANGED <<pc, sched, over, sticky, reported, batch, queue>>
    BY <1>1, <1>5 DEF MarkerDue, Reads
  <1>6. CASE FanSetup \/ FanMark
    <2>1. queue = {} /\ ~over /\ batch.paths = {} /\ ~batch.rescan /\ ~sticky /\ pc # "dying"
          /\ pc # "dfail"
      BY <1>6 DEF FanSetup, FanMark, BufferInv, Listening
    <2>2. Fanotify /\ sched \in {"join", "rearm"}
      BY <2>1 DEF MarkerDue, Reads
    <2>3. Fanotify' /\ sched' \in {"join", "rearm"}
      BY <1>1, <1>6, <2>2 DEF FanSetup, FanMark
    <2>4. QED BY <2>3 DEF MarkerDue
  <1>7. CASE FanDegrade \/ FanGap
    <2>1. CASE Record({}, TRUE)
      BY <1>3, <2>1
    <2>2. CASE unheard' = unheard \cup (stale \ Logged)
      BY <2>2
    <2>3. QED BY <1>7, <2>1, <2>2 DEF FanDegrade, FanGap
  <1>8. CASE FanRead
    <2>1. batch'.paths = queue \ Unresolved /\ (over => batch'.rescan)
      BY <1>8, Reading
    <2>2. CASE p \in Unresolved
      BY <1>8, <2>2 DEF FanRead, Reads
    <2>3. UNCHANGED <<sched, sticky, host, reported>> /\ pc = "read"
      BY <1>8 DEF FanRead
    <2>4. batch.paths = {} /\ ~batch.rescan
      BY <2>3 DEF BufferInv
    <2>5. CASE sticky \/ (Fanotify /\ sched \in {"join", "rearm"})
      BY <1>1, <2>3, <2>5 DEF MarkerDue
    <2>6. CASE over
      BY <2>1, <2>6 DEF Reads
    <2>7. CASE p \notin Unresolved /\ (p \in queue \/ (p = Child /\ Dir \in queue))
      <3>1. Dir \in queue => Dir \notin Unresolved
        BY DEF Unresolved
      <3>2. QED BY <2>1, <2>7, <3>1 DEF Reads
    <2>8. QED BY <2>2, <2>3, <2>4, <2>5, <2>6, <2>7 DEF MarkerDue, Reads
  <1>9. CASE FanPersist
    <2>1. CASE sticky'
      BY <2>1 DEF MarkerDue
    <2>2. CASE Record(batch.paths, batch.rescan \/ sticky)
      <3>1. (batch.rescan \/ sticky) \in BOOLEAN
        OBVIOUS
      <3>2. (batch.rescan \/ sticky) \/ p \in batch.paths \/ (p = Child /\ Dir \in batch.paths)
              => p \in Logged'
        BY <2>2, <3>1, Recorded
      <3>3. CASE sticky \/ Reads(batch, p)
        BY <3>2, <3>3 DEF Reads
      <3>4. UNCHANGED <<sched, over, queue, host, reported>> /\ pc = "persist"
        BY <1>9 DEF FanPersist
      <3>5. CASE over \/ (Fanotify /\ sched \in {"join", "rearm"})
        BY <1>1, <3>4, <3>5 DEF MarkerDue
      <3>6. CASE p \in queue \/ (p = Child /\ Dir \in queue)
        BY <3>4, <3>6
      <3>7. QED BY <3>3, <3>4, <3>5, <3>6 DEF MarkerDue
    <2>3. QED BY <1>9, <2>1, <2>2 DEF FanPersist
  <1>10. CASE FanStop
    <2>1. Fanotify /\ sched = "join" /\ sched' = sched
      BY <1>10 DEF FanStop, FanEnds, ThreadInv, DirPc, UsnPc, Fanotify, ByFid
    <2>2. QED BY <1>1, <2>1 DEF MarkerDue
  <1>11. CASE FanFails
    BY <1>1, <1>11 DEF FanFails, FanEnds, MarkerDue
  <1>12. CASE FanRestart
    <2>1. UNCHANGED <<sched, over, sticky, batch, queue>> /\ pc = "backoff"
      BY <1>12 DEF FanRestart
    <2>2. QED BY <1>1, <2>1 DEF MarkerDue, Reads
  <1>13. CASE DirOpen
    <2>1. queue = {} /\ ~over /\ batch.paths = {} /\ ~batch.rescan /\ pc = "dopen"
      BY <1>13 DEF DirOpen, BufferInv, Listening
    <2>2. ~Fanotify /\ ~sticky
      BY <2>1 DEF ThreadInv, FanPc, BufferInv
    <2>3. QED BY <2>1, <2>2 DEF MarkerDue, Reads
  <1>14. CASE DirWait
    <2>1. UNCHANGED <<sched, over, sticky, batch, queue>> /\ pc \in {"dfirst", "dtop"}
      BY <1>14 DEF DirWait
    <2>2. QED BY <1>1, <2>1 DEF MarkerDue, Reads
  <1>15. CASE DirStop
    <2>1. host = "dir"
      BY <1>15 DEF DirStop, ThreadInv, FanPc, Fanotify, ByFid
    <2>2. p \in unheard'
      BY <1>15, <2>1 DEF DirStop, DirClosed
    <2>3. QED BY <2>2
  <1>16. CASE DirEnds
    <2>1. host = "dir"
      BY <1>16 DEF DirEnds, ThreadInv, FanPc, Fanotify, ByFid
    <2>2. CASE reported
      BY <1>16, <2>1, <2>2 DEF DirEnds, DirClosed
    <2>3. CASE ~reported
      BY <1>16, <2>1, <2>3 DEF DirEnds, DirClosed, MarkerDue
    <2>4. QED BY <2>2, <2>3
  <1>17. CASE DirRead
    <2>1. CASE over
      BY <1>3, <1>17, <2>1 DEF DirRead
    <2>2. CASE ~over
      <3>1. batch' = [NoRows EXCEPT !.paths = queue]
        BY <1>17, <2>2 DEF DirRead
      <3>2. batch'.paths = queue
        BY <3>1 DEF NoRows
      <3>3. pc = "dread" /\ batch.paths = {} /\ ~batch.rescan
        BY <1>17 DEF DirRead, BufferInv
      <3>4. ~Fanotify /\ ~sticky
        BY <3>3 DEF ThreadInv, FanPc, BufferInv
      <3>5. QED BY <2>2, <3>2, <3>3, <3>4 DEF MarkerDue, Reads
    <2>3. QED BY <2>1, <2>2
  <1>18. CASE DirPersist
    <2>1. PICK x \in batch.paths : Record({x}, FALSE) /\ batch' = [batch EXCEPT !.paths = @ \ {x}]
      BY <1>18 DEF DirPersist
    <2>2. batch'.paths = batch.paths \ {x}
      BY <1>4, <2>1 DEF Rows
    <2>3. UNCHANGED <<over, sticky, queue, sched>> /\ pc = "dpersist" /\ ~batch.rescan
      BY <1>18 DEF DirPersist, BufferInv
    <2>4. ~Fanotify /\ ~sticky
      BY <2>3 DEF ThreadInv, FanPc, BufferInv
    <2>5. p = x \/ (p = Child /\ x = Dir) => p \in Logged'
      BY <2>1, Recorded
    <2>6. QED BY <2>2, <2>3, <2>4, <2>5 DEF MarkerDue, Reads
  <1>19. CASE DirReport
    <2>1. pc = "dfail" /\ host = "dir"
      BY <1>19 DEF DirReport, ThreadInv, FanPc, Fanotify, ByFid
    <2>2. CASE reported
      <3>1. UNCHANGED <<over, sticky, queue, sched, batch>>
        BY <1>19 DEF DirReport
      <3>2. QED BY <1>1, <2>1, <2>2, <3>1 DEF MarkerDue, Reads
    <2>3. CASE ~reported
      <3>1. CASE Record({}, TRUE)
        BY <1>3, <3>1
      <3>2. CASE ~Record({}, TRUE)
        BY <1>19, <2>1, <2>3, <3>2 DEF DirReport
      <3>3. QED BY <3>1, <3>2
    <2>4. QED BY <2>2, <2>3
  <1>20. CASE DirRetry
    <2>1. UNCHANGED <<sched, over, sticky, batch, queue>> /\ pc = "retry"
      BY <1>20 DEF DirRetry
    <2>2. QED BY <1>1, <2>1 DEF MarkerDue, Reads
  <1>21. CASE UsnOpen \/ UsnRebase \/ UsnCheck \/ UsnReset \/ UsnRead \/ UsnGap \/ UsnRequery
              \/ UsnPersist \/ UsnBatchEnd \/ UsnSetCursor
    BY <1>21 DEF UsnOpen, UsnRebase, UsnCheck, UsnReset, UsnRead, UsnGap, UsnRequery, UsnPersist,
       UsnBatchEnd, UsnSetCursor, ThreadInv, UsnPc
  <1>22. CASE UsnEnds
    <2>1. UNCHANGED <<sched, over, sticky, batch, queue>> /\ pc = "open"
      BY <1>22 DEF UsnEnds
    <2>2. QED BY <1>1, <2>1 DEF MarkerDue, Reads
  <1>23. CASE Boot
    <2>1. UNCHANGED <<over, sticky, batch, queue>> /\ pc = "off" /\ sched = "down"
      BY <1>23 DEF Boot, ThreadInv
    <2>2. QED BY <1>1, <2>1 DEF MarkerDue, Reads
  <1>24. CASE BootArmed \/ Reconfigure
    <2>1. UNCHANGED <<over, sticky, batch, queue, pc, reported>> /\ sched \notin {"join", "rearm"}
      BY <1>24 DEF BootArmed, Reconfigure
    <2>2. QED BY <1>1, <2>1 DEF MarkerDue, Reads
  <1>25. CASE Joined
    <2>1. UNCHANGED <<over, sticky, batch, queue>> /\ pc = "off" /\ sched' = "rearm"
      BY <1>25 DEF Joined
    <2>2. QED BY <1>1, <2>1 DEF MarkerDue, Reads
  <1>26. CASE Rearmed
    <2>1. CASE ~Fanotify
      <3>1. UNCHANGED <<over, sticky, batch, queue, pc, reported>>
        BY <1>26 DEF Rearmed
      <3>2. QED BY <1>1, <2>1, <3>1 DEF MarkerDue, Reads
    <2>2. CASE Fanotify /\ log' = Plus(log, {}, TRUE)
      <3>1. log'.rescan
        BY <2>2 DEF Plus
      <3>2. QED BY <3>1, LoggedIs DEF Reads
    <2>3. CASE Fanotify /\ log' # Plus(log, {}, TRUE)
      BY <1>26, <2>3 DEF Rearmed, RearmGap
    <2>4. QED BY <2>1, <2>2, <2>3
  <1>27. CASE PassDone \/ PassFails
    <2>1. UNCHANGED <<over, sticky, batch, queue, pc, reported>>
      BY <1>27 DEF PassDone, PassFails, PassOver
    <2>2. sched \in {"join", "rearm"} => sched' = sched
      BY <1>27 DEF PassDone, PassFails, PassOver, EnterWait, TypeInv, ThreadType
    <2>3. QED BY <1>1, <2>1, <2>2 DEF MarkerDue, Reads
  <1>28. CASE PassStart \/ ManualStart \/ NothingDue \/ Awake
    <2>1. UNCHANGED <<over, sticky, batch, queue, pc, reported>>
      BY <1>28 DEF PassStart, ManualStart, Take, NothingDue, Awake
    <2>2. sched \in {"join", "rearm"} => sched' = sched
      BY <1>28 DEF PassStart, ManualStart, Take, NothingDue, Awake
    <2>3. QED BY <1>1, <2>1, <2>2 DEF MarkerDue, Reads
  <1>29. CASE Crash
    <2>1. p \in ReadBy(log') => p \in Logged'
      BY DEF Logged
    <2>2. CASE Fanotify
      BY <1>29, <2>1, <2>2 DEF Crash, Noticed
    <2>3. CASE host = "dir"
      BY <1>29, <2>1, <2>3 DEF Crash
    <2>4. QED BY <2>2, <2>3
  <1>30. ASSUME NEW x \in Path, NEW k \in {"content", "entry"}, Change(x, k) PROVE Heeded(p)'
    <2>1. UNCHANGED <<pc, sched, sticky, reported, batch>>
      BY <1>30 DEF Change
    <2>2. queue \subseteq queue' /\ (over => over')
      BY <1>30 DEF Change, Heard
    <2>3. QED BY <1>1, <2>1, <2>2 DEF MarkerDue, Reads
  <1>31. QED
    BY <1>5, <1>6, <1>7, <1>8, <1>9, <1>10, <1>11, <1>12, <1>13, <1>14, <1>15, <1>16, <1>17,
       <1>18, <1>19, <1>20, <1>21, <1>22, <1>23, <1>24, <1>25, <1>26, <1>27, <1>28, <1>29, <1>30
       DEF Next, Watcher, Scheduler, World, Fan, Usn, WinDir, vars, Notify, JournalTrimmed,
       JournalRecreated

\* Nothing that is stale goes unheeded on a host that reads events.
LEMMA HeardStep ==
  ASSUME TypeInv, ThreadInv, BufferInv, MarkInv, HeardInv, [Next]_vars
  PROVE  HeardInv'
  <1> SUFFICES ASSUME host # "usn", NEW p \in stale' PROVE Heeded(p)'
    BY HostStep DEF HeardInv
  <1>1. p \in Path
    BY SourceStep DEF SourceType
  <1>2. CASE Changed(p)
    BY <1>1, <1>2, ChangeHeeded DEF Changed
  <1>3. CASE ~Changed(p)
    <2>1. p \in stale /\ Heeded(p)
      BY <1>1, <1>3, StaleStays DEF HeardInv
    <2>2. CASE p \in Logged
      BY <1>1, <1>3, <2>2, LoggedStays DEF Heeded
    <2>3. CASE p \in unheard
      BY <1>1, <1>3, <2>3, StaleStays DEF Heeded
    <2>4. CASE Noticed(p) /\ p \notin Logged
      BY <1>1, <1>3, <2>4, NoticeStays DEF Heeded
    <2>5. CASE Held(p) /\ p \notin Logged
      BY <1>1, <1>3, <2>1, <2>5, HeldStep
    <2>6. QED BY <2>1, <2>2, <2>3, <2>4, <2>5 DEF Heeded
  <1>4. QED BY <1>2, <1>3

-----------------------------------------------------------------------------
(* What a reader of the journal that is at a cursor will still find. *)

Places == [jid : Nat, next : Nat]

Legible(j, c) == c.jid = j.jid /\ c.next >= j.low
Among(s, p) == \E i \in 1 .. Len(s) : s[i] = p
Ahead(j, n, p) == \E i \in (n - j.low + 1) .. Len(j.recs) : j.recs[i] = p
Within(j, c) == Legible(j, c) => c.next <= j.low + Len(j.recs)
Found(j, c, p) == Legible(j, c) => Ahead(j, c.next, p) \/ (p = Child /\ Ahead(j, c.next, Dir))
Todo(s, p) == Among(s, p) \/ (p = Child /\ Among(s, Dir))

\* A record is appended: a reader that has not gone past the end finds it, and
\* what it would have found before.
LEMMA AheadGrows ==
  ASSUME NEW j \in Journals, NEW k \in Journals, NEW x \in Path, NEW n \in Nat,
         k.low = j.low, k.recs = Append(j.recs, x), n >= j.low
  PROVE  /\ \A p : Ahead(j, n, p) => Ahead(k, n, p)
         /\ n <= j.low + Len(j.recs) => Ahead(k, n, x)
  <1>1. j.recs \in Seq(Path) /\ j.low \in Nat /\ Len(j.recs) \in Nat
    BY DEF Journals
  <1>2. Len(k.recs) = Len(j.recs) + 1
    BY <1>1
  <1>3. \A i \in 1 .. Len(j.recs) : k.recs[i] = j.recs[i]
    BY <1>1
  <1>4. k.recs[Len(j.recs) + 1] = x
    BY <1>1
  <1>5. ASSUME NEW p, Ahead(j, n, p) PROVE Ahead(k, n, p)
    <2>1. PICK i \in (n - j.low + 1) .. Len(j.recs) : j.recs[i] = p
      BY <1>5 DEF Ahead
    <2>2. i \in 1 .. Len(j.recs) /\ i \in (n - k.low + 1) .. Len(k.recs)
      BY <1>1, <1>2, <2>1
    <2>3. QED BY <1>3, <2>1, <2>2 DEF Ahead
  <1>6. ASSUME n <= j.low + Len(j.recs) PROVE Ahead(k, n, x)
    <2>1. Len(j.recs) + 1 \in (n - k.low + 1) .. Len(k.recs)
      BY <1>1, <1>2, <1>6
    <2>2. QED BY <1>4, <2>1 DEF Ahead
  <1>7. QED BY <1>5, <1>6

\* The same for what a reader finds, with the files of a directory it finds.
LEMMA FoundGrows ==
  ASSUME NEW j \in Journals, NEW k \in Journals, NEW x \in Path, NEW c,
         c.jid \in Nat, c.next \in Nat,
         k.jid = j.jid, k.low = j.low, k.recs = Append(j.recs, x)
  PROVE  /\ \A p : Found(j, c, p) => Found(k, c, p)
         /\ Within(j, c) => Within(k, c) /\ Found(k, c, x)
  <1>1. Legible(j, c) <=> Legible(k, c)
    BY DEF Legible
  <1>2. Legible(j, c) => c.next >= j.low
    BY DEF Legible
  <1>3. \A p : Found(j, c, p) => Found(k, c, p)
    BY <1>1, <1>2, AheadGrows DEF Found
  <1>4. ASSUME Within(j, c) PROVE Within(k, c) /\ Found(k, c, x)
    <2>1. Legible(j, c) => c.next <= j.low + Len(j.recs)
      BY <1>4 DEF Within
    <2>2. Len(k.recs) = Len(j.recs) + 1 /\ Len(j.recs) \in Nat /\ j.low \in Nat
      BY DEF Journals
    <2>3. Within(k, c)
      BY <1>1, <2>1, <2>2 DEF Within
    <2>4. Legible(j, c) => Ahead(k, c.next, x)
      BY <1>2, <2>1, AheadGrows
    <2>5. QED BY <1>1, <2>3, <2>4 DEF Found
  <1>5. QED BY <1>3, <1>4

\* The oldest record is dropped: a reader that was to read it finds that it is gone.
LEMMA AheadTrimmed ==
  ASSUME NEW j \in Journals, NEW k \in Journals, NEW n \in Nat, NEW p, j.recs # <<>>,
         k.low = j.low + 1, k.recs = Tail(j.recs), n >= k.low, Ahead(j, n, p)
  PROVE  Ahead(k, n, p)
  <1>1. j.recs \in Seq(Path) /\ j.low \in Nat /\ Len(j.recs) \in Nat
    BY DEF Journals
  <1>2. Len(k.recs) = Len(j.recs) - 1
    BY <1>1
  <1>3. \A i \in 1 .. Len(k.recs) : k.recs[i] = j.recs[i + 1]
    BY <1>1
  <1>4. PICK i \in (n - j.low + 1) .. Len(j.recs) : j.recs[i] = p
    BY DEF Ahead
  <1>5. i - 1 \in (n - k.low + 1) .. Len(k.recs) /\ i - 1 \in 1 .. Len(k.recs) /\ (i - 1) + 1 = i
    BY <1>1, <1>2, <1>4
  <1>6. QED BY <1>3, <1>4, <1>5 DEF Ahead

\* The same for what a reader finds.
LEMMA FoundTrimmed ==
  ASSUME NEW j \in Journals, NEW k \in Journals, NEW c, c.jid \in Nat, c.next \in Nat,
         j.recs # <<>>, k.jid = j.jid, k.low = j.low + 1, k.recs = Tail(j.recs)
  PROVE  /\ \A p : Found(j, c, p) => Found(k, c, p)
         /\ Within(j, c) => Within(k, c)
         /\ Legible(k, c) => Legible(j, c) /\ c.next >= k.low
  <1>1. j.low \in Nat
    BY DEF Journals
  <1>2. Legible(k, c) => Legible(j, c) /\ c.next >= k.low
    BY <1>1 DEF Legible
  <1>3. \A p : Found(j, c, p) => Found(k, c, p)
    BY <1>2, AheadTrimmed DEF Found
  <1>4. Len(k.recs) = Len(j.recs) - 1 /\ Len(j.recs) \in Nat
    BY DEF Journals
  <1>5. Within(j, c) => Within(k, c)
    BY <1>1, <1>2, <1>4 DEF Within
  <1>6. QED BY <1>2, <1>3, <1>5

\* The records a read returns, and those it leaves.
LEMMA AheadSplit ==
  ASSUME NEW j \in Journals, NEW a \in Nat, NEW n \in Nat, NEW p,
         a >= j.low, n >= 1, n <= Len(j.recs) - (a - j.low), Ahead(j, a, p)
  PROVE  \/ Ahead(j, a + n, p)
         \/ Among(SubSeq(j.recs, (a - j.low) + 1, (a - j.low) + n), p)
  <1> DEFINE from == a - j.low
             s == SubSeq(j.recs, from + 1, from + n)
  <1>1. j.recs \in Seq(Path) /\ j.low \in Nat /\ Len(j.recs) \in Nat /\ from \in Nat
    BY DEF Journals
  <1>2. PICK i \in (from + 1) .. Len(j.recs) : j.recs[i] = p
    BY DEF Ahead
  <1>3. CASE i > from + n
    <2>1. i \in ((a + n) - j.low + 1) .. Len(j.recs)
      BY <1>1, <1>2, <1>3
    <2>2. QED BY <1>2, <2>1 DEF Ahead
  <1>4. CASE i <= from + n
    <2>1. i - from \in 1 .. n
      <3>1. i \in Int /\ from + 1 <= i
        BY <1>1, <1>2
      <3> HIDE DEF from
      <3>2. QED BY <1>1, <1>4, <3>1
    <2>2. Len(s) = n /\ \A m \in 1 .. n : s[m] = j.recs[from + m]
      <3>0. n <= Len(j.recs) - from
        OBVIOUS
      <3> HIDE DEF from
      <3>1. \A m \in (from + 1) .. (from + n) : j.recs[m] \in Path
        <4>1. \A m \in 1 .. Len(j.recs) : j.recs[m] \in Path
          BY <1>1
        <4>2. (from + 1) .. (from + n) \subseteq 1 .. Len(j.recs)
          BY <1>1, <3>0
        <4>3. QED BY <4>1, <4>2
      <3>2. /\ Len(s) = (from + n) - (from + 1) + 1
            /\ \A m \in 1 .. (from + n) - (from + 1) + 1 : s[m] = j.recs[(from + 1) + m - 1]
        BY <1>1, <3>1, SubSeqProperties
      <3>3. (from + n) - (from + 1) + 1 = n /\ \A m \in 1 .. n : (from + 1) + m - 1 = from + m
        BY <1>1
      <3>4. QED BY <3>2, <3>3
    <2>3. from + (i - from) = i
      BY <1>1, <1>2
    <2>4. s[i - from] = p
      BY <1>2, <2>1, <2>2, <2>3
    <2>5. QED BY <2>1, <2>2, <2>4 DEF Among
  <1>5. QED BY <1>1, <1>2, <1>3, <1>4

\* A batch is its first record and the rest.
LEMMA AmongSplit ==
  ASSUME NEW s \in Seq(Path), s # <<>>, NEW p, Among(s, p)
  PROVE  Head(s) = p \/ Among(Tail(s), p)
  <1>1. PICK i \in 1 .. Len(s) : s[i] = p
    BY DEF Among
  <1>2. CASE i = 1
    BY <1>1, <1>2
  <1>3. CASE i # 1
    <2>1. i - 1 \in 1 .. Len(Tail(s)) /\ Tail(s)[i - 1] = s[(i - 1) + 1]
      BY <1>1, <1>3
    <2>2. (i - 1) + 1 = i
      BY <1>1
    <2>3. QED BY <1>1, <2>1, <2>2 DEF Among
  <1>4. QED BY <1>2, <1>3

\* An empty batch holds nothing.
LEMMA AmongNone == \A p : ~Among(<<>>, p)
  BY DEF Among

-----------------------------------------------------------------------------
(* What each step does to the session of the USN watcher. *)

LEMMA UsnPlaces ==
  ASSUME TypeInv
  PROVE  /\ journal \in Journals /\ journal.jid \in Nat \ {0} /\ journal.low \in Nat
         /\ journal.recs \in Seq(Path) /\ Len(journal.recs) \in Nat /\ Tip \in Nat
         /\ usn \in Sessions /\ usn.jid \in Nat /\ usn.next \in Nat /\ usn.todo \in Seq(Path)
         /\ usn.jid <= journal.jid
         /\ cursor # None => cursor.jid \in Nat /\ cursor.next \in Nat /\ cursor.jid <= journal.jid
  BY TipType DEF TypeInv, SourceType, UsnType, Journals, Sessions

\* Readable of Watchers, with the journal as a parameter.
LEMMA ReadableIs ==
  ASSUME NEW c
  PROVE  Readable(c) <=> Legible(journal, c)
  BY DEF Readable, Legible

Afresh ==
    /\ usn'.jid = journal.jid /\ usn'.next = Tip
    /\ usn'.todo = <<>> /\ ~usn'.rebuild
    /\ made => known' = "yes"
    /\ Record({}, TRUE)

\* initial_next_usn: at the cursor, or afresh at the end of the journal.
LEMMA OpenEffect ==
  ASSUME TypeInv, UsnOpen
  PROVE  /\ \/ /\ cursor # None /\ Readable(cursor)
               /\ usn'.jid = journal.jid /\ usn'.next = cursor.next
               /\ usn'.todo = <<>> /\ ~usn'.rebuild
               /\ made => known' = "yes"
            \/ Afresh
         /\ pc' \in {"check", "rebase"}
         /\ UNCHANGED <<journal, cursor, made>>
  <1>1. journal.jid \in Nat /\ Tip \in Nat
    BY UsnPlaces
  <1>2. (made => known' = "yes") /\ pc' \in {"check", "rebase"} /\ UNCHANGED <<journal, cursor, made>>
    BY DEF UsnOpen
  <1>3. CASE cursor # None /\ Readable(cursor)
    <2>1. usn' = SessionAt(journal.jid, cursor.next, Tip)
      BY <1>3 DEF UsnOpen, SessionAt
    <2>2. cursor.next \in Nat
      BY <1>3, UsnPlaces
    <2>3. usn'.jid = journal.jid /\ usn'.next = cursor.next
      BY <1>1, <2>1, <2>2, SessionFields
    <2>4. usn'.todo = <<>> /\ ~usn'.rebuild
      BY <1>1, <2>1, <2>2, SessionIdle
    <2>5. QED BY <1>2, <1>3, <2>3, <2>4
  <1>4. CASE ~(cursor # None /\ Readable(cursor))
    <2>1. usn' = SessionAt(journal.jid, Tip, Tip) /\ Record({}, TRUE)
      BY <1>4 DEF UsnOpen, SessionAt
    <2>2. usn'.jid = journal.jid /\ usn'.next = Tip
      BY <1>1, <2>1, SessionFields
    <2>3. usn'.todo = <<>> /\ ~usn'.rebuild
      BY <1>1, <2>1, SessionIdle
    <2>4. QED BY <1>2, <2>1, <2>2, <2>3 DEF Afresh
  <1>5. QED BY <1>3, <1>4

\* The top of the loop: stop, go on to read, or start afresh.
LEMMA CheckEffect ==
  ASSUME TypeInv, UsnCheck
  PROVE  /\ \/ /\ usn' = usn /\ known' = known /\ pc' = "off"
            \/ /\ usn'.jid = usn.jid /\ usn'.next = usn.next
               /\ usn'.todo = usn.todo /\ (usn'.rebuild <=> usn.rebuild)
               /\ known' = known /\ pc' = "uread"
            \/ Afresh /\ pc' = "reset"
         /\ pc = "check"
         /\ UNCHANGED <<journal, cursor, made>>
  <1>1. journal.jid \in Nat /\ Tip \in Nat /\ usn \in Sessions
    BY UsnPlaces
  <1>2. pc = "check" /\ UNCHANGED <<journal, cursor, made>>
    BY DEF UsnCheck
  <1>3. CASE stop
    BY <1>2, <1>3 DEF UsnCheck
  <1>4. CASE ~stop /\ Readable(usn)
    <2>1. usn' = [usn EXCEPT !.tip = Tip] /\ known' = known /\ pc' = "uread"
      BY <1>4 DEF UsnCheck
    <2>2. usn'.jid = usn.jid /\ usn'.next = usn.next /\ usn'.todo = usn.todo
      BY <1>1, <2>1 DEF Sessions
    <2>3. usn'.rebuild <=> usn.rebuild
      BY <1>1, <2>1 DEF Sessions
    <2>4. QED BY <1>2, <2>1, <2>2, <2>3
  <1>5. CASE ~stop /\ ~Readable(usn)
    <2>1. usn' = SessionAt(journal.jid, Tip, Tip) /\ Record({}, TRUE)
      BY <1>5 DEF UsnCheck, SessionAt
    <2>2. usn'.jid = journal.jid /\ usn'.next = Tip
      BY <1>1, <2>1, SessionFields
    <2>3. usn'.todo = <<>> /\ ~usn'.rebuild
      BY <1>1, <2>1, SessionIdle
    <2>4. (made => known' = "yes") /\ pc' = "reset"
      BY <1>5 DEF UsnCheck
    <2>5. QED BY <1>2, <2>1, <2>2, <2>3, <2>4 DEF Afresh
  <1>6. QED BY <1>3, <1>4, <1>5

\* read_usn_batch: nothing left, or the next n records.
LEMMA ReadEffect ==
  ASSUME TypeInv, UsnRead
  PROVE  /\ \/ usn' = usn /\ pc' = "setcur"
            \/ /\ pc' = "upersist" /\ usn'.jid = usn.jid /\ (usn'.rebuild <=> usn.rebuild)
               /\ \E n \in Nat :
                     /\ n >= 1 /\ n <= Len(journal.recs) - (usn.next - journal.low)
                     /\ usn'.next = usn.next + n
                     /\ usn'.todo = SubSeq(journal.recs, (usn.next - journal.low) + 1,
                                           (usn.next - journal.low) + n)
         /\ pc = "uread" /\ Legible(journal, usn)
         /\ UNCHANGED <<journal, cursor, made, known, log, pass, taken, dirty, stale, dropped>>
  <1> DEFINE from == usn.next - journal.low
             left == Len(journal.recs) - from
  <1>1. usn \in Sessions /\ usn.next \in Nat /\ journal.low \in Nat /\ Len(journal.recs) \in Nat
        /\ journal.recs \in Seq(Path)
    BY UsnPlaces
  <1>2. pc = "uread" /\ Legible(journal, usn)
        /\ UNCHANGED <<journal, cursor, made, known, log, pass, taken, dirty, stale, dropped>>
    BY ReadableIs DEF UsnRead
  <1>3. CASE usn' = usn
    <2>1. CASE left = 0
      BY <1>2, <1>3, <2>1 DEF UsnRead
    <2>2. CASE left # 0
      <3>1. PICK n \in 1 .. left : usn' = [usn EXCEPT !.next = @ + n,
                                   !.todo = SubSeq(journal.recs, from + 1, from + n)]
        BY <2>2 DEF UsnRead
      <3>2. n \in Nat /\ n >= 1
        BY <1>1, <3>1
      <3>3. usn'.next = usn.next + n
        BY <1>1, <3>1 DEF Sessions
      <3>4. QED BY <1>1, <1>3, <3>2, <3>3
    <2>3. QED BY <2>1, <2>2
  <1>4. CASE usn' # usn
    <2>1. PICK n \in 1 .. left : usn' = [usn EXCEPT !.next = @ + n,
                                 !.todo = SubSeq(journal.recs, from + 1, from + n)]
      BY <1>4 DEF UsnRead
    <2>2. pc' = "upersist"
      BY <1>4 DEF UsnRead
    <2>3. n \in Nat /\ n >= 1 /\ n <= left
      BY <1>1, <2>1
    <2>4. usn'.jid = usn.jid /\ usn'.next = usn.next + n
          /\ usn'.todo = SubSeq(journal.recs, from + 1, from + n)
      BY <1>1, <2>1 DEF Sessions
    <2>5. usn'.rebuild <=> usn.rebuild
      BY <1>1, <2>1 DEF Sessions
    <2>6. QED BY <1>2, <2>2, <2>3, <2>4, <2>5
  <1>5. QED BY <1>3, <1>4

\* The session that lost its range goes on at the end of the journal.
LEMMA RequeryEffect ==
  ASSUME TypeInv, UsnRequery
  PROVE  /\ usn'.jid = journal.jid /\ usn'.next = Tip
         /\ usn'.todo = usn.todo /\ (usn'.rebuild <=> usn.rebuild)
         /\ made => known' = "yes"
         /\ pc = "requery" /\ pc' = "setcur"
         /\ UNCHANGED <<journal, cursor, made, stale, log, pass, taken, dirty>>
         /\ dropped' = dropped \cup (stale \ Logged)
  <1>1. usn \in Sessions
    BY UsnPlaces
  <1>2. usn' = [usn EXCEPT !.jid = journal.jid, !.next = Tip]
    BY DEF UsnRequery
  <1>3. usn'.jid = journal.jid /\ usn'.next = Tip /\ usn'.todo = usn.todo
    BY <1>1, <1>2 DEF Sessions
  <1>4. usn'.rebuild <=> usn.rebuild
    BY <1>1, <1>2 DEF Sessions
  <1>5. QED BY <1>3, <1>4 DEF UsnRequery

\* persist_matching_record: the first record of the batch becomes a row or is skipped.
LEMMA PersistEffect ==
  ASSUME TypeInv, UsnPersist
  PROVE  /\ usn'.jid = usn.jid /\ usn'.next = usn.next
         /\ usn.todo # <<>> /\ usn'.todo = Tail(usn.todo)
         /\ usn'.rebuild <=> usn.rebuild \/ Head(usn.todo) = Dir
         /\ pc = "upersist" /\ pc' = "upersist"
         /\ UNCHANGED <<journal, cursor, made, known, pass, taken, dirty, stale, dropped>>
         /\ \/ Record({Head(usn.todo)}, FALSE)
            \/ Head(usn.todo) = Child /\ known # "yes" /\ log' = log
  <1>1. usn \in Sessions
    BY UsnPlaces
  <1>2. usn' = [usn EXCEPT !.todo = Tail(@), !.rebuild = @ \/ Head(usn.todo) = Dir]
    BY DEF UsnPersist
  <1>3. usn'.jid = usn.jid /\ usn'.next = usn.next /\ usn'.todo = Tail(usn.todo)
    BY <1>1, <1>2 DEF Sessions
  <1>4. usn'.rebuild <=> usn.rebuild \/ Head(usn.todo) = Dir
    BY <1>1, <1>2 DEF Sessions
  <1>5. usn.todo # <<>> /\ pc = "upersist" /\ pc' = "upersist"
        /\ UNCHANGED <<journal, cursor, made, known, pass, taken, dirty, stale, dropped>>
    BY DEF UsnPersist
  <1>6. CASE Head(usn.todo) = Child /\ known # "yes"
    BY <1>3, <1>4, <1>5, <1>6 DEF UsnPersist
  <1>7. CASE ~(Head(usn.todo) = Child /\ known # "yes")
    <2>1. Record({Head(usn.todo)}, FALSE)
      BY <1>7 DEF UsnPersist
    <2>2. QED BY <1>3, <1>4, <1>5, <2>1
  <1>8. QED BY <1>6, <1>7

\* The batch is persisted and the index rebuilt.
LEMMA BatchEndEffect ==
  ASSUME TypeInv, UsnBatchEnd
  PROVE  /\ usn'.jid = usn.jid /\ usn'.next = usn.next
         /\ usn.todo = <<>> /\ usn'.todo = usn.todo
         /\ ~usn'.rebuild
         /\ known' = (IF usn.rebuild /\ made THEN "yes" ELSE known)
         /\ pc = "upersist" /\ pc' \in {"setcur", "uread"}
         /\ UNCHANGED <<journal, cursor, made, log, pass, taken, dirty, stale, dropped>>
  <1>1. usn \in Sessions
    BY UsnPlaces
  <1>2. usn' = [usn EXCEPT !.rebuild = FALSE]
    BY DEF UsnBatchEnd
  <1>3. usn'.jid = usn.jid /\ usn'.next = usn.next /\ usn'.todo = usn.todo
    BY <1>1, <1>2 DEF Sessions
  <1>4. ~usn'.rebuild
    BY <1>1, <1>2 DEF Sessions
  <1>5. QED BY <1>3, <1>4 DEF UsnBatchEnd

-----------------------------------------------------------------------------
(* The session and the cursor stay within the journal. *)

Batching == pc # "upersist" => usn.todo = <<>> /\ ~usn.rebuild

BoundsInv ==
    /\ Within(journal, usn)
    /\ cursor # None => Within(journal, cursor)
    /\ Batching

\* Outside its persist loop a session has nothing left to persist.
LEMMA BatchingStep == ASSUME TypeInv, ThreadInv, Batching, [Next]_vars PROVE Batching'
  <1> USE DEF Batching
  <1>1. NoUsn.todo = <<>> /\ ~NoUsn.rebuild
    BY DEF NoUsn
  <1>2. CASE UsnOpen
    BY <1>2, OpenEffect DEF Afresh
  <1>3. CASE UsnCheck
    <2>1. pc = "check"
      BY <1>3, CheckEffect
    <2>2. usn.todo = <<>> /\ ~usn.rebuild
      BY <2>1
    <2>3. QED BY <1>3, <2>2, CheckEffect DEF Afresh
  <1>4. CASE UsnRead
    BY <1>4, ReadEffect
  <1>5. CASE UsnRequery
    BY <1>5, RequeryEffect
  <1>6. CASE UsnPersist
    BY <1>6, PersistEffect
  <1>7. CASE UsnBatchEnd
    BY <1>7, BatchEndEffect
  <1>8. CASE UsnEnds \/ Crash
    BY <1>1, <1>8 DEF UsnEnds, Crash
  <1>9. CASE UNCHANGED usn /\ pc # "upersist"
    BY <1>9
  <1>10. CASE UNCHANGED <<usn, pc>>
    BY <1>10
  <1>11. CASE FanSetup \/ FanDegrade \/ FanMark \/ FanRead \/ FanPersist \/ FanStop \/ FanFails
              \/ FanGap \/ FanRestart
    <2>1. UNCHANGED usn /\ pc # "upersist"
      BY <1>11 DEF FanSetup, FanDegrade, FanMark, FanRead, FanPersist, FanStop, FanFails,
         FanEnds, FanGap, FanRestart
    <2>2. QED BY <1>9, <2>1
  <1>12. CASE DirOpen \/ DirWait \/ DirRead \/ DirPersist \/ DirStop \/ DirEnds \/ DirReport
              \/ DirRetry
    <2>1. UNCHANGED usn /\ pc # "upersist"
      BY <1>12 DEF DirOpen, DirWait, DirRead, DirPersist, DirStop, DirEnds, DirClosed, DirReport,
         DirRetry
    <2>2. QED BY <1>9, <2>1
  <1>13. CASE UsnRebase \/ UsnReset \/ UsnSetCursor \/ UsnGap
    <2>1. UNCHANGED usn /\ pc # "upersist"
      BY <1>13 DEF UsnRebase, UsnReset, UsnSetCursor, SetCursor, UsnGap
    <2>2. QED BY <1>9, <2>1
  <1>14. CASE Boot \/ Joined
    <2>1. UNCHANGED usn /\ pc # "upersist"
      BY <1>14 DEF Boot, Joined, ThreadInv
    <2>2. QED BY <1>9, <2>1
  <1>15. QED
    BY <1>2, <1>3, <1>4, <1>5, <1>6, <1>7, <1>8, <1>10, <1>11, <1>12, <1>13, <1>14 DEF Next,
       Watcher, Scheduler, World, Fan, Usn, WinDir, vars, Notify, BootArmed, Reconfigure, Rearmed,
       PassStart, ManualStart, Take, NothingDue, PassDone, PassFails, PassOver, Awake,
       Change, JournalTrimmed, JournalRecreated

\* What the file system does to the journal: nothing, or what the lemmas on
\* Found are about.
LEMMA JournalEffect ==
  ASSUME TypeInv, [Next]_vars
  PROVE  \/ journal' = journal
         \/ JournalTrimmed
         \/ JournalRecreated
         \/ /\ host = "usn"
            /\ \E x \in Path, k \in {"content", "entry"} : Change(x, k)
  BY DEF Next, Watcher, Scheduler, World, Fan, Usn, WinDir, vars, Notify, FanSetup, FanDegrade,
     FanMark, FanRead, FanPersist, FanStop, FanFails, FanEnds, FanGap, FanRestart, UsnOpen,
     UsnRebase, UsnCheck, UsnReset, UsnRead, UsnGap, UsnRequery, UsnPersist, UsnBatchEnd,
     UsnSetCursor, SetCursor, UsnEnds, DirOpen, DirWait, DirRead, DirPersist, DirStop, DirEnds,
     DirClosed, DirReport, DirRetry, Boot, BootArmed, Reconfigure, Joined, Rearmed, PassStart,
     ManualStart, Take, NothingDue, PassDone, PassFails, PassOver, Awake, Change, Crash

\* A reader that a step of the file system leaves where it is loses nothing it
\* would have found, unless it will notice.
LEMMA FoundKept ==
  ASSUME TypeInv, [Next]_vars, NEW c, c.jid \in Nat, c.next \in Nat, c.jid <= journal.jid
  PROVE  /\ \A p : Found(journal, c, p) => Found(journal', c, p)
         /\ Within(journal, c) => Within(journal', c)
         /\ Within(journal, c) => \A p \in Path : host = "usn" /\ Changed(p) => Found(journal', c, p)
  <1>1. journal \in Journals /\ journal' \in Journals
    BY SourceStep DEF TypeInv, SourceType
  <1>2. CASE journal' = journal
    <2>1. ASSUME NEW p \in Path, host = "usn", Changed(p) PROVE FALSE
      <3>1. journal' = [journal EXCEPT !.recs = Append(@, p)]
        BY <2>1 DEF Changed, Change
      <3>2. journal'.recs = Append(journal.recs, p) /\ journal.recs \in Seq(Path)
        BY <1>1, <3>1, JournalGrows DEF Journals
      <3>3. Len(journal'.recs) = Len(journal.recs) + 1 /\ Len(journal.recs) \in Nat
        BY <3>2
      <3>4. QED BY <1>2, <3>3
    <2>2. QED BY <1>2, <2>1
  <1>3. CASE JournalTrimmed
    <2>1. journal.recs # <<>> /\ journal'.jid = journal.jid /\ journal'.low = journal.low + 1
          /\ journal'.recs = Tail(journal.recs)
      BY <1>1, <1>3, JournalShrinks DEF JournalTrimmed
    <2>2. ASSUME NEW p \in Path, Changed(p) PROVE FALSE
      <3>1. stale' = stale /\ budget' = [budget EXCEPT !["jump"] = @ - 1]
            /\ budget' = [budget EXCEPT !["edit"] = @ - 1]
        BY <1>3, <2>2 DEF JournalTrimmed, Changed, Change, Spend
      <3>2. budget["jump"] \in Nat /\ budget["edit"] \in Nat /\ budget \in [Env -> Nat]
        BY DEF TypeInv, SourceType, Env
      <3>3. budget'["jump"] = budget["jump"] - 1 /\ budget'["jump"] = budget["jump"]
        BY <3>1, <3>2 DEF Env
      <3>4. QED BY <3>2, <3>3
    <2>3. QED BY <1>1, <2>1, <2>2, FoundTrimmed
  <1>4. CASE JournalRecreated
    <2>1. journal'.jid = journal.jid + 1 /\ journal.jid \in Nat
      BY <1>1, <1>4 DEF JournalRecreated, Journals
    <2>2. ~Legible(journal', c)
      BY <2>1 DEF Legible
    <2>3. QED BY <2>2 DEF Found, Within
  <1>5. ASSUME host = "usn", NEW x \in Path, NEW k \in {"content", "entry"}, Change(x, k)
        PROVE /\ \A p : Found(journal, c, p) => Found(journal', c, p)
              /\ Within(journal, c) => Within(journal', c)
              /\ Within(journal, c) => \A p \in Path : Changed(p) => Found(journal', c, p)
    <2>1. journal'.jid = journal.jid /\ journal'.low = journal.low
          /\ journal'.recs = Append(journal.recs, x)
      BY <1>1, <1>5, JournalGrows DEF Change
    <2>2. ASSUME NEW p \in Path, Changed(p) PROVE p = x
      <3>1. journal' = [journal EXCEPT !.recs = Append(@, p)]
        BY <1>5, <2>2 DEF Changed, Change
      <3>2. Append(journal.recs, p) = Append(journal.recs, x) /\ journal.recs \in Seq(Path)
        BY <1>1, <2>1, <3>1, JournalGrows DEF Journals
      <3>3. Append(journal.recs, p)[Len(journal.recs) + 1] = p
            /\ Append(journal.recs, x)[Len(journal.recs) + 1] = x
        BY <3>2
      <3>4. QED BY <3>2, <3>3
    <2>3. QED BY <1>1, <2>1, <2>2, FoundGrows
  <1>6. QED BY <1>2, <1>3, <1>4, <1>5, JournalEffect

\* The steps that move the session or the cursor; the others leave both.
UsnMoves == UsnOpen \/ UsnCheck \/ UsnRead \/ UsnRequery \/ UsnPersist \/ UsnBatchEnd
            \/ UsnRebase \/ UsnReset \/ UsnSetCursor \/ UsnEnds \/ Crash

\* Every step that is not one of these leaves the session and the cursor.
LEMMA UsnStays ==
  ASSUME [Next]_vars, ~UsnMoves
  PROVE  UNCHANGED <<usn, cursor>>
  BY DEF UsnMoves, Next, Watcher, Scheduler, World, Fan, Usn, WinDir, vars, Notify, FanSetup,
     FanDegrade, FanMark, FanRead, FanPersist, FanStop, FanFails, FanEnds, FanGap, FanRestart,
     UsnGap, DirOpen, DirWait, DirRead, DirPersist, DirStop, DirEnds, DirClosed, DirReport,
     DirRetry, Boot, BootArmed, Reconfigure, Joined, Rearmed, PassStart, ManualStart, Take,
     NothingDue, PassDone, PassFails, PassOver, Awake, Change, JournalTrimmed, JournalRecreated

\* A new session is at the end of the journal; a cursor is written from a
\* session that has persisted what it read.
LEMMA CursorWritten ==
  ASSUME UsnRebase \/ UsnReset \/ UsnSetCursor
  PROVE  /\ cursor' = [jid |-> usn.jid, next |-> usn.next]
         /\ cursor'.jid = usn.jid /\ cursor'.next = usn.next
         /\ UNCHANGED <<usn, journal, made, known, log, pass, taken, dirty, stale, dropped>>
         /\ pc \in {"rebase", "reset", "setcur"} /\ pc' \in {"check", "uread"}
  BY DEF UsnRebase, UsnReset, UsnSetCursor, SetCursor

\* A session that ends, or dies with the process, leaves the cursor.
LEMMA SessionOver ==
  ASSUME TypeInv, UsnEnds \/ Crash
  PROVE  /\ UNCHANGED <<cursor, journal, made, known, stale, dropped>>
         /\ pc' \in {"dopen", "off"}
         /\ usn'.jid = 0 /\ usn'.todo = <<>> /\ ~usn'.rebuild
         /\ ~Legible(journal', usn')
  <1>1. UNCHANGED <<cursor, journal, made, known, stale, dropped>>
        /\ pc' \in {"dopen", "off"} /\ usn' = NoUsn
    BY DEF UsnEnds, Crash
  <1>2. usn'.jid = 0 /\ usn'.todo = <<>>
    BY <1>1 DEF NoUsn
  <1>3. ~usn'.rebuild
    BY <1>1 DEF NoUsn
  <1>4. journal'.jid # 0
    BY <1>1, UsnPlaces
  <1>5. QED BY <1>1, <1>2, <1>3, <1>4 DEF Legible

\* Every step keeps the session and the cursor within the journal.
LEMMA BoundsStep ==
  ASSUME TypeInv, ThreadInv, BoundsInv, [Next]_vars
  PROVE  BoundsInv'
  <1> USE UsnPlaces DEF Within
  <1>1. Batching'
    BY BatchingStep DEF BoundsInv
  <1>2. SUFFICES Within(journal', usn') /\ (cursor' # None => Within(journal', cursor'))
    BY <1>1 DEF BoundsInv
  <1>3. CASE ~UsnMoves
    BY <1>3, UsnStays, FoundKept DEF BoundsInv
  <1>a. ASSUME usn'.next = Tip, journal' = journal PROVE Within(journal', usn')
    BY <1>a DEF Tip
  <1>4. CASE UsnOpen
    <2>1. journal' = journal /\ cursor' = cursor
      BY <1>4, OpenEffect
    <2>2. CASE Afresh
      BY <1>a, <2>1, <2>2 DEF BoundsInv, Afresh
    <2>3. CASE ~Afresh
      <3>1. cursor # None /\ usn'.jid = journal.jid /\ usn'.next = cursor.next
            /\ Legible(journal, cursor)
        BY <1>4, <2>3, OpenEffect, ReadableIs
      <3>2. QED BY <2>1, <3>1 DEF BoundsInv
    <2>4. QED BY <2>2, <2>3
  <1>5. CASE UsnCheck
    <2>1. journal' = journal /\ cursor' = cursor
      BY <1>5, CheckEffect
    <2>2. CASE Afresh
      BY <1>a, <2>1, <2>2 DEF BoundsInv, Afresh
    <2>3. CASE ~Afresh
      <3>1. usn'.jid = usn.jid /\ usn'.next = usn.next
        BY <1>5, <2>3, CheckEffect
      <3>2. QED BY <2>1, <3>1 DEF BoundsInv, Legible
    <2>4. QED BY <2>2, <2>3
  <1>6. CASE UsnRead
    <2>1. CASE usn' = usn
      BY <1>6, <2>1, ReadEffect DEF BoundsInv
    <2>2. CASE usn' # usn
      <3>1. PICK n \in Nat : n <= Len(journal.recs) - (usn.next - journal.low)
              /\ usn'.next = usn.next + n
        BY <1>6, <2>2, ReadEffect
      <3>2. usn'.next <= journal.low + Len(journal.recs)
        BY <3>1
      <3>3. QED BY <1>6, <3>2, ReadEffect DEF BoundsInv
    <2>3. QED BY <2>1, <2>2
  <1>7. CASE UsnRequery
    BY <1>7, RequeryEffect DEF BoundsInv, Tip
  <1>8. CASE UsnPersist
    BY <1>8, PersistEffect DEF BoundsInv, Legible
  <1>9. CASE UsnBatchEnd
    BY <1>9, BatchEndEffect DEF BoundsInv, Legible
  <1>10. CASE UsnRebase \/ UsnReset \/ UsnSetCursor
    BY <1>10, CursorWritten DEF BoundsInv, Legible
  <1>11. CASE UsnEnds \/ Crash
    BY <1>11, SessionOver DEF BoundsInv
  <1>12. QED
    BY <1>3, <1>4, <1>5, <1>6, <1>7, <1>8, <1>9, <1>10, <1>11 DEF UsnMoves

-----------------------------------------------------------------------------
(* The directory index of the USN watcher.  A file of Dir is reported only   *)
(* when Dir is in the index, and Dir is added when a batch that names it     *)
(* ends: until then the record of Dir is the very next one to be handled.    *)

DirNext ==
    IF usn.todo # <<>> THEN Head(usn.todo) = Dir
    ELSE Legible(journal, usn) =>
            /\ usn.next < journal.low + Len(journal.recs)
            /\ journal.recs[usn.next - journal.low + 1] = Dir

IndexInv ==
    host = "usn" =>
       /\ known \in {"new", "yes"}
       /\ ~made => journal.recs = <<>> /\ usn.todo = <<>> /\ ~usn.rebuild
       /\ made /\ pc \in UsnPc /\ known = "new" /\ ~usn.rebuild => DirNext

\* The very first change of the source creates Dir; the records after it are
\* behind that of Dir.
LEMMA IndexChange ==
  ASSUME TypeInv, BoundsInv, IndexInv, host = "usn",
         NEW p \in Path, NEW k \in {"content", "entry"}, Change(p, k)
  PROVE  IndexInv'
  <1> USE UsnPlaces
  <1>1. UNCHANGED <<host, usn, pc>> /\ made'
    BY DEF Change
  <1>2. known' = known
    BY DEF Change, Heard, Untracked, ByDir, ByMap, ByFid
  <1>3. journal'.jid = journal.jid /\ journal'.low = journal.low
        /\ journal'.recs = Append(journal.recs, p)
    BY JournalGrows DEF Change
  <1>4. Len(journal'.recs) = Len(journal.recs) + 1
        /\ (\A i \in 1 .. Len(journal.recs) : journal'.recs[i] = journal.recs[i])
        /\ journal'.recs[Len(journal.recs) + 1] = p
    BY <1>3
  <1>5. ASSUME pc' \in UsnPc, known' = "new", ~usn'.rebuild, usn'.todo = <<>>, Legible(journal', usn')
        PROVE /\ usn'.next < journal'.low + Len(journal'.recs)
              /\ journal'.recs[usn'.next - journal'.low + 1] = Dir
    <2>1. Legible(journal, usn) /\ usn.next >= journal.low
      BY <1>1, <1>3, <1>5 DEF Legible
    <2>2. usn.next <= journal.low + Len(journal.recs)
      BY <2>1 DEF BoundsInv, Within
    <2>3. CASE made
      <3>1. DirNext
        BY <1>1, <1>2, <1>5, <2>3 DEF IndexInv
      <3>2. usn.next < journal.low + Len(journal.recs)
            /\ journal.recs[usn.next - journal.low + 1] = Dir
        BY <1>1, <1>5, <2>1, <3>1 DEF DirNext
      <3>3. usn.next - journal.low + 1 \in 1 .. Len(journal.recs)
        BY <2>1, <3>2
      <3>4. QED BY <1>1, <1>3, <1>4, <3>2, <3>3
    <2>4. CASE ~made
      <3>1. journal.recs = <<>> /\ Len(journal.recs) = 0
        BY <2>4 DEF IndexInv
      <3>2. p = Dir
        BY <2>4 DEF Change, Path
      <3>3. usn.next = journal.low
        BY <2>1, <2>2, <3>1
      <3>4. QED BY <1>1, <1>3, <1>4, <3>1, <3>2, <3>3
    <2>5. QED BY <2>3, <2>4
  <1>6. ASSUME pc' \in UsnPc, known' = "new", ~usn'.rebuild, usn'.todo # <<>>
        PROVE Head(usn'.todo) = Dir
    <2>1. made
      BY <1>1, <1>6 DEF IndexInv
    <2>2. DirNext
      BY <1>1, <1>2, <1>6, <2>1 DEF IndexInv
    <2>3. QED BY <1>1, <1>6, <2>2 DEF DirNext
  <1>7. QED BY <1>1, <1>2, <1>5, <1>6 DEF IndexInv, DirNext

\* Every step keeps the record of Dir the next one until Dir is in the index.
LEMMA IndexStep ==
  ASSUME TypeInv, ThreadInv, BoundsInv, IndexInv, [Next]_vars
  PROVE  IndexInv'
  <1> USE UsnPlaces, HostStep DEF IndexInv
  <1> SUFFICES ASSUME host = "usn" PROVE IndexInv'
    OBVIOUS
  <1>1. ASSUME NEW p \in Path, NEW k \in {"content", "entry"}, Change(p, k) PROVE IndexInv'
    BY <1>1, IndexChange
  <1>2. CASE JournalTrimmed
    <2>1. journal.recs # <<>> /\ journal'.jid = journal.jid /\ journal'.low = journal.low + 1
          /\ journal'.recs = Tail(journal.recs)
      BY <1>2, JournalShrinks DEF JournalTrimmed
    <2>2. UNCHANGED <<usn, known, pc, made>>
      BY <1>2 DEF JournalTrimmed
    <2>3. made
      BY <2>1
    <2>4. Len(journal'.recs) = Len(journal.recs) - 1
          /\ \A i \in 1 .. Len(journal.recs) - 1 : journal'.recs[i] = journal.recs[i + 1]
      BY <2>1
    <2>5. ASSUME DirNext PROVE DirNext'
      <3>1. CASE usn.todo # <<>>
        BY <2>2, <2>5, <3>1 DEF DirNext
      <3>2. CASE usn.todo = <<>> /\ Legible(journal', usn)
        <4>1. Legible(journal, usn) /\ usn.next >= journal.low + 1
          BY <2>1, <3>2 DEF Legible
        <4>2. usn.next < journal.low + Len(journal.recs)
              /\ journal.recs[usn.next - journal.low + 1] = Dir
          BY <2>5, <3>2, <4>1 DEF DirNext
        <4>3. usn.next - (journal.low + 1) + 1 \in 1 .. Len(journal.recs) - 1
          <5>1. usn.next \in Nat /\ journal.low \in Nat /\ Len(journal.recs) \in Nat
            BY UsnPlaces
          <5>2. QED BY ONLY <5>1, <4>1, <4>2
        <4>4. (usn.next - (journal.low + 1) + 1) + 1 = usn.next - journal.low + 1
          OBVIOUS
        <4>5. journal'.recs[usn.next - (journal.low + 1) + 1] = Dir
          BY <2>4, <4>2, <4>3, <4>4
        <4>6. usn.next < journal'.low + Len(journal'.recs)
          BY <2>1, <2>4, <4>2
        <4>7. QED BY <2>1, <2>2, <3>2, <4>5, <4>6 DEF DirNext
      <3>3. CASE usn.todo = <<>> /\ ~Legible(journal', usn)
        BY <2>2, <3>3 DEF DirNext
      <3>4. QED BY <3>1, <3>2, <3>3
    <2>6. QED BY <2>2, <2>3, <2>5
  <1>3. CASE JournalRecreated
    <2>1. journal'.jid = journal.jid + 1 /\ journal'.recs = <<>> /\ UNCHANGED <<usn, known, pc, made>>
      BY <1>3 DEF JournalRecreated
    <2>2. ~Legible(journal', usn)
      BY <2>1 DEF Legible
    <2>3. ASSUME DirNext PROVE DirNext'
      BY <2>1, <2>2, <2>3 DEF DirNext
    <2>4. QED BY <2>1, <2>3
  <1>4. CASE UsnOpen
    <2>1. known' = IF made THEN "yes" ELSE "new"
      BY <1>4 DEF UsnOpen
    <2>2. usn'.todo = <<>> /\ ~usn'.rebuild /\ UNCHANGED <<journal, made>>
      BY <1>4, OpenEffect DEF Afresh
    <2>3. QED BY <2>1, <2>2
  <1>5. CASE UsnCheck
    <2>1. known' = known \/ known' = (IF made THEN "yes" ELSE "new")
      BY <1>5 DEF UsnCheck
    <2>2. CASE Afresh
      <3>1. usn'.todo = <<>> /\ ~usn'.rebuild /\ UNCHANGED <<journal, made>> /\ (made => known' = "yes")
        BY <1>5, <2>2, CheckEffect DEF Afresh
      <3>2. QED BY <2>1, <3>1
    <2>3. CASE ~Afresh
      <3>1. usn'.jid = usn.jid /\ usn'.next = usn.next /\ usn'.todo = usn.todo
            /\ (usn'.rebuild <=> usn.rebuild) /\ known' = known /\ UNCHANGED <<journal, made>>
            /\ pc \in UsnPc
        BY <1>5, <2>3, CheckEffect DEF UsnPc
      <3>2. DirNext => DirNext'
        BY <3>1 DEF DirNext, Legible
      <3>3. QED BY <3>1, <3>2
    <2>4. QED BY <2>2, <2>3
  <1>6. CASE UsnRead
    <2>1. UNCHANGED <<journal, made, known>> /\ pc = "uread" /\ pc \in UsnPc /\ Legible(journal, usn)
      BY <1>6, ReadEffect DEF UsnPc
    <2>2. usn.todo = <<>> /\ ~usn.rebuild
      BY <2>1 DEF BoundsInv, Batching
    <2>3. CASE usn' = usn
      BY <2>1, <2>3 DEF DirNext
    <2>4. CASE usn' # usn
      <3>1. PICK n \in Nat :
              /\ n >= 1 /\ n <= Len(journal.recs) - (usn.next - journal.low)
              /\ usn'.todo = SubSeq(journal.recs, (usn.next - journal.low) + 1,
                                    (usn.next - journal.low) + n)
        BY <1>6, <2>4, ReadEffect
      <3>2. ~usn'.rebuild
        BY <1>6, <2>2, ReadEffect
      <3>3. usn.next >= journal.low
        BY <2>1 DEF Legible
      <3>4. (usn.next - journal.low) + 1 \in 1 .. Len(journal.recs)
            /\ (usn.next - journal.low) + n \in (usn.next - journal.low) + 1 .. Len(journal.recs)
        <4>1. usn.next \in Nat /\ journal.low \in Nat /\ Len(journal.recs) \in Nat
          BY UsnPlaces
        <4>2. n \in Nat /\ n >= 1 /\ n <= Len(journal.recs) - (usn.next - journal.low)
          BY <3>1
        <4>3. QED BY ONLY <3>3, <4>1, <4>2
      <3>5. Head(usn'.todo) = journal.recs[(usn.next - journal.low) + 1]
        <4>1. journal.recs \in Seq(Path)
          BY UsnPlaces
        <4>2. QED BY ONLY <3>1, <3>4, <4>1, HeadTailOfSubSeq
      <3>6. made
        <4>1. journal.recs # <<>>
          BY <3>4
        <4>2. QED BY <4>1
      <3>7. CASE known = "new"
        <4>1. DirNext
          BY <2>1, <2>2, <3>6, <3>7
        <4>2. Head(usn'.todo) = Dir
          BY <2>1, <2>2, <3>5, <4>1 DEF DirNext
        <4>3. Len(usn'.todo) >= 1
          <5>1. \A i \in (usn.next - journal.low) + 1 .. (usn.next - journal.low) + n :
                  journal.recs[i] \in Path
            <6>1. journal.recs \in Seq(Path) /\ usn.next \in Nat /\ journal.low \in Nat
                  /\ Len(journal.recs) \in Nat
              BY UsnPlaces
            <6>2. (usn.next - journal.low) + 1 .. (usn.next - journal.low) + n
                    \subseteq 1 .. Len(journal.recs)
              BY ONLY <3>4, <6>1
            <6>3. \A i \in 1 .. Len(journal.recs) : journal.recs[i] \in Path
              BY ONLY <6>1
            <6>4. QED BY ONLY <6>2, <6>3
          <5>2. /\ (usn.next - journal.low) + 1 \in Int /\ (usn.next - journal.low) + n \in Int
                /\ (usn.next - journal.low) + 1 <= (usn.next - journal.low) + n
                /\ ((usn.next - journal.low) + n) - ((usn.next - journal.low) + 1) + 1 = n
            <6>1. usn.next \in Nat /\ journal.low \in Nat /\ n \in Nat /\ n >= 1
              BY <3>1, UsnPlaces
            <6>2. QED BY ONLY <6>1
          <5>3. Len(usn'.todo) = n
            BY ONLY <3>1, <5>1, <5>2, SubSeqProperties
          <5>4. QED BY <3>1, <5>3
        <4>4. usn'.todo # <<>>
          BY <4>3
        <4>5. QED BY <2>1, <3>2, <3>6, <4>2, <4>4 DEF DirNext
      <3>8. QED BY <2>1, <3>2, <3>6, <3>7
    <2>5. QED BY <2>3, <2>4
  <1>7. CASE UsnRequery
    <2>1. known' = IF made THEN "yes" ELSE "new"
      BY <1>7 DEF UsnRequery
    <2>2. QED BY <1>7, <2>1, RequeryEffect
  <1>8. CASE UsnPersist
    <2>1. usn.todo # <<>> /\ UNCHANGED <<journal, made, known>> /\ pc \in UsnPc /\ made
      BY <1>8, PersistEffect DEF UsnPc
    <2>2. known = "new" => usn'.rebuild
      <3>1. known = "new" /\ ~usn.rebuild => Head(usn.todo) = Dir
        BY <2>1 DEF DirNext
      <3>2. QED BY <1>8, <3>1, PersistEffect
    <2>3. QED BY <2>1, <2>2
  <1>9. CASE UsnBatchEnd
    <2>1. usn'.jid = usn.jid /\ usn'.next = usn.next /\ usn'.todo = usn.todo
          /\ ~usn'.rebuild /\ UNCHANGED <<journal, made>> /\ pc \in UsnPc
      BY <1>9, BatchEndEffect DEF UsnPc
    <2>2. known' = IF usn.rebuild /\ made THEN "yes" ELSE known
      BY <1>9, BatchEndEffect
    <2>3. DirNext => DirNext'
      BY <2>1 DEF DirNext, Legible
    <2>4. QED BY <2>1, <2>2, <2>3
  <1>10. CASE UsnRebase \/ UsnReset \/ UsnSetCursor
    <2>1. UNCHANGED <<usn, journal, made, known>> /\ pc \in UsnPc
      BY <1>10, CursorWritten DEF UsnPc
    <2>2. QED BY <2>1 DEF DirNext
  <1>11. CASE UsnEnds \/ Crash
    BY <1>11, SessionOver DEF UsnPc
  <1>12. CASE UsnGap
    <2>1. UNCHANGED <<usn, journal, made, known>> /\ pc \in UsnPc
      BY <1>12 DEF UsnGap, UsnPc
    <2>2. QED BY <2>1 DEF DirNext
  <1>13. CASE UNCHANGED <<usn, journal, made, known>> /\ pc' \notin UsnPc
    BY <1>13
  <1>14. CASE UNCHANGED <<usn, journal, made, known, pc>>
    BY <1>14 DEF DirNext
  <1>15. CASE FanSetup \/ FanDegrade \/ FanMark \/ FanRead \/ FanPersist \/ FanStop \/ FanFails
              \/ FanGap \/ FanRestart
    BY <1>15 DEF FanSetup, FanDegrade, FanMark, FanRead, FanPersist, FanStop, FanFails, FanGap,
       FanRestart, ThreadInv, Fanotify, ByFid, UsnPc, DirPc
  <1>16. CASE DirOpen \/ DirWait \/ DirRead \/ DirPersist \/ DirStop \/ DirEnds \/ DirReport
              \/ DirRetry
    <2>1. pc' \in {"dfirst", "dread", "dtop", "dpersist", "off", "dfail", "retry", "open"}
      BY <1>16 DEF DirOpen, DirWait, DirRead, DirPersist, DirStop, DirEnds, DirClosed, DirReport,
         DirRetry
    <2>2. UNCHANGED <<usn, journal, made, known>>
      BY <1>16 DEF DirOpen, DirWait, DirRead, DirPersist, DirStop, DirEnds, DirClosed, DirReport,
         DirRetry
    <2>3. QED BY <1>13, <2>1, <2>2 DEF UsnPc
  <1>17. CASE Boot \/ Joined
    <2>1. pc' = "open" /\ UNCHANGED <<usn, journal, made, known>>
      BY <1>17 DEF Boot, Joined, StartWatcher, Fanotify, ByFid
    <2>2. QED BY <1>13, <2>1 DEF UsnPc
  <1>18. QED
    BY <1>1, <1>2, <1>3, <1>4, <1>5, <1>6, <1>7, <1>8, <1>9, <1>10, <1>11, <1>12, <1>14, <1>15,
       <1>16, <1>17 DEF Next, Watcher, Scheduler, World, Fan, Usn, WinDir, vars, Notify,
       BootArmed, Reconfigure, Rearmed, PassStart, ManualStart, Take, NothingDue, PassDone,
       PassFails, PassOver, Awake

-----------------------------------------------------------------------------
(* What the USN watcher will still bring: from its session while there is    *)
(* one, and always from the persisted cursor.                                *)

Seen(p) == p \in Logged \/ p \in dropped

SessionInv ==
    host = "usn" /\ pc \in UsnPc =>
       \A p \in stale : Seen(p) \/ Found(journal, usn, p) \/ Todo(usn.todo, p)

CursorInv ==
    host = "usn" /\ cursor # None => \A p \in stale : Seen(p) \/ Found(journal, cursor, p)

\* A file of Dir whose record was skipped before Dir came into the index is
\* read with Dir, unless a later record names it again.
SkippedInv ==
    host = "usn" /\ usn.rebuild /\ known = "new" /\ Child \in stale =>
       Seen(Child) \/ Found(journal, usn, Child)

\* A path that a row, a pass or the history of lost ranges stands for stays so.
LEMMA SeenStays ==
  ASSUME TypeInv, [Next]_vars, NEW p \in Path, p \in stale', ~Changed(p), Seen(p)
  PROVE  Seen(p)'
  BY LoggedStays, StaleStays DEF Seen

\* No other step starts a session or touches the index.
LEMMA UsnQuiet ==
  ASSUME TypeInv, ThreadInv, [Next]_vars, ~UsnMoves, host = "usn"
  PROVE  /\ pc' \in UsnPc => pc \in UsnPc
         /\ known' = known
  <1>1. CASE FanSetup \/ FanDegrade \/ FanMark \/ FanRead \/ FanPersist \/ FanStop \/ FanFails
             \/ FanGap \/ FanRestart
    BY <1>1 DEF FanSetup, FanDegrade, FanMark, FanRead, FanPersist, FanStop, FanFails, FanGap,
       FanRestart, ThreadInv, Fanotify, ByFid, UsnPc, DirPc
  <1>2. CASE DirOpen \/ DirWait \/ DirRead \/ DirPersist \/ DirStop \/ DirEnds \/ DirReport
             \/ DirRetry
    <2>1. pc' \in {"dfirst", "dread", "dtop", "dpersist", "off", "dfail", "retry", "open"}
      BY <1>2 DEF DirOpen, DirWait, DirRead, DirPersist, DirStop, DirEnds, DirClosed, DirReport,
         DirRetry
    <2>2. UNCHANGED known
      BY <1>2 DEF DirOpen, DirWait, DirRead, DirPersist, DirStop, DirEnds, DirClosed, DirReport,
         DirRetry
    <2>3. QED BY <2>1, <2>2 DEF UsnPc
  <1>3. CASE Boot \/ Joined
    BY <1>3 DEF Boot, Joined, StartWatcher, Fanotify, ByFid, UsnPc
  <1>4. CASE UsnGap
    BY <1>4 DEF UsnGap, UsnPc
  <1>5. ASSUME NEW p \in Path, NEW k \in {"content", "entry"}, Change(p, k)
        PROVE UNCHANGED <<pc, known>>
    BY <1>5 DEF Change, Heard, Untracked, ByDir, ByMap, ByFid
  <1>6. CASE UNCHANGED <<pc, known>>
    BY <1>6
  <1>7. QED
    BY <1>1, <1>2, <1>3, <1>4, <1>5, <1>6 DEF UsnMoves, Next, Watcher, Scheduler, World, Fan,
       Usn, WinDir, vars, Notify, BootArmed, Reconfigure, Rearmed, PassStart, ManualStart, Take,
       NothingDue, PassDone, PassFails, PassOver, Awake, JournalTrimmed, JournalRecreated

\* What is found depends on the journal and the place of the reader alone.
LEMMA FoundSame ==
  ASSUME NEW j, NEW c, NEW d, NEW p, Found(j, c, p), d.jid = c.jid, d.next = c.next
  PROVE  Found(j, d, p)
  BY DEF Found, Legible

UsnInv == TypeInv /\ ThreadInv /\ BoundsInv /\ IndexInv /\ SessionInv /\ CursorInv /\ SkippedInv

\* A batch leaves the records behind it, and takes those in it.
LEMMA ReadCovers ==
  ASSUME TypeInv, UsnRead, NEW p \in Path, Found(journal, usn, p), usn' # usn
  PROVE  Found(journal, usn', p) \/ Todo(usn'.todo, p)
  <1>1. /\ journal \in Journals /\ usn.next \in Nat /\ usn.next >= journal.low
        /\ Legible(journal, usn)
    BY UsnPlaces, ReadEffect DEF Legible
  <1>2. PICK n \in Nat :
          /\ n >= 1 /\ n <= Len(journal.recs) - (usn.next - journal.low)
          /\ usn'.next = usn.next + n
          /\ usn'.todo = SubSeq(journal.recs, (usn.next - journal.low) + 1,
                                (usn.next - journal.low) + n)
    BY ReadEffect
  <1>3. \A q : Ahead(journal, usn.next, q) => Ahead(journal, usn'.next, q) \/ Among(usn'.todo, q)
    BY <1>1, <1>2, AheadSplit
  <1>4. QED BY <1>1, <1>3 DEF Found, Todo

\* Persisting the first record of a batch loses nothing: the record is a row
\* now, or it named a file of a directory that is not in the index yet.
LEMMA PersistCovers ==
  ASSUME UsnInv, host = "usn", UsnPersist, NEW p \in stale, Todo(usn.todo, p)
  PROVE  Seen(p)' \/ Seen(p) \/ Found(journal, usn, p) \/ Todo(usn'.todo, p)
  <1> USE DEF UsnInv
  <1>1. usn.todo \in Seq(Path) /\ usn.todo # <<>> /\ usn'.todo = Tail(usn.todo) /\ p \in Path
    BY UsnPlaces, PersistEffect DEF TypeInv, SourceType
  <1>2. Head(usn.todo) = p \/ (p = Child /\ Head(usn.todo) = Dir) \/ Todo(Tail(usn.todo), p)
    BY <1>1, AmongSplit DEF Todo
  <1>3. CASE Todo(Tail(usn.todo), p)
    BY <1>1, <1>3
  <1>4. CASE (Head(usn.todo) = p \/ (p = Child /\ Head(usn.todo) = Dir))
             /\ Record({Head(usn.todo)}, FALSE)
    BY <1>1, <1>4, Recorded DEF Seen
  <1>5. CASE Head(usn.todo) = p /\ p = Child /\ known # "yes"
    <2>1. known = "new" /\ made /\ pc \in UsnPc
      BY <1>1, <1>5, PersistEffect DEF IndexInv, UsnPc
    <2>2. usn.rebuild
      BY <1>1, <1>5, <2>1 DEF IndexInv, DirNext
    <2>3. QED BY <1>5, <2>1, <2>2 DEF SkippedInv
  <1>6. QED BY <1>2, <1>3, <1>4, <1>5, PersistEffect

\* Every step keeps what the session will still bring.
LEMMA SessionStep == ASSUME UsnInv, [Next]_vars PROVE SessionInv'
  <1> USE DEF UsnInv
  <1> SUFFICES ASSUME host = "usn", pc' \in UsnPc, NEW p \in stale'
               PROVE  Seen(p)' \/ Found(journal', usn', p) \/ Todo(usn'.todo, p)
    BY HostStep DEF SessionInv
  <1>1. p \in Path
    BY SourceStep DEF SourceType
  <1>2. CASE Changed(p)
    <2>1. usn' = usn
      BY <1>2 DEF Changed, Change
    <2>2. QED BY <1>1, <1>2, <2>1, FoundKept, UsnPlaces DEF BoundsInv
  <1>3. CASE ~Changed(p) /\ Seen(p)
    BY <1>1, <1>3, SeenStays
  <1>4. CASE ~Changed(p) /\ ~Seen(p)
    <2>1. p \in stale
      BY <1>1, <1>4, StaleStays
    <2>2. pc \in UsnPc => Found(journal, usn, p) \/ Todo(usn.todo, p)
      BY <1>4, <2>1 DEF SessionInv
    <2>3. Afresh => Seen(p)'
      BY <1>1, MarkerLogged DEF Afresh, Seen
    <2>4. CASE ~UsnMoves
      BY <1>1, <2>2, <2>4, UsnStays, UsnQuiet, FoundKept, UsnPlaces
    <2>5. CASE UsnOpen
      <3>1. CASE Afresh
        BY <2>3, <3>1
      <3>2. CASE ~Afresh
        <4>1. cursor # None /\ usn'.jid = journal.jid /\ usn'.next = cursor.next
              /\ Legible(journal, cursor) /\ journal' = journal
          BY <2>5, <3>2, OpenEffect, ReadableIs
        <4>2. usn'.jid = cursor.jid
          BY <4>1 DEF Legible
        <4>3. Found(journal, cursor, p)
          BY <1>4, <2>1, <4>1 DEF CursorInv
        <4>4. QED BY <4>1, <4>2, <4>3, FoundSame
      <3>3. QED BY <3>1, <3>2
    <2>6. CASE UsnCheck
      <3>1. CASE Afresh
        BY <2>3, <3>1
      <3>2. CASE ~Afresh
        <4>1. pc \in UsnPc /\ usn'.jid = usn.jid /\ usn'.next = usn.next /\ usn'.todo = usn.todo
              /\ journal' = journal
          BY <2>6, <3>2, CheckEffect DEF UsnPc
        <4>2. QED BY <2>2, <4>1, FoundSame
      <3>3. QED BY <3>1, <3>2
    <2>7. CASE UsnRead
      <3>1. pc = "uread" /\ journal' = journal
        BY <2>7, ReadEffect
      <3>2. Found(journal, usn, p) \/ Todo(usn.todo, p)
        BY <2>2, <3>1 DEF UsnPc
      <3>3. usn.todo = <<>>
        BY <3>1 DEF BoundsInv, Batching
      <3>4. Found(journal, usn, p)
        BY <3>2, <3>3, AmongNone DEF Todo
      <3>5. QED BY <1>1, <2>7, <3>1, <3>4, ReadCovers
    <2>8. CASE UsnRequery
      <3>1. p \in dropped'
        BY <1>4, <2>1, <2>8, RequeryEffect DEF Seen
      <3>2. QED BY <3>1 DEF Seen
    <2>9. CASE UsnPersist
      <3>1. pc \in UsnPc /\ usn'.jid = usn.jid /\ usn'.next = usn.next /\ journal' = journal
        BY <2>9, PersistEffect DEF UsnPc
      <3>2. Found(journal, usn, p) => Found(journal', usn', p)
        BY <3>1, FoundSame
      <3>3. Todo(usn.todo, p) => Seen(p)' \/ Found(journal, usn, p) \/ Todo(usn'.todo, p)
        BY <1>4, <2>1, <2>9, PersistCovers
      <3>4. QED BY <2>2, <3>1, <3>2, <3>3
    <2>10. CASE UsnBatchEnd
      <3>1. pc \in UsnPc /\ usn'.jid = usn.jid /\ usn'.next = usn.next /\ journal' = journal
            /\ usn'.todo = usn.todo
        BY <2>10, BatchEndEffect DEF UsnPc
      <3>2. QED BY <2>2, <3>1, FoundSame
    <2>11. CASE UsnRebase \/ UsnReset \/ UsnSetCursor
      <3>1. usn' = usn /\ journal' = journal /\ pc \in UsnPc
        BY <2>11, CursorWritten DEF UsnPc
      <3>2. QED BY <2>2, <3>1
    <2>12. CASE UsnEnds \/ Crash
      BY <2>12, SessionOver DEF UsnPc
    <2>13. QED
      BY <2>4, <2>5, <2>6, <2>7, <2>8, <2>9, <2>10, <2>11, <2>12 DEF UsnMoves
  <1>5. QED BY <1>2, <1>3, <1>4

\* The cursor is moved only past records whose rows are committed.
LEMMA CursorStep == ASSUME UsnInv, [Next]_vars PROVE CursorInv'
  <1> USE DEF UsnInv
  <1> SUFFICES ASSUME host = "usn", cursor' # None, NEW p \in stale'
               PROVE  Seen(p)' \/ Found(journal', cursor', p)
    BY HostStep DEF CursorInv
  <1>1. p \in Path
    BY SourceStep DEF SourceType
  <1>2. CASE UsnRebase \/ UsnReset \/ UsnSetCursor
    <2>1. /\ cursor'.jid = usn.jid /\ cursor'.next = usn.next
          /\ UNCHANGED <<usn, journal, stale, log, pass, taken, dirty, dropped>>
          /\ pc \in {"rebase", "reset", "setcur"}
      BY <1>2, CursorWritten
    <2>2. usn.todo = <<>> /\ pc \in UsnPc
      BY <2>1 DEF BoundsInv, Batching, UsnPc
    <2>3. Seen(p) \/ Found(journal, usn, p)
      BY <2>1, <2>2, AmongNone DEF SessionInv, Todo
    <2>4. Seen(p) => Seen(p)'
      BY <2>1 DEF Seen, Logged
    <2>5. QED BY <2>1, <2>3, <2>4, FoundSame
  <1>3. CASE ~(UsnRebase \/ UsnReset \/ UsnSetCursor)
    <2>1. cursor' = cursor
      <3>1. CASE ~UsnMoves
        BY <3>1, UsnStays
      <3>2. CASE UsnMoves
        BY <1>3, <3>2, OpenEffect, CheckEffect, ReadEffect, RequeryEffect, PersistEffect,
           BatchEndEffect, SessionOver DEF UsnMoves
      <3>3. QED BY <3>1, <3>2
    <2>2. cursor.jid \in Nat /\ cursor.next \in Nat /\ cursor.jid <= journal.jid
      BY <2>1, UsnPlaces
    <2>3. CASE Changed(p)
      BY <1>1, <2>1, <2>2, <2>3, FoundKept DEF BoundsInv
    <2>4. CASE ~Changed(p) /\ Seen(p)
      BY <1>1, <2>4, SeenStays
    <2>5. CASE ~Changed(p) /\ ~Seen(p)
      <3>1. p \in stale
        BY <1>1, <2>5, StaleStays
      <3>2. Found(journal, cursor, p)
        BY <2>1, <2>5, <3>1 DEF CursorInv
      <3>3. QED BY <2>1, <2>2, <3>2, FoundKept
    <2>6. QED BY <2>3, <2>4, <2>5
  <1>4. QED BY <1>2, <1>3

\* Every step keeps a skipped file covered by the record of its directory.
LEMMA SkippedStep == ASSUME UsnInv, [Next]_vars PROVE SkippedInv'
  <1> USE DEF UsnInv
  <1> SUFFICES ASSUME host = "usn", usn'.rebuild, known' = "new", Child \in stale'
               PROVE  Seen(Child)' \/ Found(journal', usn', Child)
    BY HostStep DEF SkippedInv
  <1>1. Child \in Path
    BY DEF Path
  <1>2. CASE Changed(Child)
    <2>1. usn' = usn
      BY <1>2 DEF Changed, Change
    <2>2. QED BY <1>1, <1>2, <2>1, FoundKept, UsnPlaces DEF BoundsInv
  <1>3. CASE ~Changed(Child) /\ Seen(Child)
    BY <1>1, <1>3, SeenStays
  <1>4. CASE ~Changed(Child) /\ ~Seen(Child)
    <2>1. Child \in stale
      BY <1>1, <1>4, StaleStays
    <2>2. usn.rebuild /\ known = "new" => Found(journal, usn, Child)
      BY <1>4, <2>1 DEF SkippedInv
    <2>3. CASE ~UsnMoves
      BY <1>1, <2>2, <2>3, UsnStays, UsnQuiet, FoundKept, UsnPlaces
    <2>4. CASE UsnOpen
      BY <2>4, OpenEffect DEF Afresh
    <2>5. CASE UsnCheck
      <3>1. pc = "check"
        BY <2>5, CheckEffect
      <3>2. ~usn.rebuild
        BY <3>1 DEF BoundsInv, Batching
      <3>3. QED BY <2>5, <3>2, CheckEffect DEF Afresh
    <2>6. CASE UsnRead
      <3>1. pc = "uread"
        BY <2>6, ReadEffect
      <3>2. ~usn.rebuild
        BY <3>1 DEF BoundsInv, Batching
      <3>3. QED BY <2>6, <3>2, ReadEffect
    <2>7. CASE UsnRequery
      <3>1. pc = "requery"
        BY <2>7, RequeryEffect
      <3>2. ~usn.rebuild
        BY <3>1 DEF BoundsInv, Batching
      <3>3. QED BY <2>7, <3>2, RequeryEffect
    <2>8. CASE UsnPersist
      <3>1. usn'.jid = usn.jid /\ usn'.next = usn.next /\ journal' = journal /\ known' = known
        BY <2>8, PersistEffect
      <3>2. CASE usn.rebuild
        BY <2>2, <3>1, <3>2, FoundSame
      <3>3. CASE ~usn.rebuild
        <4>1. Head(usn.todo) = Dir
          BY <2>8, <3>3, PersistEffect
        <4>2. Record({Dir}, FALSE)
          BY <2>8, <4>1, PersistEffect
        <4>3. Child \in Logged'
          BY <1>1, <4>2, Recorded
        <4>4. QED BY <4>3 DEF Seen
      <3>4. QED BY <3>2, <3>3
    <2>9. CASE UsnBatchEnd
      BY <2>9, BatchEndEffect
    <2>10. CASE UsnRebase \/ UsnReset \/ UsnSetCursor
      <3>1. usn' = usn /\ pc \in {"rebase", "reset", "setcur"}
        BY <2>10, CursorWritten
      <3>2. ~usn.rebuild
        BY <3>1 DEF BoundsInv, Batching
      <3>3. QED BY <3>1, <3>2
    <2>11. CASE UsnEnds \/ Crash
      BY <2>11, SessionOver
    <2>12. QED
      BY <2>3, <2>4, <2>5, <2>6, <2>7, <2>8, <2>9, <2>10, <2>11 DEF UsnMoves
  <1>5. QED BY <1>2, <1>3, <1>4

-----------------------------------------------------------------------------
(* Nothing is forgotten. *)

WatchInv == UsnInv /\ BufferInv /\ MarkInv /\ HeardInv

\* The invariant holds before the process is started.
LEMMA InitWatch == Init => WatchInv
  <1> SUFFICES ASSUME Init PROVE WatchInv
    OBVIOUS
  <1>1. TypeInv
    BY InitType
  <1>2. stale = {} /\ pc = "off" /\ sched = "down" /\ ~stop /\ queue = {} /\ ~over /\ ~sticky
        /\ downtime = {} /\ cursor = None /\ usn = NoUsn /\ batch = NoRows /\ known = "new"
        /\ journal = [jid |-> 1, low |-> 0, recs |-> <<>>]
    BY DEF Init
  <1>3. ThreadInv
    BY <1>2 DEF ThreadInv, FanPc, UsnPc, DirPc
  <1>4. usn.todo = <<>> /\ usn.jid = 0
    BY <1>2 DEF NoUsn
  <1>5. ~usn.rebuild
    BY <1>2 DEF NoUsn
  <1>6. ~Legible(journal, usn)
    BY <1>2, <1>4 DEF Legible
  <1>7. BoundsInv
    BY <1>2, <1>4, <1>5, <1>6 DEF BoundsInv, Within, Batching
  <1>8. IndexInv
    BY <1>2, <1>4, <1>5 DEF IndexInv, UsnPc
  <1>9. SessionInv /\ CursorInv /\ SkippedInv /\ HeardInv
    BY <1>2, <1>5 DEF SessionInv, CursorInv, SkippedInv, HeardInv
  <1>10. BufferInv
    <2>1. batch.paths = {} /\ ~batch.rescan
      BY <1>2 DEF NoRows
    <2>2. QED BY <1>2, <2>1 DEF BufferInv
  <1>11. MarkInv
    BY <1>2 DEF MarkInv, Live
  <1>12. QED
    BY <1>1, <1>3, <1>7, <1>8, <1>9, <1>10, <1>11 DEF WatchInv, UsnInv

\* Every step keeps the invariant.
LEMMA WatchStep == ASSUME WatchInv, [Next]_vars PROVE WatchInv'
  <1> USE DEF WatchInv
  <1>1. TypeInv' /\ ThreadInv' /\ BoundsInv' /\ IndexInv'
    BY TypeStep, ThreadInvStep, BoundsStep, IndexStep DEF UsnInv
  <1>2. SessionInv' /\ CursorInv' /\ SkippedInv'
    BY SessionStep, CursorStep, SkippedStep
  <1>3. BufferInv' /\ MarkInv' /\ HeardInv'
    BY BufferInvStep, MarkStep, HeardStep DEF UsnInv
  <1>4. QED BY <1>1, <1>2, <1>3 DEF UsnInv

\* What is ahead of a reader is among the records from its place on.
LEMMA AheadIsRecord ==
  ASSUME NEW n, NEW p, Ahead(journal, n, p)
  PROVE  p \in RecordsFrom(n)
  BY DEF Ahead, RecordsFrom

\* The invariant says what NothingForgotten says, path by path.
LEMMA WatchForgetsNothing == WatchInv => NothingForgotten
  <1> SUFFICES ASSUME WatchInv, NEW p \in stale
               PROVE  p \in Logged \cup InWatcher \cup ByNotice \cup unheard \cup dropped
    BY DEF NothingForgotten
  <1>1. TypeInv /\ p \in Path
    BY DEF WatchInv, UsnInv, TypeInv, SourceType
  <1>2. CASE host # "usn"
    <2>1. Heeded(p)
      BY <1>2 DEF WatchInv, HeardInv
    <2>2. CASE Held(p)
      <3>1. CASE MarkerDue
        BY <1>1, <1>2, <3>1 DEF InWatcher
      <3>2. CASE ~MarkerDue
        <4>1. p \in Beneath(queue) \/ p \in ReadBy(batch)
          BY <1>1, <2>2, <3>2, ReadByIs DEF Held, Beneath
        <4>2. QED BY <1>2, <3>2, <4>1 DEF InWatcher
      <3>3. QED BY <3>1, <3>2
    <2>3. QED BY <2>1, <2>2 DEF Heeded, Noticed, ByNotice
  <1>3. CASE host = "usn"
    <2>1. SUFFICES ASSUME ~Seen(p) PROVE p \in InJournal
      BY <1>3 DEF Seen, InWatcher
    <2>2. CASE pc \in UsnPc
      <3>1. InSession
        BY <2>2 DEF InSession, UsnPc
      <3>2. Found(journal, usn, p) \/ Todo(usn.todo, p)
        BY <1>3, <2>1, <2>2 DEF WatchInv, UsnInv, SessionInv
      <3>3. CASE ~Readable(usn)
        BY <1>1, <3>1, <3>3 DEF InJournal
      <3>4. CASE Readable(usn)
        <4> DEFINE recs == RecordsFrom(usn.next) \cup {usn.todo[i] : i \in DOMAIN usn.todo}
        <4>1. \A q : Ahead(journal, usn.next, q) => q \in recs
          BY AheadIsRecord
        <4>2. \A q : Among(usn.todo, q) => q \in recs
          <5>1. usn.todo \in Seq(Path)
            BY <1>1, UsnPlaces
          <5>2. DOMAIN usn.todo = 1 .. Len(usn.todo)
            BY <5>1
          <5>3. QED BY <5>2 DEF Among
        <4>3. Legible(journal, usn)
          BY <3>4, ReadableIs
        <4>4. p \in recs \/ (p = Child /\ Dir \in recs)
          BY <3>2, <4>1, <4>2, <4>3 DEF Found, Todo
        <4>5. p \in Beneath(recs)
          <5> HIDE DEF recs
          <5>1. QED BY <4>4 DEF Beneath
        <4>6. QED BY <3>1, <3>4, <4>5 DEF InJournal
      <3>5. QED BY <3>3, <3>4
    <2>3. CASE pc \notin UsnPc
      <3>1. ~InSession
        BY <2>3 DEF InSession, UsnPc
      <3>2. CASE ~(cursor # None /\ Readable(cursor))
        BY <1>1, <3>1, <3>2 DEF InJournal
      <3>3. CASE cursor # None /\ Readable(cursor)
        <4>1. Found(journal, cursor, p) /\ Legible(journal, cursor)
          BY <1>3, <2>1, <3>3, ReadableIs DEF WatchInv, UsnInv, CursorInv
        <4>2. p \in RecordsFrom(cursor.next) \/ (p = Child /\ Dir \in RecordsFrom(cursor.next))
          BY <4>1, AheadIsRecord DEF Found
        <4>3. p \in Beneath(RecordsFrom(cursor.next))
          BY <4>2 DEF Beneath
        <4>4. QED BY <3>1, <3>3, <4>3 DEF InJournal
      <3>4. QED BY <3>2, <3>3
    <2>4. QED BY <2>2, <2>3
  <1>4. QED BY <1>2, <1>3

\* NothingForgotten of Watchers: on every kind of host, a change that no pass
\* has read is on its way, or falls in a window the code leaves open.  These
\* are the ones that `unheard` names: the write of a marker or of the restart
\* notice fails and is only logged; fanotify drops an event whose directory is
\* in no map, or cached under an old path; a directory is not marked; fd-path
\* mode does not see removals; a watcher that failed is not back yet; nothing
\* runs on Windows without a journal.
THEOREM ChangesKept == Spec => []NothingForgotten
  <1>1. Init => WatchInv
    BY InitWatch
  <1>2. WatchInv /\ [Next]_vars => WatchInv'
    BY WatchStep
  <1>3. WatchInv => NothingForgotten
    BY WatchForgetsNothing
  <1>4. QED BY <1>1, <1>2, <1>3, PTL DEF Spec

\* With a USN journal none of these windows is met.
UnheardInv == host = "usn" => unheard = {}

\* The steps that give something up are of fanotify, or of a host without a journal.
LEMMA UnheardStep == ASSUME TypeInv, ThreadInv, UnheardInv, [Next]_vars PROVE UnheardInv'
  <1> SUFFICES ASSUME host = "usn", unheard = {} PROVE unheard' = {}
    BY HostStep DEF UnheardInv
  <1>1. ~Fanotify /\ pc \in {"off", "open"} \cup UsnPc \cup DirPc
    BY DEF Fanotify, ByFid, ThreadInv
  <1>2. ASSUME NEW p \in Path, NEW k \in {"content", "entry"}, Change(p, k) PROVE unheard' = {}
    <2>1. ~Hole(p, k)
      BY <1>1 DEF Hole
    <2>2. QED BY <1>2, <2>1 DEF Change
  <1>3. CASE FanDegrade \/ FanRead \/ FanGap
    BY <1>1, <1>3 DEF FanDegrade, FanRead, FanGap, UsnPc, DirPc
  <1>4. CASE DirStop \/ DirEnds \/ DirReport
    BY <1>4 DEF DirStop, DirEnds, DirClosed, DirReport
  <1>5. CASE BootArmed \/ Rearmed
    BY <1>1, <1>5 DEF BootArmed, RaiseNotice, Rearmed, RearmGap
  <1>6. CASE PassDone \/ Crash
    BY <1>6 DEF PassDone, Crash
  <1>7. CASE UNCHANGED unheard
    BY <1>7
  <1>8. QED
    BY <1>2, <1>3, <1>4, <1>5, <1>6, <1>7 DEF Next, Watcher, Scheduler, World, Fan, Usn, WinDir,
       vars, Notify, FanSetup, FanMark, FanPersist, FanStop, FanFails, FanEnds, FanRestart,
       UsnOpen, UsnRebase, UsnCheck, UsnReset, UsnRead, UsnGap, UsnRequery, UsnPersist,
       UsnBatchEnd, UsnSetCursor, SetCursor, UsnEnds, DirOpen, DirWait, DirRead, DirPersist,
       DirRetry, Boot, Reconfigure, Joined, PassStart, ManualStart, Take, NothingDue, PassFails,
       PassOver, Awake, JournalTrimmed, JournalRecreated

\* A USN host forgets nothing, through stops, failed sessions, crashes and a
\* journal that is trimmed or created again, but for what vanished from the
\* journal between a check of the cursor and the read after it.
THEOREM JournalKeepsChanges ==
  Spec => [](host = "usn" => stale \subseteq Logged \cup InJournal \cup dropped)
  <1> DEFINE Inv == WatchInv /\ UnheardInv
             JournalHolds == host = "usn" => stale \subseteq Logged \cup InJournal \cup dropped
  <1>1. Init => Inv
    BY InitWatch DEF Init, UnheardInv
  <1>2. Inv /\ [Next]_vars => Inv'
    <2> SUFFICES ASSUME WatchInv, UnheardInv, [Next]_vars PROVE WatchInv' /\ UnheardInv'
      OBVIOUS
    <2>1. WatchInv'
      BY WatchStep
    <2>2. TypeInv /\ ThreadInv
      BY DEF WatchInv, UsnInv
    <2>3. UnheardInv'
      BY <2>2, UnheardStep
    <2>4. QED BY <2>1, <2>3
  <1>3. Inv => JournalHolds
    <2> SUFFICES ASSUME Inv, host = "usn" PROVE stale \subseteq Logged \cup InJournal \cup dropped
      OBVIOUS
    <2>1. NothingForgotten
      BY WatchForgetsNothing
    <2>2. unheard = {} /\ ByNotice = {} /\ InWatcher = InJournal
      BY DEF UnheardInv, WatchInv, BufferInv, Fanotify, ByFid, ByNotice, InWatcher
    <2>3. QED BY <2>1, <2>2 DEF NothingForgotten
  <1>4. QED BY <1>1, <1>2, <1>3, PTL DEF Spec

=============================================================================
