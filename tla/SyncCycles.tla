----------------------------- MODULE SyncCycles -----------------------------
(***************************************************************************)
(* The replication core of auto_sync for one local source group: the       *)
(* SQLite tables sync_cycle, event_log and destination_offset (state.rs),  *)
(* the source watcher that fills the log, the scheduler thread that closes *)
(* cycles and targets destinations, the web thread that queues manual      *)
(* requests, and the sync engine behind SYNC_GATE (sync/mod.rs).           *)
(*                                                                         *)
(* One action is one group of database statements between which another    *)
(* thread can run.  Cycle ids start at 1; 0 is the NULL of a nullable      *)
(* column, and like Option::None it is below every id.                     *)
(*                                                                         *)
(* File contents are abstracted to dirty[d]: the paths whose copy at d is  *)
(* older than the source.                                                  *)
(***************************************************************************)
EXTENDS Naturals

CONSTANTS
    Dst,        \* destinations of the source group
    Realtime,   \* those with schedule.mode = realtime; the rest are timed
    Path,       \* paths below the source root
    Rescan,     \* an event row with rescan_required set and no path
    Fanotify,   \* TRUE: Linux watcher; FALSE: Windows USN watcher
    MaxCycle,   \* bound on cycle ids
    Bound       \* boxes that bound how often each kind of environment step happens

Kinds == {"change", "overflow", "fault", "request", "cancel", "crash",
          "pause", "switch", "move"}

ASSUME CycleConstants ==
    /\ Realtime \subseteq Dst
    /\ Rescan \notin Path
    /\ Fanotify \in BOOLEAN
    /\ MaxCycle \in Nat \ {0}
    /\ Bound \subseteq [Kinds -> Nat]

Cyc  == 1..MaxCycle
Cyc0 == 0..MaxCycle
Item == Path \union {Rescan}

\* sync_cycle.status; "none" is a row not inserted yet and "syncing" also
\* stands for "planning", which the engine lists and resumes the same way.
CycleStatus == {"none", "open", "closed", "syncing", "failed", "verified"}
Colour == {"red", "yellow", "green"}

Config == [en : SUBSET Dst, pa : SUBSET Dst, old : SUBSET Dst]

VARIABLES
    \* --- database ---
    last,      \* id of the newest row of sync_cycle
    cstat,     \* sync_cycle.status
    needs,     \* cycles with needs_full_rescan
    manual,    \* cycles with manual_full_rescan
    log,       \* event_log
    target,    \* destination_offset.target_cycle_id
    verified,  \* destination_offset.last_verified_cycle_id
    colour,    \* destination_offset.status
    \* --- source tree, watcher ---
    inflight,  \* changes the kernel or the journal holds, not yet in the log
    dirty,     \* per destination, the paths that are stale there
    missed,    \* paths whose event a restart of the fanotify watcher dropped
    rcyc,      \* record_event in progress: the cycle it read, or 0
    ritem,     \* and what it is about to insert
    \* --- configuration file ---
    enabled, paused,
    resetDue,  \* saved path changes whose offset row is not reset yet
    edited,    \* destinations whose entry was ever switched or moved
    \* --- scheduler thread ---
    spc, sig, scfg, scyc, sneeds, sdue,
    \* --- web thread, and the background run it spawned ---
    wpc, wcfg, wcyc, wdst, wfull, mq,
    \* --- engine, under SYNC_GATE ---
    epc, owner, ecfg, todo, snap, ecyc, ready, full, work, late, cur, out, chg,
    allv, blk, ubf, prog, anyBlk, cancel,
    \* --- bookkeeping of the bounds ---
    used

dbVars    == <<last, cstat, needs, manual, log, target, verified, colour>>
recVars   == <<rcyc, ritem>>
envVars   == <<inflight, dirty, missed>>
cfgVars   == <<enabled, paused, resetDue, edited>>
schedVars == <<spc, sig, scfg, scyc, sneeds, sdue>>
webVars   == <<wpc, wcfg, wcyc, wdst, wfull, mq>>
passVars  == <<ecyc, ready, full, work, late, cur, out, chg, allv, blk, ubf>>
engVars   == <<epc, owner, ecfg, todo, snap, passVars, prog, anyBlk, cancel>>
vars == <<dbVars, recVars, envVars, cfgVars, schedVars, webVars, engVars, used>>

NoConfig == [en |-> {}, pa |-> {}, old |-> {}]
NoSnap   == [closed |-> {}, needs |-> {}, manual |-> {}]
NoWork   == [d \in Dst |-> {}]

Within(u) == \E b \in Bound : \A k \in Kinds : u[k] <= b[k]
Spend(k) == used' = [used EXCEPT ![k] = @ + 1] /\ Within(used')

\* A step that may go wrong: choosing trouble costs one unit of "fault".
SpendIf(trouble) == IF trouble THEN Spend("fault") ELSE UNCHANGED used

\* Locals of a thread that has returned.
NoPass ==
    /\ ecyc' = 0 /\ ready' = {} /\ full' = FALSE /\ work' = NoWork /\ late' = {}
    /\ cur' = {} /\ out' = "none" /\ chg' = {}
    /\ allv' = TRUE /\ blk' = FALSE /\ ubf' = FALSE
NoEngine ==
    /\ epc' = "off" /\ owner' = "none" /\ ecfg' = NoConfig /\ todo' = {}
    /\ snap' = NoSnap /\ NoPass
    /\ prog' = FALSE /\ anyBlk' = FALSE /\ cancel' = "no"
NoAdvance == scyc' = 0 /\ sneeds' = FALSE /\ sdue' = {}
NoRequest ==
    /\ wpc' = "idle" /\ wcfg' = NoConfig /\ wcyc' = 0
    /\ wdst' = {} /\ wfull' = FALSE

LoadConfig == [en |-> enabled, pa |-> paused, old |-> {}]

(***************************************************************************)
(* State as it is after run_scheduler's preamble: one open cycle, every    *)
(* destination enabled and never synchronised.                             *)
(***************************************************************************)
Init ==
    /\ last = 1
    /\ cstat = [c \in Cyc |-> IF c = 1 THEN "open" ELSE "none"]
    /\ needs = {} /\ manual = {} /\ log = {}
    /\ target = [d \in Dst |-> 0] /\ verified = [d \in Dst |-> 0]
    /\ colour = [d \in Dst |-> "red"]
    /\ inflight = {} /\ dirty = [d \in Dst |-> Path] /\ missed = {}
    /\ rcyc = 0 /\ ritem = Rescan
    /\ enabled = Dst /\ paused = {} /\ resetDue = {} /\ edited = {}
    /\ spc = "idle" /\ sig = Dst /\ scfg = NoConfig
    /\ scyc = 0 /\ sneeds = FALSE /\ sdue = {}
    /\ wpc = "idle" /\ wcfg = NoConfig /\ wcyc = 0 /\ wdst = {}
    /\ wfull = FALSE /\ mq = {}
    /\ epc = "off" /\ owner = "none" /\ ecfg = NoConfig /\ todo = {}
    /\ snap = NoSnap /\ ecyc = 0 /\ ready = {} /\ full = FALSE
    /\ work = NoWork /\ late = {} /\ cur = {} /\ out = "none" /\ chg = {}
    /\ allv = TRUE /\ blk = FALSE /\ ubf = FALSE
    /\ prog = FALSE /\ anyBlk = FALSE /\ cancel = "no"
    /\ used = [k \in Kinds |-> 0]

-----------------------------------------------------------------------------
(* State operations (state.rs) shared by several threads.                  *)

\* Mutant: the row is closed and a new one opened without looking again.
CloseCycleBlind(c) ==
    /\ last < MaxCycle
    /\ last' = last + 1
    /\ cstat' = [cstat EXCEPT ![c] = "closed", ![last + 1] = "open"]

\* close_current_cycle_for_source for the open cycle c read before: the
\* UPDATE is a no-op when another thread closed c first, and
\* ensure_open_cycle inserts a row only when none is open.
CloseCycle(c) ==
    IF cstat[c] = "open"
    THEN /\ last < MaxCycle
         /\ last' = last + 1
         /\ cstat' = [cstat EXCEPT ![c] = "closed", ![last + 1] = "open"]
    ELSE UNCHANGED <<last, cstat>>

\* cycle_has_actionable_events
HasEvents(c) == \E e \in log : e.cycle = c

\* Mutant: the cycle being worked on is left out.
BacklogShort(d, c) == {e \in log : verified[d] < e.cycle /\ e.cycle < c}

\* events_between_cycles(verified[d], c)
Backlog(d, c) == {e \in log : verified[d] < e.cycle /\ e.cycle <= c}

\* source_has_target_cycle: any row counts, also that of a disabled pair.
HasTarget(c) == \E d \in Dst : target[d] = c

\* set_destination_target for every d of D
SetTargets(D, c) ==
    /\ target' = [d \in Dst |-> IF d \in D THEN c ELSE target[d]]
    /\ colour' = [d \in Dst |-> IF d \in D THEN "red" ELSE colour[d]]

\* INSERT INTO event_log of the items S into cycle c
Inserted(S, c) == [cycle : {c}, path : S]

\* A pending target: the scheduler leaves such a destination alone.
Pending(d) == target[d] # 0 /\ verified[d] < target[d]

-----------------------------------------------------------------------------
(* Source tree and watcher.                                                *)

\* A file below the source root changes; the kernel queues its event.  A
\* pass in progress may already have read the file or its snapshot.
Change(p) ==
    /\ Spend("change")
    /\ dirty' = [d \in Dst |-> dirty[d] \union {p}]
    /\ inflight' = inflight \union {p}
    /\ late' = IF epc = "copy" \/ epc = "finish" THEN late \union {p} ELSE late
    /\ UNCHANGED <<dbVars, recVars, missed, cfgVars, schedVars, webVars,
                   epc, owner, ecfg, todo, snap, ecyc, ready, full, work, cur, out, chg,
                   allv, blk, ubf, prog, anyBlk, cancel>>

\* The fanotify queue overflows: some queued events are replaced by
\* FAN_Q_OVERFLOW, which parse_events turns into a rescan event.
Overflow ==
    /\ Fanotify
    /\ Spend("overflow")
    /\ \E S \in SUBSET (inflight \ {Rescan}) :
          S # {} /\ inflight' = (inflight \ S) \union {Rescan}
    /\ UNCHANGED <<dbVars, recVars, dirty, missed, cfgVars, schedVars, webVars, engVars>>

\* record_events_batch: one transaction reads the open cycle and inserts the
\* batch; a concurrent close makes it fail as a whole, never split.
RecordBatch ==
    /\ Fanotify
    /\ \E S \in SUBSET inflight :
          /\ S # {}
          /\ log' = log \union Inserted(S, last)
          /\ needs' = IF Rescan \in S THEN needs \union {last} ELSE needs
          /\ inflight' = inflight \ S
    /\ UNCHANGED <<last, cstat, manual, target, verified, colour, recVars,
                   dirty, missed, cfgVars, schedVars, webVars, engVars, used>>

\* record_event for the next journal record, first statement:
\* ensure_open_cycle reads the open cycle.
RecordRead ==
    /\ ~Fanotify /\ rcyc = 0
    /\ \E x \in inflight : ritem' = x /\ inflight' = inflight \ {x}
    /\ rcyc' = last
    /\ UNCHANGED <<dbVars, dirty, missed, cfgVars, schedVars, webVars, engVars, used>>

\* record_event, second statement: the INSERT names the cycle read before,
\* whatever has become of it.
RecordInsert ==
    /\ rcyc # 0
    /\ log' = log \union Inserted({ritem}, rcyc)
    /\ needs' = IF ritem = Rescan THEN needs \union {last} ELSE needs
    /\ rcyc' = 0
    /\ UNCHANGED <<last, cstat, manual, target, verified, colour, ritem,
                   envVars, cfgVars, schedVars, webVars, engVars, used>>

-----------------------------------------------------------------------------
(* Scheduler thread (run_scheduler, advance_due_destination_targets).      *)

\* Mutant: enabling and disabling a destination leaves the signature alone.
SignatureChangedNever == FALSE

\* config_signature differs from the one the watcher was started with.
SignatureChanged == sig # enabled

\* Reload the configuration.  A changed signature restarts the watcher, which
\* on Linux loses queued events; once it is armed, record_event of the gap
\* reads the open cycle ...
SchedTick ==
    /\ spc = "idle"
    /\ scfg' = LoadConfig
    /\ sig' = enabled
    /\ IF Fanotify /\ SignatureChanged
       THEN /\ inflight' \in SUBSET inflight
            /\ spc' = "gap" /\ scyc' = last
       ELSE /\ spc' = "advance"
            /\ UNCHANGED <<inflight, scyc>>
    /\ UNCHANGED <<dbVars, recVars, dirty, missed, cfgVars, sneeds, sdue, webVars,
                   engVars, used>>

\* ... and inserts the rescan event into it.
SchedGap ==
    /\ spc = "gap"
    /\ log' = log \union Inserted({Rescan}, scyc)
    /\ needs' = needs \union {last}
    /\ spc' = "advance" /\ scyc' = 0
    /\ UNCHANGED <<last, cstat, manual, target, verified, colour, recVars, envVars,
                   cfgVars, sig, scfg, sneeds, sdue, webVars, engVars, used>>

\* Mutant: events alone do not make a realtime destination due.
DueNoEvents(d, passed) ==
    /\ d \in scfg.en \ scfg.pa
    /\ ~Pending(d)
    /\ \/ target[d] = 0 /\ verified[d] = 0
       \/ d \notin Realtime /\ d \in passed

\* The destinations due now; timed ones are due when their boundary passed.
Due(d, passed) ==
    /\ d \in scfg.en \ scfg.pa
    /\ ~Pending(d)
    /\ \/ target[d] = 0 /\ verified[d] = 0
       \/ d \in Realtime /\ HasEvents(last)
       \/ d \notin Realtime /\ d \in passed

\* Decide who is due.  With nobody due, an open cycle that holds events is
\* still closed once the source has been quiet for 10 s.
SchedAdvance ==
    /\ spc = "advance"
    /\ \E passed \in SUBSET (Dst \ Realtime) :
          LET D == {d \in Dst : Due(d, passed)}
          IN  \/ /\ D # {} \/ HasEvents(last)
                 /\ sdue' = D /\ spc' = "read"
              \/ /\ D = {}
                 /\ sdue' = {} /\ spc' = "gate"
    /\ UNCHANGED <<dbVars, recVars, envVars, cfgVars, sig, scfg, scyc, sneeds, webVars,
                   engVars, used>>

\* close_current_cycle_for_source reads the row of the open cycle again ...
SchedRead ==
    /\ spc = "read"
    /\ scyc' = last /\ sneeds' = (last \in needs)
    /\ spc' = "close"
    /\ UNCHANGED <<dbVars, recVars, envVars, cfgVars, sig, scfg, sdue, webVars, engVars, used>>

\* ... and closes it.
SchedClose ==
    /\ spc = "close"
    /\ CloseCycle(scyc)
    /\ IF sdue = {} THEN spc' = "gate" /\ NoAdvance
                    ELSE spc' = "target" /\ UNCHANGED <<scyc, sneeds, sdue>>
    /\ UNCHANGED <<needs, manual, log, target, verified, colour, recVars, envVars,
                   cfgVars, sig, scfg, webVars, engVars, used>>

\* clear_cycle_needs_rescan (decided on the row read before the close), then
\* set_destination_target for every due destination.
SchedTarget ==
    /\ spc = "target"
    /\ needs' = IF ~sneeds /\ sdue \subseteq Realtime /\ scyc \notin manual
                THEN needs \ {scyc} ELSE needs
    /\ SetTargets(sdue, scyc)
    /\ spc' = "gate" /\ NoAdvance
    /\ UNCHANGED <<last, cstat, manual, log, verified, recVars, envVars,
                   cfgVars, sig, scfg, webVars, engVars, used>>

-----------------------------------------------------------------------------
(* Web thread (sync_now, sync_source_now, queue_destination_sync).         *)

\* A manual request loads the configuration and reads the open cycle.  Sync
\* All targets every enabled destination that is not paused; a request for
\* one destination may ask for a Full and is refused while it is paused.
WebRequest ==
    /\ wpc = "idle" /\ mq = {}
    /\ Spend("request")
    /\ wcfg' = LoadConfig
    /\ wcyc' = last
    /\ \/ wdst' = enabled \ paused /\ wfull' = FALSE
       \/ \E d \in enabled \ paused : wdst' = {d} /\ wfull' \in BOOLEAN
    /\ wpc' = "close"
    /\ UNCHANGED <<dbVars, recVars, envVars, cfgVars, schedVars, mq, engVars>>

WebClose ==
    /\ wpc = "close"
    /\ CloseCycle(wcyc)
    /\ wpc' = "target"
    /\ UNCHANGED <<needs, manual, log, target, verified, colour, recVars, envVars,
                   cfgVars, schedVars, wcfg, wcyc, wdst, wfull, mq, engVars, used>>

WebTarget ==
    /\ wpc = "target"
    /\ SetTargets(wdst, wcyc)
    /\ wpc' = "flag"
    /\ UNCHANGED <<last, cstat, needs, manual, log, verified, recVars, envVars,
                   cfgVars, schedVars, wcfg, wcyc, wdst, wfull, mq, engVars, used>>

\* mark_cycle_manual_full_rescan for a Full, then spawn_background_sync.
WebFlag ==
    /\ wpc = "flag"
    /\ needs'  = IF wfull THEN needs \union {wcyc} ELSE needs
    /\ manual' = IF wfull THEN manual \union {wcyc} ELSE manual
    /\ mq' = {wcfg}
    /\ NoRequest
    /\ UNCHANGED <<last, cstat, log, target, verified, colour, recVars, envVars,
                   cfgVars, schedVars, engVars, used>>

-----------------------------------------------------------------------------
(* Engine (sync_all_pending_inner, sync_cycle_for_source_inner).           *)

\* Whoever gets SYNC_GATE runs the engine with the configuration it loaded.
StartEngine(who, cfg) ==
    /\ epc = "off"
    /\ epc' = "list" /\ owner' = who /\ ecfg' = cfg
    /\ UNCHANGED <<todo, snap, passVars, prog, anyBlk, cancel>>

SchedGate ==
    /\ spc = "gate"
    /\ StartEngine("sched", scfg)
    /\ spc' = "run" /\ scfg' = NoConfig
    /\ UNCHANGED <<dbVars, recVars, envVars, cfgVars, sig, scyc, sneeds, sdue,
                   webVars, used>>

ManualGate ==
    /\ \E cfg \in mq : StartEngine("manual", cfg)
    /\ mq' = {}
    /\ UNCHANGED <<dbVars, recVars, envVars, cfgVars, schedVars,
                   wpc, wcfg, wcyc, wdst, wfull, used>>

\* Mutant: a cycle left syncing by a crash is not taken up again.
ListedNoResume(c) == cstat[c] \in {"closed", "failed"}

\* closed_cycles_for_source: rows are copied, later changes go unseen.
Listed(c) == cstat[c] \in {"closed", "syncing", "failed"}

EngList ==
    /\ epc = "list"
    /\ todo' = {c \in Cyc : Listed(c)}
    /\ snap' = [closed |-> {c \in Cyc : cstat[c] = "closed"},
                needs  |-> needs, manual |-> manual]
    /\ prog' = FALSE /\ anyBlk' = FALSE
    /\ epc' = "pick"
    /\ UNCHANGED <<dbVars, recVars, envVars, cfgVars, schedVars, webVars,
                   owner, ecfg, passVars, cancel, used>>

Oldest(c) == c \in todo /\ \A k \in todo : c <= k

ReleaseGate ==
    /\ NoEngine
    /\ spc' = IF owner = "sched" THEN "idle" ELSE spc

\* cancel::check()? between two cycles unwinds the whole run.
EngCancelled ==
    /\ epc = "pick" /\ todo # {} /\ cancel = "run"
    /\ ReleaseGate
    /\ UNCHANGED <<dbVars, recVars, envVars, cfgVars, sig, scfg, scyc, sneeds, sdue,
                   webVars, used>>

\* A cycle nobody targets: marked verified when the copied row says closed.
EngSkip(c) ==
    /\ epc = "pick" /\ Oldest(c) /\ cancel # "run"
    /\ ~HasTarget(c)
    /\ cstat' = IF c \in snap.closed THEN [cstat EXCEPT ![c] = "verified"] ELSE cstat
    /\ todo' = todo \ {c}
    /\ UNCHANGED <<last, needs, manual, log, target, verified, colour, recVars, envVars,
                   cfgVars, schedVars, webVars, epc, owner, ecfg, snap, passVars,
                   prog, anyBlk, cancel, used>>

\* The source root cannot be resolved: every row goes red, the cycle failed,
\* and the run leaves the remaining cycles of this source alone.
EngSourceGone(c) ==
    /\ epc = "pick" /\ Oldest(c) /\ cancel # "run"
    /\ HasTarget(c)
    /\ Spend("fault")
    /\ colour' = [d \in Dst |-> "red"]
    /\ cstat' = [cstat EXCEPT ![c] = "failed"]
    /\ todo' = {}
    /\ UNCHANGED <<last, needs, manual, log, target, verified, recVars, envVars,
                   cfgVars, schedVars, webVars, epc, owner, ecfg, snap, passVars,
                   prog, anyBlk, cancel>>

\* Mutant: a rescan event between the offsets is overlooked.
NeedsFullNoRescan(c, R) ==
    \/ c \in snap.manual \/ c \in snap.needs
    \/ \E d \in R : verified[d] = 0

\* event_incremental_plan gives up, so that the pass reconciles everything.
NeedsFull(c, R) ==
    \/ c \in snap.manual \/ c \in snap.needs
    \/ \E d \in R : verified[d] = 0
    \/ \E d \in R : \E e \in Backlog(d, c) : e.path = Rescan

\* Mutant: a cycle that only held destinations back is settled for good.
SettledEarly(av, b, u) == IF av \/ (b /\ ~u) THEN "verified" ELSE "failed"

\* How a pass leaves its cycle: verified, held back, or failed.
Settled(av, b, u) == IF av THEN "verified" ELSE IF b /\ ~u THEN "closed" ELSE "failed"

\* Sort the enabled destinations that target c into already verified, held
\* back (paused; a Compare running or a standby pool asleep), offline and
\* ready, and plan the work of the ready ones.
EngBegin(c) ==
    /\ epc = "pick" /\ Oldest(c) /\ cancel # "run"
    /\ HasTarget(c)
    /\ LET T    == {d \in ecfg.en : target[d] = c}
           Fin  == {d \in T : verified[d] >= c}
           Held == (T \ Fin) \intersect ecfg.pa
       IN  \E Gated \in SUBSET (T \ (Fin \union Held)) :
           \E Off \in SUBSET (T \ (Fin \union Held \union Gated)) :
             LET R == T \ (Fin \union Held \union Gated \union Off)
             IN  /\ SpendIf(Gated \union Off # {})
                 /\ verified' = [d \in Dst |-> IF d \in Fin THEN c ELSE verified[d]]
                 /\ full' = NeedsFull(c, R)
                 /\ colour' = [d \in Dst |->
                       IF d \in Fin THEN "green"
                       ELSE IF d \in Held \union Gated THEN "yellow"
                       ELSE IF \/ d \in Off
                               \/ d \in R /\ c \in snap.needs \ snap.manual THEN "red"
                       ELSE colour[d]]
                 /\ work' = [d \in Dst |-> IF d \in R /\ ~full'
                                           THEN {e.path : e \in Backlog(d, c)}
                                           ELSE Path]
                 /\ ready' = R
                 /\ allv' = (T = Fin \union R)
                 /\ blk' = (Held \union Gated # {})
                 /\ ubf' = (Off # {})
                 /\ cstat' = [cstat EXCEPT ![c] = IF R = {} THEN @ ELSE "syncing"]
                 /\ epc' = IF R = {} THEN "settle" ELSE "copy"
    /\ ecyc' = c
    /\ late' = {} /\ cur' = {} /\ out' = "fresh" /\ chg' = {}
    /\ UNCHANGED <<last, needs, manual, log, target, recVars, envVars, cfgVars,
                   schedVars, webVars, owner, ecfg, todo, snap, prog, anyBlk, cancel>>

\* The paths that reach d when the engine copies S to it: none when the
\* engine still holds a configuration with the old root of d.
Reach(d, S) == IF d \in ecfg.old THEN {} ELSE S

\* Copy the planned paths to one ready destination, as they were when the pass
\* read them.  The result is decided here, the rows are written in EngFinish.
EngCopy(d) ==
    /\ epc = "copy" /\ d \in ready
    /\ cur' = {d}
    /\ \/ /\ out' = "ok" /\ chg' = {}
          /\ \E K \in SUBSET late :
                dirty' = [dirty EXCEPT ![d] = @ \ Reach(d, work[d] \ K)]
          /\ UNCHANGED used
       \* files that changed under the copy are skipped and reported
       \/ /\ out' = "changing"
          /\ \E C \in SUBSET (work[d] \intersect dirty[d]), K \in SUBSET late :
                /\ C # {}
                /\ chg' = C
                /\ dirty' = [dirty EXCEPT ![d] = @ \ Reach(d, work[d] \ (C \union K))]
          /\ Spend("fault")
       \* an error, or the cancel flag seen at a checkpoint, part of the way
       \/ /\ \/ out' = "err" /\ Spend("fault")
             \/ out' = "cancel" /\ cancel # "no" /\ UNCHANGED used
          /\ chg' = {}
          /\ \E S \in SUBSET work[d] : dirty' = [dirty EXCEPT ![d] = @ \ Reach(d, S)]
    /\ epc' = "finish"
    /\ UNCHANGED <<dbVars, recVars, inflight, missed, cfgVars, schedVars, webVars,
                   owner, ecfg, todo, snap, ecyc, ready, full, work, late, allv, blk,
                   ubf, prog, anyBlk, cancel>>

\* Before its first destination a cross-machine pass reads both trees with
\* the ? operator: a cancel seen there leaves the cycle syncing and its
\* targets set, and ends the run.
EngPrefetchCancelled ==
    /\ epc = "copy" /\ out = "fresh" /\ full /\ cancel # "no"
    /\ ReleaseGate
    /\ UNCHANGED <<dbVars, recVars, envVars, cfgVars, sig, scfg, scyc, sneeds, sdue,
                   webVars, used>>

\* The same reads can fail: the pass is over, its cycle stays syncing, and the
\* run leaves the remaining cycles of this source alone.
EngPrefetchFailed ==
    /\ epc = "copy" /\ out = "fresh" /\ full
    /\ Spend("fault")
    /\ epc' = "pick" /\ todo' = {} /\ NoPass
    /\ cancel' = IF cancel = "cycle" THEN "no" ELSE cancel
    /\ UNCHANGED <<dbVars, recVars, envVars, cfgVars, schedVars, webVars,
                   owner, ecfg, snap, prog, anyBlk>>

\* Mutant: the deferred paths are not recorded.
FinishVerifiedForgets(d) ==
    /\ UNCHANGED log
    /\ verified' = [verified EXCEPT ![d] = ecyc]
    /\ colour' = [colour EXCEPT ![d] = IF out = "ok" THEN "green" ELSE "yellow"]
    /\ UNCHANGED <<needs, target>>

\* A pass that verified d, also one that only met changing files: the
\* deferred paths are recorded in the open cycle first.
FinishVerified(d) ==
    /\ log' = log \union Inserted(chg, last)
    /\ verified' = [verified EXCEPT ![d] = ecyc]
    /\ colour' = [colour EXCEPT ![d] = IF out = "ok" THEN "green" ELSE "yellow"]
    /\ UNCHANGED <<needs, target>>

\* record_destination_failure of a cancelled pass: drop the rescan flag
\* unless a manual Full set it, and whatever target the row holds now.
FinishCancelled(d) ==
    /\ needs' = IF ecyc \in manual THEN needs ELSE needs \ {ecyc}
    /\ target' = [target EXCEPT ![d] = 0]
    /\ colour' = [colour EXCEPT ![d] = "red"]
    /\ UNCHANGED <<log, verified>>

FinishFailed(d) ==
    /\ colour' = [colour EXCEPT ![d] = "red"]
    /\ UNCHANGED <<log, verified, needs, target>>

EngFinish(d) ==
    /\ epc = "finish" /\ d \in cur
    /\ \/ out \in {"ok", "changing"} /\ FinishVerified(d)
       \/ out = "cancel" /\ FinishCancelled(d)
       \/ out = "err" /\ FinishFailed(d)
    /\ prog' = (prog \/ (out = "ok" /\ (full \/ work[d] # {})))
    /\ allv' = (allv /\ out = "ok")
    /\ ubf' = (ubf \/ out # "ok")
    /\ ready' = ready \ {d}
    /\ cur' = {} /\ out' = "none" /\ chg' = {}
    /\ epc' = IF ready' = {} THEN "settle" ELSE "copy"
    /\ UNCHANGED <<last, cstat, manual, recVars, envVars, cfgVars, schedVars, webVars,
                   owner, ecfg, todo, snap, ecyc, full, work, late, blk, anyBlk,
                   cancel, used>>

\* mark_cycle_status at the end of a pass; the cycle-scoped cancel flag dies
\* with the pass.
EngSettle ==
    /\ epc = "settle"
    /\ cstat' = [cstat EXCEPT ![ecyc] = Settled(allv, blk, ubf)]
    /\ todo' = todo \ {ecyc}
    /\ anyBlk' = (anyBlk \/ blk)
    /\ cancel' = IF cancel = "cycle" THEN "no" ELSE cancel
    /\ epc' = "pick" /\ NoPass
    /\ UNCHANGED <<last, needs, manual, log, target, verified, colour, recVars, envVars,
                   cfgVars, schedVars, webVars, owner, ecfg, snap, prog, used>>

\* prune_verified_cycle_events: what every enabled destination verified past.
Prunable(e) == /\ ecfg.en # {}
               /\ \A d \in ecfg.en : verified[d] # 0 /\ e.cycle < verified[d]

\* All listed cycles done: prune if the pass moved anything, and go round
\* again while it also held something back.
EngEnd ==
    /\ epc = "pick" /\ todo = {}
    /\ log' = IF prog THEN {e \in log : ~Prunable(e)} ELSE log
    /\ IF prog /\ anyBlk
       THEN /\ epc' = "list"
            /\ UNCHANGED <<owner, ecfg, todo, snap, passVars, prog, anyBlk, cancel, spc>>
       ELSE ReleaseGate
    /\ UNCHANGED <<last, cstat, needs, manual, target, verified, colour, recVars, envVars,
                   cfgVars, sig, scfg, scyc, sneeds, sdue, webVars, used>>

-----------------------------------------------------------------------------
(* User and process environment.                                           *)

\* cancel_activity: an untargeted request flags the run and its cycle, one
\* for a destination only the cycle pass in progress.
CancelRequest ==
    /\ epc # "off"
    /\ Spend("cancel")
    /\ \/ cancel' = "run"
       \/ epc \in {"copy", "finish", "settle"} /\ cancel = "no" /\ cancel' = "cycle"
    /\ UNCHANGED <<dbVars, recVars, envVars, cfgVars, schedVars, webVars, epc, owner,
                   ecfg, todo, snap, passVars, prog, anyBlk>>

\* save_config with destinations[].paused flipped
TogglePaused(d) ==
    /\ Spend("pause")
    /\ paused' = IF d \in paused THEN paused \ {d} ELSE paused \union {d}
    /\ UNCHANGED <<dbVars, recVars, envVars, enabled, resetDue, edited, schedVars,
                   webVars, engVars>>

\* save_config with destinations[].enabled flipped
ToggleEnabled(d) ==
    /\ Spend("switch")
    /\ enabled' = IF d \in enabled THEN enabled \ {d} ELSE enabled \union {d}
    /\ edited' = edited \union {d}
    /\ UNCHANGED <<dbVars, recVars, envVars, paused, resetDue, schedVars, webVars, engVars>>

\* save_config with a new path for d: the file is written first.  Threads
\* that loaded the configuration before keep working on the old root.
MovePath(d) ==
    /\ Spend("move") /\ resetDue = {}
    /\ dirty' = [dirty EXCEPT ![d] = Path]
    /\ resetDue' = {d}
    /\ edited' = edited \union {d}
    /\ scfg' = [scfg EXCEPT !.old = @ \union {d}]
    /\ wcfg' = [wcfg EXCEPT !.old = @ \union {d}]
    /\ ecfg' = [ecfg EXCEPT !.old = @ \union {d}]
    /\ mq' = {[cfg EXCEPT !.old = @ \union {d}] : cfg \in mq}
    /\ UNCHANGED <<dbVars, recVars, inflight, missed, enabled, paused,
                   spc, sig, scyc, sneeds, sdue, wpc, wcyc, wdst, wfull,
                   epc, owner, todo, snap, passVars, prog, anyBlk, cancel>>

\* ... and reset_changed_destination_offsets clears the row afterwards.
ResetOffset(d) ==
    /\ d \in resetDue
    /\ target' = [target EXCEPT ![d] = 0]
    /\ verified' = [verified EXCEPT ![d] = 0]
    /\ colour' = [colour EXCEPT ![d] = "red"]
    /\ resetDue' = {}
    /\ UNCHANGED <<last, cstat, needs, manual, log, recVars, envVars, enabled, paused,
                   edited, schedVars, webVars, engVars, used>>

\* The process dies and is started again: threads are gone, the database and
\* the USN journal, whose cursor is stored after the insert, are not; what
\* fanotify had queued is never seen.
Crash ==
    /\ Spend("crash")
    /\ IF Fanotify
       THEN /\ missed' = IF Rescan \in inflight \/ spc = "gap" THEN Path
                         ELSE missed \union (inflight \intersect Path)
            /\ inflight' = {}
       ELSE /\ inflight' = IF rcyc = 0 THEN inflight ELSE inflight \union {ritem}
            /\ UNCHANGED missed
    /\ rcyc' = 0 /\ resetDue' = {}
    /\ spc' = "idle" /\ sig' = enabled /\ scfg' = NoConfig /\ NoAdvance
    /\ NoRequest /\ mq' = {}
    /\ NoEngine
    /\ UNCHANGED <<dbVars, ritem, dirty, enabled, paused, edited>>

-----------------------------------------------------------------------------

Watcher   == Overflow \/ RecordBatch \/ RecordRead \/ RecordInsert
Scheduler == \/ SchedTick \/ SchedGap \/ SchedAdvance \/ SchedRead \/ SchedClose
             \/ SchedTarget \/ SchedGate
Web       == WebRequest \/ WebClose \/ WebTarget \/ WebFlag \/ ManualGate
Engine    == \/ EngList \/ EngCancelled \/ EngPrefetchCancelled \/ EngPrefetchFailed
             \/ EngSettle \/ EngEnd
             \/ \E c \in Cyc : EngSkip(c) \/ EngSourceGone(c) \/ EngBegin(c)
             \/ \E d \in Dst : EngCopy(d) \/ EngFinish(d)
User      == \/ CancelRequest \/ Crash
             \/ \E p \in Path : Change(p)
             \/ \E d \in Dst : \/ TogglePaused(d) \/ ToggleEnabled(d)
                               \/ MovePath(d) \/ ResetOffset(d)

Next == Watcher \/ Scheduler \/ Web \/ Engine \/ User

Spec == Init /\ [][Next]_vars

\* Threads that are not blocked make progress: the watcher drains what the
\* kernel holds, the scheduler loop has a 5 s heartbeat, a spawned run waits
\* on SYNC_GATE, and a pass runs to its end.  Nothing is assumed of users.
FairSpec == /\ Spec
            /\ WF_vars(RecordBatch \/ RecordRead \/ RecordInsert)
            /\ WF_vars(Scheduler)
            /\ WF_vars(ManualGate \/ WebClose \/ WebTarget \/ WebFlag)
            /\ WF_vars(Engine)

-----------------------------------------------------------------------------
(* Properties.                                                             *)

DbTypeOK ==
    /\ last \in Cyc
    /\ cstat \in [Cyc -> CycleStatus]
    /\ needs \subseteq Cyc /\ manual \subseteq Cyc
    /\ log \subseteq [cycle : Cyc, path : Item]
    /\ target \in [Dst -> Cyc0] /\ verified \in [Dst -> Cyc0]
    /\ colour \in [Dst -> Colour]

EnvTypeOK ==
    /\ inflight \subseteq Item /\ dirty \in [Dst -> SUBSET Path]
    /\ missed \subseteq Path
    /\ rcyc \in Cyc0 /\ ritem \in Item
    /\ enabled \subseteq Dst /\ paused \subseteq Dst
    /\ resetDue \subseteq Dst /\ edited \subseteq Dst
    /\ used \in [Kinds -> Nat]

ThreadTypeOK ==
    /\ spc \in {"idle", "gap", "advance", "read", "close", "target", "gate", "run"}
    /\ sig \subseteq Dst /\ scfg \in Config
    /\ scyc \in Cyc0 /\ sdue \subseteq Dst
    /\ wpc \in {"idle", "close", "target", "flag"}
    /\ wcfg \in Config /\ wcyc \in Cyc0 /\ wdst \subseteq Dst
    /\ wpc # "idle" => wcyc # 0
    /\ spc = "gap" => scyc # 0
    /\ mq \subseteq Config

EngTypeOK ==
    /\ epc \in {"off", "list", "pick", "copy", "finish", "settle"}
    /\ owner \in {"none", "sched", "manual"}
    /\ ecfg \in Config
    /\ todo \subseteq Cyc
    /\ snap \in [closed : SUBSET Cyc, needs : SUBSET Cyc, manual : SUBSET Cyc]
    /\ ecyc \in Cyc0 /\ ready \subseteq Dst
    /\ work \in [Dst -> SUBSET Path] /\ late \subseteq Path
    /\ cur \subseteq Dst
    /\ out \in {"none", "fresh", "ok", "changing", "err", "cancel"}
    /\ chg \subseteq Path
    /\ cancel \in {"no", "cycle", "run"}

FlagTypeOK ==
    /\ sneeds \in BOOLEAN /\ wfull \in BOOLEAN
    /\ full \in BOOLEAN /\ allv \in BOOLEAN /\ blk \in BOOLEAN /\ ubf \in BOOLEAN
    /\ prog \in BOOLEAN /\ anyBlk \in BOOLEAN

\* Every variable has the type its column, field or local has in the code.
TypeOK == DbTypeOK /\ EnvTypeOK /\ ThreadTypeOK /\ EngTypeOK /\ FlagTypeOK

\* What the kernel, the watcher or the scheduler holds and the log does not yet.
Unrecorded == inflight \union (IF rcyc = 0 THEN {} ELSE {ritem})
                       \union (IF spc = "gap" THEN {Rescan} ELSE {})

\* What still announces, after cycle c, that path p must be copied: its event
\* or a rescan marker not yet persisted, or persisted in a later cycle; or
\* the restart notice of a fanotify host.
Beyond(p, c) ==
    \/ p \in missed
    \/ {p, Rescan} \intersect Unrecorded # {}
    \/ \E e \in log : c < e.cycle /\ e.path \in {p, Rescan}

Announced(d, p) == Beyond(p, verified[d])

\* No change is lost: a destination that has verified some cycle and is
\* stale at a path still has that path (or a rescan) ahead of its verified
\* offset, across overflows, racing requests, cancels, failures, changing
\* files, pruning and crashes (events_between_cycles, upsert_destination_
\* status, prune_verified_cycle_events).  Destinations whose own entry was
\* switched off or moved are the subject of SurvivesEdit.
NoLostChange ==
    \A d \in Dst \ edited : verified[d] # 0 =>
        \A p \in dirty[d] : Announced(d, p)

\* The newest cycle is the only open one, and everything a thread closes,
\* targets, lists or verifies is older.
CycleInv ==
    /\ cstat[last] = "open"
    /\ \A c \in Cyc : /\ c < last => cstat[c] # "open"
                      /\ c > last => cstat[c] = "none"
    /\ \A d \in Dst : target[d] < last /\ verified[d] < last
    /\ spc \in {"gap", "close"} => scyc \in 1..last
    /\ spc = "target" => scyc \in 1..(last - 1)
    /\ wpc = "close"  => wcyc \in 1..last
    /\ wpc \in {"target", "flag"} => wcyc \in 1..(last - 1)
    /\ epc \in {"copy", "finish", "settle"} => ecyc \in 1..(last - 1)
    /\ todo \subseteq 1..(last - 1)

\* A destination that was never switched nor moved is enabled, at its present
\* root, in every configuration a thread still works with.
ConfigInv ==
    /\ resetDue \subseteq edited
    /\ \A d \in Dst \ edited :
          /\ d \in enabled
          /\ spc \notin {"idle", "run"} => d \in scfg.en
          /\ wpc # "idle" => d \in wcfg.en
          /\ \A cfg \in mq : d \in cfg.en /\ d \notin cfg.old
          /\ epc # "off" => d \in ecfg.en
          /\ d \notin scfg.old \union wcfg.old \union ecfg.old

\* What a pass still has to do, or has done and not recorded, leaves no stale
\* path behind that only cycles up to the one being verified announce.
PassInv ==
    /\ epc \in {"copy", "finish"} =>
          /\ \A p \in late : Beyond(p, ecyc)
          /\ \A d \in ready \ edited : \A p \in dirty[d] :
                p \in work[d] \/ Beyond(p, ecyc)
    /\ (epc = "finish" /\ out \in {"ok", "changing"}) =>
          \A d \in cur \ edited : \A p \in dirty[d] : p \in chg \/ Beyond(p, ecyc)

\* Enabling edits and manual requests do not both occur.  With both, a cycle
\* may be closed and verified between the two statements of SchedGap's
\* record_event; then only the rescan flag of the newer cycle is left.
NoGapRace == \A b \in Bound : b["request"] = 0 \/ b["switch"] = 0

\* The scheduler waits while its run holds the gate, and the cycle it read to
\* record a gap is still the open one.
GapInv ==
    /\ owner = "sched" => spc = "run"
    /\ spc = "gap" => scyc = last
    /\ used["request"] = 0 \/ used["switch"] = 0
    /\ used["request"] = 0 => wpc = "idle"
    /\ used["switch"] = 0 => sig = enabled /\ spc # "gap"

\* The inductive invariant behind NoLostChange on a fanotify host.
LogInv ==
    /\ TypeOK
    /\ rcyc = 0
    /\ GapInv
    /\ CycleInv
    /\ ConfigInv
    /\ PassInv
    /\ NoLostChange

\* The same promise for destinations whose entry was switched off and on
\* again or moved: prune_removed_destination_offsets keeps the row of a
\* disabled pair "so re-enabling resumes where it left off", and save_config
\* resets the row of a moved one so that it starts over with a full pass.
SurvivesEdit ==
    (resetDue = {} /\ sig = enabled) =>
        \A d \in enabled : verified[d] # 0 =>
            \A p \in dirty[d] : Announced(d, p)

\* destination_views: the dot shown for d is green.
Green(d) == colour[d] = "green" /\ target[d] # 0 /\ verified[d] >= target[d]

\* Work that is pending can be driven: the cycle an enabled destination
\* still has to verify is one closed_cycles_for_source lists, so the next
\* run of the engine finds it.
PendingIsListed ==
    \A d \in enabled : Pending(d) => Listed(target[d])

\* A green realtime destination has applied every persisted event that no
\* open cycle and no pass in progress still holds (README: the green dot of
\* a realtime destination means that the events are all applied).
GreenRealtimeIsApplied ==
    \A d \in Realtime \intersect enabled :
        (/\ Green(d)
         /\ epc = "off" /\ spc \in {"idle", "advance"} /\ wpc = "idle" /\ mq = {}
         /\ ~HasEvents(last))
        => \A p \in dirty[d] : p \in missed \/ {p, Rescan} \intersect Unrecorded # {}

\* A manual Full is carried out as one: while its cycle is being worked on
\* after the request returned, the pass reconciles the whole tree.
ManualFullIsFull ==
    (epc = "copy" /\ ecyc \in manual /\ wpc = "idle") => full

\* Every stale path of a realtime destination is eventually brought up to
\* date without a user's help, unless a restart of the fanotify watcher hid
\* the change (the restart notice is about those).
RealtimeConverges ==
    \A d \in Realtime, p \in Path :
        p \in dirty[d] ~> p \notin dirty[d] \/ p \in missed

\* Every pending target is eventually verified or withdrawn, or its
\* destination is paused; one that is resumed is served again.
PendingResolves ==
    \A d \in Dst : Pending(d) ~> ~Pending(d) \/ d \in paused

\* Cancelling withdraws the target of the pass (README, and the comment in
\* record_destination_failure): when a cancelled pass is over, none of the
\* destinations it still had to copy to is left targeting its cycle.
CancelWithdrawsTarget ==
    [][(epc = "copy" /\ cancel # "no" /\ epc' = "off" /\ used' = used)
        => \A d \in ready : target'[d] # ecyc]_vars

=============================================================================
