----------------------------- MODULE Activities -----------------------------
(***************************************************************************)
(* The activities of one process and what they share: passes of the        *)
(* scheduler and of manual requests (serialised by sync_gate), Compares    *)
(* (serialised by scan_gate), the registry of cancellable operations, the  *)
(* process-wide kind of the running sync, the stored Compare reports and   *)
(* their repair, the restart notice, and the standby pools whose disks are *)
(* parked between passes.                                                  *)
(*                                                                         *)
(* How a cycle is closed, targeted and verified is the subject of          *)
(* SyncCycles, how a tree is copied that of TreeSync.  Here a destination  *)
(* has a real difference to its source, the part of it that recorded       *)
(* events name, and a pending target with the flags of its cycle.          *)
(***************************************************************************)
EXTENDS Integers, FiniteSets

CONSTANTS
    Src, Dst,      \* enabled source groups and destinations on this host
    SourceOf,      \* the source of each destination
    Remote,        \* destinations on other machines: the transfer engine
    Path,          \* paths of a source
    SampleCap,     \* paths a report can name (SCAN_DIFF_PER_KIND_CAP)
    Pool,          \* enabled standby pools
    Covers,        \* the pools under the root of each source and destination
    Manual,        \* threads serving manual requests
    Scanner,       \* threads of Compares
    None,          \* no thread, no kind, no report, no destination
    Bound          \* the budgets of environment steps a run allows

Env == {"edit", "tamper", "request", "repair", "compare", "cancel", "fault", "crash", "time", "mount"}
Kind == {"incremental", "full", "repair_scan", "scan"}
Mode == {"due", "manual", "full"}   \* what the flags of a target's cycle ask for

ASSUME ActivitiesAssumption ==
    /\ SourceOf \in [Dst -> Src] /\ Remote \subseteq Dst
    /\ Covers \in [Src \cup Dst -> SUBSET Pool]
    /\ SampleCap \in Nat
    /\ Bound \subseteq [Env -> Nat]
    /\ "sched" \notin Manual \cup Scanner /\ Manual \cap Scanner = {}
    /\ None \notin Manual \cup Scanner \cup Src \cup Dst \cup {"sched"}
    /\ IsFiniteSet(Path)

Thread == Manual \cup {"sched"}

VARIABLES
    phase,     \* "down", "arming" (API up, watcher not yet armed) or "up"
    diff,      \* paths in which a destination differs from its source
    known,     \* paths named by recorded events a destination has not applied
    pend,      \* pending target: "none", or whose request its cycle carries
    gate,      \* holder of sync_gate
    scanGate,  \* holder of scan_gate
    kind,      \* SYNC_KIND
    ops,       \* the cancel registry
    pass,      \* what each pass thread is doing
    scan,      \* what each Compare thread is doing
    report,    \* the stored Compare report of a destination
    repair,    \* a repair request between its statements
    notice,    \* sources with a restart notice
    open,      \* pools inside their wake window
    mounted,   \* pools that are imported
    awake,     \* StandbyManager.awake: "unknown", "yes" or "no"
    idle,      \* StandbyManager.idle_since: none (0), since (1), past grace (2)
    syncing,   \* sync_is_running() as the tick sampled it
    unread,    \* history: unrecorded changes nobody has read or dismissed
    owed,      \* history: differences a repair has taken over
    lapsed,    \* history: those whose Full another request or a cancel undid
    vague,     \* history: sources whose notice was cleared unread, by a pass or
               \* by a Compare that began before the watcher was armed, or
               \* could not be written
    unsure,    \* history: destinations of which a pass cannot know the mounts:
               \* its readiness check did not look, or it was made too early
    budget     \* environment steps left

dbVars   == <<known, pend, report, notice>>
lockVars == <<gate, scanGate, kind, ops>>
poolVars == <<open, mounted, awake, idle, syncing>>
history  == <<unread, owed, lapsed, vague, unsure>>
vars == <<phase, diff, dbVars, lockVars, pass, scan, repair, poolVars, history, budget>>

Of(s) == {d \in Dst : SourceOf[d] = s}

Spend(k) == budget[k] > 0 /\ budget' = [budget EXCEPT ![k] = @ - 1]

----------------------------------------------------------------------------
(* Threads at rest *)

Resting ==
    [pc |-> "idle", ask |-> None, prev |-> None, todo |-> {}, src |-> None,
     mode |-> None, far |-> FALSE, left |-> {}, ready |-> {}, claim |-> {},
     dst |-> None, plan |-> {}, kind |-> None, fresh |-> FALSE,
     prog |-> FALSE, blk |-> FALSE, late |-> FALSE]

NoScan ==
    [pc |-> "idle", dst |-> None, left |-> {}, found |-> {}, read |-> {},
     prev |-> None, fresh |-> FALSE, armed |-> FALSE, raced |-> FALSE]

NoRepair == [pc |-> "idle", dst |-> None, rep |-> None]

Init ==
    /\ phase = "up"
    /\ diff = [d \in Dst |-> {}] /\ known = [d \in Dst |-> {}]
    /\ pend = [d \in Dst |-> "none"]
    /\ gate = None /\ scanGate = None /\ kind = None /\ ops = {}
    /\ pass = [t \in Thread |-> Resting]
    /\ scan = [t \in Scanner |-> NoScan]
    /\ report = [d \in Dst |-> None] /\ repair = NoRepair
    /\ notice = {}
    /\ open = Pool /\ mounted = Pool
    /\ awake = [p \in Pool |-> "unknown"] /\ idle = [p \in Pool |-> 0]
    /\ syncing = FALSE
    /\ unread = [s \in Src |-> {}] /\ owed = [d \in Dst |-> {}]
    /\ lapsed = [d \in Dst |-> {}] /\ vague = {} /\ unsure = [t \in Thread |-> {}]
    /\ budget \in Bound

----------------------------------------------------------------------------
(* The cancel registry *)

\* Mutant: a Compare registers as a sync.
OpAsSync(t, k, ds) == [by |-> t, kind |-> "sync", scope |-> ds, hit |-> FALSE]

\* begin_targets: an operation of thread t, scoped to ds (unscoped when {})
Op(t, k, ds) == [by |-> t, kind |-> k, scope |-> ds, hit |-> FALSE]

\* kind_target_active
Active(k, d) == \E o \in ops : o.kind = k /\ d \in o.scope

\* cancel::check on thread t: the token of its innermost operation
Hit(t, scoped) == \E o \in ops : o.by = t /\ (o.scope # {}) = scoped /\ o.hit

\* dropping the guards of thread t
Dropped(t) == {o \in ops : o.by # t}

\* request: all kinds when k is None, any destination when d is None
Marked(o, k, d) ==
    [o EXCEPT !.hit = @ \/ (k \in {None, o.kind} /\ d \in o.scope \cup {None})]

Signalled(k, d) == {Marked(o, k, d) : o \in ops}

\* cancel_activity
Cancel(k, d) ==
    /\ phase # "down" /\ ops # {} /\ Spend("cancel")
    /\ ops' = Signalled(k, d) /\ ops' # ops
    /\ UNCHANGED <<phase, diff, dbVars, gate, scanGate, kind, pass, scan, repair,
                   poolVars, history>>

----------------------------------------------------------------------------
(* Changes at the source, and the restart notice *)

\* Paths of a source change.  Once the watcher is armed events name them, also
\* those of an earlier change nobody recorded; until then the change makes a
\* difference no repair has taken over.  What a running pass or Compare has read
\* of the paths before is out of date.
Edit(s, ps) ==
    /\ Spend("edit")
    /\ diff' = [d \in Dst |-> diff[d] \cup IF d \in Of(s) THEN ps ELSE {}]
    /\ IF phase = "up"
         THEN /\ known' = [d \in Dst |-> known[d] \cup IF d \in Of(s) THEN ps ELSE {}]
              /\ unread' = [unread EXCEPT ![s] = @ \ ps]
              /\ UNCHANGED owed
         ELSE /\ unread' = [unread EXCEPT ![s] = @ \cup ps]
              /\ owed' = [d \in Dst |-> owed[d] \ IF d \in Of(s) THEN ps ELSE {}]
              /\ UNCHANGED known
    /\ lapsed' = [d \in Dst |-> lapsed[d] \ IF d \in Of(s) THEN ps ELSE {}]
    /\ pass' = [t \in Thread |->
           IF pass[t].src = s THEN [pass[t] EXCEPT !.plan = @ \ ps] ELSE pass[t]]
    /\ scan' = [t \in Scanner |->
           IF scan[t].dst \in Of(s) THEN [scan[t] EXCEPT !.read = @ \ ps] ELSE scan[t]]
    /\ UNCHANGED <<phase, pend, report, notice, lockVars, repair, poolVars, vague, unsure>>

\* Somebody else changes the destination; no event names that.
Tamper(d, ps) ==
    /\ Spend("tamper")
    /\ diff' = [diff EXCEPT ![d] = @ \cup ps]
    /\ UNCHANGED <<phase, dbVars, lockVars, pass, scan, repair, poolVars, history>>

\* The process dies with all threads, locks and registered operations.
Crash ==
    /\ phase # "down" /\ Spend("crash")
    /\ phase' = "down"
    /\ gate' = None /\ scanGate' = None /\ kind' = None /\ ops' = {}
    /\ pass' = [t \in Thread |-> Resting] /\ scan' = [t \in Scanner |-> NoScan]
    /\ repair' = NoRepair
    /\ awake' = [p \in Pool |-> "unknown"] /\ idle' = [p \in Pool |-> 0]
    /\ syncing' = FALSE /\ unsure' = [t \in Thread |-> {}]
    /\ UNCHANGED <<diff, dbVars, open, mounted, unread, owed, lapsed, vague>>

\* main: the API accepts requests while the scheduler waits for the watcher
Boot ==
    /\ phase = "down" /\ phase' = "arming"
    /\ UNCHANGED <<diff, dbVars, lockVars, pass, scan, repair, poolVars, history, budget>>

\* wait_for_watcher_armed and raise_restart_notices: an existing notice keeps
\* its time, a new one is later than the start of everything now running, and
\* one that cannot be written is only logged.
Armed ==
    /\ phase = "arming" /\ phase' = "up"
    /\ \E raised \in SUBSET (Src \ notice) :
           /\ IF raised = Src \ notice THEN UNCHANGED budget ELSE Spend("fault")
           /\ notice' = notice \cup raised
           /\ pass' = [t \in Thread |->
                  IF pass[t].src \in raised THEN [pass[t] EXCEPT !.fresh = FALSE] ELSE pass[t]]
           /\ scan' = [t \in Scanner |->
                  IF scan[t].dst \in Dst /\ SourceOf[scan[t].dst] \in raised
                  THEN [scan[t] EXCEPT !.fresh = FALSE] ELSE scan[t]]
    /\ vague' = vague \cup {s \in Src \ notice' : unread[s] # {}}
    /\ UNCHANGED <<diff, known, pend, report, lockVars, repair, poolVars, unread, owed,
                   lapsed, unsure>>

\* dismiss_restart_notice
Dismiss(s) ==
    /\ phase = "up" /\ s \in notice
    /\ notice' = notice \ {s} /\ unread' = [unread EXCEPT ![s] = {}]
    /\ UNCHANGED <<phase, diff, known, pend, report, lockVars, pass, scan, repair,
                   poolVars, owed, lapsed, vague, unsure, budget>>

\* Mutant: the notice is cleared whenever the action began.
NoticeAfterAny(s, fresh) == notice \ {s}

\* clear_restart_notice_if_covered
NoticeAfter(s, fresh) == IF fresh THEN notice \ {s} ELSE notice

----------------------------------------------------------------------------
(* Compare *)

WatcherArmed == phase = "up"

\* a Compare of d at its start
Comparing(d) ==
    [NoScan EXCEPT !.pc = "check", !.dst = d, !.left = Path, !.fresh = TRUE, !.armed = WatcherArmed]

\* Backend::scan_destination_now spawns a thread; scan_destination_now takes
\* scan_gate or gives up without touching the stored report.
CompareStart(t, d) ==
    /\ phase # "down" /\ scan[t].pc = "idle" /\ Spend("compare")
    /\ IF scanGate = None
         THEN /\ scanGate' = t
              /\ scan' = [scan EXCEPT ![t] = Comparing(d)]
         ELSE UNCHANGED <<scanGate, scan>>
    /\ UNCHANGED <<phase, diff, dbVars, gate, kind, ops, pass, repair, poolVars, history>>

\* dropping the guards of a Compare
CompareLeaves(t) ==
    /\ ops' = Dropped(t) /\ scanGate' = None
    /\ scan' = [scan EXCEPT ![t] = NoScan]

\* Mutant: a rejected or failed Compare keeps its operation registered.
CompareFailsRegistered(t) ==
    /\ ops' = ops /\ scanGate' = None
    /\ scan' = [scan EXCEPT ![t] = NoScan]
    /\ kind' = IF scan[t].pc = "read" THEN scan[t].prev ELSE kind
    /\ report' = [report EXCEPT ![scan[t].dst] = [ok |-> FALSE, sample |-> {}, all |-> {}]]

\* a Compare that did not succeed leaves a report of its failure
CompareFails(t) ==
    /\ CompareLeaves(t)
    /\ kind' = IF scan[t].pc = "read" THEN scan[t].prev ELSE kind
    /\ report' = [report EXCEPT ![scan[t].dst] = [ok |-> FALSE, sample |-> {}, all |-> {}]]

\* a pass registered for this destination turns the Compare away
CompareCheck(t) ==
    /\ scan[t].pc = "check"
    /\ IF Active("sync", scan[t].dst)
         THEN CompareFails(t)
         ELSE /\ scan' = [scan EXCEPT ![t].pc = "register"]
              /\ UNCHANGED <<scanGate, kind, ops, report>>
    /\ UNCHANGED <<phase, diff, known, pend, notice, gate, pass, repair, poolVars,
                   history, budget>>

\* set_sync_kind_if_empty and begin_target
CompareRegister(t) ==
    /\ scan[t].pc = "register"
    /\ kind' = IF kind = None THEN "scan" ELSE kind
    /\ ops' = ops \cup {Op(t, "compare", {scan[t].dst})}
    /\ scan' = [scan EXCEPT ![t].pc = "read", ![t].prev = kind,
                            ![t].raced = Active("sync", scan[t].dst)]
    /\ UNCHANGED <<phase, diff, dbVars, gate, scanGate, pass, repair, poolVars, history, budget>>

\* one path of both trees, polling for a cancel
CompareRead(t, p) ==
    /\ scan[t].pc = "read" /\ p \in scan[t].left /\ ~Hit(t, TRUE)
    /\ scan' = [scan EXCEPT
           ![t].left = @ \ {p}, ![t].read = @ \cup {p},
           ![t].found = @ \cup ({p} \cap diff[scan[t].dst])]
    /\ UNCHANGED <<phase, diff, dbVars, lockVars, pass, repair, poolVars, history, budget>>

\* cancelled, or a tree cannot be read
CompareBreak(t) ==
    /\ scan[t].pc = "read" /\ scan[t].left # {}
    /\ IF Hit(t, TRUE) THEN UNCHANGED budget ELSE Spend("fault")
    /\ CompareFails(t)
    /\ UNCHANGED <<phase, diff, known, pend, notice, gate, pass, repair, poolVars, history>>

\* build_scan_report keeps a bounded sample of the differences
Samples(found) ==
    IF Cardinality(found) <= SampleCap THEN {found}
    ELSE {x \in SUBSET found : Cardinality(x) = SampleCap}

\* put_scan_report, then the restart notice of the source
CompareDone(t) ==
    /\ scan[t].pc = "read" /\ scan[t].left = {}
    /\ LET d == scan[t].dst
           s == SourceOf[d] IN
       /\ \E x \in Samples(scan[t].found) :
              report' = [report EXCEPT ![d] = [ok |-> TRUE, sample |-> x, all |-> scan[t].found]]
       /\ notice' = NoticeAfter(s, scan[t].fresh)
       /\ unread' = [unread EXCEPT ![s] = @ \ scan[t].read]
       /\ vague' = IF s \in notice \ notice' /\ unread'[s] # {} /\ scan[t].fresh /\ ~scan[t].armed
                   THEN vague \cup {s} ELSE vague
    /\ CompareLeaves(t) /\ kind' = scan[t].prev
    /\ UNCHANGED <<phase, diff, known, pend, gate, pass, repair, poolVars, owed, lapsed, unsure,
                   budget>>

----------------------------------------------------------------------------
(* Manual requests *)

\* spawn_background_sync
Waiting(k) == [Resting EXCEPT !.pc = "wait", !.ask = k]

Spawned(t, k, ps) == [ps EXCEPT ![t] = Waiting(k)]

\* a new target for d: passes at the cycle it had before no longer hold it
Without(ps, d) == [ps EXCEPT !.left = @ \ {d}, !.claim = @ \ {d}]

Superseded(d) == [t \in Thread |-> Without(pass[t], d)]

\* what a repair left to a pending Full that is no longer there once the flags
\* of the target of d are m
Overruled(d, m) == IF pend[d] = "full" /\ m # "full" THEN owed[d] \ known[d] ELSE {}

\* sync_destination_now: the target is queued at once, with the flags of the
\* request in place of those of the cycle it supersedes
Request(t, d, m) ==
    /\ phase # "down" /\ t \in Manual /\ pass[t].pc = "idle" /\ Spend("request")
    /\ pend' = [pend EXCEPT ![d] = m]
    /\ lapsed' = [lapsed EXCEPT ![d] = @ \cup Overruled(d, m)]
    /\ pass' = Spawned(t, IF m = "full" THEN "full" ELSE "incremental", Superseded(d))
    /\ UNCHANGED <<phase, diff, known, report, notice, lockVars, scan, repair, poolVars,
                   unread, owed, vague, unsure>>

\* queue_scan_repair reads the report; a failed or empty one ends it
RepairRead(d) ==
    /\ phase # "down" /\ repair.pc = "idle" /\ Spend("repair")
    /\ report[d] # None /\ report[d].ok /\ report[d].all # {}
    /\ repair' = [pc |-> "inject", dst |-> d, rep |-> report[d]]
    /\ UNCHANGED <<phase, diff, dbVars, lockVars, pass, scan, poolVars, history>>

\* Mutant: the sample is taken for the whole report.
SampleIsCompleteAlways(rep) == TRUE

\* sample_is_complete: the report names as many paths as it counted
SampleIsComplete(rep) == Cardinality(rep.sample) >= Cardinality(rep.all)

\* what the report of the repair found and is still different
Found == repair.rep.all \cap diff[repair.dst]

\* record_event for every difference the report names
RepairInject ==
    /\ repair.pc = "inject"
    /\ IF SampleIsComplete(repair.rep)
         THEN /\ known' = [known EXCEPT ![repair.dst] = @ \cup repair.rep.sample]
              /\ owed' = [owed EXCEPT ![repair.dst] = @ \cup Found]
              /\ lapsed' = [lapsed EXCEPT ![repair.dst] = @ \ Found]
         ELSE UNCHANGED <<known, owed, lapsed>>
    /\ repair' = [repair EXCEPT !.pc = "target"]
    /\ UNCHANGED <<phase, diff, pend, report, notice, lockVars, pass, scan, poolVars,
                   unread, vague, unsure, budget>>

\* force_target_destination with the flags of an incremental or a Full
RepairTarget ==
    /\ repair.pc = "target"
    /\ IF SampleIsComplete(repair.rep)
         THEN /\ pend' = [pend EXCEPT ![repair.dst] = "manual"]
              /\ lapsed' = [lapsed EXCEPT ![repair.dst] = @ \cup Overruled(repair.dst, "manual")]
              /\ UNCHANGED owed
         ELSE /\ pend' = [pend EXCEPT ![repair.dst] = "full"]
              /\ owed' = [owed EXCEPT ![repair.dst] = @ \cup Found]
              /\ lapsed' = [lapsed EXCEPT ![repair.dst] = @ \ Found]
    /\ repair' = [repair EXCEPT !.pc = "delete"]
    /\ pass' = Superseded(repair.dst)
    /\ UNCHANGED <<phase, diff, known, report, notice, lockVars, scan, poolVars,
                   unread, vague, unsure, budget>>

\* the report is consumed, and a thread serves the request
RepairEnd(t) ==
    /\ repair.pc = "delete" /\ t \in Manual /\ pass[t].pc = "idle"
    /\ report' = [report EXCEPT ![repair.dst] = None]
    /\ repair' = NoRepair
    /\ pass' = Spawned(t, "repair_scan", pass)
    /\ UNCHANGED <<phase, diff, known, pend, notice, lockVars, scan, poolVars, history, budget>>

----------------------------------------------------------------------------
(* Passes *)

\* one round of run_scheduler: due destinations are targeted first (rounds
\* that would change nothing are left out)
SchedTick ==
    /\ phase = "up" /\ pass["sched"].pc = "idle"
    /\ \/ \E d \in Dst : pend[d] # "none" \/ known[d] # {}
       \/ \E p \in Pool : awake[p] # "no" /\ (idle[p] # 1 \/ p \notin open)
    /\ pend' = [d \in Dst |-> IF pend[d] = "none" /\ known[d] # {} THEN "due" ELSE pend[d]]
    /\ pass' = [pass EXCEPT !["sched"].pc = "wait"]
    /\ UNCHANGED <<phase, diff, known, report, notice, lockVars, scan, repair, poolVars,
                   history, budget>>

\* the scheduler has looked at sync_gate and is about to drive the pools
Sampled == pass["sched"].pc = "standby"

\* sync_all_pending and run_pending_with_kind
PassLock(t) ==
    /\ pass[t].pc = "wait" /\ gate = None
    /\ gate' = t
    /\ kind' = IF t = "sched" THEN IF kind = None THEN "incremental" ELSE kind
               ELSE pass[t].ask
    /\ ops' = ops \cup {Op(t, "sync", {})}
    /\ pass' = [pass EXCEPT ![t].pc = "loop", ![t].prev = kind, ![t].todo = Src \X Mode,
                            ![t].late = Sampled]
    /\ UNCHANGED <<phase, diff, dbVars, scanGate, scan, repair, poolVars, history, budget>>

\* the destinations that target the cycle of s with the flags m; the transfer
\* engine serves the cycle if one of them is remote
Targeted(s, m)   == {d \in Of(s) : pend[d] = m}
ByTransfer(s, m) == Targeted(s, m) \cap Remote # {}

\* the targeted cycles the loop of sync_all_pending_inner has still to visit
ToVisit(t) == {c \in pass[t].todo : Targeted(c[1], c[2]) # {}}

\* sync_cycle_for_source for the cycle of s with the flags m: its operation is
\* scoped to all destinations of the source, the kind is the one in force now
CycleStart(t, s, m) ==
    /\ pass[t].pc = "loop" /\ <<s, m>> \in ToVisit(t) /\ ~Hit(t, FALSE)
    /\ ops' = ops \cup {Op(t, "sync", Of(s))}
    /\ pass' = [pass EXCEPT ![t] = [pass[t] EXCEPT
           !.pc = "gate", !.todo = @ \ {<<s, m>>}, !.src = s, !.mode = m,
           !.far = ByTransfer(s, m), !.left = Targeted(s, m), !.claim = Targeted(s, m),
           !.kind = kind, !.fresh = TRUE]]
    /\ UNCHANGED <<phase, diff, dbVars, gate, scanGate, kind, scan, repair, poolVars,
                   history, budget>>

\* the pools whose wake window decides about a sync to d, and all it touches
Gating(d)  == IF Covers[d] # {} THEN Covers[d] ELSE Covers[SourceOf[d]]
Touched(d) == Covers[d] \cup Covers[SourceOf[d]]

\* Mutant: mounts are verified only on the side of the source.
GateForSyncSrc(d) ==
    IF ~(Gating(d) \subseteq open) THEN "asleep"
    ELSE IF ~(Covers[SourceOf[d]] \subseteq mounted) THEN "not_mounted"
    ELSE "none"

\* gate_for_sync: the first gate that blocks
GateForSync(d) ==
    IF ~(Gating(d) \subseteq open) THEN "asleep"
    ELSE IF ~(Touched(d) \subseteq mounted) THEN "not_mounted"
    ELSE "none"

\* Mutant: a pass does not wait for a Compare.
BlockedBlind(t, d) == GateForSync(d) = "asleep" /\ pass[t].mode = "due"

\* held back by the local engine: a Compare of the destination runs, or its
\* pool is parked and no manual request overrides that
Blocked(t, d) ==
    \/ Active("compare", d)
    \/ GateForSync(d) = "asleep" /\ pass[t].mode = "due"

\* refused by the local engine: a pool is not mounted
Refused(d) == GateForSync(d) = "not_mounted"

\* one readiness check; a blind one does not look at the mounts
Gated(t, d, blocked, refused, blind) ==
    /\ pass[t].pc = "gate" /\ d \in pass[t].left
    /\ pass' = [pass EXCEPT ![t].left = @ \ {d},
           ![t].blk = @ \/ blocked,
           ![t].ready = IF blocked \/ refused THEN @ ELSE @ \cup {d}]
    /\ unsure' = IF blind THEN [unsure EXCEPT ![t] = @ \cup {d}] ELSE unsure
    /\ UNCHANGED <<phase, diff, dbVars, lockVars, scan, repair, poolVars, unread, owed, lapsed,
                   vague>>

\* the readiness checks of the local engine for one destination: a request
\* that overrides a parked pool is not stopped by the mounts either
GateOne(t, d) ==
    /\ ~pass[t].far /\ UNCHANGED budget
    /\ Gated(t, d, Blocked(t, d), Refused(d), GateForSync(d) = "asleep")

\* gate_for_sync fails at the wake window of a pool: the engine proceeds, and
\* the mounts are not verified
GateFails(t, d) ==
    /\ ~pass[t].far /\ Gating(d) # {} /\ ~Active("compare", d)
    /\ Gated(t, d, FALSE, FALSE, TRUE) /\ Spend("fault")

\* the transfer engine looks for a Compare only
GateFar(t, d) ==
    /\ pass[t].far /\ UNCHANGED budget
    /\ Gated(t, d, Active("compare", d), FALSE, TRUE)

\* the work on one destination begins: recorded paths, or the whole tree
WriteStart(t, d) ==
    /\ pass[t].pc = "gate" /\ pass[t].left = {} /\ d \in pass[t].ready
    /\ pass' = [pass EXCEPT ![t].pc = "write", ![t].ready = @ \ {d}, ![t].dst = d,
           ![t].plan = IF pass[t].mode = "full" THEN Path ELSE known[d]]
    /\ UNCHANGED <<phase, diff, dbVars, lockVars, scan, repair, poolVars, history, budget>>

\* verified: what was planned and did not change since is applied
WriteDone(t) ==
    /\ pass[t].pc = "write" /\ ~Hit(t, TRUE)
    /\ LET d == pass[t].dst IN
       /\ diff'  = [diff  EXCEPT ![d] = @ \ pass[t].plan]
       /\ known' = [known EXCEPT ![d] = @ \ pass[t].plan]
       /\ owed'  = [owed  EXCEPT ![d] = @ \ pass[t].plan]
       /\ lapsed' = [lapsed EXCEPT ![d] = @ \ pass[t].plan]
       /\ pend'  = [pend  EXCEPT ![d] = IF d \in pass[t].claim THEN "none" ELSE @]
       /\ unread' = IF pass[t].mode = "full"
                    THEN [unread EXCEPT ![pass[t].src] = @ \ pass[t].plan] ELSE unread
    /\ pass' = [pass EXCEPT ![t].pc = "gate", ![t].dst = None, ![t].plan = {},
                            ![t].prog = TRUE]
    /\ UNCHANGED <<phase, report, notice, lockVars, scan, repair, poolVars, vague, unsure, budget>>

\* record_destination_failure: a cancelled destination loses its target, one
\* that failed keeps it; either way the cycle goes on with the next one
WriteFails(t) ==
    /\ pass[t].pc = "write"
    /\ IF Hit(t, TRUE)
         THEN /\ pend' = [pend EXCEPT ![pass[t].dst] = "none"]
              /\ lapsed' = [lapsed EXCEPT ![pass[t].dst] = @ \cup Overruled(pass[t].dst, "none")]
              /\ UNCHANGED budget
         ELSE Spend("fault") /\ UNCHANGED <<pend, lapsed>>
    /\ pass' = [pass EXCEPT ![t].pc = "gate", ![t].dst = None, ![t].plan = {}]
    /\ UNCHANGED <<phase, diff, known, report, notice, lockVars, scan, repair, poolVars,
                   unread, owed, vague, unsure>>

\* the cycle returns Ok however its destinations fared; under the kind "full"
\* that clears the restart notice of the source
CycleEnd(t) ==
    /\ pass[t].pc = "gate" /\ pass[t].left = {} /\ pass[t].ready = {}
    /\ LET s == pass[t].src
           cleared == IF pass[t].kind = "full" THEN NoticeAfter(s, pass[t].fresh) ELSE notice IN
       /\ notice' = cleared
       /\ vague' = IF s \in notice \ cleared /\ unread[s] # {} /\ pass[t].fresh
                   THEN vague \cup {s} ELSE vague
    /\ ops' = {o \in ops : o.by # t \/ o.scope = {}}
    /\ pass' = [pass EXCEPT ![t] = [Resting EXCEPT
           !.pc = "loop", !.ask = pass[t].ask, !.prev = pass[t].prev, !.todo = pass[t].todo,
           !.prog = pass[t].prog, !.blk = pass[t].blk, !.late = pass[t].late]]
    /\ unsure' = [unsure EXCEPT ![t] = {}]
    /\ UNCHANGED <<phase, diff, known, pend, report, gate, scanGate, kind, scan, repair,
                   poolVars, unread, owed, lapsed, budget>>

\* another round after progress while something was held back
PassAgain(t) ==
    /\ pass[t].pc = "loop" /\ ToVisit(t) = {} /\ pass[t].prog /\ pass[t].blk
    /\ pass' = [pass EXCEPT ![t].todo = Src \X Mode, ![t].prog = FALSE, ![t].blk = FALSE]
    /\ UNCHANGED <<phase, diff, dbVars, lockVars, scan, repair, poolVars, history, budget>>

\* the pass ends, done or cancelled as a whole, and its guards are dropped
PassEnd(t) ==
    /\ pass[t].pc = "loop"
    /\ \/ Hit(t, FALSE)
       \/ ToVisit(t) = {} /\ ~(pass[t].prog /\ pass[t].blk)
    /\ gate' = None /\ ops' = Dropped(t) /\ kind' = pass[t].prev
    /\ pass' = [pass EXCEPT ![t] =
           [Resting EXCEPT !.pc = IF t = "sched" THEN "sample" ELSE "idle"]]
    /\ UNCHANGED <<phase, diff, dbVars, scanGate, scan, repair, poolVars, history, budget>>

----------------------------------------------------------------------------
(* Standby pools *)

\* run_scheduler samples sync_is_running before it drives the pools
StandbySample ==
    /\ pass["sched"].pc = "sample"
    /\ syncing' = (gate # None)
    /\ pass' = [pass EXCEPT !["sched"].pc = "standby"]
    /\ UNCHANGED <<phase, diff, dbVars, lockVars, scan, repair, open, mounted, awake, idle,
                   history, budget>>

\* Mutant: a running sync does not count.
BusyIdle(p) ==
    \E d \in Dst : p \in Touched(d) /\ GateForSync(d) = "none" /\ pend[d] # "none"

\* busy: a sync was running, or a target that could run now touches the pool
Busy(p) ==
    \/ syncing
    \/ \E d \in Dst : p \in Touched(d) /\ GateForSync(d) = "none" /\ pend[d] # "none"

\* outside its window, or idle past the grace
ShouldPark(p) == ~Busy(p) /\ (p \notin open \/ idle[p] = 2)

\* StandbyManager::step for every pool
StandbyStep ==
    /\ pass["sched"].pc = "standby"
    /\ awake' = [p \in Pool |-> IF Busy(p) THEN "yes"
                                ELSE IF ShouldPark(p) THEN "no" ELSE awake[p]]
    /\ idle' = [p \in Pool |-> IF Busy(p) THEN 0 ELSE IF idle[p] = 0 THEN 1 ELSE idle[p]]
    /\ syncing' = FALSE
    /\ pass' = [pass EXCEPT !["sched"] = Resting]
    /\ UNCHANGED <<phase, diff, dbVars, lockVars, scan, repair, open, mounted, history, budget>>

\* time: the grace of an idle pool passes, a wake window opens or closes
Grace(p) ==
    /\ idle[p] = 1 /\ Spend("time")
    /\ idle' = [idle EXCEPT ![p] = 2]
    /\ UNCHANGED <<phase, diff, dbVars, lockVars, pass, scan, repair, open, mounted, awake,
                   syncing, history>>

Window(p) ==
    /\ Spend("time")
    /\ open' = (open \cup {p}) \ (open \cap {p})
    /\ UNCHANGED <<phase, diff, dbVars, lockVars, pass, scan, repair, mounted, awake, idle,
                   syncing, history>>

\* destinations a pass has checked or writes, and that lie on or read a pool
Relying(t, p) == {d \in pass[t].ready \cup ({pass[t].dst} \cap Dst) : p \in Touched(d)}

\* a pool is exported or imported, at any time: nothing holds it for a pass
Mount(p) ==
    /\ Spend("mount")
    /\ mounted' = (mounted \cup {p}) \ (mounted \cap {p})
    /\ unsure' = [t \in Thread |-> unsure[t] \cup Relying(t, p)]
    /\ UNCHANGED <<phase, diff, dbVars, lockVars, pass, scan, repair, open, awake, idle,
                   syncing, unread, owed, lapsed, vague>>

----------------------------------------------------------------------------
PassStep(t) ==
    \/ PassLock(t) \/ WriteDone(t) \/ WriteFails(t) \/ CycleEnd(t)
    \/ PassAgain(t) \/ PassEnd(t)
    \/ \E s \in Src, m \in Mode : CycleStart(t, s, m)
    \/ \E d \in Dst : GateOne(t, d) \/ GateFails(t, d) \/ GateFar(t, d) \/ WriteStart(t, d)

SchedStep == SchedTick \/ StandbySample \/ StandbyStep

CompareStep(t) ==
    \/ CompareCheck(t) \/ CompareRegister(t) \/ CompareBreak(t) \/ CompareDone(t)
    \/ \E p \in Path : CompareRead(t, p)

RepairStep == RepairInject \/ RepairTarget \/ \E t \in Manual : RepairEnd(t)

EnvStep ==
    \/ Crash
    \/ \E k \in {"sync", "compare", None}, d \in Dst \cup {None} : Cancel(k, d)
    \/ \E s \in Src : (\E ps \in SUBSET Path \ {{}} : Edit(s, ps)) \/ Dismiss(s)
    \/ \E d \in Dst : \/ \E t \in Scanner : CompareStart(t, d)
                      \/ \E t \in Manual, m \in {"manual", "full"} : Request(t, d, m)
                      \/ \E ps \in SUBSET Path \ {{}} : Tamper(d, ps)
                      \/ RepairRead(d)
    \/ \E p \in Pool : Grace(p) \/ Window(p) \/ Mount(p)

Next ==
    \/ EnvStep \/ Boot \/ Armed \/ SchedStep \/ RepairStep
    \/ \E t \in Thread : PassStep(t)
    \/ \E t \in Scanner : CompareStep(t)

Spec == Init /\ [][Next]_vars

----------------------------------------------------------------------------
(* Properties *)

\* The variables have the types of the process's state.
TypeOK ==
    /\ phase \in {"down", "arming", "up"}
    /\ diff \in [Dst -> SUBSET Path] /\ known \in [Dst -> SUBSET Path]
    /\ pend \in [Dst -> Mode \cup {"none"}]
    /\ gate \in Thread \cup {None} /\ scanGate \in Scanner \cup {None}
    /\ kind \in Kind \cup {None}
    /\ \A o \in ops : /\ o.by \in Thread \cup Scanner /\ o.scope \subseteq Dst
                      /\ o.kind = IF o.by \in Scanner THEN "compare" ELSE "sync"
    /\ \A t \in Thread : pass[t].dst \in Of(pass[t].src) \cup {None}
    /\ \A t \in Scanner : scan[t].dst \in Dst \cup {None}
    /\ notice \subseteq Src /\ open \subseteq Pool /\ mounted \subseteq Pool
    /\ awake \in [Pool -> {"unknown", "yes", "no"}] /\ idle \in [Pool -> 0..2]
    /\ owed \in [Dst -> SUBSET Path] /\ lapsed \in [Dst -> SUBSET Path]
    /\ unread \in [Src -> SUBSET Path] /\ unsure \in [Thread -> SUBSET Dst]

Writing(t, d) == pass[t].pc = "write" /\ pass[t].dst = d

\* scan_destination_now and the readiness checks keep a Compare and a pass of
\* one destination apart: they overlap only when the pass had registered
\* between the Compare's look at the registry and its own entry.
CompareApart ==
    \A t \in Thread, c \in Scanner, d \in Dst :
        Writing(t, d) /\ scan[c].pc = "read" /\ scan[c].dst = d => scan[c].raced

\* A registered operation belongs to a live thread at that work, and only the
\* holder of a gate has one: what kind_target_active sees is never stale.
RegistryIsLive ==
    \A o \in ops : \/ o.by \in Scanner /\ scan[o.by].pc = "read" /\ scanGate = o.by
                   \/ o.by = gate /\ (o.scope # {} => pass[o.by].src # None)

\* clear_restart_notice_if_covered: changes made while nobody watched stay
\* under a notice until they are read, recorded or dismissed, or a pass under
\* the kind "full" returned for that source, or a Compare that began before the
\* watcher was armed ended under a notice older than itself.
GapIsNoticed ==
    phase = "up" => \A s \in Src : unread[s] # {} => s \in notice \cup vague

\* The same without the last exception: a Compare clears the notice only when it
\* has read all that happened unwatched ("an action already underway during the
\* restart read the tree too early to vouch for the gap").
CompareVouches ==
    [][\A s \in Src, t \in Scanner :
          /\ phase = "up" /\ s \in notice \ notice'
          /\ scan[t].pc = "read" /\ scan'[t].pc = "idle"
          => unread'[s] = {}]_vars

\* queue_scan_repair: what a consumed report found and is still different is
\* in the event log of the destination or under a pending Full, unless an
\* incremental request took that Full over or a cancel dropped it.
RepairKept ==
    \A d \in Dst : owed[d] \cap diff[d] \subseteq known[d] \cup lapsed[d] \/ pend[d] = "full"

\* The same without the exception, as the escalation of queue_scan_repair to a
\* full reconcile intends ("repairing just the sample would leave the rest
\* untouched, so reconcile fully").
RepairDone ==
    \A d \in Dst : owed[d] \cap diff[d] \subseteq known[d] \/ pend[d] = "full"

\* gate_for_sync: a pass writes with every pool it touches mounted, on the side
\* of the source as on that of the destination, unless its readiness check did
\* not look at the mounts or a pool went away after it had.
WritesMounted ==
    \A t \in Thread, d \in Dst :
        Writing(t, d) => Touched(d) \subseteq mounted \/ d \in unsure[t]

\* A destination is only ready with the pools it touches mounted ("EVERY touched
\* pool (source and destination) is mount-verified").
ReadyIsMounted ==
    [][\A t \in Thread, d \in Dst :
          ~pass[t].far /\ d \in pass'[t].ready \ pass[t].ready => Touched(d) \subseteq mounted]_vars

\* And they stay mounted until its work is done.
MountedOnly ==
    \A t \in Thread, d \in Dst : Writing(t, d) => Touched(d) \subseteq mounted

\* CompareApart without the exception: a Compare and a pass of one destination
\* never overlap.
CompareAlone ==
    \A t \in Thread, c \in Scanner, d \in Dst :
        Writing(t, d) => ~(scan[c].pc = "read" /\ scan[c].dst = d)

\* StandbyManager::step parks a pool under a write only if the pass took
\* sync_gate after the scheduler had sampled it.
ParkSparesWriters ==
    [][\A p \in Pool, t \in Thread, d \in Dst :
          awake[p] # "no" /\ awake'[p] = "no" /\ Writing(t, d) /\ p \in Touched(d)
          => pass[t].late]_vars

=============================================================================
