# auto_sync: a TLA+ model of the replication core

auto_sync keeps destinations (directories, ZFS datasets, other machines) equal to
source trees. A watcher records file events in numbered *cycles* in SQLite, a
scheduler closes cycles and gives each destination a *target* cycle, and an
engine replays events (or reconciles the whole tree) until the destination has
*verified* the target. This directory models that core and what surrounds it: the
calendar of schedules and wake windows, the watchers, the pass over a tree, the upload
of a file, ZFS baselines, Compares, repairs and standby pools, and the delegation of
groups between machines. TLC checks it on small instances; TLAPS proves the safety
properties of the core, of the watchers, of the activities of one process, of the pass over a
tree, of the upload, of the ZFS baselines, of the delegation and of the schedules.

    cd tla
    tlc -workers 2 -config Scheduler.cfg MCSyncCycles     # one run
    tlapm SyncCyclesProofs.tla                            # proofs, about three minutes
    tlapm WatchersProofs.tla                              # about five minutes
    tlapm ActivitiesProofs.tla                            # about five minutes
    tlapm TreeSyncProofs.tla                              # about five minutes
    tlapm TransferProofs.tla                              # about ten minutes
    tlapm ZfsBaselineProofs.tla                           # about five minutes
    tlapm DelegationProofs.tla                            # about fifteen minutes
    tlapm ScheduleProofs.tla                              # a few seconds

`PROJECT.json` lists the runs, the source lines of every definition, the hazards,
the findings and the theorems.

## 1. Inventory

| Component | State | Operations | Interacts with |
|---|---|---|---|
| Cycle and offset state (`core/state.rs`) | SQLite: `sync_cycle`, `event_log`, `destination_offset`, issues, scan reports, baselines, notices, task log, USN cursor | open, close, settle cycles; record and prune events; set, clear, verify, reset offsets | every thread, each with its own connection |
| Scheduler thread (`bin/auto_sync.rs`, `run_scheduler`) | loaded configuration, watcher signature | reload, restart the watcher, `advance_due_destination_targets`, run the engine, standby tick | database, watcher, `SYNC_GATE` |
| Sync engine (`core/sync/mod.rs`) | listed cycles, plan, per-destination result | `sync_all_pending_inner`, `sync_cycle_for_source_inner`, `record_destination_failure`, pruning | database, `SYNC_GATE`, cancel registry, transfer |
| Manual requests, cancel, settings (`core/backend.rs`, `core/web_api.rs`) | configuration file | `sync_now`, `sync_source_now`, `sync_destination_now`, `cancel_activity`, `save_config` | database, a spawned run behind `SYNC_GATE` |
| Linux watcher (`core/watcher/fanotify.rs`) | kernel queue, pending batch, `sticky_rescan` | read, filter, batch, supervise and re-arm | `record_events_batch` |
| Windows watcher (`core/watcher/windows_usn.rs`) | journal cursor, rename halves | replay, record, store cursor | `record_event` |
| Cancellation registry (`core/cancel.rs`) | active operations and flags | begin, request, check | engine, backend |
| Compare and repair (`sync/mod.rs`, `backend.rs`) | scan report, compare registry | run a Compare, queue a repair | engine, which holds the destination back |
| Standby pools (`core/standby.rs`) | pool state per wake window | `step`, `gate_for_sync` | scheduler, engine |
| ZFS baselines (`sync/mod.rs`, `state.rs`) | snapshots, baseline rows | refresh, retain, clean up | engine |
| Transfer and block delta (`sync/mod.rs`, `sync/delta.rs`) | partial files, memory budget | chunked send and receive, resume, finish | engine, peer machine |
| Schedule arithmetic (`core/scheduler.rs`) | none | `next_boundary_after`, cadence | scheduler |
| Delegation (`backend.rs`, `machines.rs`, `peer_notify.rs`) | pushed groups | push, re-push, reverse removal | peer machine |
| Activity and armed signals (`core/signal.rs`) | two flags with condition variables | notify, wait, arm, reset | watchers, scheduler |
| User interface, HTTP layer, collector, logging, device probing | none that replication depends on | | |

What is hard here: the scheduler, the web thread, the watcher and the engine use
separate database connections and read a row in one statement and act on it in
another; the engine works from rows and a configuration it copied earlier; every
thread can be interrupted by a cancel, an error or a crash; events are pruned while
slower destinations still need them; the kernel may drop events. What makes the
components correct: no change is ever lost to a destination, one cycle is open,
pending work stays reachable and is eventually done, a green dot tells the truth,
and cancelling or editing a destination does what the user was told.

## 2. Modules

| Module | Models |
|---|---|
| `SyncCycles` | cycles, events, targets and offsets of one local source group, with the threads that change them |
| `Watchers` | from a change of a file to an event row: seven kinds of watcher, their supervision and restart, the signals to the scheduler |
| `TreeSync` | one pass that makes a destination tree equal to the source, in its five ways, and its worker pool |
| `Transfer` | the upload of one path to another machine: sender, requests in flight, handlers, temporary file |
| `AtomicReplace` | what an upload promises; `Transfer` implements it |
| `ZfsBaseline` | snapshots as read views and diff bases, baselines of destinations, and what diffs against them can see |
| `Activities` | passes, Compares, repairs, cancels, restart notices and standby pools of one process |
| `Delegation` | source groups pushed between machines, and their removal |
| `Schedule` | when a timed destination is due and a standby pool open: the calendar, and the scheduler that reads the clock and closes cycles |
| `MC...` | the small instance of each for TLC: places, budgets of environment steps, symmetry |
| `SyncCyclesProofs` | type correctness, cycle order, no lost change, pending work stays listed, edits lose nothing, green realtime dots are true |
| `WatchersProofs` | type correctness, no forgotten change, no recorded row the scheduler sleeps over |
| `ActivitiesProofs` | type correctness and every other property of `Activities` |
| `TreeSyncProofs` | type correctness, a verified pass left a correct tree, no drift goes unannounced |
| `TransferProofs` | type correctness, no file passes for a version it is not, the refinement of `AtomicReplace` |
| `ZfsBaselineProofs` | type correctness, the snapshots that rows name are there, green is current, both diffs name what differs |
| `DelegationProofs` | type correctness, nothing lost that nobody deleted, nothing deleted that comes back, offsets of the configured path |
| `ScheduleProofs` | type correctness, no boundary starts two runs |

How they fit together. The rows `Watchers` records are the events `SyncCycles` puts
into cycles; the "paths brought up to date" by `EngCopy` of `SyncCycles` are what a
pass of `TreeSync` vouches for, its deferred and failed paths what `EngFinish` writes;
a `Publish` of `TreeSync` towards another machine is a pass of `Transfer`; how a pass
chooses between events, diffs and a walk, and what a later diff may trust, is
`ZfsBaseline`; which passes may run at once, and on which pools, is `Activities`;
what groups a machine has to run at all is `Delegation`; `Schedule` has the clock that
`SyncCycles` and `Activities` leave to the environment (a boundary may pass, a window may
open, at any time there). Each module replaces its
neighbours by what they promise, so that its own interleavings stay checkable.

### State and actions of `SyncCycles`

*Database.* `last`, `cstat`, `needs`, `manual` are `sync_cycle` (newest id,
`status`, `needs_full_rescan`, `manual_full_rescan`), `log` is `event_log`,
`target`, `verified`, `colour` are the columns of `destination_offset`. Ids start at
1 and 0 is NULL, which compares below every id as `Option::None` does.

*Contents.* `dirty[d]` is the set of paths whose copy at `d` is stale. A change
adds a path everywhere; a copy takes paths away. `late` are the paths that changed
after a pass read the source: the pass may or may not pick the change up.

*Threads.* Each action is the group of statements between two points where another
thread can run:

| Thread | Actions |
|---|---|
| Watcher | `Overflow`, `RecordBatch` (fanotify: one transaction), `RecordRead` and `RecordInsert` (USN: `record_event` in two statements) |
| Scheduler | `SchedTick`, `SchedGap` (watcher restart and its two-statement gap event), `SchedAdvance`, `SchedRead`, `SchedClose`, `SchedTarget`, `SchedGate` |
| Web | `WebRequest`, `WebClose`, `WebTarget`, `WebFlag`, and `ManualGate` for the run it spawned |
| Engine | `EngList`, `EngSkip`, `EngSourceGone`, `EngBegin`, `EngCopy`, `EngFinish`, `EngSettle`, `EngEnd`, and the early exits `EngCancelled`, `EngPrefetchCancelled`, `EngPrefetchFailed` |
| User, kernel | `Change`, `CancelRequest`, `TogglePaused`, `ToggleEnabled`, `MovePath`, `ResetOffset`, `Crash` |

### Abstractions

* The close of a cycle and `ensure_open_cycle` are one step: the open cycle is
  always the newest, and the second close of the same row is a no-op.
* `EngFinish` writes the deferred events and the offset in one step. The events go
  to the open cycle, which is newer than the one verified, and no other pass can
  run while the gate is held.
* `planning` and `syncing` are one status: the engine lists and resumes both.
* The ZFS-diff plan is a full pass; a sleeping standby pool, a running Compare
  (`Gated`) and an offline endpoint (`Off`) may befall any destination, each
  costing a fault.
* A timed destination's boundary may pass at any tick.
* One manual request is handled at a time and one spawned run waits for the gate.
* Configurations a thread loaded earlier are kept as records; `old` names the
  destinations whose path has been changed since.
* A restart on Linux drops the kernel queue; the paths concerned go to `missed`,
  which stands for the restart notice the user is shown.
* Not modelled in this module: `RepairScan`, the Changed-Since flag (it only
  matters to standby), a failed persist of the watcher and its supervision.

### State and actions of `Watchers`

`host` is the kind of watcher: fanotify in FID mode with a mark of the filesystem (`fs`) or
of each directory (`dirs`), each also without `open_by_handle_at`, when the paths of handles
come from a map built beforehand (`map`, `dirmap`), fanotify in fd-path mode (`path`), the USN journal
(`usn`), and directory changes (`dir`). `made`, `stale` are the source and what changed since a pass last read it; `log`,
`cursor`, `notice` are event rows, the USN cursor and the restart notice; `queue`,
`over`, `batch`, `sticky` belong to fanotify, `journal`, `usn`, `known`, `reported` to
Windows; `wake`, `armed`, `stop` are the signals. `known` says whether the directory has a mark and its
handle a path: `Tracked` and `Kept` what reading an event makes of that, `Unresolved` the events that
are dropped because their handle has no path or an old one. The control point `pc` of the watcher
thread moves through `FanSetup`, `FanMark`, `FanRead`, `FanPersist`, `FanFails`,
`FanGap`, `FanRestart` (or `UsnOpen`, `UsnCheck`, `UsnRead`, `UsnPersist`,
`UsnSetCursor`, ... and `DirOpen`, `DirWait`, `DirRead`, `DirPersist`, `DirRetry`), the
scheduler through `Reconfigure`, `Joined`, `Rearmed`, `RearmGap`, `PassStart`,
`PassDone`, `EnterWait`, `Awake`. The kernel drops events beyond `Cap`, writes to the
database fail (events, gaps and the restart notice, `RaiseNotice`), marks and sessions die, the journal is trimmed or recreated, the
process crashes.

### State and actions of `TreeSync`

`src`, `dst`, `trash` are trees, `dirty` and `fresh` the event paths of the cycle at hand and of the
open one; a file's `ver` is its content and exact mtime, its
`look` what a comparison within `modify_window_secs` sees. `run` is the pass: the
snapshots of both sides as they are taken entry by entry (`WalkDir`, `WalkEntry`,
`ScanDst`), its phase (`Phases` gives the order for each of the five ways), what is
left to do, what failed or changed. `RemoveOne`, `MakeDir`, `MakeDirOver`, `FixModes`,
`StampDirs` act path by path, `Claim`, `AcquireMemory`, `Publish`, `SourceChanging`,
`SourceGone`, `SendFails` are the worker pool, `Verify`, `IntoResult`, `Settle`, `Abort`
end it. An `Edit` of the source may come between any two of them.

### State and actions of `Transfer`

`src` is the version at the source, `disk`, `tmp`, `fin` the receiver's files, the
temporary and the final path, `snd` the sender, `req` the requests in flight with the
state of their handlers. Every send and every handler step is an action of its own,
and a handler runs on after its sender gave up (`GiveUp`), its request was repeated
(`Resend`), its connection dropped (`Drop`) or its answer lost (`LoseReply`); an I/O
error ends it half-way and leaves what it made at the temporary path (`HandlerFails`).
`Crash` loses what was not synced, and the temporary path too unless the next process
gets the number of the last one (`tmp_path`). Hashes are the content itself.
`AtomicReplace` knows only the final path and what the last pass said of it.

### State and actions of `ZfsBaseline`

A dataset is its live tree and the snapshots taken of it; objects are named by the
place and time of their creation, so that renames, replacements and rewrites look in
`DiffPaths` as `zfs diff` prints them. `target`, `verified`, `srcBase`, `dstBase` are the row of
a destination, `events`, `loss`, `full` the rows of the cycles, `gen` the generation of the
state database. `Begin` prepares the read view, `SyncOne` applies
one of the `Ways` of a destination (events, source diff, both diffs, walk), `SetSrcBase`,
`SnapDst`, `SetDstBase` record baselines, `Cleanup` destroys snapshots no row names.
`Edit`, `Drift`, `Crash`, `Reset` and failing commands come in between; the state
database may be lost while the snapshots stay.

### State and actions of `Activities`

`diff` is what really differs at a destination, `known` the part recorded events name,
`pend` the flags of its target; `ops`, `kind`, `gate`, `scanGate` are the cancel
registry, the process-wide sync kind and the two locks; `report`, `notice` rows;
`phase` is how far a start has come, and a Compare remembers whether it began armed;
`unread`, `owed`, `lapsed`, `vague`, `unsure` are history: what changed unwatched and nobody read,
what a repair took over, which of it lost its Full to another request or a cancel, whose notice was
cleared unread or could not be written, of which destinations a pass cannot know that they are mounted;
`awake`, `idle`, `mounted`, `open` the pools. Threads are the scheduler, manual
requests and Compares (`CompareCheck` and `CompareRegister` are two steps, as in the
code); each pass goes through `PassLock`, `CycleStart`, `GateOne`, `GateFails` or `GateFar`,
`WriteStart`, `WriteDone` or `WriteFails`, `CycleEnd`. `GateOne` is the check of the local engine, `GateFails` the same when
`gate_for_sync` returns an error and the engine proceeds; `GateFar`, of the
transfer engine, only looks for a Compare. `Mount` takes a pool away or brings it back at any time.

### State and actions of `Delegation`

`conf` is each machine's configuration, `near` the machines it can reach, `id` its discovery id, `at` the path the verified offset of a group
is about. A save is `Form`, `Compare`, `Ask` (for managed groups), `Write`, `Reset`,
`Push` to one machine after the other; the repush loop is `LoopWakes`, `LoopRound`,
`LoopEnds`; `Apply` and `Answered` are the handlers. Calls time out and are executed
late (`LateArrives`), machines are cut off, crash, or change their discovery id.
`Told` and `NotTold` are the two ends of one push, `owed` who is still to get the newest
list. `Prune` is the run of the engine that drops the offsets of groups no longer in the
file; a group that an outdated list brings back before that run has the offset of its old
path (ghost `moved`).

### State and actions of `Schedule`

Instants count units of UTC, `DayLen` to a day and `WeekLen` days to a week (7 in the
code). `zone`, `plan`, `wake` are the configuration: a time zone with one change, the
schedule and the wake window of each destination; `now` is the clock, `starts` the
`starts_at` of the open cycle, `pend` the destinations with a pending target. `Resolve` is
the instant of a local time: none if the clock skips it, the earlier of two.
`NextBoundaryAfter`, `CycleIsDue`, `WithinWakeWindow`, `NextWakeStartAfter` are the
functions of those names, searching the same dates. `Judge` and `Close` are
`advance_due_destination_targets`, which reads the clock and the cycle first and closes
whatever cycle is open then; `Request` closes it for others; `Serve` passes the standby gate;
between any two the clock goes on (`Clock`). `SlotsOn` is the reference: the local times that exist, on the
weekday, in one week of each `every_weeks` counted from the anchor. `owed`, `swallowed`, `hit`
are history.

## 3. Properties and runs

| Property | Says |
|---|---|
| *SyncCycles* | |
| `CycleInv` | the newest cycle is the only open one; whatever is closed, targeted, listed or verified is older |
| `NoLostChange` | a stale path at a destination that verified something is still announced beyond its verified offset |
| `SurvivesEdit` | the same for destinations that were switched off and on, or moved |
| `PassInv` | what a running pass neither plans nor has copied is announced beyond its cycle |
| `PendingIsListed` | the cycle a destination still has to verify is one the engine lists |
| `PendingResolves` | every pending target is eventually verified or withdrawn, unless its destination is paused |
| `GreenRealtimeIsApplied` | a green realtime destination has applied all persisted events |
| `RealtimeConverges` | a stale path of a realtime destination is eventually brought up to date |
| *Watchers* | |
| `NothingForgotten` | a change no pass has read is in a kernel queue, a batch, the journal ahead of the cursor or a row, or a rescan marker is recorded or due, or the user has a notice (but for what no mark or no handle stands for and for failed writes, `unheard`, and for `dropped`) |
| `WakePending` | the scheduler does not sleep through a recorded row |
| `Reconciles` | what a change left stale is eventually read by a pass, unless it fell into a downtime, was not heard of, or the watcher is blocked |
| *TreeSync* | |
| `Tracked` | once a destination has been reconciled, whatever differs there lies at or below a path that an event of an unverified cycle names |
| `PassCorrect` | a pass with result ok made every path it vouches for equal (all of them, or those below its event paths; directory times included), unless a user touched it since the pass began |
| `MemoryBounded` | the permits the workers hold stay within the budget, or one worker alone holds all of it |
| *Transfer* | |
| `NoSilentCorruption` | a file that a comparison by size and time takes for a version of the source holds that version, never that size and mtime with other content |
| `FailsOnlyByFault` | an upload fails only if the connection or the receiver failed during it, or the source changed under it |
| `ReplacesAtomically` | what a reader sees goes from one whole version to another, and the sender says ok only of the version that is there (refinement of `AtomicReplace`) |
| *ZfsBaseline* | |
| `DiffComplete` | diffs against the stored baselines list whatever differs, except what the refresh check cannot see (`blind`) and, under a retained baseline, what is again as it was there (`Restored`; part of it is what `Retain.cfg` is about) |
| `GreenIsCurrent` | a green destination has what the source had when its cycle was closed or later, but for drift, later edits and paths written past the base of a diff (`ahead`) |
| `BaseKept` | the snapshots the rows name exist and were taken under this state database |
| *Activities* | |
| `CompareApart` | a Compare and a pass do not work on one destination (but for `raced`) |
| `RegistryIsLive` | a registered operation belongs to a live thread that is at that work, a pass also to the holder of the gate |
| `GapIsNoticed` | changes of a downtime that nobody has read stay announced by the notice (but for `vague`) |
| `RepairKept` | what a consumed report found and still differs is in the log or under a pending Full, unless an incremental request took that Full over or a cancel dropped it (`lapsed`) |
| `WritesMounted` | a pass writes with every pool it touches mounted, those of the source included, unless its check did not look at the mounts or a pool was exported since (`unsure`) |
| `ParkSparesWriters` | no pool is parked under a pass that held `sync_gate` when the scheduler sampled it (but for `late`) |
| *Delegation* | |
| `Agreement` | with nothing in flight and no lossy window hit, a home holds exactly what its owners delegate to it |
| `NotResurrected` | a group deleted on either side does not come back |
| `KeptUnlessDeleted` | a group nobody set out to delete stays in its owner's file (but for `stale`) |
| `OffsetIsOfPath` | a verified offset is about the path in the file |
| *Schedule* | |
| `SlotKept` | a boundary that passes while a destination has nothing pending makes it due at the next tick, however late that is, unless the cycle was closed first, by another destination's request or for accumulated events, or the next local time is skipped |
| `OncePerSlot` | the boundary that makes a destination due is later than the one that did before |
| `WindowExact` | the gate is open exactly in the windows (or after a start that the clock skipped), and "in standby until" names the next time it opens |

Each module also has one type invariant, `TypeOK`, checked by a run of that module (that
of `Schedule`, like `NoLostChange` with manual requests or edits, is proved instead).

| Run | Instance | Distinct states |
|---|---|---|
| `scheduler` | 1 realtime destination, 2 paths, 4 cycles; 2 changes, an overflow, a fault, a cancel, a crash | 1.5 million |
| `users` | a realtime and a timed destination, 1 path, 4 cycles; a manual request with 2 changes or with a fault, or 2 enabling edits with 2 changes | 1.2 million |
| `service` | fair, 1 realtime destination, 5 cycles; 2 changes, an overflow | 3 500 |
| `usn_restart` | fair, USN host, 1 path, 7 cycles; a change, a fault, a crash, a move, a pause and a resume | 0.3 million |
| `transfer` | 4 versions (two of one size that share a block, a shorter one, a link), 5 ways to send, 2 passes, 2 edits, a request left running, a fault | 1.1 million |
| `tree` | 4 paths of which one is excluded, 2 workers, a file above the memory budget; a remote and a local destination, each with something else in it and an edit, or with an edit and a failure; two edits under remote and local event passes and remote full ones | 1.6 million |
| `zfs` | 2 directories that can be renamed into each other with a file each, a local and a remote destination, 4 cycles; six boxes of edits, drift, lost events, failures, a lost database | 0.8 million |
| `activities` | 2 sources chained over one pool, 2 paths, a local and a remote destination, 1 manual and 2 Compare threads; thirteen boxes of edits, changes by others at a destination, requests, Compares, repairs, cancels, faults, crashes, time and mounts | 0.8 million |
| `watchers` | fair, all seven kinds of watcher, a directory and a file in it, a kernel queue of one event; seven boxes of edits, failed writes, deaths, configuration changes, late arming, crashes, a jumping journal | 0.6 million |
| `delegation` | 2 machines that delegate to each other, 3 groups; three boxes of edits, cuts, late calls, a crash, a changed id | 0.5 million |
| `schedule` | days of 3 units, weeks of 2 days, 12 units; 3 zones (no change, an hour skipped, an hour twice), 4 pairs of schedules, 2 wake windows | 1.0 million |

*Bounds.* `MaxCycle` bounds cycle ids, `Cap` the queue, `Slot` the requests in flight,
`Tries` the repush loop, `Horizon` the clock, and `Bound` (or `Bounds`) the number of steps of each kind the environment
may take; no action of a thread is bounded. A `Bound` that is a set of boxes starts one
exploration per box: each combination of disturbances that interact is in one. Two
changes let one event be in a cycle being verified while another waits; two destinations
let one be ahead of the other when events are pruned or snapshots cleaned up; three or
four cycles are what a close, a retry and a racing close need; two workers and a file
above the budget are what the permits need; two passes let a handler of the first meet
the second; two weeks of a two-week cadence hold each case of anchor and clock change. `Inode` is only
a pool: `Unused` makes a file no path names and no handler holds, and seven are enough for
two requests. Runs whose environment may use up its budget, or whose cycles may run out,
do not check deadlock. In `service` and `usn_restart` the bound is above what the budget
can use up, deadlock is checked, and liveness is not cut off. In `watchers` no counter
limits a thread either: the system comes to rest when the environment does.

*Fairness* (`FairSpec`) is weak and only of threads. In `SyncCycles`: the watcher drains
what the kernel holds, the scheduler loop wakes up at the latest after its 5 s heartbeat
(`signal.rs`, `wait_for_activity`), a spawned run waits for `SYNC_GATE`, and a pass that
holds the gate runs to its end. In `Watchers`: the watcher thread and the scheduler run,
and a pass ends. Nothing is assumed of users or faults. A pass or a session that fails
does so a bounded number of times.

*Refinement.* `ReplacesAtomically` says that `Transfer` implements `AtomicReplace`. The
map takes `fin` as a reader that compares size and mtime sees it (`Seen`): a version of the
source or none. Every step of sender, handlers and faults is then a step of a transfer that
replaces one whole version by another, or a stutter.

*Mutants.* For each property of a passing run, `PROJECT.json` names a definition and
a plausible defect of it (an operator marked "Mutant" before it in the module) for
which TLC finds the property violated.

## 4. Findings and known disagreements

`trash_nested` is the run with an expected violation. The mirror removes the extra paths
of a destination deepest first. `move_to_trash` of a directory finds its own name in the
trash already, made by the files moved there before, and removes that before it renames
the directory. What a cycle deletes below a directory is thus gone, while README and the
comment before `move_to_trash` promise it a place in the trash.

The other disagreements met while modelling each have a configuration that reproduces
them (`tlc -config X.cfg <module>`, a few seconds unless noted); TLC stops at the
counterexample. For the last four, the configuration of a run is used with the property named in
place of its own.

| Configuration | Module, property | What happens |
|---|---|---|
| `RequestSkipped.cfg` | `MCSyncCycles`, `PendingIsListed` | an engine run between the close and the target of a manual request marks the cycle verified; the destination stays pending and is never served |
| `GreenAfterFault.cfg` | `MCSyncCycles`, `GreenRealtimeIsApplied` | events closed without a target while a realtime destination was failing stay unapplied after it is green again (README.md:410) |
| `TimedTakesEvents.cfg` | `MCSyncCycles`, `GreenRealtimeIsApplied` | a timed destination is due and the open cycle empty; an event recorded between that look at the cycle (`state.rs:570`) and its close goes into a closed cycle which no realtime destination targets, and which no later tick looks at: the realtime destination stays green with the event unapplied until another one comes (README.md:410) |
| `UsnInsertRace.cfg` | `MCSyncCycles`, `NoLostChange` | `record_event` inserts into a cycle closed and verified after it was read; the change is behind the offset |
| `DisabledPending.cfg` | `MCSyncCycles`, `PendingIsListed` | the engine settles the cycle a disabled destination still targets; re-enabled, it is pending for ever |
| `MoveDuringPass.cfg` | `MCSyncCycles`, `SurvivesEdit` | a pass to the old path marks the new path verified after the reset |
| `FullAsIncremental.cfg` | `MCSyncCycles`, `ManualFullIsFull` | a Full picked up before its flag is written is done as an incremental pass |
| `CancelKeepsTarget.cfg` | `MCSyncCycles`, `CancelWithdrawsTarget` | a cancel noticed while both trees are read leaves the target set |
| `ParentReplaced.cfg` | `MCTreeSync`, `Converges` (30 s) | the parent of an event path became a file at the source: `collect_snapshot_path` gets ENOTDIR, and so does every retry |
| `Retain.cfg` | `MCZfsBaseline`, `RetainIsComplete` | the destination baseline is retained so that later diffs still show what happened since (`mod.rs:6562`); the removal of what the destination only got after it shows in no diff |
| `DiffBase.cfg` | `MCZfsBaseline`, `GreenMirrors` | paths that event passes wrote past the base of a later source diff may be missing from it (a file made and removed in between); the destination stays green and differs without any drift |
| `Unmounted.cfg` | `MCActivities`, `ReadyIsMounted` | a manual pass outside the wake window: `gate_for_sync` returns `Asleep` before it looks at mounts, the manual pass overrides `Asleep`, and mounts are never verified, though the comment before `gate_for_sync` says that every touched pool is (`standby.rs:83`, README.md:260) |
| `CompareOverlaps.cfg` | `MCActivities`, `CompareAlone` | a Compare looks for a sync of its destination and enters the registry in a later statement; a pass that registers and checks its readiness in between overlaps with it, while README.md:338 says that the two never do |
| `UsnGap.cfg` | `MCWatchers`, `JournalLossReconciled` | a gap found by a read inside a session is recorded without `rescan_required`; the changes are lost |
| `SlotSwallowed.cfg` | `MCSchedule`, `EachOnItsOwn` | a request for another destination closes the cycle after a boundary has passed and before the tick that would see it (a long pass is enough); the destination waits for the next boundary (README.md:373) |
| `GapHour.cfg` | `MCSchedule`, `OnlyOnSchedule` | the local time of a schedule is skipped by a clock change: `next_boundary_after` fails, and the destination is due 24 h after the last close instead (`scheduler.rs:12`) |
| `GapWake.cfg` | `MCSchedule`, `OnlyInWindow` | the start of a wake window is skipped by a clock change: the gate fails, and a pass may write until the next window starts (README.md:241) |
| `NoticeLost.cfg` | `MCActivities`, `CompareVouches` | a Compare that began before the watcher was armed, under a notice older than itself, clears the notice although it read the tree too early for what changed then (`state.rs:1403`, `state.rs:1413`) |
| `LinkThrough.cfg` | `MCTransfer`, `ReplacesAtomically` | a failed attempt leaves a link at the temporary path, and the path becomes a file in the same cycle: `fs::write` (`mod.rs:1844`) follows the link, hash and mtime are those of its target, and the link is renamed to the final path; ok is reported, readers see a link |
| `TwoGivenUp.cfg` | `MCTransfer`, `NoSilentCorruption` (20 s) | two streams were given up and still run when the third attempt has checked the hash: they write into its temporary file before the rename, and a file with a hole gets the size and mtime of the version |
| `DelegatedMove.cfg` | `MCDelegation`, `MovedIsReset` | a destination path changed by the controller reaches the home without `reset_changed_destination_offsets`; it stays verified without having been written |
| `Activities.cfg` with `MountedOnly` as its only property | `MCActivities` | a pool is exported between the readiness check (`mod.rs:3091`) and the write (`mod.rs:3212`, `3300`), or the gate fails and the engine proceeds (`mod.rs:3129`): the pass writes to a bare mount point |
| `Activities.cfg` with `RepairDone` as its only property | `MCActivities` | an incremental request takes the destination over from the queued Full of a repair, or a cancel drops its target: the report is consumed and what it found is announced nowhere (comment in `queue_scan_repair`) |
| `Watchers.cfg` with `DowntimeNoticed` as its only property | `MCWatchers` | the write of the restart notice fails and is only logged (`auto_sync.rs:678`): nothing says that something may have changed while nothing ran |
| `Watchers.cfg` with `NoBlindSpot` as its only property | `MCWatchers` | without `open_by_handle_at`, a directory whose handle is not in the map stays unheard without a reconcile (`fanotify.rs:816`), where the comment for a failed mark asks for one (`fanotify.rs:711`) |

The passing runs leave out what these need: `scheduler` and `usn_restart` have no manual
requests and no enabling edits, `service` no faults and no timed destination, `transfer` no file after a link and one
request left running; in `Watchers`, `ZfsBaseline`,
`Activities`, `Delegation` and `Schedule` a ghost variable (in `Schedule` for clock changes, a condition) records the case, and the invariant excuses
that case and no other. In `Delegation` each excuse has been dropped in turn: TLC then finds
the invariant violated.

Two places where README and code differ need no counterexample. A cancelled manual
Full keeps its flags, because `clear_cycle_needs_rescan` touches only rows without
the manual one (`FinishCancelled`), while README and the comment in
`record_destination_failure` say that they are dropped. A pass that skipped changing
files moves the offset and defers them as events of the open cycle
(`FinishVerified`), while README's manifest paragraph says the offset stays; nothing
is lost by it (`NoLostChange`).

### Limits met on the way

*SyncCycles.* With a crash in the budget, `SurvivesEdit` fails: the watcher signature is
in memory, so a destination that is re-enabled just before a restart gets no gap event
for the time it was off. With both a manual request and an enabling edit `NoLostChange`
fails: the request closes and verifies the cycle that the gap event was about to be
inserted into; the rescan flag of the newer cycle is still set, but nothing makes a
realtime destination due until another event arrives.

*Transfer.* The run has `rare = FALSE`. With `TRUE`, `NoSilentCorruption` fails in two
ways: a power loss after a request was given up and sent again, and a stream of an
earlier pass (same cycle, same temporary path) that still writes into the file of a newer
pass after its hash was checked. The stamp always succeeds in the model; where
`set_file_mtime` fails the code logs it and answers ok, and the file compares as changed
until a later pass sends it again.

*ZfsBaseline.* The refresh check of a walk does not see renamed, made or removed
directories or what is below a renamed one, what the pass touched itself, the removal of
what neither baseline held, or anything when there is no previous baseline, no working diff
or a mixed cycle (ghost `blind`). Nor does it see drift older than the pass that is now as
in the previous baseline: source and destination both rename `d` to `e`, a diff pass
finds them equal and moves the source's base while the baseline is retained, and when the
destination is renamed back neither diff has a row. Paths equal to the retained
baseline are therefore excused (`Restored`), and a refresh that takes such paths over notes
them in `blind`; it takes one edit and two or three changes of the destination, more than a
box of the run holds, and showed when the proof needed it. `drifted` is cleared when the base is written, not when the
offset is: a crash between the two leaves drift that the next diff, from the old base, need not name.
After any event or source-diff pass since the previous baseline a walk's
refresh is always refused. A crash between the offset and the base leaves the base behind
(ghost `ahead`). That a snapshot is older than the database is decided by its generation;
the 300 s of slack the code allows are not modelled.

*Activities.* Compare's check and registration are two steps, so a pass can start between
them (ghost `raced`). A queued manual Full, also that of a repair, is taken over by a later incremental request, and a
cancel drops it (ghost `lapsed`, which takes in what only that Full would have copied).
A notice is cleared unread when the Full that covers it failed at its destination or was
cancelled, because the cycle still returns `Ok`, or when the kind "full" in force belongs
to another source's request, and it is missing when its write failed, which `raise_restart_notices`
only logs (ghost `vague`). Mounts are checked once, at `mod.rs:3091`, and written to from `mod.rs:3212`
or `3300` on; nothing holds a pool in between, so `Mount` may come at any time. A check that was overridden by a
manual request, one that failed (`mod.rs:3129`, for instance in the hour of `GapWake.cfg`), and that of the
transfer engine do not look at mounts. The ghost `unsure` takes in these cases and an export
after the check; without either, `WritesMounted` says that both ends are mounted. A pool is parked under a manual pass that
took the gate after the sample (`late`). A Compare counts neither as busy nor is it gated.
A cancel between two operations hits nothing. The transfer engine never asks the gate.

*Watchers.* The gap a supervisor records is written before the backoff and the re-arm, so
a pass may consume it first; a `record_event` whose error is dropped records nothing;
fd-path mode sees no removals; a directory that cannot be marked is reconciled once and
then blind; an overflow in per-directory mode may eat the event of a new directory; the
armed handshake gives up after 15 minutes; Windows without access to the journal does not
cover downtime although `watcher_covers_downtime` says so; `sticky_rescan` waits for the
next non-empty batch; the restart notice is written once, and a failure is only logged
(`auto_sync.rs:678`). Without `open_by_handle_at` the handles of the tree are mapped when the watcher
starts: an event whose handle is not in the map is dropped with a debug line (`fanotify.rs:816`, `724`),
the map is rebuilt after an overflow, but at most every ten minutes (`fanotify.rs:553`), and of a directory
moved in only the top is added to it (`fanotify.rs:864`). With either kind of map a cached handle
stands for the old path of a directory whose rename was lost (ghost `unheard` and the disjuncts of
`NothingForgotten` name them). Not modelled: an event that cannot be parsed, or the rest of a buffer with a
foreign metadata version (`fanotify.rs:526`, `586`), which a kernel of the supported range does not
produce, and a call of `open_by_handle_at` that fails for a moment.
`stop_watcher` joins a directory session that is blocked in `ReadDirectoryChangesW`: the
scheduler waits until something changes there.

*Delegation.* The windows are the values of the ghost `excuse`: a page or a removal that
was read before the file changed (`stale`), a push overtaken by an older one or executed
after its caller gave up (`crossed`, `outdated`), a failed push that falls between the
last successful round of the loop and its end (`dropped`), the last group of a machine
deleted while that machine was away (`forgotten`), 30 failed rounds (`gaveup`), a crash
(the loop is in memory only), and a changed discovery id (`renamed`).

## 5. Proofs

`SyncCyclesProofs` holds for every set of destinations and paths and every bound,
assuming only `CycleConstants`. `ScheduleProofs` holds for every calendar, zone and
configuration, assuming only `ScheduleConstants`.

* `TypeCorrect`: `Spec => []TypeOK`. One lemma per part of the state (database,
  environment, threads, engine, flags), one step per action that touches it.
* `CyclesInOrder`: `Spec => []CycleInv`. `CloseOrder` shows that a close of a cycle
  read earlier leaves it older than the open one whether or not another thread
  closed it first.
* `NoChangeLost`: `Spec => []NoLostChange` on a fanotify host (`Fanotify`), without
  the gap race above (`NoGapRace`: no box of `Bound` allows both a manual request and
  an enabling edit). On a USN host it is false (`UsnInsertRace.cfg`).

`NoLostChange` is not inductive: it says nothing of the moment between the planning
of a pass and the write of its offset. The inductive invariant `LogInv` adds
`PassInv` (what a pass does not plan, skips or reads too early is announced beyond
its cycle), `CycleInv` (so that deferred events land beyond the cycle verified),
`ConfigInv` (an untouched destination is enabled, at its present path, in every
configuration a thread still holds, so pruning counts it), `GapInv` (a gap event
lands in the open cycle) and `rcyc = 0` (batches are one transaction). The argument
follows an announcement: `BeyondKept` shows that only pruning takes one away,
`PlanCovers` that a plan takes up everything announced up to its cycle, `CopyCovers`
that a copy leaves stale only what is deferred or announced later, `OffsetMoves`
which steps move an offset; `LateStep`, `CoverStep` and `SafeStep` combine them.

Four more theorems rest on `LogInv` or its parts.

* `PassesCover`: `Spec => []PassInv` under the same two hypotheses.
* `PendingListed`: `Spec => []PendingIsListed` without manual requests and enabling edits
  (`Never`); with either it is false (`RequestSkipped.cfg`, `DisabledPending.cfg`). `DriveInv`
  adds `Alone` (only the scheduler sets targets), and that a cycle the engine has read
  and not yet finished is not settled under a destination that still targets it.
* `EditSurvived`: `Spec => []SurvivesEdit` on a fanotify host, without moves
  (`MoveDuringPass.cfg`), without the gap race, and without restarts where there are enabling
  edits (`NoRestartedSwitch`, see the limits). `EditInv` follows an edit through the steps of
  the scheduler: until the signature is renewed the configuration file differs from it, then
  the gap event is in the log before the signature is, and no thread that read the older
  configuration can verify the destination past it.

* `GreenMeansApplied`: `Spec => []GreenRealtimeIsApplied` on a fanotify host whose
  destinations are all realtime (`Realtime = Dst`) and where nothing but changes and
  overflows happens (`Undisturbed`), for any number of both, of destinations and of paths:
  what `service` checks with one destination and two changes. None of the hypotheses can be
  dropped: `TimedTakesEvents.cfg` has a timed destination, `GreenAfterFault.cfg` a fault, and
  TLC also finds the property violated on a USN host and when two steps of any other kind
  (request, cancel, crash, pause, switch, move) are allowed beside two changes.
  `CalmInv` adds to `LogInv` and `DriveInv` that all destinations are due, targeted and
  verified together (`Together`), that a run takes up everyone who is pending (`Driven`), and
  that a row of the log is in the open cycle, the one just closed, or at or below everybody's
  target (`Served`). What `NoLostChange` announces beyond the offset of a green destination
  can then only be in the open cycle or not yet persisted.

`WatchersProofs` assumes only `WatchersAssumption`: any host, mode, set of paths, batch and
budget.

* `TypeCorrect`: `Spec => []TypeOK`. The type of the journal's cursor needs that it is
  never beyond the journal's end, hence `TypeInv`.
* `RowsWake`: `Spec => []WakePending`. The property is about the moment the scheduler sleeps;
  `Told` states it from the look at the rows on, `FreshLogged` and `FullBatch` tie the flag
  to rows that exist.
* `ChangesKept`: `Spec => []NothingForgotten`, and `JournalKeepsChanges`: on a USN host nothing is
  `unheard` or under a notice; a change is with a row, a pass or the journal, or `dropped`. `WatchInv` says, for each kind of watcher, where
  a change can be. For a journal (`UsnInv`): `BoundsInv` keeps the positions of session and
  stored cursor within the journal or behind it; `SessionInv` says what the session holds or
  will still read, `CursorInv` what the next session would read from the stored cursor;
  `IndexInv` and `SkippedInv` are about the directory index, where a record of an
  unknown directory is skipped until the rebuild. For the others `BufferInv` says what a
  dead or idle watcher cannot hold, `MarkInv` that a new directory that has no mark yet has its event in the queue, and
  `HeardInv` is the property itself. `ChangeHeeded` shows that a change lands in one of these places,
  `HeldStep` and `FoundKept` that a step of the watcher carries it on towards a row, `LoggedStays`
  that a row stays, `ReadCovers`, `PersistCovers` and `CursorStep` are the steps of a session.

`ActivitiesProofs` assumes only `ActivitiesAssumption` and proves all properties of the run
`activities` from one inductive invariant, `IInv` (`Invariance`):

* `TypeInv` has the types, and which lock a thread holds at each program counter
  (`PassGate`, `ScanGate`, `Locals`). With `OpsLive` it gives `TypeCorrect` and `RegistryLive`.
* `Registered` (who reads or works is in the cancel registry) and `Apart` give
  `ComparesApart`: a pass looks at the registry before it writes, a Compare before it
  enters, and what comes between those two of the Compare is the ghost `raced`.
* `ArmedReads` (a Compare that began after the watcher was armed has read, or has still
  to read, all that happened unwatched) gives `GapsNoticed`.
* `Claimed` (a flag a pass took over is still the one it works under), `FullCovers` and `Kept` give
  `RepairsKept`: a repair moves from the report to an event row or the `pend` flags, and stays
  there until a pass has applied it; an incremental request or a cancel that takes a Full away moves what only
  the Full would have copied to `lapsed`, and nothing else does.
* `Mounted` gives `WritesAreMounted`: a destination that is ready or being written has its pools mounted, or
  is `unsure`; `UnsureStep` shows that an export reaches every pass that relies on the pool.
  `Seen` gives `ParkingSparesWriters`: between the sample and the step of the standby tick the
  gate was taken before the sample, or the pass is `late`.

`TreeSyncProofs` holds for every tree of paths, however deep, every set of excludes that has what
lies below its members, any number of workers, weights, budget and failures, assuming only
`TreeAssumption` and `RootedAssumption` (a path is a finite list of names). The latter stands
for induction over paths: `AboveIs` to `CoversDown` get from it that a path is not above itself,
that every path of a subtree lies below one entry of its top directory, and that what a set of
event paths covers lies below a topmost one. `TreeUp` and `TreeDown` say what a tree is good for;
`RemovesTree`, `MakesDirs`, `MakesDirOver` and `PutsFile` what the code does to one. `MovesTyped`
then sums up every action by what it does to the pass and the destination (`Moves`), and gives

* `TypeCorrect`: `Spec => []TypeOK`.

The other two theorems need one inductive invariant, `PassInv`, since neither `PassCorrect` nor
`Tracked` says anything of a pass that is under way:

* `PlanInv`: a plan goes on in order; removals of what is in the way come before directories are made, and
  times are set after everything else.
* `WalkInv` and `SeenInv`: the walk reaches every path of its region once; what it listed is as the
  source has it, unless that changed since, and what it did not list still lies below its frontier. A listing has
  what is above its entries (`SnapshotUp`), so no removal takes away what another phase keeps.
* `BusyInv`, one part for each kind of entry: `DirsInv` (directories stay once made), `AbsentInv`
  (what the mirror has to take away is on its list until it is gone), `KeptInv` (files that need no copy
  keep everything but their mode), `CopyInv` (a file to be copied is with a worker, given up, changing or
  there) and `StampInv`. `Strikes` is what one step does at the destination, `Spared` what it leaves alone.
* `DoneInv`: a pass that ended without an error left each entry of its region as it was listed
  (`AtEnd`). With `LookInv` (files of one version look the same everywhere) and `SeenInv` it gives
  `PassesCorrect`: `Spec => []PassCorrect`.
* `TrackInv`: a path no event is about is right at the destination, and was right when it was listed. So a pass finds
  nothing to remove above it (`TrackStrikes`), and when it ends the paths that changed meanwhile
  are in the open cycle (`TrackSettles`). It gives `DriftTracked`: `Spec => []Tracked`.

`TransferProofs` holds for every list of versions, block length, number of attempts and of
requests in flight, assuming only `TransferAssumption` (the versions are finite sequences,
and there is always another file to make).

* `TypeCorrect`: `Spec => []TypeOK`, whatever is given up, repeated, lost or interrupted.
  `UnusedIsNew` counts paths and handlers against the pool of files. Below it is one lemma per
  action that says what the step does (`Moved` and `Quiet` for handlers, `Sends` for the
  sender); the other proofs use these and no longer the actions.
* `NoCorruption`: `Spec => []NoSilentCorruption` where no request is given up while it runs
  nor repeated (`Solo`). `SoloInv` adds `Owned` (the one request in flight is the one its
  sender waits on, or what is left of a stream that broke off), `Reading` (what was read of a
  source that stays is a prefix of it, and all of it when it is compared), `Carried` (a
  request for the whole content has it), `Assembled` (past its check the file at the
  temporary path is the version, then flushed, then stamped), `Stamped` (an mtime is only on a
  file that is on disk and is that version) and `Apart` (no handler writes at the final path).
  A power loss keeps it because the stamp comes after the flush.
* `Replaces`: `Spec => ReplacesAtomically` under `Solo` and `LinksStay` (no version that is a
  link is followed by one that is a file). `KindInv` adds that files and links are what their
  version is (`Modes`, `Kinds`) and that an answer says what is so (`Done`). Then `SeenFact`
  holds: a reader sees the version whose mtime the file has; `ReplaceStep` takes each step
  to a step of `AtomicReplace` or a stutter.

Both hypotheses are needed: `TwoGivenUp.cfg` violates the first property without `Solo`,
`LinkThrough.cfg` the second without `LinksStay`. The run `transfer` has one request left
running, where TLC finds neither violated.

`ZfsBaselineProofs` holds for every tree, set of destinations, number of cycles and budget.
It assumes `ZfsAssumption`; that the paths are finitely many, hang below `Root` and differ by
name within a directory (`TreeAssumption`); and that the first tree is a tree, older than its
first snapshot (`StartAssumption`). Objects are told apart by where and when they were made,
as an inode and its generation are. The inductive invariant has three parts.


* `BasesKept`: `Spec => []BaseKept`. `BaseInv` adds `Behind`: a row's baseline is of a cycle
  its destination is verified for, and the engine takes up only what is not yet verified, so
  the snapshot it takes away again when a refresh is refused is not the one of the row, nor is
  the one it replaces. `Held` says that what the engine is about to write into a row (the
  snapshot of its cycle, the name of the new baseline) exists and is of this state database.
* `ViewInv` says what a snapshot shows. Snapshots are older than what is made after them, and
  an object written at the same time has the same content in all of them (`History`); those
  of the present database are of closed cycles (`NameInv`), and source paths that differ from one
  were edited in a later cycle (`LogInv`). A destination differs from the base of its next diff
  only where it drifted or a pass wrote past it (`Reached`); between comparison and base this is
  said of what the pass has looked at (`WorkInv`). `MovedIs`, `AppliedIs` and `ChangesAre` are
  what a rename, a pass and any change make of a tree; `CoveredUnless` and `DiffSees` that a
  path no row of `zfs diff` stands for has the same object, under the same directories, with
  the same content. They give `TypeCorrect` and `GreenCurrent`.
* `DiffInv` is about pairs of bases. Where they are of one cycle they differ by what the
  refresh could not see; where the baseline is retained, a path on which they differ and which
  is as it was in the baseline drifted or was not seen (`Pair`): a pass that writes such a path
  makes a new object. It needs what a pass has looked at (`SeenInv`), that drift since the
  comparison is newer than every snapshot (`WindowInv`), and what a new baseline would get wrong
  (`RefreshInv`); `RefreshSees` is the cross-check, case by case. They give `DiffsComplete`.

`DelegationProofs` holds for any number of machines, groups, versions of a path and rounds
of the repush loop, and every budget, assuming only `PlacesAssumption`, `VerAssumption` and
`BoundAssumption`. Its theorems follow from one inductive invariant, `IInv` (`Invariant`), kept
by every kind of step (`InvStep`); no lemma bounds how many saves, handlers, late calls and
crashes are under way at once.

* `TypeInv` has more than `TypeOK`: an own group has no mark and a managed one is on its home
  (`IsFile`), what each kind of thread holds at each program counter (`IsJob`). It gives
  `TypeCorrect`.
* `BornInv` and `PeerInv` say which files a thread may hold: copies of what was once in the
  file, and for a removal that of the handler without the group that is asked about. `CallInv` ties
  a handler to the thread that waits for its answer, and to no other: an answer reaches nobody else.
* `OffsetInv` speaks of every state: an offset of another path than the file's is one that a
  thread about to `Reset` will drop. It gives `OffsetsOfPath`.
* `DoomedInv` says that a thread whose file lacks an owner's group is of a user who meant to
  delete it, unless that copy was outdated. With `KeptUnlessDeleted` itself it gives
  `NotLostByOthers`; the property is not inductive, since a save writes a file that was put
  together many steps earlier.
* `RevInv` says that a list of the newest revision names the groups of its owner's file, be it
  with a thread that saves or in a call that was given up. `DroppedInv` follows a removal
  from the home to the owner and back: before the home writes, the group is gone from its owner's
  file, or still to be asked about, or with a handler that has not answered. They give
  `DeletedStays`; an older list that arrives later is the excuse `outdated`.

`ScheduleProofs`:

* `ScheduleTypeCorrect`: `Spec => []TypeOK` of `Schedule`.
* `OneRunPerSlot`: `Spec => []OncePerSlot`. The inductive invariant `HitInv` adds that what
  made a destination due last is not after the start of the open cycle nor after the start
  the scheduler read (`Order`), and that whoever it found due has a boundary that has
  passed (`Found`), since the cycle is closed at the clock of that moment or a later one.
  `BoundaryIsLater` shows that `next_boundary_after` is strictly after the start.

Only model-checked: liveness and everything under fairness (outside the prover's
reach, as are `ENABLED` and what recursive definitions compute); `SlotKept` and `WindowExact` (arithmetic over cadences and zone shifts that is not
linear); `MemoryBounded` (a sum over a set of transfers, whose facts need induction over the
set); `FailsOnlyByFault` of `Transfer` (it bounds the errors by the attempts, and counts what the
environment did during them), and its other properties with a request left running; `Agreement` of `Delegation` (it is about states of rest, and needs
what every machine is still owed in all states before).

## 6. Plan

1. Proofs: `Agreement` of `Delegation`; `NoSilentCorruption`
   with one request left running.
2. `Watchers` shown to implement the watcher of `SyncCycles`, and `TreeSync` its `EngCopy`.
3. `Schedule` as the clock of `SyncCycles`: its `SchedRead` with a boundary of `CycleIsDue`.

## 7. Not modelled

HTTP routing, the Flutter interface, the collector, deployment scripts, logging,
progress display and device probing keep no replication state. Of the configuration
file, parsing and defaults are left out; what threads and machines see of it is modelled.
Of the calendar, parsing is left out, and a zone changes once. UDP discovery and the hints of `peer_notify` refresh what a user sees. Of a
pass, a source that is a single file, the sweep of old temporary and trash directories and
the throttle are left out; of ZFS, how a path is resolved to a dataset and the check for
nested mounts; of a Compare, its ZFS fast path and hash evidence; of delegation, edits of
a managed group on its home (the next push reverts them) and two owners of one home failing
in part. The task log and the issue rows are display.
