------------------------------ MODULE Schedule ------------------------------
(***************************************************************************)
(* When a destination is due.  scheduler.rs computes the next boundary of  *)
(* a daily or weekly schedule after the start of the open cycle;           *)
(* advance_due_destination_targets (state.rs) compares it with the clock,  *)
(* closes the cycle and targets whoever is due; standby.rs computes the    *)
(* wake windows of cold pools, outside of which a pass is put off.         *)
(*                                                                         *)
(* Instants are UTC, in units of which DayLen make a day; schedules are in *)
(* local time, which changes by zone.by units at zone.at: a local time can *)
(* be skipped or happen twice.  Weeks have WeekLen days (7 in the code).   *)
(* SyncCycles has the same scheduler with "a boundary may pass at any      *)
(* tick" instead of a clock.  Destinations are enabled, not paused and     *)
(* synchronised before; a failed pass leaves its destination pending.      *)
(***************************************************************************)
EXTENDS Integers

CONSTANTS
    Dst,        \* destinations of one source group
    DayLen,     \* units of time in a day
    WeekLen,    \* days in a week
    None,       \* a destination that is not on a standby pool
    Worlds,     \* time zones, schedules and wake windows to consider
    Horizon     \* bound on the clock

Zone == [at : Int, by : Int]
Plan == [mode : {"realtime", "daily", "weekly"}, time : Int, weekday : Int, every : Nat,
         anchor : Int]
Wake == [time : Int, weekday : Int, every : Nat, anchor : Int, window : Nat]

ASSUME ScheduleConstants ==
    /\ DayLen \in Nat \ {0} /\ WeekLen \in Nat \ {0} /\ Horizon \in Nat
    /\ None \notin Wake
    /\ Worlds \subseteq [zone : Zone, plan : [Dst -> Plan], wake : [Dst -> Wake \union {None}]]

VARIABLES
    zone, plan, wake,   \* the configuration
    now,                \* the clock
    starts,             \* sync_cycle.starts_at of the open cycle
    events,             \* the open cycle holds events
    pend,               \* destinations with last_verified < target
    spc,                \* the scheduler thread
    seen, due,          \* the starts_at it read, and who it found due
    owed,               \* history: a boundary passed and no target was set since
    swallowed,          \* history: the cycle of one owed was closed without it: for another
                        \* destination, or for nobody, to roll accumulated events
    hit                 \* history: the boundary that made a destination due last

conf == <<zone, plan, wake>>
vars == <<conf, now, starts, events, pend, spc, seen, due, owed, swallowed, hit>>

-----------------------------------------------------------------------------
(* The calendar.                                                           *)

LocalTime(t) == t + IF t < zone.at THEN 0 ELSE zone.by
DayOf(t) == LocalTime(t) \div DayLen

\* The instant of a local time: none if the clock skips it, the earlier of two.
Resolve(day, time) ==
    LET l == day * DayLen + time
        T == {t \in {l, l - zone.by} : LocalTime(t) = l}
    IN  {t \in T : \A u \in T : t <= u}

\* Mutant: the remainder of the division of Rust's /, which rounds to zero.
WeekOnCadenceTrunc(s, day) ==
    (IF day < s.anchor THEN -((s.anchor - day) \div WeekLen) ELSE (day - s.anchor) \div WeekLen)
        % s.every = 0

WeekOnCadence(s, day) == ((day - s.anchor) \div WeekLen) % s.every = 0
OnCadence(s, day) == day % WeekLen = s.weekday /\ (s.every <= 1 \/ WeekOnCadence(s, day))

Every(s) == IF s.every = 0 THEN 1 ELSE s.every

\* Mutant: a boundary at the very start of the cycle counts.
FirstAfterOrAt(Days, time, t) ==
    LET Stops == {day \in Days : \A u \in Resolve(day, time) : u >= t}
    IN  {u \in UNION {Resolve(day, time) : day \in Stops} :
            \E day \in Stops : u \in Resolve(day, time) /\ \A e \in Stops : day <= e}

\* The walk over the dates from today on stops at the first one that cannot be
\* resolved (an error: no boundary) or lies after the instant t.
FirstAfter(Days, time, t) ==
    LET Stops == {day \in Days : \A u \in Resolve(day, time) : u > t}
    IN  {u \in UNION {Resolve(day, time) : day \in Stops} :
            \E day \in Stops : u \in Resolve(day, time) /\ \A e \in Stops : day <= e}

WeeklyDays(s, t) ==
    {day \in DayOf(t)..(DayOf(t) + Every(s) * WeekLen + WeekLen) : OnCadence(s, day)}
\* The loop of a daily schedule has no end; the day after is always late enough.
DailyDays(t) == DayOf(t)..(DayOf(t) + 2)

NextBoundaryAfter(s, t) ==
    FirstAfter(IF s.mode = "daily" THEN DailyDays(t) ELSE WeeklyDays(s, t), s.time, t)

\* cycle_is_due: without a boundary the cycle is closed after a day.
CycleIsDue(s, start, t) ==
    LET B == NextBoundaryAfter(s, start)
    IN  IF B = {} THEN t - start >= DayLen ELSE \A b \in B : t >= b

\* Mutant: only a window that opened today.
WithinWakeWindowToday(w, t) ==
    /\ OnCadence(w, DayOf(t))
    /\ \E u \in Resolve(DayOf(t), w.time) : u <= t /\ t < u + w.window

\* is_within_wake_window walks back over the dates; the latest start decides,
\* or the latest date on which the start cannot be resolved (an error).
LatestDay(w, t) ==
    LET D == {day \in (DayOf(t) - Every(w) * WeekLen - WeekLen)..DayOf(t) : OnCadence(w, day)}
        Stops == {day \in D : \A u \in Resolve(day, w.time) : u <= t}
    IN  {day \in Stops : \A e \in Stops : e <= day}

WithinWakeWindow(w, t) ==
    \E day \in LatestDay(w, t) : \E u \in Resolve(day, w.time) :
        t < u + IF w.window = 0 THEN 1 ELSE w.window
WakeError(w, t) == \E day \in LatestDay(w, t) : Resolve(day, w.time) = {}

NextWakeStartAfter(w, t) == FirstAfter(WeeklyDays(w, t), w.time, t)

\* gate_for_sync, for the pools of the destination; a pass goes on after an error
Awake(d) ==
    wake[d] # None => WithinWakeWindow(wake[d], now) \/ WakeError(wake[d], now)

-----------------------------------------------------------------------------
(* The scheduler, requests, the engine.                                    *)

Timed(d) == plan[d].mode # "realtime"

Init ==
    /\ \E w \in Worlds : zone = w.zone /\ plan = w.plan /\ wake = w.wake
    /\ now = 0 /\ starts = 0 /\ events = FALSE /\ pend = {}
    /\ spc = "idle" /\ seen = 0 /\ due = {}
    /\ owed = {} /\ swallowed = {} /\ hit = [d \in Dst |-> 0]

\* The boundaries a schedule means (reference): the local times that exist, on
\* its weekday in one week of each `every`, counted from the anchor.
SlotsOn(s, daily) ==
    LET period == Every(s) * WeekLen
    IN  UNION {Resolve(day, s.time) :
            day \in {day \in -2..(Horizon \div DayLen + period + WeekLen + 2) :
                        \/ daily
                        \/ day % WeekLen = s.weekday /\ (day - s.anchor) % period < WeekLen}}
Slots(s) == SlotsOn(s, s.mode = "daily")

Clock ==
    /\ now < Horizon
    /\ now' = now + 1
    /\ owed' = owed \union {d \in Dst \ pend : Timed(d) /\ now' \in Slots(plan[d])}
    /\ UNCHANGED <<conf, starts, events, pend, spc, seen, due, swallowed, hit>>

Event ==
    /\ ~events /\ events' = TRUE
    /\ UNCHANGED <<conf, now, starts, pend, spc, seen, due, owed, swallowed, hit>>

\* close_current_cycle_for_source and set_destination_target for D: the next
\* cycle starts at the clock as it is then.
Roll(D) ==
    /\ starts' = now /\ events' = FALSE
    /\ pend' = pend \union D
    /\ owed' = owed \ D
    /\ swallowed' = (swallowed \union owed) \ D

DueNow ==
    {d \in Dst \ pend : IF Timed(d) THEN CycleIsDue(plan[d], starts, now) ELSE events}

\* advance_due_destination_targets reads the clock and the open cycle ...
Judge ==
    /\ spc = "idle"
    /\ due' = DueNow
    /\ \/ /\ DueNow # {} \/ events       \* the events are 10 s old, source_events_quiesced
          /\ seen' = starts /\ spc' = "close"
       \/ /\ DueNow = {}
          /\ spc' = "pass" /\ UNCHANGED seen
    /\ UNCHANGED <<conf, now, starts, events, pend, owed, swallowed, hit>>

\* ... and closes the cycle that is open then.
Close ==
    /\ spc = "close"
    /\ Roll(due)
    /\ hit' = [d \in Dst |-> IF d \in due /\ Timed(d) /\ NextBoundaryAfter(plan[d], seen) # {}
                             THEN CHOOSE b \in NextBoundaryAfter(plan[d], seen) : TRUE
                             ELSE hit[d]]
    /\ spc' = "pass" /\ due' = {} /\ seen' = 0
    /\ UNCHANGED <<conf, now>>

\* A run of the engine, of the scheduler or of a request: a destination in standby
\* waits.  (Requests are incremental ones; a Full one would pass the gate.)
Serve(d) ==
    /\ d \in pend /\ Awake(d)
    /\ pend' = pend \ {d}
    /\ UNCHANGED <<conf, now, starts, events, spc, seen, due, owed, swallowed, hit>>

PassEnd ==
    /\ spc = "pass" /\ spc' = "idle"
    /\ UNCHANGED <<conf, now, starts, events, pend, seen, due, owed, swallowed, hit>>

\* force_target_destination, force_target_source
Request(D) ==
    /\ D = Dst \/ \E d \in Dst : D = {d}
    /\ Roll(D)
    /\ UNCHANGED <<conf, now, spc, seen, due, hit>>

Crash ==
    /\ spc' = "idle" /\ due' = {} /\ seen' = 0
    /\ UNCHANGED <<conf, now, starts, events, pend, owed, swallowed, hit>>

Scheduler == Judge \/ Close \/ (\E d \in Dst : Serve(d)) \/ PassEnd

Next ==
    \/ Clock \/ Event \/ Scheduler \/ Crash
    \/ \E D \in SUBSET Dst : Request(D)

Spec == Init /\ [][Next]_vars

-----------------------------------------------------------------------------
(* Properties.                                                             *)

TypeOK ==
    /\ zone \in Zone /\ plan \in [Dst -> Plan] /\ wake \in [Dst -> Wake \union {None}]
    /\ now \in 0..Horizon /\ starts \in 0..Horizon /\ seen \in 0..Horizon
    /\ events \in BOOLEAN
    /\ pend \subseteq Dst /\ due \subseteq Dst /\ owed \subseteq Dst /\ swallowed \subseteq Dst
    /\ spc \in {"idle", "close", "pass"}
    /\ hit \in [Dst -> Int]

\* A boundary that passes while a destination has nothing pending makes it due
\* at the next tick, however long a pass, a restart or other destinations keep
\* the scheduler: only a close of the cycle in between takes it away, for a target
\* of another destination or, when the boundary passes while a round has found
\* nobody due, for accumulated events alone.  A schedule that has no boundary after
\* the start of the cycle (its next local time is skipped) is due after a day.
SlotKept ==
    \A d \in owed \ swallowed :
        \/ spc = "close" /\ d \in due
        \/ CycleIsDue(plan[d], starts, now)
        \/ NextBoundaryAfter(plan[d], starts) = {}

\* No boundary starts two runs: the one that makes a destination due is later
\* than the one that did before, across requests, crashes and changes of the zone.
OncePerSlot ==
    spc = "close" =>
        \A d \in due : Timed(d) => \A b \in NextBoundaryAfter(plan[d], seen) : hit[d] < b

\* A pool is open from each start of its window until the window is over, into
\* the next day if need be, unless the clock skipped the latest start; the "in
\* standby until" of a closed gate is the next time it opens.
WindowExact ==
    \A d \in Dst : wake[d] # None =>
        LET starting == SlotsOn(wake[d], FALSE)
            open(t) == \E u \in starting : u <= t /\ t < u + wake[d].window
        IN  /\ Awake(d) <=> open(now) \/ WakeError(wake[d], now)
            /\ ~Awake(d) => \A u \in NextWakeStartAfter(wake[d], now) :
                    u \in starting /\ \A t \in (now + 1)..(u - 1) : ~open(t)

\* README: each destination decides on its own whether its schedule is due.
EachOnItsOwn == swallowed = {}

\* README: outside of the windows a pool stays asleep.
OnlyInWindow ==
    \A d \in Dst : wake[d] # None /\ Awake(d) =>
        \E u \in SlotsOn(wake[d], FALSE) : u <= now /\ now < u + wake[d].window

\* A weekly destination is not due before its boundary.
OnlyOnSchedule ==
    spc = "close" => \A d \in due : Timed(d) => \E u \in Slots(plan[d]) : seen < u /\ u <= now

=============================================================================
