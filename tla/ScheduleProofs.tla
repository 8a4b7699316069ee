--------------------------- MODULE ScheduleProofs ---------------------------
(***************************************************************************)
(* Proofs about Schedule: type correctness, and that no boundary starts    *)
(* two runs, for every time zone, schedule and length of day and week.     *)
(***************************************************************************)
EXTENDS Schedule, TLAPS

\* The instant of a local time is an integer.
LEMMA ResolveType ==
  ASSUME NEW day \in Int, NEW time \in Int, zone \in Zone
  PROVE  Resolve(day, time) \subseteq Int
  <1>1. day * DayLen + time \in Int
    BY ScheduleConstants
  <1>2. zone.by \in Int
    BY DEF Zone
  <1>3. QED BY <1>1, <1>2 DEF Resolve

\* Local time, and the number of a day, are integers.
LEMMA DayType == ASSUME NEW t \in Int, zone \in Zone PROVE DayOf(t) \in Int
  <1>1. LocalTime(t) \in Int
    BY DEF LocalTime, Zone
  <1>2. QED BY <1>1, ScheduleConstants DEF DayOf

\* The walk over the dates only stops at an instant after the one it is given.
LEMMA FirstIsLater ==
  ASSUME NEW Days, NEW time, NEW t, NEW b \in FirstAfter(Days, time, t)
  PROVE  b > t
  BY DEF FirstAfter

\* next_boundary_after is strictly after the start, whatever the schedule, and an instant.
LEMMA BoundaryIsLater ==
  ASSUME NEW s \in Plan, NEW t \in Int, zone \in Zone, NEW b \in NextBoundaryAfter(s, t)
  PROVE  b \in Int /\ b > t
  <1>1. b > t
    BY FirstIsLater DEF NextBoundaryAfter
  <1>2. DailyDays(t) \subseteq Int
    BY DayType DEF DailyDays
  <1>3. WeeklyDays(s, t) \subseteq Int
    <2>1. Every(s) \in Int
      BY DEF Every, Plan
    <2>2. Every(s) * WeekLen \in Int
      BY <2>1, ScheduleConstants
    <2>3. QED BY <2>2, DayType, ScheduleConstants DEF WeeklyDays
  <1>4. s.time \in Int
    BY DEF Plan
  <1>5. PICK day \in Int : b \in Resolve(day, s.time)
    BY <1>2, <1>3 DEF NextBoundaryAfter, FirstAfter
  <1>6. QED BY <1>1, <1>4, <1>5, ResolveType

-----------------------------------------------------------------------------
\* What made a destination due last is not after the start of the open cycle, nor
\* after the start the scheduler has read.
Order ==
  /\ starts <= now
  /\ \A d \in Dst : hit[d] <= starts
  /\ spc = "close" => \A d \in Dst : hit[d] <= seen

\* What the scheduler found due has a boundary that has passed.
Found ==
  spc = "close" =>
      \A d \in due : Timed(d) => \A b \in NextBoundaryAfter(plan[d], seen) : b <= now

HitInv == TypeOK /\ Order /\ Found

\* Nothing is due when the scheduler starts.
LEMMA HitInitially == Init => HitInv
  <1> SUFFICES ASSUME Init PROVE HitInv
    OBVIOUS
  <1>1. zone \in Zone /\ plan \in [Dst -> Plan] /\ wake \in [Dst -> Wake \union {None}]
    <2>1. PICK w \in Worlds : zone = w.zone /\ plan = w.plan /\ wake = w.wake
      BY DEF Init
    <2>2. w \in [zone : Zone, plan : [Dst -> Plan], wake : [Dst -> Wake \union {None}]]
      BY ScheduleConstants
    <2>3. QED BY <2>1, <2>2
  <1>2. hit \in [Dst -> Int] /\ \A d \in Dst : hit[d] = 0
    BY DEF Init
  <1>3. TypeOK
    <2>1. now \in 0..Horizon /\ starts \in 0..Horizon /\ seen \in 0..Horizon
      BY ScheduleConstants DEF Init
    <2>2. QED BY <1>1, <1>2, <2>1 DEF Init, TypeOK
  <1>4. Order /\ Found
    BY <1>2 DEF Init, Order, Found
  <1>5. QED BY <1>3, <1>4 DEF HitInv

\* What closing a cycle records.
LEMMA CloseType ==
  ASSUME TypeOK, Found, Close
  PROVE  hit' \in [Dst -> Int] /\ \A d \in Dst : hit'[d] <= now \/ hit'[d] = hit[d]
  <1> DEFINE B(d) == NextBoundaryAfter(plan[d], seen)
  <1>1. ASSUME NEW d \in Dst
        PROVE  hit'[d] \in Int /\ (hit'[d] <= now \/ hit'[d] = hit[d])
    <2>1. CASE d \in due /\ Timed(d) /\ B(d) # {}
      <3>1. hit'[d] \in B(d)
        BY <2>1 DEF Close
      <3>2. plan[d] \in Plan /\ seen \in Int /\ zone \in Zone
        BY ScheduleConstants DEF TypeOK
      <3>3. hit'[d] \in Int
        BY <3>1, <3>2, BoundaryIsLater
      <3>4. hit'[d] <= now
        BY <2>1, <3>1 DEF Close, Found
      <3>5. QED BY <3>3, <3>4
    <2>2. CASE ~(d \in due /\ Timed(d) /\ B(d) # {})
      BY <2>2 DEF Close, TypeOK
    <2>3. QED BY <2>1, <2>2
  <1>2. hit' = [d \in Dst |-> hit'[d]]
    BY DEF Close
  <1>3. QED BY <1>1, <1>2

\* Every step of the scheduler is well typed.
LEMMA TypeStep == ASSUME HitInv, [Next]_vars PROVE TypeOK'
  <1> USE ScheduleConstants DEF TypeOK, conf
  <1>1. CASE Clock
    BY <1>1 DEF Clock, HitInv
  <1>2. CASE Event
    BY <1>2 DEF Event, HitInv
  <1>3. CASE Judge
    BY <1>3 DEF Judge, DueNow, HitInv
  <1>4. CASE Close
    <2>1. hit' \in [Dst -> Int]
      BY <1>4, CloseType DEF HitInv
    <2>2. /\ starts' = now /\ events' = FALSE /\ pend' = pend \union due
          /\ owed' = owed \ due /\ swallowed' = (swallowed \union owed) \ due
          /\ spc' = "pass" /\ due' = {} /\ seen' = 0
          /\ UNCHANGED <<zone, plan, wake, now>>
      BY <1>4 DEF Close, Roll
    <2>3. /\ now' \in 0..Horizon /\ starts' \in 0..Horizon /\ seen' \in 0..Horizon
          /\ spc' \in {"idle", "close", "pass"}
      BY <2>2 DEF HitInv
    <2>4. pend' \subseteq Dst /\ due' \subseteq Dst /\ owed' \subseteq Dst /\ swallowed' \subseteq Dst
      BY <2>2 DEF HitInv
    <2>5. zone' \in Zone /\ plan' \in [Dst -> Plan] /\ wake' \in [Dst -> Wake \union {None}]
      BY <2>2 DEF HitInv
    <2>6. events' \in BOOLEAN
      BY <2>2, Zenon
    <2>7. QED BY <2>1, <2>3, <2>4, <2>5, <2>6
  <1>5. ASSUME NEW d \in Dst, Serve(d) PROVE TypeOK'
    BY <1>5 DEF Serve, HitInv
  <1>6. CASE PassEnd
    BY <1>6 DEF PassEnd, HitInv
  <1>7. CASE Crash
    BY <1>7 DEF Crash, HitInv
  <1>8. ASSUME NEW D \in SUBSET Dst, Request(D) PROVE TypeOK'
    BY <1>8 DEF Request, Roll, HitInv
  <1>9. CASE UNCHANGED vars
    BY <1>9 DEF vars, HitInv
  <1>10. QED
    BY <1>1, <1>2, <1>3, <1>4, <1>5, <1>6, <1>7, <1>8, <1>9 DEF Next, Scheduler

\* Every step keeps what was due behind the start of the cycle.
LEMMA OrderStep == ASSUME HitInv, [Next]_vars PROVE Order'
  <1>t. /\ now \in Int /\ starts \in Int /\ seen \in Int /\ now' \in Int /\ starts' \in Int
        /\ \A d \in Dst : hit[d] \in Int /\ hit'[d] \in Int
    BY TypeStep, ScheduleConstants DEF TypeOK, HitInv
  <1> USE DEF Order, HitInv
  <1>1. CASE Clock
    BY <1>1, <1>t DEF Clock
  <1>2. CASE Judge
    BY <1>2, <1>t DEF Judge
  <1>3. CASE Close
    <2>1. starts' = now /\ now' = now /\ spc' = "pass"
      BY <1>3 DEF Close, Roll
    <2>2. \A d \in Dst : hit'[d] <= now \/ hit'[d] = hit[d]
      BY <1>3, CloseType
    <2>3. QED BY <1>t, <2>1, <2>2
  <1>4. CASE Crash
    BY <1>4, <1>t DEF Crash
  <1>5. ASSUME NEW D \in SUBSET Dst, Request(D) PROVE Order'
    BY <1>5, <1>t DEF Request, Roll
  <1>6. ASSUME NEW d \in Dst, Serve(d) PROVE Order'
    BY <1>6 DEF Serve
  <1>7. CASE PassEnd
    BY <1>7 DEF PassEnd
  <1>8. CASE UNCHANGED <<now, starts, hit, spc, seen>>
    BY <1>8
  <1>9. QED
    BY <1>1, <1>2, <1>3, <1>4, <1>5, <1>6, <1>7, <1>8 DEF Next, Scheduler, Event, vars

\* Every step keeps what is due behind the clock.
LEMMA FoundStep == ASSUME HitInv, [Next]_vars PROVE Found'
  <1> SUFFICES ASSUME spc' = "close", NEW d \in due', Timed(d)',
                      NEW b \in NextBoundaryAfter(plan[d], seen)'
               PROVE  b <= now'
    BY DEF Found
  <1>1. UNCHANGED <<plan, zone>>
    BY DEF Next, Scheduler, Clock, Event, Judge, Close, Serve, PassEnd, Request, Crash,
       vars, conf
  <1>2. Timed(d) /\ b \in NextBoundaryAfter(plan[d], seen')
    BY <1>1 DEF Timed, NextBoundaryAfter, DailyDays, WeeklyDays, FirstAfter, Resolve,
       DayOf, LocalTime
  <1>3. CASE Judge
    <2>1. seen' = starts /\ d \in DueNow /\ now' = now
      BY <1>3 DEF Judge
    <2>2. d \in Dst /\ CycleIsDue(plan[d], starts, now)
      BY <1>2, <2>1 DEF DueNow
    <2>3. now >= b
      BY <1>2, <2>1, <2>2 DEF CycleIsDue
    <2>4. plan[d] \in Plan /\ starts \in Int /\ now \in Int /\ zone \in Zone
      BY <2>2, ScheduleConstants DEF HitInv, TypeOK
    <2>5. b \in Int
      BY <1>2, <2>1, <2>4, BoundaryIsLater
    <2>6. QED BY <2>1, <2>3, <2>4, <2>5
  <1>4. CASE ~Judge
    <2>1. spc = "close" /\ UNCHANGED <<due, seen>> /\ (now' = now \/ now' = now + 1)
      BY <1>4 DEF Next, Scheduler, Clock, Event, Close, Serve, PassEnd, Request, Crash, vars
    <2>2. d \in due /\ d \in Dst /\ plan[d] \in Plan /\ seen \in Int /\ now \in Int /\ zone \in Zone
      BY <2>1, ScheduleConstants DEF HitInv, TypeOK
    <2>3. b <= now
      BY <1>2, <2>1, <2>2 DEF HitInv, Found
    <2>4. b \in Int
      BY <1>2, <2>1, <2>2, BoundaryIsLater
    <2>5. QED BY <2>1, <2>2, <2>3, <2>4
  <1>5. QED BY <1>3, <1>4

\* Every step keeps the invariant.
LEMMA HitStep == HitInv /\ [Next]_vars => HitInv'
  BY TypeStep, OrderStep, FoundStep DEF HitInv

\* Every variable keeps its type, whatever the configuration.
THEOREM ScheduleTypeCorrect == Spec => []TypeOK
  <1>1. HitInv => TypeOK
    BY DEF HitInv
  <1>2. QED BY <1>1, HitInitially, HitStep, PTL DEF Spec

\* advance_due_destination_targets never starts two runs of a destination from
\* one boundary of its schedule, for every zone, schedule and calendar: what
\* made it due last is not after the start of the open cycle, and the boundary
\* that cycle_is_due compares with the clock is.
THEOREM OneRunPerSlot == Spec => []OncePerSlot
  <1>1. HitInv => OncePerSlot
    <2> SUFFICES ASSUME HitInv, spc = "close", NEW d \in due, Timed(d),
                        NEW b \in NextBoundaryAfter(plan[d], seen)
                 PROVE  hit[d] < b
      BY DEF OncePerSlot
    <2>1. /\ d \in Dst /\ plan[d] \in Plan /\ zone \in Zone /\ seen \in Int
          /\ hit[d] \in Int /\ hit[d] <= seen
      BY ScheduleConstants DEF HitInv, TypeOK, Order
    <2>2. b \in Int /\ b > seen
      BY <2>1, BoundaryIsLater
    <2>3. QED BY <2>1, <2>2
  <1>2. QED BY <1>1, HitInitially, HitStep, PTL DEF Spec

=============================================================================
