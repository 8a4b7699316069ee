----------------------------- MODULE MCSchedule -----------------------------
(***************************************************************************)
(* Small calendars for TLC: days of three units and weeks of two days.     *)
(***************************************************************************)
EXTENDS Schedule, TLC

CONSTANTS d1, d2

Weekly(time, weekday, every, anchor) ==
    [mode |-> "weekly", time |-> time, weekday |-> weekday, every |-> every, anchor |-> anchor]
Plain(m) == [mode |-> m, time |-> 1, weekday |-> 0, every |-> 1, anchor |-> 0]

\* a window of one unit, and one of a day that reaches into the next
Windows ==
    {[time |-> 1, weekday |-> 1, every |-> 2, anchor |-> 3, window |-> 1],
     [time |-> 1, weekday |-> 1, every |-> 1, anchor |-> 3, window |-> 3]}

\* no change, an hour skipped and an hour twice
MCZones == {[at |-> 0, by |-> 0], [at |-> 4, by |-> 1], [at |-> 5, by |-> -1]}

\* a timed destination beside a realtime or a daily one
Pairs ==
    {<<Plain("daily"), "realtime">>, <<Weekly(1, 1, 1, 0), "daily">>,
     <<Weekly(2, 0, 2, 1), "daily">>, <<Weekly(0, 0, 2, 5), "realtime">>}
\* the first is on a standby pool in some of the worlds
Choices ==
    (Pairs \X {None}) \union ({<<Weekly(1, 1, 1, 0), "daily">>} \X Windows)
MCWorlds ==
    {[zone |-> z, plan |-> d1 :> c[1][1] @@ d2 :> Plain(c[1][2]),
      wake |-> d1 :> c[2] @@ d2 :> None] : z \in MCZones, c \in Choices}

=============================================================================
