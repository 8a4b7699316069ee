---------------------------- MODULE MCActivities ----------------------------
(***************************************************************************)
(* Small instances of Activities for TLC.                                  *)
(***************************************************************************)
EXTENDS Activities, TLC

CONSTANTS s1, s2, d1, d2, p1

MCSymmetry == Permutations(Scanner) \cup Permutations(Path)

MCSourceOf == d1 :> s1 @@ d2 :> s2
\* a chained backup: d1 lies on the pool and s2 is read from it
MCCovers == s1 :> {} @@ s2 :> {p1} @@ d1 :> {p1} @@ d2 :> {}

Budget(b) == b @@ [k \in Env |-> 0]

\* The boxes of environment steps a run explores
MCBound ==
    {Budget([edit |-> 1, compare |-> 1, crash |-> 1]),
     Budget([edit |-> 1, compare |-> 2]),
     Budget([compare |-> 1, fault |-> 1, cancel |-> 1]),
     Budget([edit |-> 1, request |-> 1, crash |-> 1, fault |-> 1]),
     Budget([tamper |-> 1, compare |-> 1, repair |-> 1, request |-> 1]),
     Budget([tamper |-> 1, compare |-> 1, repair |-> 1, cancel |-> 1]),
     Budget([tamper |-> 1, compare |-> 1, repair |-> 1, fault |-> 1]),
     Budget([edit |-> 1, compare |-> 1, repair |-> 1, crash |-> 1]),
     Budget([compare |-> 1, request |-> 1, cancel |-> 1]),
     Budget([edit |-> 2, request |-> 1]),
     Budget([edit |-> 1, request |-> 1, time |-> 1, mount |-> 1]),
     Budget([edit |-> 1, fault |-> 1, mount |-> 1]),
     Budget([edit |-> 1, time |-> 2])}

\* Two restarts, the second under the notice of the first
MCRestarts == {Budget([edit |-> 1, compare |-> 1, crash |-> 2])}

\* A manual request while a pool is parked and can be exported
MCOverride == {Budget([request |-> 1, time |-> 1, mount |-> 1])}

=============================================================================
