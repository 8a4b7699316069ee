----------------------------- MODULE MCWatchers -----------------------------
(***************************************************************************)
(* Small instances of Watchers for TLC.                                    *)
(***************************************************************************)
EXTENDS Watchers, TLC

Budget(b) == b @@ [k \in Env |-> 0]

\* The boxes of environment steps a run explores
MCBound ==
    {Budget([edit |-> 2, db |-> 1, die |-> 1]),
     Budget([edit |-> 2, conf |-> 1, manual |-> 1]),
     Budget([edit |-> 2, fail |-> 1]),
     Budget([edit |-> 3]),
     Budget([edit |-> 1, die |-> 2]),
     Budget([edit |-> 2, late |-> 1, conf |-> 1, db |-> 1]),
     Budget([edit |-> 2, jump |-> 1, crash |-> 1])}

=============================================================================
