----------------------------- MODULE MCTreeSync -----------------------------
(* Small instances of TreeSync.                                              *)
EXTENDS TreeSync, TLC

CONSTANTS d, dx, de, f

MCPath == {d, dx, de, f}
MCParent == d :> Root @@ dx :> d @@ de :> d @@ f :> Root

\* The file below d needs more memory than there is.
MCWeight == d :> 1 @@ dx :> 3 @@ de :> 1 @@ f :> 1

\* Workers are alike.
MCSymmetry == Permutations(Worker)

Remote == {"push_full", "push_events"}
Local == {"local_full", "reconcile", "local_events"}
Box(n, m, other, w) == [edits |-> n, faults |-> m, foreign |-> other, ways |-> w]

\* A destination that holds something else, and an edit; a synchronised one with
\* an edit and a failure, and with two edits.
MCBound ==
    {Box(1, 0, TRUE, w) : w \in {Remote, Local}} \union {Box(1, 1, FALSE, w) : w \in {Remote, Local}}
        \union {Box(2, 0, FALSE, w) : w \in {Remote, {"local_events"}}}
FlipBound == {Box(2, 0, FALSE, {"push_events"}), Box(2, 0, FALSE, {"local_events"})}
EditBound == {Box(1, 0, FALSE, w) : w \in {Remote, Local}}
=============================================================================
