--------------------------- MODULE MCZfsBaseline ---------------------------
(* A small instance of ZfsBaseline: two directories that can be renamed into *)
(* each other, with one file each; one local destination and a remote one.   *)
EXTENDS ZfsBaseline, TLC

CONSTANTS da, dax, db, dbx, local, remote

MCPath == {da, dax, db, dbx}
MCParent == da :> Root @@ dax :> da @@ db :> Root @@ dbx :> db
MCName == da :> "d" @@ dax :> "x" @@ db :> "e" @@ dbx :> "x"
MCStart ==
    da :> [id |-> <<da, 0, 0>>, born |-> 0, c |-> 1] @@ dax :> [id |-> <<dax, 0, 0>>, born |-> 0, c |-> 1]
    @@ db :> NoNode @@ dbx :> NoNode

\* Drift with a failure, and with lost events over two cycles; a failure with lost
\* events; two edits, with drift and with lost events; a lost database.
Bounds(n, dr, l, f, c, r) ==
    [edits |-> n, drifts |-> dr, losses |-> l, faults |-> f, cycles |-> c, resets |-> r]
MCBound == {Bounds(1, 1, 0, 1, 1, 0), Bounds(1, 1, 1, 0, 2, 0), Bounds(1, 0, 1, 1, 2, 0),
            Bounds(2, 1, 0, 0, 1, 0), Bounds(2, 0, 1, 0, 2, 0), Bounds(1, 0, 0, 0, 2, 1)}
RetainBound == {Bounds(1, 1, 1, 0, 2, 0)}
DiffBaseBound == {Bounds(2, 0, 1, 0, 3, 0)}
=============================================================================
