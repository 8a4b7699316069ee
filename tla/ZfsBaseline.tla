---------------------------- MODULE ZfsBaseline ----------------------------
(***************************************************************************)
(* Snapshots of the source dataset as read views and diff bases, and        *)
(* snapshots of a local destination's dataset as its verified baseline      *)
(* (core/sync/mod.rs, the snapshot columns of core/state.rs).  A cycle is   *)
(* synchronised by events, by the source's diff, by the diffs of both       *)
(* sides or by a walk; what the pass then records decides what later diffs  *)
(* can see.  Users edit the source, foreign writers the destinations, at    *)
(* any time; the process crashes, and the state database may be lost while  *)
(* the snapshots stay.                                                      *)
(*                                                                          *)
(* ZFS itself is external: a dataset is its live tree and a count of the    *)
(* snapshots taken of it, and an object is named by the place and the time  *)
(* of its creation.                                                         *)
(***************************************************************************)
EXTENDS Naturals, FiniteSets, Functions

CONSTANTS
    Path, Dir,   \* relative paths; those that are directories, the others files
    Parent,      \* [Path -> Dir \cup {Root}]
    Name,        \* [Path -> names]: the last component of a path
    Root,
    Content,     \* contents of files
    Dst,         \* destinations of the source
    Remote,      \* those on another machine
    Due,         \* sets of destinations that become due together
    Rescan,      \* an event row that asks for a rescan
    KeepExtra,   \* keep_extra_cycles
    Start,       \* the tree at first
    MaxCycle,    \* bound on cycles
    Bound        \* a set of [edits, drifts, losses, faults, cycles, resets]: how often each may happen

NoNode == [id |-> <<>>, born |-> 0, c |-> 0]
None == 0
Cycle == 1..MaxCycle

ASSUME ZfsAssumption ==
    /\ Dir \subseteq Path /\ Root \notin Path /\ Parent \in [Path -> Dir \cup {Root}]
    /\ Remote \subseteq Dst /\ Due \subseteq (SUBSET Dst) \ {{}} /\ Rescan \notin Path /\ 0 \notin Content
    /\ KeepExtra \in Nat /\ MaxCycle \in Nat \ {0, 1}

\* Every path hangs below Root, and entries of one directory differ in their names.
ASSUME TreeAssumption ==
    /\ IsFiniteSet(Path)
    /\ \A P \in SUBSET Path : (\A p \in Path : Parent[p] \in P \cup {Root} => p \in P) => P = Path
    /\ \A p, q \in Path : Parent[p] = Parent[q] /\ Name[p] = Name[q] => p = q

VARIABLES
    src, dst,          \* the live trees
    srcTxg, dstTxg,    \* snapshots taken of each dataset so far
    srcSnap, dstSnap,  \* the snapshots, by the cycle in their name: [tree, txg, gen]
    srcBase, dstBase,  \* last_verified_snapshot_name, last_verified_dst_snapshot_name
    verified, target,  \* the offsets of a destination
    open,              \* the open cycle
    events,            \* event rows of each cycle
    loss, full,        \* needs_full_rescan and manual_full_rescan of each cycle
    eng,               \* the engine
    gen,               \* generation of the state database
    edits,             \* history: paths edited at the source, by cycle
    drifted,           \* history: paths a foreign writer changed, past what the next base will have seen
    window,            \* history: paths drifted since the pass compared them, [files, dirs]
    blind,             \* history: drift taken into the baseline by a refresh that cannot see it,
                       \* [base |-> in that of the row, next |-> in the one being recorded]
    ahead,             \* history: paths passes by event, or failed ones, wrote past the base
    left

store == <<srcSnap, dstSnap, srcTxg, dstTxg>>
rows == <<srcBase, dstBase, verified, target>>
log == <<open, events, loss, full, gen, edits>>
ghosts == <<drifted, window, blind, ahead>>
vars == <<src, dst, store, rows, log, eng, ghosts, left>>

----------------------------------------------------------------------------
(* Trees and what zfs diff says of them (external). *)

\* The directories a path is in: the least set with the parents of its members and of the path.
Above ==
    [p \in Path |->
        {a \in Path : \A P \in SUBSET Path :
            (\A q \in P \cup {p} : Parent[q] \in P \cup {Root}) => a \in P}]
Below == [p \in Path |-> {q \in Path : p = q \/ p \in Above[q]}]
Exists(t, p) == t[p] # NoNode
Present(t) == {p \in Path : Exists(t, p)}
Same(a, b) == a.c = b.c
Differs(t, u) == {p \in Path : ~Same(t[p], u[p])}
HasParent(t, p) == IF Parent[p] = Root THEN TRUE ELSE Exists(t, Parent[p])

\* When an object was made, from its name.
Time(id) == id[2]

\* A tree: nothing without its directory, no object in two places.
Node == [id : Path \X Nat \X Nat, born : Nat, c : Content \cup {1}]
Tree(t) ==
    /\ t \in [Path -> Node \cup {NoNode}]
    /\ \A p \in Path : Exists(t, p) => HasParent(t, p) /\ (p \in Dir => t[p].c = 1)
    /\ \A p, q \in Path : Exists(t, p) /\ t[p].id = t[q].id => p = q

\* The first tree is older than its first snapshot.
ASSUME StartAssumption ==
    Tree(Start) /\ \A p \in Path : Exists(Start, p) => Start[p].born = 0 /\ Time(Start[p].id) = 0

Fresh(t, p, txg) ==
    <<p, txg, CHOOSE n \in 0..Cardinality(Path) : \A q \in Path : t[q].id # <<p, txg, n>>>>
Made(t, p, c, txg) == [t EXCEPT ![p] = [id |-> Fresh(t, p, txg), born |-> txg, c |-> c]]
Rewritten(t, p, c, txg) == [t EXCEPT ![p] = [id |-> @.id, born |-> txg, c |-> c]]
Without(t, P) == [q \in Path |-> IF \E p \in P : q \in Below[p] THEN NoNode ELSE t[q]]
\* What is below e when directory d has become e, where each path came from.
Twins(e, d) ==
    {f \in Bijection(Below[e], Below[d]) :
        /\ f[e] = d
        /\ \A q \in Below[e] \ {e} :
              Name[f[q]] = Name[q] /\ Parent[f[q]] = f[Parent[q]] /\ (f[q] \in Dir <=> q \in Dir)}
Moved(t, d, e) ==
    LET twin == CHOOSE f \in Twins(e, d) : TRUE
    IN  [q \in Path |-> IF q \in Below[d] THEN NoNode ELSE IF q \in Below[e] THEN t[twin[q]] ELSE t[q]]

Place(t, p) == <<IF Parent[p] = Root THEN <<>> ELSE t[Parent[p]].id, Name[p]>>

\* The rows of zfs diff between a snapshot and a later state: an object gone,
\* new, in another place, or written.  The children of a directory that moved
\* have no rows of their own.
Gone(t, u) == {p \in Present(t) : \A q \in Present(u) : u[q].id # t[p].id}
MovedPairs(t, u) ==
    {r \in Present(t) \X Present(u) : t[r[1]].id = u[r[2]].id /\ Place(t, r[1]) # Place(u, r[2])}
Renamed(t, u) == UNION {{r[1], r[2]} : r \in MovedPairs(t, u)}
Modified(t, u) == {q \in Present(u) : \E p \in Present(t) : t[p].id = u[q].id /\ t[p].born # u[q].born}

----------------------------------------------------------------------------
(* What the program makes of a diff. *)

\* parse_zfs_diff: every row but a modification stands for its whole subtree.
DiffPaths(t, u) ==
    [rel |-> Gone(t, u) \cup Gone(u, t) \cup Renamed(t, u) \cup Modified(t, u),
     recursive |-> Gone(t, u) \cup Gone(u, t) \cup Renamed(t, u)]
Covered(diff) == diff.rel \cup UNION {Below[p] : p \in diff.recursive}
Union(a, b) == [rel |-> a.rel \cup b.rel, recursive |-> a.recursive \cup b.recursive]

\* Both sides' changes since their bases: a Full reads the source's snapshot,
\* a Compare its live tree.
BothBases(d) ==
    /\ d \notin Remote /\ srcBase[d] # None /\ dstBase[d] # None
    /\ srcBase[d] \in DOMAIN srcSnap /\ dstBase[d] \in DOMAIN dstSnap[d]
BothDiffs(d, source) ==
    Union(DiffPaths(srcSnap[srcBase[d]].tree, source),
          DiffPaths(dstSnap[d][dstBase[d]].tree, dst[d]))

Entry(c, v) == [x \in {c} |-> v]
Put(f, c, v) == [x \in DOMAIN f \cup {c} |-> IF x = c THEN v ELSE f[x]]

----------------------------------------------------------------------------
(* Users, foreign writers and requests. *)

Within(n) == left[n] > 0
Spend(n) == left' = [left EXCEPT ![n] = @ - 1]

\* One change of a tree: the paths it names, those it changes, the new tree.
Changes(t, txg) ==
    {[at |-> {w[1]}, hit |-> {w[1]}, dirs |-> {},
      tree |-> IF Exists(t, w[1]) THEN Rewritten(t, w[1], w[2], txg) ELSE Made(t, w[1], w[2], txg)] :
        w \in {w \in (Path \ Dir) \X Content : HasParent(t, w[1]) /\ t[w[1]].c # w[2]}}
    \cup {[at |-> {p}, hit |-> {p}, dirs |-> {p}, tree |-> Made(t, p, 1, txg)] :
        p \in {p \in Dir : ~Exists(t, p) /\ HasParent(t, p)}}
    \cup {[at |-> {p}, hit |-> Below[p], dirs |-> Dir \cap Below[p], tree |-> Without(t, {p})] : p \in Present(t)}
    \cup {[at |-> {m[1], m[2]}, hit |-> Below[m[1]] \cup Below[m[2]], dirs |-> Below[m[1]] \cup Below[m[2]],
           tree |-> Moved(t, m[1], m[2])] :
        m \in {m \in Dir \X Dir : /\ Parent[m[1]] = Parent[m[2]] /\ Twins(m[2], m[1]) # {}
                                 /\ Exists(t, m[1]) /\ ~Exists(t, m[2])}}

\* The watcher records the paths of the change, or loses them and says so.
Edit ==
    /\ Within("edits")
    /\ \E ch \in Changes(src, srcTxg), lost \in BOOLEAN :
        /\ lost => Within("losses")
        /\ left' = [left EXCEPT !["edits"] = @ - 1, !["losses"] = IF lost THEN @ - 1 ELSE @]
        /\ src' = ch.tree
        /\ edits' = [edits EXCEPT ![open] = @ \cup ch.hit]
        /\ events' = [events EXCEPT ![open] = @ \cup IF lost THEN {Rescan} ELSE ch.at]
        /\ loss' = [loss EXCEPT ![open] = @ \/ lost]
    /\ UNCHANGED <<dst, store, rows, open, full, gen, eng, ghosts>>

\* Somebody else writes to a destination.
Drift(d) ==
    /\ Within("drifts") /\ Spend("drifts")
    /\ \E ch \in Changes(dst[d], dstTxg[d]) :
        /\ dst' = [dst EXCEPT ![d] = ch.tree]
        /\ drifted' = [drifted EXCEPT ![d] = @ \cup ch.hit]
        /\ window' = [window EXCEPT ![d] = IF eng.at \in {"base", "snap"} /\ eng.d = d
                                           THEN [files |-> @.files \cup ch.hit, dirs |-> @.dirs \cup ch.dirs] ELSE @]
    /\ UNCHANGED <<src, store, rows, log, eng, blind, ahead>>

\* The open cycle is closed for the destinations that are due; Full marks it.
Target(D, manual) ==
    /\ open < MaxCycle /\ Within("cycles") /\ Spend("cycles")
    /\ target' = [d \in Dst |-> IF d \in D THEN open ELSE target[d]]
    /\ full' = [full EXCEPT ![open] = manual]
    /\ open' = open + 1
    /\ UNCHANGED <<src, dst, store, srcBase, dstBase, verified, events, loss, gen, edits, eng, ghosts>>

----------------------------------------------------------------------------
(* The engine: which pass a cycle gets. *)

Idle == [at |-> "idle", cycle |-> 0, todo |-> {}, d |-> CHOOSE d \in Dst : TRUE, zfs |-> FALSE,
         byEvent |-> FALSE, mixed |-> FALSE, ok |-> TRUE, how |-> "", known |-> FALSE,
         touched |-> {}, seen |-> {}, name |-> None]

Backlog(d, c) == UNION {events[k] : k \in {k \in Cycle : verified[d] < k /\ k <= c}}
\* event_incremental_plan
EventPlan(c, D) ==
    /\ ~full[c] /\ ~loss[c]
    /\ \A d \in D : verified[d] # None /\ Rescan \notin Backlog(d, c)

\* ensure_zfs_snapshot: one of the same name is this cycle's from an earlier
\* attempt, unless it is older than the cycle.
\* Mutant: a snapshot of that name is used whatever its age.
EnsureSnapshotAny(snaps, c, live, txg, old) ==
    IF c \in DOMAIN snaps THEN snaps ELSE Put(snaps, c, [tree |-> live, txg |-> txg, gen |-> gen])
EnsureSnapshot(snaps, c, live, txg, old) ==
    IF c \in DOMAIN snaps /\ snaps[c].gen = gen /\ ~old THEN snaps
    ELSE Put(snaps, c, [tree |-> live, txg |-> txg, gen |-> gen])

\* Destinations whose target is the cycle, and the view they are read from: the
\* live tree for events and where no snapshot can be taken.
Begin(c) ==
    LET D == {d \in Dst : target[d] = c /\ verified[d] < c}
    IN  /\ eng.at = "idle" /\ D # {}
        /\ \E byEvent \in {EventPlan(c, D)}, fails \in BOOLEAN :
            LET zfs == ~byEvent /\ ~fails
                new == IF zfs THEN EnsureSnapshot(srcSnap, c, src, srcTxg, FALSE) ELSE srcSnap
            IN  /\ fails => ~byEvent /\ Within("faults")
                /\ srcSnap' = new
                /\ srcTxg' = IF new # srcSnap THEN srcTxg + 1 ELSE srcTxg
                /\ left' = [left EXCEPT !["faults"] = IF fails THEN @ - 1 ELSE @]
                /\ eng' = [Idle EXCEPT !.at = "next", !.cycle = c, !.todo = D, !.zfs = zfs, !.byEvent = byEvent,
                                       !.mixed = \E d \in Remote : target[d] = c]
        /\ UNCHANGED <<src, dst, dstSnap, dstTxg, rows, log, ghosts>>

View == IF eng.zfs THEN srcSnap[eng.cycle].tree ELSE src
Everything == [rel |-> Path, recursive |-> Path]

\* How a destination is brought up to date, and the paths looked at.
CanDiff(d) == eng.zfs /\ ~loss[eng.cycle] /\ ~full[eng.cycle] /\ srcBase[d] \in DOMAIN srcSnap
CanDual(d) == eng.zfs /\ full[eng.cycle] /\ ~eng.mixed /\ BothBases(d)
Ways(d) ==
    IF eng.byEvent
    THEN {[how |-> "event", diff |-> LET P == Backlog(d, eng.cycle) IN [rel |-> P, recursive |-> P]]}
    ELSE (IF CanDiff(d) THEN {[how |-> "diff", diff |-> DiffPaths(srcSnap[srcBase[d]].tree, View)]} ELSE {})
         \cup (IF CanDual(d) THEN {[how |-> "dual", diff |-> BothDiffs(d, View)]} ELSE {})
         \cup (IF CanDiff(d) \/ CanDual(d) THEN {} ELSE {[how |-> "walk", diff |-> Everything]})

\* What differs below the paths looked at is copied or removed; parents are made.
\* Mutant: parents are not made.
AppliedBare(t, view, P, txg) ==
    LET kept == Without(t, {p \in P : Exists(t, p) /\ ~Exists(view, p)})
    IN  [p \in Path |-> IF p \in P /\ Exists(view, p) /\ ~Same(t[p], view[p])
                        THEN [id |-> Fresh(t, p, txg), born |-> txg, c |-> view[p].c] ELSE kept[p]]
Applied(t, view, P, txg) ==
    LET gone == {p \in P : Exists(t, p) /\ ~Exists(view, p)}
        kept == Without(t, gone)
    IN  [p \in Path |->
            IF p \in P /\ Exists(view, p)
            THEN IF Same(t[p], view[p]) THEN t[p]
                 ELSE [id |-> Fresh(t, p, txg), born |-> txg, c |-> view[p].c]
            ELSE IF p \in Dir /\ ~Exists(kept, p) /\ \E q \in P : p \in Above[q] /\ Exists(view, q)
                 THEN [id |-> Fresh(t, p, txg), born |-> txg, c |-> 1]
            ELSE kept[p]]
Wrote(t, u) == {p \in Path : t[p] # u[p]}

Onward == [eng EXCEPT !.at = "next", !.todo = @ \ {eng.d}, !.how = "", !.known = FALSE, !.touched = {},
                     !.seen = {}, !.name = None]

\* The baselines are next; what the pass touched is known of the paths both diffs named
\* and of a walk that is for local destinations only.
Compared(d, how, diff, wrote) ==
    [eng EXCEPT !.at = "base", !.d = d, !.how = how, !.seen = Covered(diff),
                !.known = how = "dual" \/ (how = "walk" /\ ~eng.mixed),
                !.touched = IF how = "dual" THEN diff.rel
                            ELSE IF how = "walk" /\ ~eng.mixed THEN wrote ELSE {}]

\* The destination is compared, written, verified and green; a diff that fails
\* falls back to a walk.
SyncOne(d) ==
    /\ eng.at = "next" /\ d \in eng.todo
    /\ \E w \in Ways(d), fails \in BOOLEAN :
        LET how == IF fails THEN "walk" ELSE w.how
            diff == IF fails THEN Everything ELSE w.diff
            new == Applied(dst[d], View, Covered(diff), dstTxg[d])
        IN  /\ fails => w.how \in {"diff", "dual"} /\ Within("faults")
            /\ left' = [left EXCEPT !["faults"] = IF fails THEN @ - 1 ELSE @]
            /\ dst' = [dst EXCEPT ![d] = new]
            /\ verified' = [verified EXCEPT ![d] = eng.cycle]
            /\ ahead' = [ahead EXCEPT ![d] = @ \cup Wrote(dst[d], new)]
            /\ window' = [window EXCEPT ![d] = [files |-> {}, dirs |-> {}]]
            /\ eng' = IF how = "event" THEN [eng EXCEPT !.todo = @ \ {d}]
                      ELSE Compared(d, how, diff, Wrote(dst[d], new))
    /\ UNCHANGED <<src, store, srcBase, dstBase, target, log, drifted, blind>>

\* The destination is offline, or the pass fails with part of the work done; its
\* target stays and the cycle is tried again.
FailOne(d) ==
    /\ eng.at = "next" /\ d \in eng.todo /\ Within("faults") /\ Spend("faults")
    /\ \E w \in Ways(d) : \E P \in SUBSET (Covered(w.diff) \cap Differs(View, dst[d])) :
        LET new == Applied(dst[d], View, P, dstTxg[d])
        IN  /\ dst' = [dst EXCEPT ![d] = new]
            /\ ahead' = [ahead EXCEPT ![d] = @ \cup Wrote(dst[d], new)]
    /\ eng' = [eng EXCEPT !.todo = @ \ {d}, !.ok = FALSE]
    /\ UNCHANGED <<src, store, rows, log, drifted, window, blind>>

----------------------------------------------------------------------------
(* record_destination_verified_baselines *)

\* What the pass may do to the destination's baseline.
\* Mutant: a pass that only looked at the source refreshes it too.
ActionRefreshAlways == IF eng.d \in Remote \/ ~eng.zfs THEN "clear" ELSE "refresh"
Action ==
    CASE eng.d \in Remote \/ ~eng.zfs -> "clear"
      [] eng.how = "diff" -> "retain"
      [] OTHER -> "refresh"

SetSrcBase ==
    /\ eng.at = "base"
    /\ srcBase' = [srcBase EXCEPT ![eng.d] = IF eng.zfs THEN eng.cycle ELSE None]
    /\ eng' = CASE Action = "retain" -> Onward
                [] Action = "clear" -> [eng EXCEPT !.at = "row"]
                [] OTHER -> [eng EXCEPT !.at = "snap"]
    /\ ahead' = [ahead EXCEPT ![eng.d] = @ \ eng.seen]
    /\ drifted' = [drifted EXCEPT ![eng.d] = @ \ (eng.seen \ window[eng.d].files)]
    /\ UNCHANGED <<src, dst, store, dstBase, verified, target, log, window, blind, left>>

\* baseline_refresh_contaminated: a file changed since the previous baseline
\* that this pass did not write.
Contaminated(d, t) ==
    /\ eng.known /\ dstBase[d] \in DOMAIN dstSnap[d]
    /\ \E p \in DiffPaths(dstSnap[d][dstBase[d]].tree, t).rel : p \notin Dir /\ p \notin eng.touched

\* Drift that no cross-check sees: since the comparison, on directories, below those that
\* moved and on what the pass touched, or all of it when none is made; and what drift or a
\* pass left as it is in the previous baseline, which the diff before the pass did not name
\* either.
Unseen(d, diffed, t) ==
    LET based == dstBase[d] \in DOMAIN dstSnap[d]
        base == dstSnap[d][dstBase[d]].tree
    IN  (IF eng.known /\ diffed /\ based
         THEN window[d].dirs \cup
              (window[d].files \cap (eng.touched \cup UNION {Below[p] : p \in Renamed(base, t) \cap Dir}))
         ELSE window[d].files)
        \cup (IF based THEN {p \in drifted[d] \cup ahead[d] : Same(t[p], base[p])} ELSE {})

\* The new baseline, unless the cross-check finds a foreign write.  A same-name
\* snapshot older than a few minutes is taken anew.
SnapDst ==
    LET d == eng.d IN
    /\ eng.at = "snap"
    /\ \E old \in BOOLEAN, fails \in {"", "snapshot", "diff"} :
        LET snaps == EnsureSnapshot(dstSnap[d], eng.cycle, dst[d], dstTxg[d], old)
        IN  /\ fails # "" => Within("faults")
            /\ left' = [left EXCEPT !["faults"] = IF fails # "" THEN @ - 1 ELSE @]
            /\ IF fails = "snapshot"
               THEN /\ eng' = [eng EXCEPT !.at = "row"]
                    /\ UNCHANGED <<dstSnap, dstTxg, blind>>
               ELSE IF fails # "diff" /\ Contaminated(d, snaps[eng.cycle].tree)
               THEN /\ dstSnap' = [dstSnap EXCEPT ![d] = Restrict(snaps, DOMAIN snaps \ {eng.cycle})]
                    /\ dstTxg' = [dstTxg EXCEPT ![d] = IF snaps # dstSnap[d] THEN @ + 1 ELSE @]
                    /\ eng' = Onward
                    /\ UNCHANGED blind
               ELSE /\ dstSnap' = [dstSnap EXCEPT ![d] = snaps]
                    /\ dstTxg' = [dstTxg EXCEPT ![d] = IF snaps # dstSnap[d] THEN @ + 1 ELSE @]
                    /\ blind' = [blind EXCEPT ![d].next =
                                    (blind[d].base \ eng.seen) \cup Unseen(d, fails # "diff", snaps[eng.cycle].tree)]
                    /\ eng' = [eng EXCEPT !.at = "row", !.name = eng.cycle]
    /\ UNCHANGED <<src, dst, srcSnap, srcTxg, rows, log, drifted, window, ahead>>

\* The row, then the sweep of the pair's other baselines.
SetDstBase ==
    LET d == eng.d IN
    /\ eng.at = "row"
    /\ dstBase' = [dstBase EXCEPT ![d] = eng.name]
    /\ dstSnap' = [dstSnap EXCEPT ![d] = IF eng.name = None /\ dstBase[d] = None THEN @
                                         ELSE Restrict(@, DOMAIN @ \cap {eng.name})]
    /\ blind' = [blind EXCEPT ![d].base = IF eng.name = None THEN {} ELSE blind[d].next]
    /\ eng' = Onward
    /\ UNCHANGED <<src, dst, srcSnap, srcTxg, dstTxg, srcBase, verified, target, log, drifted, window, ahead, left>>

\* cleanup_zfs_snapshots: the most recent ones stay, and those a destination's
\* next diff starts from.
Recent(snaps) == {c \in DOMAIN snaps : Cardinality({k \in DOMAIN snaps : snaps[k].txg > snaps[c].txg}) <= KeepExtra}
\* Mutant: the bases of lagging destinations are not looked up.
CleanupBlind(snaps, latest) == Restrict(snaps, Recent(snaps) \cup {latest})
Cleanup(snaps, latest) ==
    Restrict(snaps, Recent(snaps) \cup {latest} \cup (DOMAIN snaps \cap {srcBase[d] : d \in Dst}))

Finish ==
    /\ eng.at = "next" /\ eng.todo = {}
    /\ eng' = Idle
    /\ srcSnap' = IF eng.zfs /\ eng.ok THEN Cleanup(srcSnap, eng.cycle) ELSE srcSnap
    /\ UNCHANGED <<src, dst, dstSnap, srcTxg, dstTxg, rows, log, ghosts, left>>

\* The process dies; everything on disk stays.
Crash ==
    /\ eng.at # "idle" /\ Within("faults") /\ Spend("faults")
    /\ eng' = Idle
    /\ UNCHANGED <<src, dst, store, rows, log, ghosts>>

\* The state database is lost: cycles are counted from one again, and the
\* snapshots of the old generation bear the names of the new.
Reset ==
    /\ eng.at = "idle" /\ Within("resets") /\ Spend("resets")
    /\ gen' = gen + 1 /\ open' = 1
    /\ events' = [c \in Cycle |-> {}] /\ edits' = [c \in Cycle |-> {}]
    /\ loss' = [c \in Cycle |-> FALSE] /\ full' = [c \in Cycle |-> FALSE]
    /\ verified' = [d \in Dst |-> None] /\ target' = [d \in Dst |-> None]
    /\ srcBase' = [d \in Dst |-> None] /\ dstBase' = [d \in Dst |-> None]
    /\ blind' = [d \in Dst |-> [base |-> {}, next |-> {}]] /\ ahead' = [d \in Dst |-> {}]
    /\ UNCHANGED <<src, dst, store, eng, drifted, window>>

----------------------------------------------------------------------------

\* A first full pass verified every destination: the trees are equal, cycle 1
\* has its snapshots and the rows name them.
Init ==
    /\ src = Start /\ dst = [d \in Dst |-> Start]
    /\ srcTxg = 1 /\ dstTxg = [d \in Dst |-> IF d \in Remote THEN 0 ELSE 1]
    /\ srcSnap = Entry(1, [tree |-> Start, txg |-> 0, gen |-> 0])
    /\ dstSnap = [d \in Dst |-> IF d \in Remote THEN [c \in {} |-> 0] ELSE Entry(1, [tree |-> Start, txg |-> 0, gen |-> 0])]
    /\ srcBase = [d \in Dst |-> 1] /\ dstBase = [d \in Dst |-> IF d \in Remote THEN None ELSE 1]
    /\ verified = [d \in Dst |-> 1] /\ target = [d \in Dst |-> 1]
    /\ open = 2 /\ gen = 0 /\ eng = Idle
    /\ events = [c \in Cycle |-> {}] /\ edits = [c \in Cycle |-> {}]
    /\ loss = [c \in Cycle |-> FALSE] /\ full = [c \in Cycle |-> FALSE]
    /\ drifted = [d \in Dst |-> {}] /\ ahead = [d \in Dst |-> {}]
    /\ blind = [d \in Dst |-> [base |-> {}, next |-> {}]]
    /\ window = [d \in Dst |-> [files |-> {}, dirs |-> {}]]
    /\ left \in Bound

Next ==
    \/ Edit
    \/ \E d \in Dst : Drift(d)
    \/ \E D \in Due, manual \in BOOLEAN : Target(D, manual)
    \/ \E c \in Cycle : Begin(c)
    \/ \E d \in Dst : SyncOne(d) \/ FailOne(d)
    \/ SetSrcBase \/ SnapDst \/ SetDstBase \/ Finish
    \/ Crash \/ Reset

Spec == Init /\ [][Next]_vars

----------------------------------------------------------------------------

\* The types, and the shape of the trees: nothing without its directory.
TypeOK ==
    /\ \A t \in {src} \cup {dst[d] : d \in Dst} : Tree(t)
    /\ \A d \in Dst : verified[d] < open /\ target[d] < open
    /\ eng.at \in {"idle", "next", "base", "snap", "row"}
    /\ \A d \in Remote : dstBase[d] = None

\* The diffs of both sides against their bases name every path that differs now,
\* so that a Full or a Compare served by them misses nothing: not what passes by
\* event wrote, not what failed ones left, not drift of any age.  Two kinds of drift
\* escape them: a write between a comparison and the new baseline that the cross-check
\* of the refresh cannot see, and, while the baseline is retained (comment of
\* DstBaselineAction), what drift made again as it is in the baseline, and the removal of
\* something the destination got after it.
Restored(d) ==
    LET base == dstSnap[d][dstBase[d]].tree
    IN  {p \in drifted[d] \cup ahead[d] :
            /\ srcBase[d] # dstBase[d] /\ Same(dst[d][p], base[p])
            /\ p \in ahead[d] \ drifted[d] => ~Exists(dst[d], p)}
DiffComplete ==
    \A d \in Dst : BothBases(d) =>
        Differs(src, dst[d]) \subseteq Covered(BothDiffs(d, src)) \cup blind[d].base \cup Restored(d)

\* DiffComplete without the exception of retained baselines: "Compare's dst diff just
\* grows until the next whole-tree pass, staying correct".
RetainIsComplete ==
    \A d \in Dst : eng.at = "idle" /\ BothBases(d) =>
        Differs(src, dst[d]) \subseteq Covered(BothDiffs(d, src)) \cup blind[d].base

EditsAfter(k) == UNION {edits[c] : c \in {c \in Cycle : c > k}}

\* A green destination has what the source had when its cycle was closed, or
\* later: whichever way the pass was made, after crashes, and after the database was
\* lost with the snapshots of the old one still there.  Not counted are drift no pass
\* has looked at and paths that passes by event wrote past the base of a later diff.
GreenIsCurrent ==
    \A d \in Dst : verified[d] # None =>
        Differs(src, dst[d]) \subseteq
            drifted[d] \cup ahead[d] \cup EditsAfter(verified[d])

\* GreenIsCurrent, for the paths passes by event wrote as well.
GreenMirrors ==
    \A d \in Dst : verified[d] # None =>
        Differs(src, dst[d]) \subseteq
            drifted[d] \cup EditsAfter(verified[d])

\* The snapshots the rows name exist and are of this generation: neither sweep takes
\* away what a lagging destination's next diff starts from.
BaseKept ==
    \A d \in Dst :
        /\ srcBase[d] # None => srcBase[d] \in DOMAIN srcSnap /\ srcSnap[srcBase[d]].gen = gen
        /\ dstBase[d] # None => dstBase[d] \in DOMAIN dstSnap[d] /\ dstSnap[d][dstBase[d]].gen = gen
=============================================================================
