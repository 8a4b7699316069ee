------------------------------ MODULE TreeSync ------------------------------
(***************************************************************************)
(* One pass that makes a destination tree equal to the source tree         *)
(* (core/sync/mod.rs): the walk of the live source, the comparison, the    *)
(* removals, the directories, the pool of copy workers, the mirror, the    *)
(* modes, the directory times, the verification and what the next pass     *)
(* has to do.  The five ways a pass is made differ in what they compare    *)
(* and in the order of their phases.  Users edit the source at any time.   *)
(*                                                                         *)
(* A file's ver stands for its content and exact mtime, its look for what  *)
(* a comparison within modify_window_secs sees of them.                    *)
(***************************************************************************)
EXTENDS Naturals, Sequences, FiniteSets, FiniteSetsExt

CONSTANTS
    Path,        \* relative paths
    Parent,      \* [Path -> Path \cup {Root}]
    Root,        \* the top directory, on both sides
    Excluded,    \* paths below one of the source's excludes
    Batch,       \* the label of a batch of small files in the list of failures
    Worker,      \* max_parallel_transfers
    MaxFailed,   \* MAX_PER_FILE_TRANSFER_FAILURES
    Weight,      \* memory a delta of a path needs: twice its size
    Budget,      \* TRANSFER_MEMORY_BUDGET
    Bound        \* a set of [edits, faults, foreign, ways]: the steps users and failures
                 \* may take, whether the destination holds something else at first, and
                 \* the ways to make a pass (a destination is local or remote)

Absent == [kind |-> "none", ver |-> 0, look |-> 0, mode |-> 0]
Phases == [
    push_full    |-> <<"mismatch", "mkdir", "copy", "extras", "modes", "stamp", "end">>,
    push_events  |-> <<"remove", "mkdir", "copy", "modes", "stamp", "verify", "end">>,
    local_full   |-> <<"mkover", "copy", "extras", "modes", "stamp", "copied", "end">>,
    reconcile    |-> <<"mkover", "copy", "modes", "extras", "stamp", "copied", "end">>,
    local_events |-> <<"mismatch", "mkdir", "copy", "failed", "modes", "extras", "stamp", "verify", "end">>]

ASSUME TreeAssumption ==
    /\ Root \notin Path /\ Batch \notin Path /\ Excluded \subseteq Path /\ Worker # {}
    /\ Parent \in [Path -> Path \cup {Root}]
    /\ \A p \in Excluded, q \in Path : Parent[q] = p => q \in Excluded
    /\ MaxFailed \in Nat \ {0} /\ Budget \in Nat /\ Weight \in [Path -> Nat]
    /\ Bound \subseteq [edits : Nat, faults : Nat, foreign : BOOLEAN, ways : SUBSET DOMAIN Phases]

\* A path is a finite list of names: going up from it ends at the top directory.
ASSUME RootedAssumption ==
    \A P \in SUBSET Path :
        (\A p \in Path : Parent[p] \in P \cup {Root} => p \in P) => P = Path

VARIABLES
    src, dst,   \* the trees: [Path -> node]
    mirror,     \* sync.mirror
    dirty,      \* event paths of the cycle that is being synchronised
    fresh,      \* event paths of the open cycle
    needFull,   \* the destination was never reconciled
    run,        \* the pass
    pool,       \* its copy workers
    trash,      \* .auto_sync_trash/<cycle>
    removed,    \* history: files moved to the trash of this cycle
    changed,    \* history: paths edited since the pass began
    clock, left

vars == <<src, dst, mirror, dirty, fresh, needFull, run, pool, trash, removed, changed, clock, left>>
passVars == <<src, mirror, dirty, fresh, needFull, changed, clock, left>>

----------------------------------------------------------------------------
(* Trees. *)

\* The directories above p are in every set of paths that has the one p is in and,
\* with a directory, the one it is in.
Ancestors ==
    [p \in Path |->
        {a \in Path : \A P \in SUBSET Path :
            (\A q \in P \cup {p} : Parent[q] \in P \cup {Root}) => a \in P}]
Above(p) == Ancestors[p]
Depth(p) == Cardinality(Above(p))
Descendants == [p \in Path |-> {q \in Path : p = q \/ p \in Above(q)}]
Subtree(p) == Descendants[p]
Covers(P, q) == \E p \in P : q \in Subtree(p)

\* Listings are sorted, and ties among deep or shallow paths broken by name.
First(P) == CHOOSE p \in P : TRUE
Deepest(P) == First({p \in P : \A q \in P : Depth(q) <= Depth(p)})
Shallowest(P) == First({p \in P : \A q \in P : Depth(p) <= Depth(q)})

Exists(t, p) == t[p].kind # "none"
IsDir(t, p) == IF p = Root THEN TRUE ELSE t[p].kind = "dir"
Children(t, p) == {q \in Path : Parent[q] = p /\ Exists(t, q)}

\* The mtime of the directory above changes with every entry made or removed.
Touched(t, p) == IF Parent[p] = Root THEN t ELSE [t EXCEPT ![Parent[p]].ver = 0]
Without(t, p) == Touched([q \in Path |-> IF q \in Subtree(p) THEN Absent ELSE t[q]], p)
With(t, p, node) == Touched([t EXCEPT ![p] = node], p)

NewDir == [kind |-> "dir", ver |-> 0, look |-> 0, mode |-> 0]

\* create_dir_all: fails when something else is in the way.
CanMake(t, P) == \A p \in P : t[p].kind \in {"none", "dir"}
Made(t, P) ==
    LET new == {p \in P : ~Exists(t, p)}
    IN  [p \in Path |-> IF p \in new THEN NewDir
                        ELSE IF t[p].kind = "dir" /\ \E q \in new : Parent[q] = p
                             THEN [t[p] EXCEPT !.ver = 0] ELSE t[p]]

----------------------------------------------------------------------------
(* Comparison. *)

\* entries_match_with: directories and links do not depend on the window.
EntriesMatch(a, b, exact) ==
    /\ a.kind = b.kind
    /\ CASE a.kind = "file" -> IF exact THEN a.ver = b.ver ELSE a.look = b.look
         [] a.kind = "link" -> a.ver = b.ver
         [] a.kind = "dir"  -> a.ver = b.ver
         [] OTHER -> TRUE

EntryModeDiffers(a, b) == a.kind = "file" /\ b.kind = "file" /\ a.mode # b.mode

Mismatch(S, D) == {p \in Path : Exists(S, p) /\ Exists(D, p) /\ S[p].kind # D[p].kind}

\* Mutant: an entry of another type is not among those to be copied.
ToCopySameKind(S, D, exact) ==
    {p \in Path : S[p].kind \in {"file", "link"} /\ (Exists(D, p) => S[p].kind = D[p].kind)
                  /\ ~EntriesMatch(S[p], D[p], exact)}
ToCopy(S, D, exact) ==
    {p \in Path : S[p].kind \in {"file", "link"} /\ ~EntriesMatch(S[p], D[p], exact)}

ModeFixes(S, D, exact) ==
    {p \in Path : EntriesMatch(S[p], D[p], exact) /\ EntryModeDiffers(S[p], D[p])}

\* Event paths that are gone at the source are removed even when the walk of
\* the destination did not list them.
Extras(S, D, rel) ==
    IF mirror THEN {p \in Path \ Excluded : ~Exists(S, p) /\ (Exists(D, p) \/ p \in rel)} ELSE {}

ByEvents(r) == r.variant \in {"push_events", "local_events"}

----------------------------------------------------------------------------
(* The recycle bin. *)

\* move_to_trash: the entry goes to its own path below the trash of the cycle;
\* what is there already is deleted.
CanTrash(p) == Exists(dst, p) => CanMake(trash, Above(p))
\* Mutant: the directories above are not made in the trash.
TrashedBare(p) == [q \in Path |-> IF q \in Subtree(p) THEN dst[q] ELSE trash[q]]
Trashed(p) == [q \in Path |-> IF q \in Subtree(p) THEN dst[q] ELSE Made(trash, Above(p))[q]]
Discarded(p) == {<<q, dst[q]>> : q \in {q \in Subtree(p) : dst[q].kind \in {"file", "link"}}}

\* What becomes of p's tree at the destination is t.
ToTrash(p, t) == dst' = t /\ trash' = Trashed(p) /\ removed' = removed \cup Discarded(p)

----------------------------------------------------------------------------
(* The pass. *)

NoTree == [p \in Path |-> Absent]
NoPool == [w \in Worker |-> [pc |-> "loop", item |-> {}, label |-> Batch, mem |-> 0]]
Idle == [pc |-> "idle", variant |-> "none", rel |-> {}, plan |-> <<>>, queue |-> <<>>, listed |-> {},
         S |-> NoTree, D |-> NoTree, todo |-> {}, work |-> {}, changing |-> {}, failed |-> {},
         fatal |-> FALSE, result |-> "none"]

File(v) == [kind |-> "file", ver |-> v, look |-> v, mode |-> 0]
Dir(v) == [kind |-> "dir", ver |-> v, look |-> 0, mode |-> 0]

\* Trees of files and of directories with room for something, excluded files
\* included; the destination has been synchronised or holds whatever was there
\* before.
Trees(v) ==
    {t \in [Path -> {Absent, File(v), Dir(v)}] :
        \A p \in Path : /\ Exists(t, p) => IsDir(t, Parent[p])
                        /\ IsDir(t, p) => Subtree(p) # {p}
                        /\ p \in Excluded /\ IsDir(t, Parent[p]) => t[p].kind = "file"}

Init ==
    /\ src \in Trees(1)
    /\ mirror \in BOOLEAN
    /\ left \in Bound
    /\ needFull = left.foreign
    /\ IF needFull THEN dst \in Trees(2) ELSE dst = src
    /\ dirty = {} /\ fresh = {} /\ changed = {} /\ removed = {}
    /\ run = Idle /\ pool = NoPool /\ trash = NoTree
    /\ clock = 2

\* The paths to be looked at, without those an ancestor's walk visits anyway.
Uncovered(rel) == {p \in rel : ~ \E q \in rel : p # q /\ p \in Subtree(q)} \ Excluded

\* A pass after a failed one belongs to the same cycle and uses the same trash;
\* any other takes up the events recorded since.
Begin(v) ==
    LET events == v \in {"push_events", "local_events"}
        taken == IF run.result = "err" THEN dirty ELSE fresh
    IN  /\ run.pc = "idle"
        /\ events => taken # {} /\ ~needFull
        /\ run' = [Idle EXCEPT !.pc = "walk", !.variant = v, !.plan = Phases[v],
                               !.rel = IF events THEN taken ELSE {},
                               !.queue = IF events THEN <<>> ELSE <<Root>>,
                               !.listed = IF events THEN Uncovered(taken) ELSE {}]
        /\ dirty' = taken
        /\ IF run.result = "err" THEN UNCHANGED <<fresh, trash, removed>>
           ELSE fresh' = {} /\ trash' = NoTree /\ removed' = {}
        /\ UNCHANGED <<src, dst, mirror, needFull, pool, changed, clock, left>>

Fail == run' = [run EXCEPT !.pc = "done", !.result = "err"]

\* for_each_breadth_first_snapshot_path lists a directory and then looks at the
\* entries one by one; collect_snapshot_path starts it at the event paths, and
\* only those may be gone.
WalkDir ==
    /\ run.pc = "walk" /\ run.listed = {} /\ run.queue # <<>>
    /\ IF IsDir(src, Head(run.queue))
       THEN run' = [run EXCEPT !.listed = Children(src, Head(run.queue)) \ Excluded, !.queue = Tail(@)]
       ELSE Fail
    /\ UNCHANGED <<passVars, dst, pool, trash, removed>>

WalkEntry(p) ==
    /\ run.pc = "walk" /\ run.listed # {} /\ p = First(run.listed)
    /\ IF Exists(src, p)
       THEN run' = [run EXCEPT !.listed = @ \ {p}, !.S[p] = src[p],
                               !.queue = IF src[p].kind = "dir" THEN Append(@, p) ELSE @]
       ELSE IF p \in run.rel /\ \A q \in Above(p) : src[q].kind \in {"none", "dir"}
            THEN run' = [run EXCEPT !.listed = @ \ {p}]
            ELSE Fail
    /\ UNCHANGED <<passVars, dst, pool, trash, removed>>

\* What a phase has to do.  Small files that are not sent as a delta ride in one
\* batch when they are pushed.
Delta(r, p) ==
    /\ r.variant \in {"push_full", "push_events"}
    /\ r.S[p].kind = "file" /\ r.D[p].kind = "file" /\ r.S[p].look # r.D[p].look
PlanPushWork(r) ==
    LET P == ToCopy(r.S, r.D, ByEvents(r))
        small == {p \in P : /\ r.variant \in {"push_full", "push_events"}
                            /\ r.S[p].kind = "file" /\ ~Delta(r, p)}
    IN  {{p} : p \in P \ small} \cup (IF small = {} THEN {} ELSE {small})

Todo(r, phase) ==
    CASE phase = "mismatch" -> Mismatch(r.S, r.D)
      [] phase = "remove"   -> Mismatch(r.S, r.D) \cup Extras(r.S, r.D, r.rel)
      [] phase = "extras"   -> Extras(r.S, r.D, r.rel)
      [] phase = "mkdir"    -> {p \in Path : r.S[p].kind = "dir"}
      [] phase = "mkover"   -> {p \in Path : /\ r.S[p].kind = "dir"
                                             /\ r.variant = "reconcile" => r.D[p].kind # "dir"}
      [] OTHER -> {}

\* The pass enters its next phase.
Onward(r) ==
    [r EXCEPT !.pc = Head(r.plan), !.plan = Tail(@), !.todo = Todo(r, Head(r.plan)),
              !.work = IF Head(r.plan) = "copy" THEN PlanPushWork(r) ELSE {}]

\* Nobody else writes to the destination: its walk is one step.
ScanDst ==
    /\ run.pc = "walk" /\ run.listed = {} /\ run.queue = <<>>
    /\ IF \E p \in Uncovered(run.rel) : \E q \in Above(p) : dst[q].kind \notin {"none", "dir"}
       THEN Fail
       ELSE run' = Onward([run EXCEPT !.D =
                        [p \in Path |-> IF ByEvents(run) /\ ~Covers(run.rel, p) THEN Absent ELSE dst[p]]])
    /\ UNCHANGED <<passVars, dst, pool, trash, removed>>

\* A phase that has nothing left to do.
PhaseDone ==
    /\ run.pc \in {"mismatch", "remove", "extras", "mkdir", "mkover"} /\ run.todo = {}
    /\ run' = Onward(run)
    /\ UNCHANGED <<passVars, dst, pool, trash, removed>>

\* transfer_remove_paths and the loops over move_to_trash: deepest paths first.
RemoveOne(p) ==
    /\ run.pc \in {"mismatch", "remove", "extras"} /\ p \in run.todo /\ p = Deepest(run.todo)
    /\ IF CanTrash(p)
       THEN /\ IF Exists(dst, p) THEN ToTrash(p, Without(dst, p)) ELSE UNCHANGED <<dst, trash, removed>>
            /\ run' = [run EXCEPT !.todo = @ \ {p}]
       ELSE Fail /\ UNCHANGED <<dst, trash, removed>>
    /\ UNCHANGED <<passVars, pool>>

\* transfer_prepare_dirs: parents first.
MakeDir(p) ==
    /\ run.pc = "mkdir" /\ p \in run.todo /\ p = Shallowest(run.todo)
    /\ IF CanMake(dst, Above(p) \cup {p})
       THEN dst' = Made(dst, Above(p) \cup {p}) /\ run' = [run EXCEPT !.todo = @ \ {p}]
       ELSE Fail /\ UNCHANGED dst
    /\ UNCHANGED <<passVars, pool, trash, removed>>

\* sync_destination: what blocks a directory goes to the trash first.
MakeDirOver(p) ==
    LET blocked == Exists(dst, p) /\ dst[p].kind # "dir"
        cleared == IF blocked THEN Without(dst, p) ELSE dst
    IN  /\ run.pc = "mkover" /\ p \in run.todo /\ p = Shallowest(run.todo)
        /\ IF (blocked => CanTrash(p)) /\ CanMake(cleared, Above(p) \cup {p})
           THEN /\ IF blocked THEN ToTrash(p, Made(cleared, {p}))
                   ELSE dst' = Made(dst, Above(p) \cup {p}) /\ UNCHANGED <<trash, removed>>
                /\ run' = [run EXCEPT !.todo = @ \ {p}]
           ELSE Fail /\ UNCHANGED <<dst, trash, removed>>
        /\ UNCHANGED <<passVars, pool>>

----------------------------------------------------------------------------
(* The copy workers (push_entries_parallel, copy_entries_parallel). *)

Used == MapThenSumSet(LAMBDA w : pool[w].mem, Worker)
Stopped == [pc |-> "off", item |-> {}, label |-> Batch, mem |-> 0]
Looping == [Stopped EXCEPT !.pc = "loop"]

Claim(w) ==
    /\ run.pc = "copy" /\ pool[w].pc = "loop"
    /\ IF run.fatal \/ run.work = {}
       THEN pool' = [pool EXCEPT ![w] = Stopped] /\ UNCHANGED run
       ELSE LET item == First(run.work)
            IN  /\ run' = [run EXCEPT !.work = @ \ {item}]
                /\ pool' = [pool EXCEPT ![w] =
                    [pc |-> IF \E p \in item : Delta(run, p) THEN "memory" ELSE "send", item |-> item, mem |-> 0,
                     label |-> IF Cardinality(item) > 1 THEN Batch ELSE CHOOSE p \in item : TRUE]]
    /\ UNCHANGED <<passVars, dst, trash, removed>>

\* Mutant: a request is let in as soon as there is room left, whatever its size.
AcquireMemoryEager(w) ==
    LET need == Weight[First(pool[w].item)]
    IN  /\ run.pc = "copy" /\ pool[w].pc = "memory"
        /\ Used <= Budget
        /\ pool' = [pool EXCEPT ![w].pc = "send", ![w].mem = need]
        /\ UNCHANGED <<passVars, run, dst, trash, removed>>
\* acquire_transfer_memory: a request beyond the budget runs alone.
AcquireMemory(w) ==
    LET need == Weight[First(pool[w].item)]
    IN  /\ run.pc = "copy" /\ pool[w].pc = "memory"
        /\ Used = 0 \/ Used + need <= Budget
        /\ pool' = [pool EXCEPT ![w].pc = "send", ![w].mem = need]
        /\ UNCHANGED <<passVars, run, dst, trash, removed>>

\* The worker goes on with the rest of its item.
Rest(w, p) == IF pool[w].item = {p} THEN Looping ELSE [pool[w] EXCEPT !.item = @ \ {p}]
Sent(w, p) == pool' = [pool EXCEPT ![w] = Rest(w, p)]

\* A failure is collected; at the cap the last one becomes the pool's error.
Failed(w, label, after) ==
    IF Cardinality(run.failed \cup {label}) >= MaxFailed
    THEN run' = [run EXCEPT !.fatal = TRUE] /\ pool' = [pool EXCEPT ![w] = Stopped]
    ELSE run' = [run EXCEPT !.failed = @ \cup {label}] /\ after

\* copy_file, copy_symlink and finish_received_file: a file must still be the
\* version of the snapshot after it was read, a link must have been when it was.
Publish(w, p) ==
    LET blocked == Exists(dst, p) /\ dst[p].kind # run.S[p].kind
        room == Made(IF blocked THEN Without(dst, p) ELSE dst, Above(p))
    IN  /\ run.pc = "copy" /\ pool[w].pc = "send" /\ p \in pool[w].item
        /\ src[p].kind = run.S[p].kind /\ src[p].ver = run.S[p].ver
        /\ IF CanMake(dst, Above(p)) /\ (blocked => CanTrash(p))
           THEN /\ IF blocked THEN ToTrash(p, With(room, p, run.S[p]))
                   ELSE dst' = With(room, p, run.S[p]) /\ UNCHANGED <<trash, removed>>
                /\ Sent(w, p) /\ UNCHANGED run
           ELSE Failed(w, p, Sent(w, p)) /\ UNCHANGED <<dst, trash, removed>>
        /\ UNCHANGED passVars

\* The source changed under the copy; a source that is gone, or of another type
\* when it is opened, is a failure.
SourceChanging(w, p) ==
    /\ run.pc = "copy" /\ pool[w].pc = "send" /\ p \in pool[w].item
    /\ Exists(src, p) /\ src[p].ver # run.S[p].ver
    /\ src[p].kind # run.S[p].kind => run.S[p].kind = "file"
    /\ run' = [run EXCEPT !.changing = @ \cup {p}] /\ Sent(w, p)
    /\ UNCHANGED <<passVars, dst, trash, removed>>
SourceGone(w, p) ==
    /\ run.pc = "copy" /\ pool[w].pc = "send" /\ p \in pool[w].item
    /\ src[p].kind # run.S[p].kind
    /\ Failed(w, p, Sent(w, p))
    /\ UNCHANGED <<passVars, dst, trash, removed>>

\* Every attempt of with_transfer_retry failed, or the connection is lost.
SendFails(w) ==
    /\ run.pc = "copy" /\ pool[w].pc = "send" /\ left.faults > 0
    /\ \/ Failed(w, pool[w].label, pool' = [pool EXCEPT ![w] = Looping])
       \/ run' = [run EXCEPT !.fatal = TRUE] /\ pool' = [pool EXCEPT ![w] = Stopped]
    /\ left' = [left EXCEPT !.faults = @ - 1]
    /\ UNCHANGED <<src, dst, mirror, dirty, fresh, needFull, trash, removed, changed, clock>>

PoolEnd ==
    /\ run.pc = "copy" /\ \A w \in Worker : pool[w].pc = "off"
    /\ IF run.fatal THEN Fail ELSE run' = Onward(run)
    /\ pool' = NoPool
    /\ UNCHANGED <<passVars, dst, trash, removed>>

----------------------------------------------------------------------------
(* The rest of the pass. *)

\* transfer_set_modes.
FixModes ==
    /\ run.pc = "modes"
    /\ dst' = [p \in Path |-> IF p \in ModeFixes(run.S, run.D, ByEvents(run)) /\ Exists(dst, p)
                              THEN [dst[p] EXCEPT !.mode = run.S[p].mode] ELSE dst[p]]
    /\ run' = Onward(run)
    /\ UNCHANGED <<passVars, pool, trash, removed>>

\* set_dir_mtimes.
StampDirs ==
    /\ run.pc = "stamp"
    /\ dst' = [p \in Path |-> IF run.S[p].kind = "dir" /\ Exists(dst, p)
                              THEN [dst[p] EXCEPT !.ver = run.S[p].ver] ELSE dst[p]]
    /\ run' = Onward(run)
    /\ UNCHANGED <<passVars, pool, trash, removed>>

\* sync_changed_entries_local gives up before the mirror when a copy failed.
CheckFailed ==
    /\ run.pc = "failed"
    /\ IF run.failed # {} THEN Fail ELSE run' = Onward(run)
    /\ UNCHANGED <<passVars, dst, pool, trash, removed>>

\* verify_copied_entries looks at what was copied, verify_snapshot_entries at
\* everything below the event paths.
Verify ==
    LET skip == run.changing \cup run.failed
        good == IF run.pc = "copied"
                THEN \A p \in ToCopy(run.S, run.D, FALSE) \ skip : EntriesMatch(run.S[p], dst[p], TRUE)
                ELSE \A p \in Path \ skip :
                       /\ Exists(run.S, p) => EntriesMatch(run.S[p], dst[p], TRUE)
                       /\ mirror /\ p \notin Excluded /\ Covers(run.rel, p) /\ Exists(dst, p) => Exists(run.S, p)
    IN  /\ run.pc \in {"copied", "verify"}
        /\ IF good THEN run' = Onward(run) ELSE Fail
        /\ UNCHANGED <<passVars, dst, pool, trash, removed>>

\* Mutant: files that failed are taken for files that will come with the next pass.
IntoResultTolerant ==
    /\ run.pc = "end"
    /\ run' = [run EXCEPT !.pc = "done", !.result = IF run.changing # {} THEN "changing" ELSE "ok"]
    /\ UNCHANGED <<passVars, dst, pool, trash, removed>>
\* TransferOutcome::into_result.
IntoResult ==
    /\ run.pc = "end"
    /\ run' = [run EXCEPT !.pc = "done",
                          !.result = IF run.failed # {} THEN "err"
                                     ELSE IF run.changing # {} THEN "changing" ELSE "ok"]
    /\ UNCHANGED <<passVars, dst, pool, trash, removed>>

\* The offset moves; a pass that only met changing files hands them to the next
\* cycle as events (record_destination_failure).
Settle ==
    /\ run.pc = "done"
    /\ run' = [Idle EXCEPT !.result = run.result]
    /\ IF run.result = "err" THEN UNCHANGED <<dirty, fresh, needFull>>
       ELSE /\ dirty' = {} /\ needFull' = FALSE
            /\ fresh' = fresh \cup run.changing
    /\ changed' = {}
    /\ UNCHANGED <<src, dst, mirror, pool, trash, removed, clock, left>>

\* A crash, a cancel or an error of a request between two steps.
Abort ==
    /\ run.pc \notin {"idle", "done"} /\ left.faults > 0
    /\ Fail /\ pool' = NoPool
    /\ left' = [left EXCEPT !.faults = @ - 1]
    /\ UNCHANGED <<src, dst, mirror, dirty, fresh, needFull, trash, removed, changed, clock>>

----------------------------------------------------------------------------
(* Users. *)

\* A tree is replaced by one entry, a file rewritten within the modify window,
\* or its mode changed.
Edit(p) ==
    LET v == clock + 1
        node(k) == [kind |-> k, ver |-> v, look |-> v, mode |-> 0]
        put(n) == LET t == With(Without(src, p), p, n)
                  IN  IF Parent[p] = Root THEN t ELSE [t EXCEPT ![Parent[p]].ver = v]
    IN  /\ left.edits > 0 /\ IsDir(src, Parent[p])
        /\ \/ \E k \in {"file", "link", "dir"} : src' = put(node(k))
           \/ Exists(src, p) /\ src' = put(Absent)
           \/ src[p].kind = "file" /\ src' = [src EXCEPT ![p].ver = v]
           \/ src[p].kind = "file" /\ src' = [src EXCEPT ![p].mode = 1 - @]
        /\ clock' = v
        /\ fresh' = IF p \in Excluded THEN fresh ELSE fresh \cup {p}
        /\ changed' = IF run.pc = "idle" THEN {} ELSE changed \cup Subtree(p)
        /\ left' = [left EXCEPT !.edits = @ - 1]
        /\ UNCHANGED <<dst, mirror, dirty, needFull, run, pool, trash, removed>>

Work(w) ==
    \/ Claim(w) \/ AcquireMemory(w)
    \/ \E p \in Path : Publish(w, p) \/ SourceChanging(w, p) \/ SourceGone(w, p)

Step ==
    \/ WalkDir \/ ScanDst \/ PhaseDone
    \/ \E p \in Path : WalkEntry(p) \/ RemoveOne(p) \/ MakeDir(p) \/ MakeDirOver(p)
    \/ \E w \in Worker : Work(w)
    \/ PoolEnd \/ FixModes \/ StampDirs \/ CheckFailed \/ Verify \/ IntoResult \/ Settle

Next ==
    \/ \E v \in left.ways : Begin(v)
    \/ Step
    \/ \E w \in Worker : SendFails(w)
    \/ Abort
    \/ \E p \in Path : Edit(p)

Spec == Init /\ [][Next]_vars

\* A pass runs on, and the scheduler starts another while there is work.
FairSpec == Spec /\ WF_vars(Step) /\ WF_vars(\E v \in left.ways : Begin(v))

----------------------------------------------------------------------------
(* Properties. *)

Tree(t) == \A p \in Path : Exists(t, p) => IsDir(t, Parent[p])

\* The trees are trees, and a pass is in one of its phases.
TypeOK ==
    /\ Tree(src) /\ Tree(dst) /\ Tree(trash)
    /\ dirty \cup fresh \subseteq Path /\ {mirror, needFull} \subseteq BOOLEAN
    /\ run.pc \in {"idle", "walk", "done"} \cup UNION {{Phases[v][i] : i \in DOMAIN Phases[v]} : v \in DOMAIN Phases}
    /\ run.failed \subseteq Path \cup {Batch} /\ run.changing \subseteq Path
    /\ \A w \in Worker : pool[w].pc \in {"off", "loop", "memory", "send"} /\ pool[w].mem \in Nat

InSync(p) ==
    IF Exists(src, p)
    THEN /\ src[p].kind = dst[p].kind
         /\ src[p].kind = "file" => src[p].look = dst[p].look /\ src[p].mode = dst[p].mode
         /\ src[p].kind = "link" => src[p].ver = dst[p].ver
    ELSE mirror => ~Exists(dst, p)

\* Once a destination has been reconciled, whatever differs there lies at or
\* below a path some event of an unverified cycle names: whichever passes fail,
\* are cut off, retried or meet changing files, no drift goes unannounced.
Tracked ==
    ~needFull => \A p \in Path \ Excluded : Covers(dirty \cup fresh, p) \/ InSync(p)

\* A pass that reports success made every path equal that no user touched since
\* it began: all paths for a whole-tree pass, those below the event paths, and to
\* the exact version, for a pass from events; directory times included.
PassCorrect ==
    run.pc = "done" /\ run.result = "ok" =>
        \A p \in Path \ (Excluded \cup changed) :
            (ByEvents(run) => Covers(run.rel, p)) =>
                /\ InSync(p)
                /\ ByEvents(run) /\ src[p].kind = "file" => dst[p].ver = src[p].ver
                /\ src[p].kind = "dir" /\ (\A q \in changed : Parent[q] # p) => dst[p].ver = src[p].ver

\* Buffers of concurrent deltas stay within the budget, unless one file alone
\* exceeds it (acquire_transfer_memory).
MemoryBounded ==
    Used <= Budget \/ \E w \in Worker : pool[w].mem = Used

\* When users stop, the destination becomes and stays equal to the source,
\* whatever a failed pass left behind.
Converges == <>[](\A p \in Path \ Excluded : InSync(p))

\* What the mirror or a change of type takes away can be found in the trash.
TrashKeepsRemoved == \A r \in removed : trash[r[1]] = r[2]
=============================================================================
