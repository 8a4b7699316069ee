----------------------------- MODULE Delegation -----------------------------
(***************************************************************************)
(* Delegation of source groups between machines.  A source group lives in  *)
(* the configuration file of its owner (the controller) and, when its      *)
(* source lies on another machine, also in the file of that machine (the   *)
(* home), which executes it and marks it managed_by the owner.             *)
(*                                                                         *)
(* Saving on the owner pushes, machine by machine, the whole list of its   *)
(* groups; a push that failed is repeated by a background loop.  Deleting  *)
(* a managed group on its home asks the owner first, whose handler deletes *)
(* it with a save (and a push) of its own.  The file of a machine is       *)
(* replaced under a lock; what a save compares and what a push carries is  *)
(* read outside it.                                                        *)
(*                                                                         *)
(* A group is abstracted to the path v of its one destination and to the   *)
(* managed_by mark; at[s] is the path its verified offset is about.        *)
(* Machine lists are abstracted to near[n], the machines whose recorded    *)
(* endpoint is right.                                                      *)
(***************************************************************************)
EXTENDS Integers, FiniteSets, Functions

CONSTANTS
    Node,       \* machines running the program
    Src,        \* ids of source groups
    Owner,      \* [Src -> Node]: where the user creates the group
    Home,       \* [Src -> Node]: the machine the source lies on
    Initial,    \* the groups that exist, and are delegated, at the start
    Ver,        \* destination paths
    Tries,      \* attempts of the repush loop (30 in the code)
    Bounds      \* how often the environment acts, by kind: one box per start

Kinds == {"edit", "cut", "late", "crash", "rename", "pass"}
Threads == {"user", "peer", "loop"}

ASSUME PlacesAssumption == /\ Owner \in [Src -> Node]
                           /\ Home \in [Src -> Node]
                           /\ Initial \subseteq Src
ASSUME VerAssumption == Ver \subseteq Nat \ {0} /\ 1 \in Ver
ASSUME BoundAssumption == Bounds \subseteq [Kinds -> Nat] /\ Tries \in Nat \ {0}

VARIABLES
    conf,       \* conf[n]: the configuration file of n, id -> [v, by]
    at,         \* at[s]: path of the verified offset at the home, 0 if none
    id,         \* id[n]: which discovery id n has (host, port, program path)
    near,       \* near[n]: machines n can reach at the endpoint it recorded
    job,        \* job[k][n]: a thread of n inside save_config or a repush
    late,       \* pushes whose caller timed out, still to be executed
    left,       \* left[k]: remaining environment steps of kind k
    rev,        \* ghost: number of saves of n
    seen,       \* ghost: seen[m][n]: newest save of n that reached m
    owed,       \* ghost: owed[n]: machines still to be told of a save of n
    born,       \* ghost: groups some user created
    doomed,     \* ghost: groups some user set out to delete
    gone,       \* ghost: <<s, n>>: the deletion of s asked for on n was saved
    moved,      \* ghost: groups whose path changed and offset was not reset
    excuse      \* ghost: the windows of the code that were hit

files == <<conf, at>>
net   == <<id, near, late>>
ghosts == <<rev, seen, owed, born, doomed, gone, moved, excuse>>
vars == <<conf, at, id, near, job, late, left, ghosts>>

-----------------------------------------------------------------------------
(* Files, identities and what a push carries.                              *)

NoId == <<>>
NoFile == [s \in {} |-> [v |-> 0, by |-> NoId]]
Without(f, S) == Restrict(f, DOMAIN f \ S)
Over(f, g) == [x \in DOMAIN f \cup DOMAIN g |-> IF x \in DOMAIN f THEN f[x] ELSE g[x]]

\* local_health(..).id: made of host, port and program path
Id(n) == <<n, id[n]>>

\* the remote machines some group of the file runs on
Remote(f, n) == {Home[s] : s \in DOMAIN f} \ {n}

\* Mutant: the groups are handed over without the managed_by mark
GroupsUnmarked(f, n, m) ==
    [s \in {x \in DOMAIN f : Home[x] = m} |-> [v |-> f[s].v, by |-> NoId]]

\* delegated_groups_for_machine: what n tells m to execute
Groups(f, n, m) ==
    [s \in {x \in DOMAIN f : Home[x] = m} |-> [v |-> f[s].v, by |-> Id(n)]]

\* Mutant: only the machines of the new file are told
TargetsOfNew(prev, f, n) == Remote(f, n)

\* source_machines of propagate_remote_source_groups: the machines of the
\* previous file too, so that the last group of a machine can be withdrawn
Targets(prev, f, n) == Remote(prev, n) \cup Remote(f, n)

\* Mutant: deletions of managed groups are not reported
RemovedOwn(cur, next) ==
    Restrict([s \in DOMAIN cur |-> cur[s].by],
             {s \in DOMAIN cur \ DOMAIN next : cur[s].by = NoId})

\* removed_managed_entries: managed groups the pending file lacks
Removed(cur, next) ==
    Restrict([s \in DOMAIN cur |-> cur[s].by],
             {s \in DOMAIN cur \ DOMAIN next : cur[s].by # NoId})

\* Mutant: new groups are taken for moved ones
RepathedNew(prev, next) == DOMAIN next \ DOMAIN prev

\* the groups whose destination changes its path from one file to the other
Repathed(prev, next) ==
    {s \in DOMAIN prev \cap DOMAIN next : prev[s].v # next[s].v}

\* Mutant: the pushed list replaces the whole list
KeptNothing(f, p) == NoFile

\* apply_delegated_source_groups: replace what this controller manages
Kept(f, p) == Restrict(f, {s \in DOMAIN f : f[s].by # p.by})
Merged(f, p) == Over(p.groups, Kept(f, p))

\* AppConfig::validate refuses a second group with the same id
Clashes(f, p) == DOMAIN Kept(f, p) \cap DOMAIN p.groups # {}

-----------------------------------------------------------------------------
(* Threads.                                                                *)

Idle == [pc |-> "idle", base |-> NoFile, next |-> NoFile, prev |-> NoFile,
         ask |-> NoFile, todo |-> {}, rev |-> 0, failed |-> FALSE, tries |-> 0,
         src |-> "none", from |-> "none", reporter |-> NoId]

At(k, n, pc) == job[k][n].pc = pc
Set(k, n, j) == [job EXCEPT ![k][n] = j]

Init ==
    /\ conf = [n \in Node |->
                 [s \in {x \in Initial : n \in {Owner[x], Home[x]}} |->
                    [v |-> 1, by |-> IF n = Owner[s] THEN NoId
                                                     ELSE <<Owner[s], 0>>]]]
    /\ at = [s \in Src |-> IF s \in Initial THEN 1 ELSE 0]
    /\ id = [n \in Node |-> 0]
    /\ near = [n \in Node |-> Node \ {n}]
    /\ job = [k \in Threads |-> [n \in Node |-> Idle]]
    /\ late = {}
    /\ left \in Bounds
    /\ rev = [n \in Node |-> 0]
    /\ seen = [m \in Node |-> [n \in Node |-> 0]]
    /\ owed = [n \in Node |-> {}]
    /\ born = Initial /\ doomed = {} /\ gone = {} /\ moved = {} /\ excuse = {}

Spend(k) == left[k] > 0 /\ left' = [left EXCEPT ![k] = @ - 1]

\* thread k of n waits for the peer thread of m to answer
Calls(k, n, m) ==
    /\ k \in {"user", "peer"} /\ n # m /\ At(k, n, "wait")
    /\ job["peer"][m].from = k /\ job["peer"][m].reporter[1] = n

\* what the answer of a peer thread does to the save that waits for it
Answered(j, answer) ==
    [j EXCEPT !.pc = IF answer = "refused" THEN "refused"
                     ELSE IF DOMAIN j.ask = {} THEN "write" ELSE "ask"]

\* thread k of n ends; a peer thread answers the save that waits for it
Ended(k, n, answer) ==
    [kk \in Threads |-> [x \in Node |->
        IF kk = k /\ x = n THEN Idle
        ELSE IF k = "peer" /\ Calls(kk, x, n) THEN Answered(job[kk][x], answer)
        ELSE job[kk][x]]]

\* a handler whose caller is gone goes on for nobody
Unheard(j) == [j EXCEPT !.from = "none"]

-----------------------------------------------------------------------------
(* save_config, by a user or by the handler of a peer's removal.           *)

\* the files a user can make of the one the page shows
Edits(n) ==
    LET own == {s \in DOMAIN conf[n] : Owner[s] = n} IN
         {Over([x \in {s} |-> [v |-> 1, by |-> NoId]], conf[n]) :
            s \in {x \in Src \ born : Owner[x] = n}}
    \cup (UNION {{[conf[n] EXCEPT ![s].v = v] : v \in Ver} : s \in own})
    \cup {Without(conf[n], {s}) : s \in DOMAIN conf[n]}

\* The page loads the file and the user edits it; save_config is called with
\* the result at any later time.
Form(n) ==
    /\ At("user", n, "idle") /\ Spend("edit")
    /\ \E next \in Edits(n) \ {conf[n]} :
         /\ job' = Set("user", n, [Idle EXCEPT !.pc = "compare",
                                               !.base = conf[n], !.next = next])
         /\ doomed' = doomed \cup (DOMAIN conf[n] \ DOMAIN next)
    /\ UNCHANGED <<files, net, rev, seen, owed, born, gone, moved, excuse>>

\* notify_controllers_of_removed_entries reads the file outside the lock: a
\* managed group that arrived after the page was loaded looks deleted.
Compare(k, n) ==
    /\ At(k, n, "compare")
    /\ LET removed == Removed(conf[n], job[k][n].next) IN
         /\ job' = Set(k, n, [job[k][n] EXCEPT
                       !.ask = removed,
                       !.pc = IF DOMAIN removed = {} THEN "write" ELSE "ask"])
         /\ excuse' = excuse \cup
              IF DOMAIN removed \subseteq DOMAIN job[k][n].base
              THEN {} ELSE {"stale"}
    /\ UNCHANGED <<files, net, left, rev, seen, owed, born, doomed, gone, moved>>

\* resolve_machine_by_health_id: the reachable machine with that live id
Controllers(n, by) == {m \in near[n] : Id(m) = by}

\* One entry after the other: the controller is asked to remove it; none that
\* answers fails the save.
Ask(k, n) ==
    /\ At(k, n, "ask")
    /\ \E s \in DOMAIN job[k][n].ask :
         LET j == job[k][n]
             ms == {m \in Controllers(n, j.ask[s]) : At("peer", m, "idle")} IN
         IF ms = {} THEN job' = Ended(k, n, "refused")
         ELSE \E m \in ms :
                job' = [job EXCEPT
                    ![k][n] = [j EXCEPT !.pc = "wait",
                                        !.ask = Without(j.ask, {s})],
                    !["peer"][m] = [Idle EXCEPT !.pc = "load", !.src = s,
                                        !.from = k, !.reporter = Id(n)]]
    /\ UNCHANGED <<files, net, left, ghosts>>

\* a refused removal fails the save
Refused(k, n) ==
    /\ At(k, n, "refused")
    /\ job' = Ended(k, n, "refused")
    /\ UNCHANGED <<files, net, left, ghosts>>

\* The caller gives up after 15 seconds and its save fails; the handler goes
\* on.
AskTimesOut(k, n) ==
    /\ At(k, n, "wait") /\ Spend("late")
    /\ job' = LET after == Ended(k, n, "refused") IN
              [kk \in Threads |-> [x \in Node |->
                 IF kk = "peer" /\ Calls(k, n, x) THEN Unheard(after[kk][x])
                 ELSE after[kk][x]]]
    /\ UNCHANGED <<files, net, ghosts>>

\* remove_delegated_entry loads the file without the lock; a group that is
\* not there, or not delegated, is already gone.
PeerLoad(m) ==
    /\ At("peer", m, "load")
    /\ LET j == job["peer"][m] IN
       IF j.src \in DOMAIN conf[m] /\ Home[j.src] # m
       THEN job' = Set("peer", m, [j EXCEPT !.pc = "health", !.base = conf[m]])
       ELSE job' = Ended("peer", m, "ok")
    /\ UNCHANGED <<files, net, left, ghosts>>

\* It asks the executing machine for its live id, then saves the file it
\* loaded before without the group.
PeerHealth(m) ==
    /\ At("peer", m, "health")
    /\ LET j == job["peer"][m] IN
       IF Home[j.src] \in near[m] /\ Id(Home[j.src]) = j.reporter
       THEN job' = Set("peer", m, [j EXCEPT !.pc = "compare",
                                      !.next = Without(j.base, {j.src})])
       ELSE job' = Ended("peer", m, "refused")
    /\ UNCHANGED <<files, net, left, ghosts>>

\* an entry of the file that changed since base is overwritten by next
LostUpdate(cur, base, next) ==
    \E s \in Src :
        LET Of(f) == IF s \in DOMAIN f THEN f[s].v ELSE 0 IN
        Of(cur) # Of(base) /\ Of(next) # Of(cur)

\* Under config_write_lock the file is read again (only its machine list is
\* kept) and replaced.
Write(k, n) ==
    /\ At(k, n, "write")
    /\ LET j == job[k][n] IN
         /\ conf' = [conf EXCEPT ![n] = j.next]
         /\ job' = Set(k, n, [j EXCEPT !.pc = "reset", !.prev = conf[n],
                                       !.rev = rev[n] + 1])
         /\ gone' = IF k = "user"
                    THEN gone \cup ((DOMAIN j.base \ DOMAIN j.next) \X {n})
                    ELSE gone
         /\ born' = born \cup DOMAIN j.next
         /\ excuse' = excuse \cup
              IF LostUpdate(conf[n], j.base, j.next) THEN {"stale"} ELSE {}
         /\ moved' = moved \cup
              {s \in DOMAIN j.next \ DOMAIN conf[n] :
                 Home[s] = n /\ at[s] \notin {0, j.next[s].v}}
    /\ rev' = [rev EXCEPT ![n] = @ + 1]
    /\ UNCHANGED <<at, net, left, seen, owed, doomed>>

\* reset_changed_destination_offsets, after the lock was released
Reset(k, n) ==
    /\ At(k, n, "reset")
    /\ LET j == job[k][n]
           repathed == {s \in Repathed(j.prev, j.next) : Home[s] = n} IN
         /\ at' = [s \in Src |-> IF s \in repathed THEN 0 ELSE at[s]]
         /\ moved' = moved \ repathed
         /\ job' = Set(k, n, [j EXCEPT !.pc = "push",
                                 !.todo = Targets(j.prev, j.next, n)])
    /\ UNCHANGED <<conf, net, left, rev, seen, owed, born, doomed, gone, excuse>>

-----------------------------------------------------------------------------
(* propagate_remote_source_groups and the repush loop.                     *)

\* the machine m executes apply_delegated_source_groups for the push p
Apply(m, p) ==
    /\ conf' = [conf EXCEPT ![m] = Merged(conf[m], p)]
    /\ seen' = [seen EXCEPT ![m][p.from] = IF @ > p.rev THEN @ ELSE p.rev]
    /\ moved' = moved \cup {s \in DOMAIN p.groups : at[s] \notin {0, p.groups[s].v}}
    /\ excuse' = excuse
         \cup (IF p.rev < seen[m][p.from] THEN {"crossed"} ELSE {})
         \cup (IF p.rev < rev[p.from] THEN {"outdated"} ELSE {})
         \cup (IF \E s \in DOMAIN conf[m] :
                    conf[m][s].by \in ({p.from} \X {0, 1}) \ {p.by}
               THEN {"renamed"} ELSE {})

\* m has the list of job k of n; it is owed nothing if that is still the newest
Told(k, n, m) ==
    LET j == job[k][n] IN
    /\ job' = Set(k, n, [j EXCEPT !.todo = @ \ {m}])
    /\ owed' = [owed EXCEPT ![n] =
         IF Groups(j.next, n, m) = Groups(conf[n], n, m) THEN @ \ {m} ELSE @]

\* m has not; it is owed a list unless a later one already reached it
NotTold(k, n, m) ==
    LET j == job[k][n] IN
    /\ job' = Set(k, n, [j EXCEPT !.todo = @ \ {m}, !.failed = TRUE])
    /\ owed' = [owed EXCEPT ![n] = IF seen[m][n] < j.rev THEN @ \cup {m} ELSE @]

\* One POST per machine, best effort: a machine that is away or refuses does
\* not stop the others.  A call that times out may still be executed later.
Push(k, n) ==
    /\ At(k, n, "push")
    /\ \E m \in job[k][n].todo :
         LET j == job[k][n]
             p == [from |-> n, to |-> m, by |-> Id(n), rev |-> j.rev,
                   groups |-> Groups(j.next, n, m)]
         IN \/ /\ m \in near[n] /\ ~Clashes(conf[m], p)
               /\ Apply(m, p) /\ Told(k, n, m)
               /\ UNCHANGED <<left, late>>
            \/ /\ m \in near[n] => Clashes(conf[m], p)
               /\ NotTold(k, n, m)
               /\ UNCHANGED <<conf, left, late, seen, moved, excuse>>
            \/ /\ m \in near[n] /\ late = {} /\ Spend("late")
               /\ late' = {p} /\ NotTold(k, n, m)
               /\ UNCHANGED <<conf, seen, moved, excuse>>
    /\ UNCHANGED <<at, id, near, rev, born, doomed, gone>>

\* spawn_delegation_repush: one loop only
Repushing(js, n) ==
    IF js["loop"][n].pc = "idle"
    THEN [js EXCEPT !["loop"][n] = [Idle EXCEPT !.pc = "sleep"]] ELSE js

\* The save succeeded, whatever became of its pushes.
SaveEnds(k, n) ==
    /\ k # "loop" /\ At(k, n, "push") /\ job[k][n].todo = {}
    /\ job' = LET js == Ended(k, n, "ok")
              IN IF job[k][n].failed THEN Repushing(js, n) ELSE js
    /\ UNCHANGED <<files, net, left, ghosts>>

\* After a minute the loop reads the newest file; it has no previous one.
LoopWakes(n) ==
    /\ At("loop", n, "sleep")
    /\ job' = Set("loop", n, [job["loop"][n] EXCEPT
                 !.pc = "push", !.next = conf[n], !.rev = rev[n],
                 !.failed = FALSE, !.todo = Targets(NoFile, conf[n], n)])
    /\ UNCHANGED <<files, net, left, ghosts>>

LoopRound(n) ==
    /\ At("loop", n, "push") /\ job["loop"][n].todo = {}
    /\ LET j == job["loop"][n]
           again == j.failed /\ j.tries + 1 < Tries
       IN job' = Set("loop", n, [j EXCEPT !.tries = @ + 1,
                                    !.pc = IF again THEN "sleep" ELSE "done"])
    /\ UNCHANGED <<files, net, left, ghosts>>

\* ACTIVE is cleared in a statement of its own.
LoopEnds(n) ==
    /\ At("loop", n, "done")
    /\ job' = Set("loop", n, Idle)
    /\ excuse' = excuse
         \cup (IF owed[n] = {} THEN {}
               ELSE IF job["loop"][n].failed THEN {"gaveup"}
               ELSE IF owed[n] \subseteq Remote(conf[n], n) THEN {"dropped"}
               ELSE {"forgotten"})
    /\ UNCHANGED <<files, net, left, rev, seen, owed, born, doomed, gone, moved>>

-----------------------------------------------------------------------------
(* The network, the engine, crashes.                                       *)

\* a push whose caller gave up is executed after all, or lost
LateArrives(p) ==
    /\ late' = late \ {p}
    /\ \/ ~Clashes(conf[p.to], p) /\ Apply(p.to, p)
       \/ UNCHANGED <<conf, seen, moved, excuse>>
    /\ UNCHANGED <<at, id, near, job, left, rev, owed, born, doomed, gone>>

\* a machine goes away, or moves to another endpoint
Cut(n, m) ==
    /\ m \in near[n] /\ Spend("cut")
    /\ near' = [near EXCEPT ![n] = @ \ {m}]
    /\ UNCHANGED <<files, id, job, late, ghosts>>

\* refresh_machine_cache: a discovery answer that the endpoint confirms over
\* TCP corrects the recorded endpoint (the file is read and written under the
\* lock, the groups stay)
Discover(n, m) ==
    /\ m # n /\ m \notin near[n]
    /\ near' = [near EXCEPT ![n] = @ \cup {m}]
    /\ UNCHANGED <<files, id, job, late, left, ghosts>>

\* a pass of the engine at the home verifies the configured destination
Pass(s) ==
    /\ Spend("pass")
    /\ s \in DOMAIN conf[Home[s]]
    /\ at' = [at EXCEPT ![s] = conf[Home[s]][s].v]
    /\ moved' = moved \ {s}
    /\ UNCHANGED <<conf, net, job, rev, seen, owed, born, doomed, gone, excuse>>

\* prune_removed_destination_offsets: a run of the engine of n drops the offsets of
\* the groups its file does not have any more
Prune(n) ==
    LET known(s) == s \in DOMAIN conf[n] \/ Home[s] # n IN
    /\ \E s \in Src : ~known(s) /\ at[s] # 0
    /\ at' = [s \in Src |-> IF known(s) THEN at[s] ELSE 0]
    /\ moved' = {s \in moved : known(s)}
    /\ UNCHANGED <<conf, net, job, left, rev, seen, owed, born, doomed, gone, excuse>>

\* what n still had to do dies with it
Dies(n) ==
    LET busy == {k \in Threads : job[k][n].pc \in {"reset", "push"}}
        Left(k, x) == IF Calls(k, x, n) THEN Answered(job[k][x], "refused") ELSE job[k][x] IN
    /\ job' = [k \in Threads |-> [x \in Node |->
                 IF x = n THEN Idle
                 ELSE IF k = "peer" /\ \E kk \in Threads : Calls(kk, n, x)
                      THEN Unheard(Left(k, x))
                 ELSE Left(k, x)]]
    /\ moved' = moved \cup
         {s \in Src : /\ Home[s] = n /\ at[s] # 0
                      /\ \E k \in busy : /\ At(k, n, "reset")
                                         /\ s \in Repathed(job[k][n].prev,
                                                           job[k][n].next)}
    /\ late' = {p \in late : p.to # n}
    /\ excuse' = excuse \cup IF busy # {} \/ owed[n] # {} THEN {"crash"} ELSE {}

Crash(n) ==
    /\ Spend("crash") /\ Dies(n)
    /\ UNCHANGED <<files, id, near, rev, seen, owed, born, doomed, gone>>

\* n restarts with another host, port or program path: another discovery id,
\* at an endpoint nobody has recorded
Rename(n) ==
    /\ Spend("rename") /\ Dies(n)
    /\ id' = [id EXCEPT ![n] = 1 - @]
    /\ near' = [m \in Node |-> near[m] \ {n}]
    /\ UNCHANGED <<files, rev, seen, owed, born, doomed, gone>>

Next ==
    \/ \E n \in Node : \/ Form(n) \/ PeerLoad(n) \/ PeerHealth(n)
                       \/ LoopWakes(n) \/ LoopRound(n) \/ LoopEnds(n)
                       \/ Prune(n) \/ Crash(n) \/ Rename(n)
    \/ \E n \in Node, k \in {"user", "peer"} :
          \/ Compare(k, n) \/ Ask(k, n) \/ Refused(k, n)
          \/ AskTimesOut(k, n) \/ Write(k, n) \/ Reset(k, n) \/ SaveEnds(k, n)
    \/ \E n \in Node, k \in Threads : Push(k, n)
    \/ \E n, m \in Node : Cut(n, m) \/ Discover(n, m)
    \/ \E s \in Src : Pass(s)
    \/ \E p \in late : LateArrives(p)

Spec == Init /\ [][Next]_vars

-----------------------------------------------------------------------------
(* Properties.                                                             *)

Entry == [v : Ver, by : {NoId} \cup (Node \X {0, 1})]
Files == UNION {[S -> Entry] : S \in SUBSET Src}

(* The state has its type, a managed group lies only on its home, and an    *)
(* own group carries no managed_by mark.                                    *)
TypeOK ==
    /\ \A n \in Node :
          /\ DOMAIN conf[n] \subseteq {s \in Src : n \in {Owner[s], Home[s]}}
          /\ \A s \in DOMAIN conf[n] :
                /\ conf[n][s] \in Entry
                /\ IF n = Owner[s] THEN conf[n][s].by = NoId
                                   ELSE conf[n][s].by \in {Owner[s]} \X {0, 1}
    /\ at \in [Src -> Ver \cup {0}]
    /\ id \in [Node -> {0, 1}]
    /\ \A n \in Node : near[n] \subseteq Node \ {n} /\ owed[n] \subseteq Node \ {n}
    /\ \A k \in Threads, n \in Node :
          job[k][n].pc \in {"idle", "compare", "ask", "wait", "refused", "load",
                           "health", "write", "reset", "push", "sleep", "done"}

NoExcuse(es) == excuse \cap es = {}

\* nothing is running, sleeping before a retry or on its way
Quiet ==
    late = {} /\ \A k \in Threads, n \in Node : At(k, n, "idle")

\* the paths of the groups of n that the file f of m has
PathsOf(f, n, m) ==
    [s \in {x \in DOMAIN f : Owner[x] = n /\ Home[x] = m} |-> f[s].v]

(* When everything has come to rest, the home of every delegated group      *)
(* executes exactly what its owner's file says, unless one of the named     *)
(* windows was hit: a save from an outdated copy of the file, an older push *)
(* arriving after a newer one, a push under a new discovery id that leaves  *)
(* the groups of the old one, a repush loop that ended early, gave up or    *)
(* died with its process (backend.rs save_config, spawn_delegation_repush,  *)
(* apply_delegated_source_groups).                                          *)
Agreement ==
    Quiet /\ NoExcuse({"stale", "crossed", "forgotten", "dropped", "gaveup",
                       "crash", "renamed"})
    => \A n \in Node : \A m \in Node \ {n} :
          PathsOf(conf[m], n, m) = PathsOf(conf[n], n, m)

(* A group whose deletion was saved where the user asked for it comes back  *)
(* neither there nor on its owner: the owner has dropped it before the      *)
(* local write (notify_controllers_of_removed_entries).                     *)
NotResurrected ==
    NoExcuse({"stale", "outdated"}) =>
        \A d \in gone : d[1] \notin DOMAIN conf[d[2]] \cup DOMAIN conf[Owner[d[1]]]

(* A group no user set out to delete stays in its owner's file, whatever    *)
(* the machines save and push to each other.                                *)
KeptUnlessDeleted ==
    NoExcuse({"stale"}) => \A s \in born \ doomed : s \in DOMAIN conf[Owner[s]]

(* A verified offset is about the configured path: a path changed by a save *)
(* of the home resets it before the save ends.  A path changed by a push    *)
(* does not (moved), nor does a crash between the file and the database,    *)
(* nor the save of an outdated file that brings a deleted group back before *)
(* a run has pruned its offset.                                             *)
OffsetIsOfPath ==
    \A s \in Src \ moved :
        /\ at[s] # 0
        /\ s \in DOMAIN conf[Home[s]]
        /\ \A k \in Threads : ~At(k, Home[s], "reset")
        => at[s] = conf[Home[s]][s].v

(* The same with no exemption for a path that a push changed: what          *)
(* save_config and its test resets_destination_offset_when_destination_     *)
(* path_changes promise.  It does not hold: see DelegatedMove.cfg.          *)
MovedIsReset ==
    \A s \in Src :
        /\ at[s] # 0
        /\ s \in DOMAIN conf[Home[s]]
        /\ \A k \in Threads : ~At(k, Home[s], "reset")
        => at[s] = conf[Home[s]][s].v
=============================================================================
