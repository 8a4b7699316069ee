-------------------------- MODULE DelegationProofs --------------------------
(***************************************************************************)
(* Proofs about Delegation, for every set of machines and groups, wherever  *)
(* groups are owned and executed, and every budget: types, a verified       *)
(* offset is about the configured path, a group nobody deletes is kept, and *)
(* a deleted one stays deleted.                                             *)
(***************************************************************************)
EXTENDS Delegation, TLAPS

\* A save before and after it replaced the file.
BeforeWrite == {"compare", "ask", "wait", "refused", "write"}
Written == {"reset", "push"}

Pcs(k) ==
    IF k = "user" THEN {"idle"} \cup BeforeWrite \cup Written
    ELSE IF k = "peer" THEN {"idle", "load", "health"} \cup BeforeWrite \cup Written
    ELSE {"idle", "sleep", "push", "done"}

\* A file n can have.
IsFile(n, f) ==
    /\ f = [s \in DOMAIN f |-> f[s]]
    /\ DOMAIN f \subseteq {s \in Src : n \in {Owner[s], Home[s]}}
    /\ \A s \in DOMAIN f :
          /\ f[s] \in Entry
          /\ IF n = Owner[s] THEN f[s].by = NoId ELSE f[s].by \in {Owner[s]} \X {0, 1}

\* Groups n executes for others, and what it knows of their owners.
IsAsk(n, a) ==
    /\ DOMAIN a \subseteq {s \in Src : Owner[s] # n /\ Home[s] = n}
    /\ \A s \in DOMAIN a : a[s] \in {Owner[s]} \X {0, 1}

\* The list a machine pushes to another one.
IsPush(p) ==
    /\ DOMAIN p = {"from", "to", "by", "rev", "groups"}
    /\ p.from \in Node /\ p.to \in Node \ {p.from} /\ p.by \in {p.from} \X {0, 1} /\ p.rev \in Nat
    /\ DOMAIN p.groups \subseteq {s \in Src : Owner[s] = p.from /\ Home[s] = p.to}
    /\ \A s \in DOMAIN p.groups : p.groups[s] \in Entry /\ p.groups[s].by = p.by

IsJob(k, n, j) ==
    /\ DOMAIN j = {"pc", "base", "next", "prev", "ask", "todo", "rev", "failed", "tries", "src", "from",
                   "reporter"}
    /\ j.pc \in Pcs(k)
    /\ IsFile(n, j.base) /\ IsFile(n, j.next) /\ IsFile(n, j.prev) /\ IsAsk(n, j.ask)
    /\ j.todo \subseteq Node \ {n} /\ j.rev \in Nat
    /\ j.from \in {"none", "user", "peer"} /\ (j.from # "none" => j.reporter \in Node \X {0, 1})

TypeInv ==
    /\ conf = [n \in Node |-> conf[n]] /\ \A n \in Node : IsFile(n, conf[n])
    /\ at \in [Src -> Ver \cup {0}]
    /\ id \in [Node -> {0, 1}]
    /\ near = [n \in Node |-> near[n]] /\ owed = [n \in Node |-> owed[n]]
    /\ \A n \in Node : near[n] \subseteq Node \ {n} /\ owed[n] \subseteq Node \ {n}
    /\ rev \in [Node -> Nat] /\ seen \in [Node -> [Node -> Nat]]
    /\ \A p \in late : IsPush(p)
    /\ job = [k \in Threads |-> [n \in Node |-> job[k][n]]]
    /\ \A k \in Threads, n \in Node : IsJob(k, n, job[k][n])

\* What a save has before it is written: groups that exist, and new ones of its user.
BornJob(k, n, j) ==
    /\ DOMAIN j.base \subseteq born /\ DOMAIN j.ask \subseteq born
    /\ IF j.pc \in BeforeWrite
       THEN \A s \in DOMAIN j.next \ DOMAIN j.base : k = "user" /\ Owner[s] = n /\ s \notin born
       ELSE DOMAIN j.next \subseteq born

BornInv ==
    /\ born \subseteq Src
    /\ \A n \in Node : DOMAIN conf[n] \subseteq born
    /\ \A p \in late : DOMAIN p.groups \subseteq born
    /\ \A k \in Threads, n \in Node : BornJob(k, n, job[k][n])

\* A handler removes a group that its machine owns and another one executes.
PeerJob(n, j) ==
    /\ j.pc # "idle" => j.src \in born /\ Owner[j.src] = n /\ Home[j.src] # n
    /\ j.pc \in BeforeWrite => DOMAIN j.base \ DOMAIN j.next \subseteq {j.src}
    /\ j.pc \in BeforeWrite \cup Written => j.src \notin DOMAIN j.next

PeerInv == \A n \in Node : PeerJob(n, job["peer"][n])

\* A thread that waits, and the handler that will answer it.
CallInv ==
    \A m, n \in Node, k \in {"user", "peer"} :
        (n # m /\ job["peer"][m].from = k /\ job["peer"][m].reporter[1] = n) =>
            /\ At(k, n, "wait")
            /\ \A l \in Node : Calls(k, n, l) => l = m

\* A verified offset of another path is one a save is still to reset.
OffsetInv ==
    \A s \in Src \ moved :
        (at[s] # 0 /\ s \in DOMAIN conf[Home[s]] /\ at[s] # conf[Home[s]][s].v) =>
            \E k \in Threads : /\ At(k, Home[s], "reset")
                               /\ s \in Repathed(job[k][Home[s]].prev, job[k][Home[s]].next)

\* What saves leave out their users deleted.
DoomedJob(k, n, j) ==
    /\ k = "user" /\ j.pc \in BeforeWrite => DOMAIN j.base \ DOMAIN j.next \subseteq doomed
    /\ k = "peer" /\ j.pc # "idle" => j.src \in doomed
    /\ j.pc \in {"ask", "wait"} => DOMAIN j.ask \subseteq DOMAIN j.base \ DOMAIN j.next

DoomedInv ==
    NoExcuse({"stale"}) => \A k \in Threads, n \in Node : DoomedJob(k, n, job[k][n])

\* The newest list of a machine names the groups of its file.
Newest(n, own, r) == r = rev[n] => own = {s \in DOMAIN conf[n] : Owner[s] = n}

RevInv ==
    /\ \A k \in Threads, n \in Node : LET j == job[k][n] IN
          j.pc \in Written => /\ j.rev <= rev[n]
                              /\ Newest(n, {s \in DOMAIN j.next : Owner[s] = n}, j.rev)
    /\ \A p \in late :
          /\ p.rev <= rev[p.from]
          /\ p.rev = rev[p.from] =>
                DOMAIN p.groups = {s \in DOMAIN conf[p.from] : Owner[s] = p.from /\ Home[s] = p.to}

\* A group that was there and that its owner's file has no more.
Dropped(s) == s \in born /\ s \notin DOMAIN conf[Owner[s]]

\* A managed group that a user deletes on its home: its owner has dropped it, or is
\* still to be asked, or was asked and has not answered.
DroppedJob(n, j) ==
    \A s \in DOMAIN j.base \ DOMAIN j.next :
        Owner[s] # n =>
            /\ j.pc = "compare" => s \in DOMAIN conf[n] \/ Dropped(s)
            /\ j.pc = "ask" => s \in DOMAIN j.ask \/ Dropped(s)
            /\ j.pc = "wait" => \/ s \in DOMAIN j.ask \/ Dropped(s)
                                \/ \E m \in Node : /\ Calls("user", n, m) /\ job["peer"][m].pc # "idle"
                                                   /\ job["peer"][m].src = s
            /\ j.pc = "write" => Dropped(s)

DroppedInv ==
    /\ \A d \in gone : d[1] \in Src /\ d[2] \in Node
    /\ NoExcuse({"stale"}) =>
          \A n \in Node : job["peer"][n].pc \in Written => Dropped(job["peer"][n].src)
    /\ NoExcuse({"stale", "outdated"}) =>
          /\ \A d \in gone : Dropped(d[1]) /\ d[1] \notin DOMAIN conf[d[2]]
          /\ \A n \in Node : DroppedJob(n, job["user"][n])

IInv ==
    /\ TypeInv /\ BornInv /\ PeerInv /\ CallInv /\ OffsetInv /\ DoomedInv /\ RevInv /\ DroppedInv
    /\ KeptUnlessDeleted

----------------------------------------------------------------------------
(* Files. *)

\* The names of machines: none is the empty mark.
LEMMA Marks ==
  ASSUME NEW n \in Node, NEW i \in {0, 1}
  PROVE  /\ <<n, i>> \in {n} \X {0, 1} /\ <<n, i>> \in Node \X {0, 1}
         /\ <<n, i>> # NoId /\ <<n, i>>[1] = n
  BY DEF NoId

\* What is owned by a machine carries its name, and no other's.
LEMMA MarkIs ==
  ASSUME NEW n \in Node, NEW m \in Node, NEW p \in {n} \X {0, 1}
  PROVE  /\ p # NoId /\ p \in Node \X {0, 1} /\ p[1] = n
         /\ p \in {m} \X {0, 1} => m = n
  BY DEF NoId

\* The empty file.
LEMMA NoFileIs ==
  ASSUME NEW n
  PROVE  IsFile(n, NoFile) /\ DOMAIN NoFile = {} /\ IsAsk(n, NoFile)
  BY DEF IsFile, NoFile, IsAsk

\* A file without some groups is a file with the others as they were.
LEMMA WithoutIs ==
  ASSUME NEW n, NEW f, NEW S
  PROVE  /\ DOMAIN Without(f, S) = DOMAIN f \ S
         /\ \A s \in DOMAIN f \ S : Without(f, S)[s] = f[s]
         /\ IsFile(n, f) => IsFile(n, Without(f, S))
         /\ IsAsk(n, f) => IsAsk(n, Without(f, S))
  <1>1. Without(f, S) = [s \in DOMAIN f \ S |-> f[s]]
    BY DEF Without, Restrict
  <1>2. QED BY <1>1 DEF IsFile, IsAsk

\* An entry of a file by who owns it: an own group has no mark, a managed one its
\* owner's and is executed here.
LEMMA EntryIs ==
  ASSUME PlacesAssumption, NEW n \in Node, NEW f, IsFile(n, f), NEW s \in DOMAIN f
  PROVE  /\ s \in Src /\ Owner[s] \in Node /\ Home[s] \in Node /\ f[s] \in Entry /\ f[s].v \in Ver
         /\ Owner[s] = n => f[s].by = NoId
         /\ Owner[s] # n => Home[s] = n /\ f[s].by \in {Owner[s]} \X {0, 1} /\ f[s].by # NoId
  <1>1. s \in Src /\ n \in {Owner[s], Home[s]} /\ f[s] \in Entry
    BY DEF IsFile
  <1>2. Owner[s] \in Node /\ Home[s] \in Node
    BY <1>1 DEF PlacesAssumption
  <1>3. f[s].v \in Ver
    BY <1>1 DEF Entry
  <1>4. Owner[s] = n => f[s].by = NoId
    BY DEF IsFile
  <1>5. Owner[s] # n => f[s].by \in {Owner[s]} \X {0, 1}
    BY DEF IsFile
  <1>6. Owner[s] # n => f[s].by # NoId
    BY <1>2, <1>5, MarkIs
  <1>7. QED BY <1>1, <1>2, <1>3, <1>4, <1>5, <1>6

\* After a push a machine has what was pushed, and of the rest what another machine
\* manages or nobody does.
LEMMA MergedIs ==
  ASSUME PlacesAssumption, NEW m \in Node, NEW f, IsFile(m, f), NEW p, IsPush(p), p.to = m
  PROVE  /\ IsFile(m, Merged(f, p))
         /\ DOMAIN Merged(f, p) = DOMAIN p.groups \cup {s \in DOMAIN f : f[s].by # p.by}
  <1> DEFINE K == {s \in DOMAIN f : f[s].by # p.by}
  <1>1. Kept(f, p) = [s \in K |-> f[s]]
    BY DEF Kept, Restrict
  <1>2. Merged(f, p) = [s \in DOMAIN p.groups \cup K |-> IF s \in DOMAIN p.groups THEN p.groups[s] ELSE f[s]]
    BY <1>1 DEF Merged, Over
  <1>3. \A s \in DOMAIN p.groups :
           /\ s \in Src /\ m = Home[s] /\ m # Owner[s] /\ p.groups[s] \in Entry
           /\ p.groups[s].by \in {Owner[s]} \X {0, 1}
    BY DEF IsPush
  <1>4. IsFile(m, Merged(f, p))
    BY <1>2, <1>3 DEF IsFile
  <1>5. QED BY <1>2, <1>4

\* What was pushed replaces what was there.
LEMMA MergedNew ==
  ASSUME NEW f, NEW p, NEW s \in DOMAIN p.groups
  PROVE  Merged(f, p)[s] = p.groups[s]
  BY DEF Merged, Over

\* The groups of others stay as they are.
LEMMA MergedOld ==
  ASSUME NEW f, NEW p, NEW s \in DOMAIN f, f[s].by # p.by, s \notin DOMAIN p.groups
  PROVE  Merged(f, p)[s] = f[s]
  BY DEF Merged, Over, Kept, Restrict

\* A group in the list for a machine runs there and is marked as the owner's.
LEMMA GroupsEntry ==
  ASSUME PlacesAssumption, NEW n \in Node, NEW m \in Node \ {n}, NEW f, IsFile(n, f), id[n] \in {0, 1},
         NEW s \in DOMAIN f, Home[s] = m
  PROVE  /\ s \in Src /\ Owner[s] = n /\ Groups(f, n, m)[s] \in Entry /\ Groups(f, n, m)[s].by = Id(n)
  <1>1. Groups(f, n, m)[s] = [v |-> f[s].v, by |-> Id(n)]
    BY DEF Groups
  <1>2. Id(n) \in {n} \X {0, 1} /\ Id(n) \in Node \X {0, 1}
    BY Marks DEF Id
  <1>3. s \in Src /\ Owner[s] = n /\ f[s].v \in Ver
    BY EntryIs
  <1>4. QED BY <1>1, <1>2, <1>3 DEF Entry

\* The managed groups a pending file lacks.
LEMMA RemovedIs ==
  ASSUME PlacesAssumption, NEW n \in Node, NEW cur, IsFile(n, cur), NEW next
  PROVE  /\ IsAsk(n, Removed(cur, next))
         /\ DOMAIN Removed(cur, next) = {s \in DOMAIN cur \ DOMAIN next : Owner[s] # n}
  <1>1. \A s \in DOMAIN cur : cur[s].by # NoId <=> Owner[s] # n
    BY EntryIs
  <1>2. DOMAIN Removed(cur, next) = {s \in DOMAIN cur \ DOMAIN next : cur[s].by # NoId}
    BY DEF Removed, Restrict
  <1>3. \A s \in DOMAIN Removed(cur, next) : Removed(cur, next)[s] = cur[s].by
    BY <1>2 DEF Removed, Restrict
  <1>4. \A s \in DOMAIN cur : Owner[s] # n => s \in Src /\ Home[s] = n /\ cur[s].by \in {Owner[s]} \X {0, 1}
    BY EntryIs
  <1>5. QED BY <1>1, <1>2, <1>3, <1>4 DEF IsAsk

\* What a user makes of the file: one group more, changed or fewer.
LEMMA EditsAre ==
  ASSUME PlacesAssumption, VerAssumption, NEW n \in Node, IsFile(n, conf[n]), NEW next \in Edits(n)
  PROVE  /\ IsFile(n, next)
         /\ \A s \in DOMAIN next \ DOMAIN conf[n] : Owner[s] = n /\ s \notin born
  <1>1. CASE \E s \in {x \in Src \ born : Owner[x] = n} :
               next = Over([x \in {s} |-> [v |-> 1, by |-> NoId]], conf[n])
    <2>1. PICK s \in Src \ born : Owner[s] = n /\ next = Over([x \in {s} |-> [v |-> 1, by |-> NoId]], conf[n])
      BY <1>1
    <2>2. next = [x \in {s} \cup DOMAIN conf[n] |-> IF x \in {s} THEN [v |-> 1, by |-> NoId] ELSE conf[n][x]]
      BY <2>1 DEF Over
    <2>3. [v |-> 1, by |-> NoId] \in Entry
      BY DEF Entry, VerAssumption
    <2>4. QED BY <2>1, <2>2, <2>3 DEF IsFile
  <1>2. CASE \E s \in {s \in DOMAIN conf[n] : Owner[s] = n}, v \in Ver : next = [conf[n] EXCEPT ![s].v = v]
    <2>1. PICK s \in DOMAIN conf[n], v \in Ver : Owner[s] = n /\ next = [conf[n] EXCEPT ![s].v = v]
      BY <1>2
    <2>2. conf[n][s] \in Entry /\ conf[n][s].by = NoId
      BY <2>1, EntryIs
    <2>3. DOMAIN next = DOMAIN conf[n] /\ \A x \in DOMAIN next : x # s => next[x] = conf[n][x]
      BY <2>1 DEF IsFile
    <2>4. next[s] \in Entry /\ next[s].by = NoId
      BY <2>1, <2>2 DEF IsFile, Entry
    <2>5. next = [x \in DOMAIN next |-> next[x]]
      BY <2>1 DEF IsFile
    <2>6. QED BY <2>1, <2>3, <2>4, <2>5 DEF IsFile
  <1>3. CASE \E s \in DOMAIN conf[n] : next = Without(conf[n], {s})
    <2>1. PICK s \in DOMAIN conf[n] : next = Without(conf[n], {s})
      BY <1>3
    <2>2. IsFile(n, next) /\ DOMAIN next = DOMAIN conf[n] \ {s}
      BY <2>1, WithoutIs
    <2>3. QED BY <2>2
  <1>4. \/ next \in {Over([x \in {s} |-> [v |-> 1, by |-> NoId]], conf[n]) : s \in {x \in Src \ born : Owner[x] = n}}
        \/ \E s \in {s \in DOMAIN conf[n] : Owner[s] = n} : next \in {[conf[n] EXCEPT ![s].v = v] : v \in Ver}
        \/ next \in {Without(conf[n], {s}) : s \in DOMAIN conf[n]}
    BY DEF Edits
  <1>5. QED BY <1>1, <1>2, <1>3, <1>4

----------------------------------------------------------------------------
(* Threads. *)

Fields == {"pc", "base", "next", "prev", "ask", "todo", "rev", "failed", "tries", "src", "from", "reporter"}

\* The job of a thread but for its counter and its caller.
Same(j, jj) ==
    /\ jj.base = j.base /\ jj.next = j.next /\ jj.prev = j.prev /\ jj.ask = j.ask
    /\ jj.todo = j.todo /\ jj.rev = j.rev /\ jj.src = j.src /\ jj.reporter = j.reporter

\* What becomes of a thread while another one acts: it dies, or its caller goes, or it
\* gets the answer it waits for.
Passive(j, jj) ==
    \/ jj = Idle
    \/ /\ DOMAIN jj = Fields /\ Same(j, jj) /\ jj.from \in {j.from, "none"}
       /\ \/ jj.pc = j.pc
          \/ j.pc = "wait" /\ jj.pc \in {"refused", "ask", "write"} /\ (jj.pc = "write" => DOMAIN j.ask = {})

\* All threads but those of A are passive in this step.
Rest(A) ==
    /\ job' = [k \in Threads |-> [n \in Node |-> job'[k][n]]]
    /\ \A k \in Threads, n \in Node : <<k, n>> \notin A => Passive(job[k][n], job'[k][n])

\* Thread k of n alone acts.
Only(k, n) == \A kk \in Threads, x \in Node : (kk # k \/ x # n) => job'[kk][x] = job[kk][x]

\* A thread that does nothing.
LEMMA IdleIs ==
  ASSUME NEW k \in Threads, NEW n
  PROVE  /\ IsJob(k, n, Idle) /\ DOMAIN Idle = Fields /\ Idle.pc = "idle"
         /\ Idle.base = NoFile /\ Idle.next = NoFile /\ Idle.prev = NoFile /\ Idle.ask = NoFile
         /\ Idle.todo = {} /\ Idle.rev = 0 /\ Idle.from = "none" /\ Idle.failed = FALSE
  <1>1. Idle = [pc |-> "idle", base |-> NoFile, next |-> NoFile, prev |-> NoFile,
                ask |-> NoFile, todo |-> {}, rev |-> 0, failed |-> FALSE, tries |-> 0,
                src |-> "none", from |-> "none", reporter |-> NoId]
    BY DEF Idle
  <1>2. "idle" \in Pcs(k)
    BY DEF Pcs, Threads
  <1>3. IsFile(n, NoFile) /\ IsAsk(n, NoFile)
    BY NoFileIs
  <1>4. QED BY <1>1, <1>2, <1>3 DEF IsJob, Fields

\* A thread that stays as it was is passive.
LEMMA PassiveSelf ==
  ASSUME NEW j, DOMAIN j = Fields
  PROVE  Passive(j, j)
  BY DEF Passive, Same

\* An answer moves a thread that waits.
LEMMA AnsweredIs ==
  ASSUME NEW j, DOMAIN j = Fields, j.pc = "wait", NEW answer
  PROVE  /\ DOMAIN Answered(j, answer) = Fields /\ Same(j, Answered(j, answer)) /\ Answered(j, answer).from = j.from
         /\ Answered(j, answer).pc = IF answer = "refused" THEN "refused" ELSE IF DOMAIN j.ask = {} THEN "write" ELSE "ask"
         /\ Passive(j, Answered(j, answer))
  BY DEF Answered, Same, Fields, Passive

\* A handler loses its caller.
LEMMA UnheardIs ==
  ASSUME NEW j, DOMAIN j = Fields
  PROVE  /\ DOMAIN Unheard(j) = Fields /\ Same(j, Unheard(j)) /\ Unheard(j).from = "none"
         /\ Unheard(j).pc = j.pc /\ Passive(j, Unheard(j))
  BY DEF Unheard, Same, Fields, Passive

\* Two passive steps are one.
LEMMA PassiveUnheard ==
  ASSUME NEW j, NEW jj, DOMAIN jj = Fields, Passive(j, jj), jj # Idle
  PROVE  Passive(j, Unheard(jj))
  BY UnheardIs DEF Passive, Same

\* A passive thread keeps its type.
LEMMA PassiveJob ==
  ASSUME NEW k \in Threads, NEW n, NEW j, NEW jj, IsJob(k, n, j), Passive(j, jj)
  PROVE  IsJob(k, n, jj)
  <1>1. CASE jj = Idle
    BY <1>1, IdleIs
  <1>2. CASE jj # Idle
    <2>1. jj.pc \in Pcs(k)
      BY <1>2 DEF Passive, IsJob, Pcs, Threads, BeforeWrite, Written
    <2>2. QED BY <1>2, <2>1 DEF Passive, Same, IsJob, Fields
  <1>3. QED BY <1>1, <1>2

\* What a thread does but write, reset and push.
Moves(k, n) ==
    \/ Form(n) \/ Compare(k, n) \/ Ask(k, n) \/ Refused(k, n) \/ AskTimesOut(k, n) \/ PeerLoad(n)
    \/ PeerHealth(n) \/ SaveEnds(k, n) \/ LoopWakes(n) \/ LoopRound(n) \/ LoopEnds(n)

\* What no thread does: the network, the engine, crashes and late lists.
World ==
    \/ \E n, m \in Node : Cut(n, m) \/ Discover(n, m)
    \/ \E s \in Src : Pass(s)
    \/ \E n \in Node : Prune(n) \/ Crash(n) \/ Rename(n)
    \/ \E p \in late : LateArrives(p)
    \/ UNCHANGED vars

\* One thread of one machine moves.
LEMMA SetIs ==
  ASSUME TypeInv, NEW k \in Threads, NEW n \in Node, NEW j, job' = Set(k, n, j)
  PROVE  /\ Rest({<<k, n>>}) /\ job'[k][n] = j
         /\ Only(k, n)
  <1>1. job = [kk \in Threads |-> [x \in Node |-> job[kk][x]]]
    BY DEF TypeInv
  <1>2. job' = [kk \in Threads |-> [x \in Node |-> IF kk = k /\ x = n THEN j ELSE job[kk][x]]]
    BY <1>1 DEF Set
  <1>3. \A kk \in Threads, x \in Node : DOMAIN job[kk][x] = Fields
    BY DEF TypeInv, IsJob, Fields
  <1>4. QED BY <1>2, <1>3, PassiveSelf DEF Rest, Only

\* One thread of one machine ends, and answers whoever waits for it.
LEMMA EndedIs ==
  ASSUME TypeInv, NEW k \in Threads, NEW n \in Node, NEW answer, NEW js, js = Ended(k, n, answer)
  PROVE  /\ js = [kk \in Threads |-> [x \in Node |-> js[kk][x]]]
         /\ js[k][n] = Idle
         /\ \A kk \in Threads, x \in Node : (kk # k \/ x # n) =>
               js[kk][x] = IF k = "peer" /\ Calls(kk, x, n) THEN Answered(job[kk][x], answer) ELSE job[kk][x]
         /\ \A kk \in Threads, x \in Node : Passive(job[kk][x], js[kk][x])
  <1>1. js = [kk \in Threads |-> [x \in Node |->
                 IF kk = k /\ x = n THEN Idle
                 ELSE IF k = "peer" /\ Calls(kk, x, n) THEN Answered(job[kk][x], answer)
                 ELSE job[kk][x]]]
    BY DEF Ended
  <1>2. \A kk \in Threads, x \in Node : DOMAIN job[kk][x] = Fields
    BY DEF TypeInv, IsJob, Fields
  <1>3. \A kk \in Threads, x \in Node : Calls(kk, x, n) => Passive(job[kk][x], Answered(job[kk][x], answer))
    BY <1>2, AnsweredIs DEF Calls, At
  <1>4. \A kk \in Threads, x \in Node : Passive(job[kk][x], job[kk][x]) /\ Passive(job[kk][x], Idle)
    BY <1>2, PassiveSelf DEF Passive
  <1>5. QED BY <1>1, <1>3, <1>4

----------------------------------------------------------------------------
(* What each step does to the threads. *)

\* The threads that save, and those with a caller.
Savers == {"user", "peer"}

\* The types of all jobs once those of the acting threads are known.
LEMMA JobsTyped ==
  ASSUME TypeInv, NEW A, Rest(A),
         \A k \in Threads, n \in Node : <<k, n>> \in A => IsJob(k, n, job'[k][n])
  PROVE  /\ job' = [k \in Threads |-> [n \in Node |-> job'[k][n]]]
         /\ \A k \in Threads, n \in Node : IsJob(k, n, job'[k][n])
  BY PassiveJob DEF Rest, TypeInv

\* A user starts a save from the file as it is.
LEMMA FormIs ==
  ASSUME PlacesAssumption, VerAssumption, TypeInv, NEW n \in Node, Form(n)
  PROVE  /\ Rest({<<"user", n>>}) /\ IsJob("user", n, job'["user"][n])
         /\ Only("user", n)
         /\ job["user"][n].pc = "idle" /\ job'["user"][n].pc = "compare"
         /\ job'["user"][n].base = conf[n] /\ job'["user"][n].next \in Edits(n)
         /\ job'["user"][n].ask = NoFile /\ job'["user"][n].from = "none" /\ job'["user"][n].prev = NoFile
         /\ doomed' = doomed \cup (DOMAIN conf[n] \ DOMAIN job'["user"][n].next)
         /\ UNCHANGED <<files, net, rev, seen, owed, born, gone, moved, excuse>>
  <1>1. PICK next \in Edits(n) :
           /\ job' = Set("user", n, [Idle EXCEPT !.pc = "compare", !.base = conf[n], !.next = next])
           /\ doomed' = doomed \cup (DOMAIN conf[n] \ DOMAIN next)
    BY DEF Form
  <1> DEFINE j == [Idle EXCEPT !.pc = "compare", !.base = conf[n], !.next = next]
  <1>2. "user" \in Threads /\ IsFile(n, conf[n])
    BY DEF Threads, TypeInv
  <1>3. /\ DOMAIN j = Fields /\ j.pc = "compare" /\ j.base = conf[n] /\ j.next = next /\ j.ask = NoFile
        /\ j.from = "none" /\ j.prev = NoFile /\ j.todo = {} /\ j.rev = 0
    BY <1>2, IdleIs DEF Fields
  <1>4. IsFile(n, next)
    BY <1>2, EditsAre
  <1>6. job' = Set("user", n, j)
    BY <1>1
  <1> HIDE DEF j
  <1>5. IsJob("user", n, j)
    <2>1. "compare" \in Pcs("user")
      BY DEF Pcs, BeforeWrite
    <2>2. IsFile(n, NoFile) /\ IsAsk(n, NoFile)
      BY NoFileIs
    <2>3. QED BY <1>2, <1>3, <1>4, <2>1, <2>2 DEF IsJob, Fields
  <1>7. /\ Rest({<<"user", n>>}) /\ job'["user"][n] = j
        /\ Only("user", n)
    BY <1>2, <1>6, SetIs
  <1>8. job["user"][n].pc = "idle" /\ UNCHANGED <<files, net, rev, seen, owed, born, gone, moved, excuse>>
    BY DEF Form, At
  <1>9. QED BY <1>1, <1>3, <1>5, <1>7, <1>8

\* A save looks what its file lacks.
LEMMA CompareIs ==
  ASSUME PlacesAssumption, TypeInv, NEW k \in Savers, NEW n \in Node, Compare(k, n)
  PROVE  /\ Rest({<<k, n>>}) /\ IsJob(k, n, job'[k][n])
         /\ Only(k, n)
         /\ job[k][n].pc = "compare" /\ job'[k][n].ask = Removed(conf[n], job[k][n].next)
         /\ job'[k][n].pc = IF DOMAIN job'[k][n].ask = {} THEN "write" ELSE "ask"
         /\ job'[k][n].base = job[k][n].base /\ job'[k][n].next = job[k][n].next
         /\ job'[k][n].src = job[k][n].src /\ job'[k][n].from = job[k][n].from
         /\ job'[k][n].reporter = job[k][n].reporter
         /\ excuse' = excuse \cup IF DOMAIN job'[k][n].ask \subseteq DOMAIN job[k][n].base THEN {} ELSE {"stale"}
         /\ UNCHANGED <<files, net, left, rev, seen, owed, born, doomed, gone, moved>>
  <1> DEFINE removed == Removed(conf[n], job[k][n].next)
             j == [job[k][n] EXCEPT !.ask = removed, !.pc = IF DOMAIN removed = {} THEN "write" ELSE "ask"]
  <1>1. k \in Threads /\ IsJob(k, n, job[k][n]) /\ IsFile(n, conf[n]) /\ job[k][n].pc = "compare"
    BY DEF Savers, Threads, TypeInv, Compare, At
  <1>2. IsAsk(n, removed)
    BY <1>1, RemovedIs
  <1>3. /\ job' = Set(k, n, j)
        /\ excuse' = excuse \cup IF DOMAIN removed \subseteq DOMAIN job[k][n].base THEN {} ELSE {"stale"}
        /\ UNCHANGED <<files, net, left, rev, seen, owed, born, doomed, gone, moved>>
    BY DEF Compare
  <1> HIDE DEF removed
  <1>4. /\ DOMAIN j = Fields /\ j.ask = removed /\ j.pc = IF DOMAIN removed = {} THEN "write" ELSE "ask"
        /\ j.base = job[k][n].base /\ j.next = job[k][n].next /\ j.prev = job[k][n].prev
        /\ j.todo = job[k][n].todo /\ j.rev = job[k][n].rev
        /\ j.src = job[k][n].src /\ j.from = job[k][n].from /\ j.reporter = job[k][n].reporter
    BY <1>1 DEF IsJob, Fields
  <1> HIDE DEF j
  <1>5. j.pc \in Pcs(k)
    BY <1>4 DEF Savers, Pcs, BeforeWrite
  <1>6. IsJob(k, n, j)
    BY <1>1, <1>2, <1>4, <1>5 DEF IsJob, Fields
  <1>7. /\ Rest({<<k, n>>}) /\ job'[k][n] = j
        /\ Only(k, n)
    BY <1>1, <1>3, SetIs
  <1>8. QED BY <1>1, <1>3, <1>4, <1>6, <1>7 DEF removed

\* What a step of a save leaves of the job: the files and the handler's request.
Kept4(j, jj) ==
    /\ jj.base = j.base /\ jj.next = j.next
    /\ jj.src = j.src /\ jj.from = j.from /\ jj.reporter = j.reporter

\* Thread k of n asks m to remove s, which m owns; the handler starts.
Asked(k, n, m, s) ==
    /\ Rest({<<k, n>>, <<"peer", m>>}) /\ m = Owner[s] /\ s \in Src /\ Home[s] = n
    /\ \A kk \in Threads, x \in Node :
          <<kk, x>> \notin {<<k, n>>, <<"peer", m>>} => job'[kk][x] = job[kk][x]
    /\ IsJob(k, n, job'[k][n]) /\ Kept4(job[k][n], job'[k][n])
    /\ job'[k][n].pc = "wait" /\ job'[k][n].ask = Without(job[k][n].ask, {s})
    /\ job["peer"][m].pc = "idle" /\ IsJob("peer", m, job'["peer"][m])
    /\ job'["peer"][m].pc = "load" /\ job'["peer"][m].src = s
    /\ job'["peer"][m].from = k /\ job'["peer"][m].reporter[1] = n
    /\ job'["peer"][m].base = NoFile /\ job'["peer"][m].next = NoFile
    /\ job'["peer"][m].ask = NoFile

\* A save asks the owner of a group it lacks, or fails.
LEMMA AskIs ==
  ASSUME PlacesAssumption, TypeInv, NEW k \in Savers, NEW n \in Node, Ask(k, n)
  PROVE  /\ job[k][n].pc = "ask" /\ UNCHANGED <<files, net, left, ghosts>>
         /\ \/ job' = Ended(k, n, "refused")
            \/ \E m \in Node \ {n}, s \in DOMAIN job[k][n].ask : Asked(k, n, m, s)
  <1>1. k \in Threads /\ "peer" \in Threads /\ job[k][n].pc = "ask" /\ UNCHANGED <<files, net, left, ghosts>>
    BY DEF Savers, Threads, Ask, At
  <1>2. IsJob(k, n, job[k][n]) /\ near[n] \subseteq Node \ {n} /\ id \in [Node -> {0, 1}]
    BY <1>1 DEF TypeInv
  <1>3. PICK s \in DOMAIN job[k][n].ask :
           \/ job' = Ended(k, n, "refused")
           \/ \E m \in {m \in Controllers(n, job[k][n].ask[s]) : At("peer", m, "idle")} :
                job' = [job EXCEPT
                    ![k][n] = [job[k][n] EXCEPT !.pc = "wait", !.ask = Without(job[k][n].ask, {s})],
                    !["peer"][m] = [Idle EXCEPT !.pc = "load", !.src = s, !.from = k, !.reporter = Id(n)]]
    BY DEF Ask
  <1>4. CASE job' = Ended(k, n, "refused")
    BY <1>1, <1>4
  <1>5. ASSUME NEW m \in Controllers(n, job[k][n].ask[s]), At("peer", m, "idle"),
               job' = [job EXCEPT
                    ![k][n] = [job[k][n] EXCEPT !.pc = "wait", !.ask = Without(job[k][n].ask, {s})],
                    !["peer"][m] = [Idle EXCEPT !.pc = "load", !.src = s, !.from = k, !.reporter = Id(n)]]
        PROVE  \E mm \in Node \ {n}, ss \in DOMAIN job[k][n].ask : Asked(k, n, mm, ss)
    <2> DEFINE j == [job[k][n] EXCEPT !.pc = "wait", !.ask = Without(job[k][n].ask, {s})]
               h == [Idle EXCEPT !.pc = "load", !.src = s, !.from = k, !.reporter = Id(n)]
    <2>1. m \in Node \ {n} /\ Id(m) = job[k][n].ask[s]
      BY <1>2 DEF Controllers
    <2>2. /\ s \in Src /\ Owner[s] # n /\ Home[s] = n /\ job[k][n].ask[s] \in {Owner[s]} \X {0, 1}
          /\ Owner[s] \in Node
      BY <1>2 DEF IsJob, IsAsk, PlacesAssumption
    <2>3. m = Owner[s]
      BY <1>2, <2>1, <2>2, Marks, MarkIs DEF Id
    <2>4. Id(n) \in Node \X {0, 1} /\ Id(n)[1] = n
      BY <1>2, Marks DEF Id
    <2>5. /\ DOMAIN h = Fields /\ h.pc = "load" /\ h.src = s /\ h.from = k /\ h.reporter = Id(n)
          /\ h.base = NoFile /\ h.next = NoFile /\ h.prev = NoFile /\ h.ask = NoFile /\ h.todo = {} /\ h.rev = 0
      BY <1>1, IdleIs DEF Fields
    <2>6. /\ DOMAIN j = Fields /\ j.pc = "wait" /\ j.ask = Without(job[k][n].ask, {s})
          /\ Kept4(job[k][n], j) /\ j.prev = job[k][n].prev /\ j.todo = job[k][n].todo /\ j.rev = job[k][n].rev
      BY <1>2 DEF IsJob, Fields, Kept4
    <2>7. job' = [job EXCEPT ![k][n] = j, !["peer"][m] = h]
      BY <1>5
    <2> HIDE DEF j, h
    <2>8. IsJob("peer", m, h)
      <3>1. "load" \in Pcs("peer") /\ IsFile(m, NoFile) /\ IsAsk(m, NoFile)
        BY NoFileIs DEF Pcs
      <3>2. QED BY <2>4, <2>5, <3>1 DEF IsJob, Fields, Savers
    <2>9. IsAsk(n, Without(job[k][n].ask, {s}))
      BY <1>2, WithoutIs DEF IsJob
    <2>10. "wait" \in Pcs(k)
      BY DEF Pcs, BeforeWrite, Savers
    <2>11. IsJob(k, n, j)
      BY <1>2, <2>6, <2>9, <2>10 DEF IsJob, Fields, Kept4
    <2>12. job = [kk \in Threads |-> [x \in Node |-> job[kk][x]]]
      BY DEF TypeInv
    <2>13. job' = [kk \in Threads |-> [x \in Node |-> IF kk = "peer" /\ x = m THEN h
                                                     ELSE IF kk = k /\ x = n THEN j ELSE job[kk][x]]]
      BY <2>1, <2>7, <2>12, <1>1
    <2>14. job'[k][n] = j /\ job'["peer"][m] = h
      BY <2>1, <2>13, <1>1
    <2>15. \A kk \in Threads, x \in Node :
              <<kk, x>> \notin {<<k, n>>, <<"peer", m>>} => job'[kk][x] = job[kk][x]
      BY <2>13
    <2>16. \A kk \in Threads, x \in Node : DOMAIN job[kk][x] = Fields
      BY DEF TypeInv, IsJob, Fields
    <2>17. Rest({<<k, n>>, <<"peer", m>>})
      <3>1. job' = [kk \in Threads |-> [x \in Node |-> job'[kk][x]]]
        BY <2>13
      <3>2. \A kk \in Threads, x \in Node :
               <<kk, x>> \notin {<<k, n>>, <<"peer", m>>} => Passive(job[kk][x], job'[kk][x])
        BY <2>15, <2>16, PassiveSelf
      <3>3. QED BY <3>1, <3>2 DEF Rest
    <2>18. Rest({<<k, n>>, <<"peer", m>>}) /\ m = Owner[s] /\ s \in Src /\ Home[s] = n
      BY <2>2, <2>3, <2>17
    <2>19. /\ IsJob(k, n, job'[k][n]) /\ Kept4(job[k][n], job'[k][n])
           /\ job'[k][n].pc = "wait" /\ job'[k][n].ask = Without(job[k][n].ask, {s})
      BY <2>6, <2>11, <2>14
    <2>20. /\ job["peer"][m].pc = "idle" /\ IsJob("peer", m, job'["peer"][m])
           /\ job'["peer"][m].pc = "load" /\ job'["peer"][m].src = s
           /\ job'["peer"][m].from = k /\ job'["peer"][m].reporter[1] = n
           /\ job'["peer"][m].base = NoFile /\ job'["peer"][m].next = NoFile
           /\ job'["peer"][m].ask = NoFile
      BY <1>5, <2>4, <2>5, <2>8, <2>14 DEF At
    <2>21. Asked(k, n, m, s)
      BY <2>15, <2>18, <2>19, <2>20 DEF Asked
    <2>22. QED BY <2>1, <2>21
  <1>6. QED BY <1>1, <1>3, <1>4, <1>5

\* A thread that ends leaves the others passive.
LEMMA EndedRest ==
  ASSUME TypeInv, NEW k \in Threads, NEW n \in Node, NEW answer, job' = Ended(k, n, answer)
  PROVE  Rest({})
  BY EndedIs DEF Rest

\* A save whose call timed out ends; the handler goes on for nobody.
LEMMA TimesOutIs ==
  ASSUME TypeInv, NEW k \in Savers, NEW n \in Node, AskTimesOut(k, n)
  PROVE  /\ Rest({}) /\ job'[k][n] = Idle /\ job[k][n].pc = "wait" /\ UNCHANGED <<files, net, ghosts>>
         /\ \A kk \in Threads, x \in Node : (kk # k \/ x # n) =>
               job'[kk][x] = LET j == IF k = "peer" /\ Calls(kk, x, n) THEN Answered(job[kk][x], "refused")
                                      ELSE job[kk][x]
                             IN  IF kk = "peer" /\ Calls(k, n, x) THEN Unheard(j) ELSE j
  <1> DEFINE after == Ended(k, n, "refused")
             J(kk, x) == IF k = "peer" /\ Calls(kk, x, n) THEN Answered(job[kk][x], "refused") ELSE job[kk][x]
  <1>1. k \in Threads
    BY DEF Savers, Threads
  <1>a. after = Ended(k, n, "refused")
    OBVIOUS
  <1>3. job' = [kk \in Threads |-> [x \in Node |->
                  IF kk = "peer" /\ Calls(k, n, x) THEN Unheard(after[kk][x]) ELSE after[kk][x]]]
    BY DEF AskTimesOut
  <1> HIDE DEF after
  <1>2. /\ after[k][n] = Idle
        /\ \A kk \in Threads, x \in Node : (kk # k \/ x # n) => after[kk][x] = J(kk, x)
        /\ \A kk \in Threads, x \in Node : Passive(job[kk][x], after[kk][x])
    BY <1>1, <1>a, EndedIs
  <1>4. \A kk \in Threads, x \in Node : DOMAIN job[kk][x] = Fields
    BY DEF TypeInv, IsJob, Fields
  <1>5. \A x \in Node : Calls(k, n, x) => x # n
    BY DEF Calls
  <1>6. \A x \in Node : Calls(k, n, x) => Passive(job["peer"][x], Unheard(after["peer"][x]))
    <2>1. SUFFICES ASSUME NEW x \in Node, Calls(k, n, x)
                   PROVE  Passive(job["peer"][x], Unheard(after["peer"][x]))
      OBVIOUS
    <2>2. "peer" \in Threads /\ after["peer"][x] = J("peer", x)
      BY <1>2, <1>5, <2>1 DEF Threads
    <2>3. CASE k = "peer" /\ Calls("peer", x, n)
      <3>1. /\ DOMAIN after["peer"][x] = Fields /\ after["peer"][x].pc = "refused"
            /\ Passive(job["peer"][x], after["peer"][x])
        <4>1. after["peer"][x] = Answered(job["peer"][x], "refused")
          BY <2>2, <2>3
        <4>2. DOMAIN job["peer"][x] = Fields /\ job["peer"][x].pc = "wait"
          BY <1>4, <2>2, <2>3 DEF Calls, At
        <4>3. QED BY <4>1, <4>2, AnsweredIs
      <3>2. after["peer"][x] # Idle
        BY <3>1, <2>2, IdleIs
      <3>3. QED BY <3>1, <3>2, PassiveUnheard
    <2>4. CASE ~(k = "peer" /\ Calls("peer", x, n))
      BY <1>4, <2>2, <2>4, UnheardIs
    <2>5. QED BY <2>3, <2>4
  <1>7. job[k][n].pc = "wait" /\ UNCHANGED <<files, net, ghosts>>
    BY DEF AskTimesOut, At
  <1>8. Rest({})
    BY <1>2, <1>3, <1>6 DEF Rest
  <1>9. job'[k][n] = Idle
    BY <1>1, <1>2, <1>3, <1>5
  <1>10. \A kk \in Threads, x \in Node : (kk # k \/ x # n) =>
            job'[kk][x] = IF kk = "peer" /\ Calls(k, n, x) THEN Unheard(J(kk, x)) ELSE J(kk, x)
    BY <1>2, <1>3
  <1>11. QED BY <1>7, <1>8, <1>9, <1>10

\* A handler finds the group in its file, or it is already gone.
LEMMA PeerLoadIs ==
  ASSUME TypeInv, NEW m \in Node, PeerLoad(m)
  PROVE  /\ job["peer"][m].pc = "load" /\ UNCHANGED <<files, net, left, ghosts>>
         /\ \/ /\ job' = Ended("peer", m, "ok")
               /\ job["peer"][m].src \notin DOMAIN conf[m] \/ Home[job["peer"][m].src] = m
            \/ /\ Rest({<<"peer", m>>}) /\ IsJob("peer", m, job'["peer"][m])
               /\ Only("peer", m)
               /\ job'["peer"][m].pc = "health" /\ job'["peer"][m].base = conf[m]
               /\ job'["peer"][m].next = job["peer"][m].next /\ job'["peer"][m].ask = job["peer"][m].ask
               /\ job'["peer"][m].src = job["peer"][m].src /\ job'["peer"][m].from = job["peer"][m].from
               /\ job'["peer"][m].reporter = job["peer"][m].reporter
  <1> DEFINE j == job["peer"][m]
             h == [j EXCEPT !.pc = "health", !.base = conf[m]]
  <1>1. /\ "peer" \in Threads /\ IsJob("peer", m, j) /\ IsFile(m, conf[m]) /\ j.pc = "load"
        /\ UNCHANGED <<files, net, left, ghosts>>
    BY DEF Threads, TypeInv, PeerLoad, At
  <1>2. \/ job' = Ended("peer", m, "ok") /\ (j.src \notin DOMAIN conf[m] \/ Home[j.src] = m)
        \/ job' = Set("peer", m, h)
    BY DEF PeerLoad
  <1>3. /\ DOMAIN h = Fields /\ h.pc = "health" /\ h.base = conf[m] /\ h.next = j.next /\ h.prev = j.prev
        /\ h.ask = j.ask /\ h.todo = j.todo /\ h.rev = j.rev /\ h.src = j.src /\ h.from = j.from
        /\ h.reporter = j.reporter
    BY <1>1 DEF IsJob, Fields
  <1> HIDE DEF h
  <1>4. "health" \in Pcs("peer")
    BY DEF Pcs
  <1>5. IsJob("peer", m, h)
    BY <1>1, <1>3, <1>4 DEF IsJob, Fields
  <1>6. ASSUME job' = Set("peer", m, h)
        PROVE  /\ Rest({<<"peer", m>>}) /\ job'["peer"][m] = h
               /\ Only("peer", m)
    BY <1>1, <1>6, SetIs
  <1>7. QED BY <1>1, <1>2, <1>3, <1>5, <1>6

\* A handler goes on to save the file without the group, or refuses.
LEMMA PeerHealthIs ==
  ASSUME TypeInv, NEW m \in Node, PeerHealth(m)
  PROVE  /\ job["peer"][m].pc = "health" /\ UNCHANGED <<files, net, left, ghosts>>
         /\ \/ job' = Ended("peer", m, "refused")
            \/ /\ Rest({<<"peer", m>>}) /\ IsJob("peer", m, job'["peer"][m])
               /\ Only("peer", m)
               /\ job'["peer"][m].pc = "compare" /\ job'["peer"][m].base = job["peer"][m].base
               /\ job'["peer"][m].next = Without(job["peer"][m].base, {job["peer"][m].src})
               /\ job'["peer"][m].ask = job["peer"][m].ask
               /\ job'["peer"][m].src = job["peer"][m].src /\ job'["peer"][m].from = job["peer"][m].from
               /\ job'["peer"][m].reporter = job["peer"][m].reporter
  <1> DEFINE j == job["peer"][m]
             next == Without(j.base, {j.src})
             h == [j EXCEPT !.pc = "compare", !.next = next]
  <1>1. /\ "peer" \in Threads /\ IsJob("peer", m, j) /\ j.pc = "health"
        /\ UNCHANGED <<files, net, left, ghosts>>
    BY DEF Threads, TypeInv, PeerHealth, At
  <1>2. job' = Ended("peer", m, "refused") \/ job' = Set("peer", m, h)
    BY DEF PeerHealth
  <1>3. IsFile(m, next)
    BY <1>1, WithoutIs DEF IsJob
  <1>4. /\ DOMAIN h = Fields /\ h.pc = "compare" /\ h.base = j.base /\ h.next = next /\ h.prev = j.prev
        /\ h.ask = j.ask /\ h.todo = j.todo /\ h.rev = j.rev /\ h.src = j.src /\ h.from = j.from
        /\ h.reporter = j.reporter
    BY <1>1 DEF IsJob, Fields
  <1> HIDE DEF h
  <1>5. "compare" \in Pcs("peer")
    BY DEF Pcs, BeforeWrite
  <1>6. IsJob("peer", m, h)
    BY <1>1, <1>3, <1>4, <1>5 DEF IsJob, Fields
  <1>7. job' = Set("peer", m, h) =>
           /\ Rest({<<"peer", m>>}) /\ job'["peer"][m] = h
           /\ Only("peer", m)
    BY <1>1, SetIs
  <1>8. QED BY <1>1, <1>2, <1>4, <1>6, <1>7

\* A save replaces the file.
LEMMA WriteIs ==
  ASSUME TypeInv, NEW k \in Savers, NEW n \in Node, Write(k, n)
  PROVE  /\ Rest({<<k, n>>}) /\ IsJob(k, n, job'[k][n])
         /\ Only(k, n)
         /\ job[k][n].pc = "write" /\ job'[k][n].pc = "reset" /\ Kept4(job[k][n], job'[k][n])
         /\ job'[k][n].ask = job[k][n].ask /\ job'[k][n].prev = conf[n] /\ job'[k][n].rev = rev[n] + 1
         /\ conf' = [conf EXCEPT ![n] = job[k][n].next] /\ rev' = [rev EXCEPT ![n] = rev[n] + 1]
  <1> DEFINE j == job[k][n]
             h == [j EXCEPT !.pc = "reset", !.prev = conf[n], !.rev = rev[n] + 1]
  <1>1. /\ k \in Threads /\ IsJob(k, n, j) /\ j.pc = "write" /\ IsFile(n, conf[n]) /\ rev[n] \in Nat
        /\ conf' = [conf EXCEPT ![n] = j.next] /\ rev' = [rev EXCEPT ![n] = rev[n] + 1]
    BY DEF Savers, Threads, TypeInv, Write, At
  <1>2. job' = Set(k, n, h)
    BY DEF Write
  <1>3. /\ DOMAIN h = Fields /\ h.pc = "reset" /\ Kept4(j, h) /\ h.prev = conf[n] /\ h.rev = rev[n] + 1
        /\ h.ask = j.ask /\ h.todo = j.todo
    BY <1>1 DEF IsJob, Fields, Kept4
  <1> HIDE DEF h
  <1>4. "reset" \in Pcs(k)
    BY DEF Pcs, Written, Savers
  <1>5. IsJob(k, n, h)
    BY <1>1, <1>3, <1>4 DEF IsJob, Fields, Kept4
  <1>6. /\ Rest({<<k, n>>}) /\ job'[k][n] = h
        /\ Only(k, n)
    BY <1>1, <1>2, SetIs
  <1>7. QED BY <1>1, <1>3, <1>5, <1>6

\* A save resets offsets and knows whom to tell.
LEMMA ResetIs ==
  ASSUME PlacesAssumption, TypeInv, NEW k \in Savers, NEW n \in Node, Reset(k, n)
  PROVE  /\ Rest({<<k, n>>}) /\ IsJob(k, n, job'[k][n])
         /\ Only(k, n)
         /\ job[k][n].pc = "reset" /\ job'[k][n].pc = "push" /\ Kept4(job[k][n], job'[k][n])
         /\ job'[k][n].ask = job[k][n].ask /\ job'[k][n].rev = job[k][n].rev
         /\ UNCHANGED <<conf, net, left, rev, seen, owed, born, doomed, gone, excuse>>
  <1> DEFINE j == job[k][n]
             todo == Targets(j.prev, j.next, n)
             h == [j EXCEPT !.pc = "push", !.todo = todo]
  <1>1. /\ k \in Threads /\ IsJob(k, n, j) /\ j.pc = "reset"
        /\ UNCHANGED <<conf, net, left, rev, seen, owed, born, doomed, gone, excuse>>
    BY DEF Savers, Threads, TypeInv, Reset, At
  <1>2. job' = Set(k, n, h)
    BY DEF Reset
  <1>3. todo \subseteq Node \ {n}
    BY <1>1 DEF Targets, Remote, IsJob, IsFile, PlacesAssumption
  <1> HIDE DEF todo
  <1>4. /\ DOMAIN h = Fields /\ h.pc = "push" /\ Kept4(j, h) /\ h.prev = j.prev /\ h.rev = j.rev
        /\ h.ask = j.ask /\ h.todo = todo
    BY <1>1 DEF IsJob, Fields, Kept4
  <1> HIDE DEF h
  <1>5. "push" \in Pcs(k)
    BY DEF Pcs, Written, Savers
  <1>6. IsJob(k, n, h)
    BY <1>1, <1>3, <1>4, <1>5 DEF IsJob, Fields, Kept4
  <1>7. /\ Rest({<<k, n>>}) /\ job'[k][n] = h
        /\ Only(k, n)
    BY <1>1, <1>2, SetIs
  <1>8. QED BY <1>1, <1>4, <1>6, <1>7

\* A thread pushes to one machine of its list: it told it, or did not.
LEMMA PushIs ==
  ASSUME TypeInv, NEW k \in Threads, NEW n \in Node, NEW m, Told(k, n, m) \/ NotTold(k, n, m), At(k, n, "push")
  PROVE  /\ Rest({<<k, n>>}) /\ IsJob(k, n, job'[k][n])
         /\ Only(k, n)
         /\ job[k][n].pc = "push" /\ job'[k][n].pc = "push" /\ Kept4(job[k][n], job'[k][n])
         /\ job'[k][n].ask = job[k][n].ask /\ job'[k][n].rev = job[k][n].rev
  <1> DEFINE j == job[k][n]
  <1>1. IsJob(k, n, j) /\ j.pc = "push"
    BY DEF TypeInv, At
  <1>2. PICK h \in {[j EXCEPT !.todo = j.todo \ {m}], [j EXCEPT !.todo = j.todo \ {m}, !.failed = TRUE]} :
          job' = Set(k, n, h)
    BY DEF Told, NotTold
  <1>3. /\ DOMAIN h = Fields /\ h.pc = "push" /\ Kept4(j, h) /\ h.prev = j.prev /\ h.rev = j.rev
        /\ h.ask = j.ask /\ h.todo = j.todo \ {m}
    BY <1>1 DEF IsJob, Fields, Kept4
  <1>4. IsJob(k, n, h)
    BY <1>1, <1>3 DEF IsJob, Fields, Kept4
  <1>5. /\ Rest({<<k, n>>}) /\ job'[k][n] = h
        /\ Only(k, n)
    BY <1>2, SetIs
  <1>6. QED BY <1>1, <1>3, <1>4, <1>5

\* A loop about to repeat a failed push.
LEMMA SleepIs ==
  ASSUME NEW n
  PROVE  IsJob("loop", n, [Idle EXCEPT !.pc = "sleep"]) /\ [Idle EXCEPT !.pc = "sleep"].pc = "sleep"
         /\ [Idle EXCEPT !.pc = "sleep"].from = "none" /\ [Idle EXCEPT !.pc = "sleep"].base = NoFile
         /\ [Idle EXCEPT !.pc = "sleep"].next = NoFile /\ [Idle EXCEPT !.pc = "sleep"].ask = NoFile
  <1> DEFINE h == [Idle EXCEPT !.pc = "sleep"]
  <1>1. "loop" \in Threads
    BY DEF Threads
  <1>2. /\ DOMAIN h = Fields /\ h.pc = "sleep" /\ h.base = NoFile /\ h.next = NoFile /\ h.prev = NoFile
        /\ h.ask = NoFile /\ h.todo = {} /\ h.rev = 0 /\ h.from = "none"
    BY <1>1, IdleIs DEF Fields
  <1> HIDE DEF h
  <1>3. "sleep" \in Pcs("loop") /\ IsFile(n, NoFile) /\ IsAsk(n, NoFile)
    BY NoFileIs DEF Pcs
  <1>4. IsJob("loop", n, h)
    BY <1>2, <1>3 DEF IsJob, Fields
  <1>5. QED BY <1>2, <1>4 DEF h

\* After the step to js the loop of n starts.
Sleeps(js, n) ==
    /\ job["loop"][n].pc = "idle" /\ Rest({<<"loop", n>>})
    /\ job'["loop"][n] = [Idle EXCEPT !.pc = "sleep"]
    /\ \A kk \in Threads, x \in Node : (kk # "loop" \/ x # n) => job'[kk][x] = js[kk][x]

\* A save ends: whoever waits for it has the answer, and a failed push is left to the loop.
LEMMA SaveEndsIs ==
  ASSUME TypeInv, NEW k \in Savers, NEW n \in Node, SaveEnds(k, n)
  PROVE  /\ job[k][n].pc = "push" /\ UNCHANGED <<files, net, left, ghosts>>
         /\ \E js : js = Ended(k, n, "ok") /\ (job' = js \/ Sleeps(js, n))
  <1> DEFINE js == Ended(k, n, "ok")
             sleep == [Idle EXCEPT !.pc = "sleep"]
  <1>1. /\ job[k][n].pc = "push" /\ UNCHANGED <<files, net, left, ghosts>>
        /\ job' = js \/ (js["loop"][n].pc = "idle" /\ job' = [js EXCEPT !["loop"][n] = sleep])
    BY DEF SaveEnds, At, Repushing
  <1>2. k \in Threads /\ "loop" \in Threads /\ k # "loop"
    BY DEF Savers, Threads
  <1>a. js = Ended(k, n, "ok")
    OBVIOUS
  <1> HIDE DEF js, sleep
  <1>3. /\ js = [kk \in Threads |-> [x \in Node |-> js[kk][x]]]
        /\ \A kk \in Threads, x \in Node : Passive(job[kk][x], js[kk][x])
        /\ js["loop"][n] = IF k = "peer" /\ Calls("loop", n, n) THEN Answered(job["loop"][n], "ok")
                           ELSE job["loop"][n]
    BY <1>2, <1>a, EndedIs
  <1>4. js["loop"][n] = job["loop"][n]
    BY <1>3 DEF Calls
  <1>5. ASSUME js["loop"][n].pc = "idle", job' = [js EXCEPT !["loop"][n] = sleep]
        PROVE  Sleeps(js, n)
    <2>1. job' = [kk \in Threads |-> [x \in Node |-> IF kk = "loop" /\ x = n THEN sleep ELSE js[kk][x]]]
      BY <1>2, <1>3, <1>5
    <2>2. /\ job' = [kk \in Threads |-> [x \in Node |-> job'[kk][x]]] /\ job'["loop"][n] = sleep
          /\ \A kk \in Threads, x \in Node : (kk # "loop" \/ x # n) => job'[kk][x] = js[kk][x]
      BY <1>2, <2>1
    <2>3. Rest({<<"loop", n>>})
      BY <1>3, <2>2 DEF Rest
    <2>4. QED BY <1>4, <1>5, <2>2, <2>3 DEF Sleeps, sleep
  <1>6. QED BY <1>1, <1>5, <1>a

\* The loop reads the newest file, repeats its pushes, and comes to an end.
LEMMA LoopIs ==
  ASSUME PlacesAssumption, TypeInv, NEW n \in Node, LoopWakes(n) \/ LoopRound(n) \/ LoopEnds(n)
  PROVE  /\ Rest({<<"loop", n>>}) /\ IsJob("loop", n, job'["loop"][n])
         /\ Only("loop", n)
         /\ job'["loop"][n].from \in {job["loop"][n].from, "none"}
         /\ job'["loop"][n].ask \in {job["loop"][n].ask, NoFile}
         /\ job'["loop"][n].base \in {job["loop"][n].base, NoFile}
         /\ \/ /\ job'["loop"][n].pc = "push" /\ job'["loop"][n].next = conf[n] /\ job'["loop"][n].rev = rev[n]
            \/ /\ job'["loop"][n].pc \in {"sleep", "done", "idle"}
               /\ job'["loop"][n].next \in {job["loop"][n].next, NoFile}
               /\ job["loop"][n].pc # "sleep"
         /\ excuse \subseteq excuse'
         /\ UNCHANGED <<files, net, left, rev, seen, owed, born, doomed, gone, moved>>
  <1> DEFINE j == job["loop"][n]
             todo == Targets(NoFile, conf[n], n)
  <1>1. "loop" \in Threads /\ IsJob("loop", n, j) /\ IsFile(n, conf[n]) /\ rev[n] \in Nat
    BY DEF Threads, TypeInv
  <1>2. UNCHANGED <<files, net, left, rev, seen, owed, born, doomed, gone, moved>> /\ excuse \subseteq excuse'
    BY DEF LoopWakes, LoopRound, LoopEnds, ghosts
  <1>3. todo \subseteq Node \ {n}
    BY <1>1, NoFileIs DEF Targets, Remote, IsFile, PlacesAssumption
  <1>4. CASE LoopWakes(n)
    <2> DEFINE h == [j EXCEPT !.pc = "push", !.next = conf[n], !.rev = rev[n], !.failed = FALSE, !.todo = todo]
    <2>1. job' = Set("loop", n, h)
      BY <1>4 DEF LoopWakes
    <2> HIDE DEF todo
    <2>2. /\ DOMAIN h = Fields /\ h.pc = "push" /\ h.next = conf[n] /\ h.rev = rev[n] /\ h.base = j.base
          /\ h.prev = j.prev /\ h.ask = j.ask /\ h.todo = todo /\ h.from = j.from /\ h.reporter = j.reporter
      BY <1>1 DEF IsJob, Fields
    <2> HIDE DEF h
    <2>3. "push" \in Pcs("loop")
      BY DEF Pcs
    <2>4. IsJob("loop", n, h)
      BY <1>1, <1>3, <2>2, <2>3 DEF IsJob, Fields
    <2>5. /\ Rest({<<"loop", n>>}) /\ job'["loop"][n] = h
          /\ Only("loop", n)
      BY <1>1, <2>1, SetIs
    <2>6. QED BY <1>2, <2>2, <2>4, <2>5
  <1>5. CASE LoopRound(n)
    <2>1. \E pc \in {"sleep", "done"} : \E tries :
             job' = Set("loop", n, [j EXCEPT !.tries = tries, !.pc = pc])
      BY <1>5 DEF LoopRound
    <2>a. PICK pc \in {"sleep", "done"} : \E tries :
             job' = Set("loop", n, [j EXCEPT !.tries = tries, !.pc = pc])
      BY <2>1
    <2>b. PICK tries : job' = Set("loop", n, [j EXCEPT !.tries = tries, !.pc = pc])
      BY <2>a
    <2> DEFINE h == [j EXCEPT !.tries = tries, !.pc = pc]
    <2>2. job' = Set("loop", n, h) /\ j.pc = "push"
      BY <1>5, <2>b DEF LoopRound, At
    <2>3. /\ DOMAIN h = Fields /\ h.pc = pc /\ h.next = j.next /\ h.rev = j.rev /\ h.base = j.base
          /\ h.prev = j.prev /\ h.ask = j.ask /\ h.todo = j.todo /\ h.from = j.from /\ h.reporter = j.reporter
      BY <1>1 DEF IsJob, Fields
    <2> HIDE DEF h
    <2>4. pc \in Pcs("loop")
      BY DEF Pcs
    <2>5. IsJob("loop", n, h)
      BY <1>1, <2>3, <2>4 DEF IsJob, Fields
    <2>6. /\ Rest({<<"loop", n>>}) /\ job'["loop"][n] = h
          /\ Only("loop", n)
      BY <1>1, <2>2, SetIs
    <2>7. QED BY <1>2, <2>2, <2>3, <2>5, <2>6
  <1>6. CASE LoopEnds(n)
    <2>1. job' = Set("loop", n, Idle) /\ j.pc = "done"
      BY <1>6 DEF LoopEnds, At
    <2>2. /\ Rest({<<"loop", n>>}) /\ job'["loop"][n] = Idle
          /\ Only("loop", n)
      BY <1>1, <2>1, SetIs
    <2>3. QED BY <1>1, <1>2, <2>1, <2>2, IdleIs
  <1>7. QED BY <1>4, <1>5, <1>6

\* A machine that dies forgets its threads; whoever called it fails, and whom it called
\* goes on for nobody.
LEMMA DiesIs ==
  ASSUME TypeInv, NEW n \in Node, Dies(n)
  PROVE  /\ Rest({}) /\ \A k \in Threads : job'[k][n] = Idle
         /\ \A k \in Threads, x \in Node \ {n} :
               job'[k][x] = LET j == IF Calls(k, x, n) THEN Answered(job[k][x], "refused") ELSE job[k][x]
                            IN  IF k = "peer" /\ \E kk \in Threads : Calls(kk, n, x) THEN Unheard(j) ELSE j
         /\ late' \subseteq late /\ excuse \subseteq excuse'
  <1> DEFINE J(k, x) == IF Calls(k, x, n) THEN Answered(job[k][x], "refused") ELSE job[k][x]
             G(k, x) == IF x = n THEN Idle
                        ELSE IF k = "peer" /\ \E kk \in Threads : Calls(kk, n, x) THEN Unheard(J(k, x))
                        ELSE J(k, x)
  <1>1. job' = [k \in Threads |-> [x \in Node |-> G(k, x)]]
    BY DEF Dies
  <1>2. late' \subseteq late /\ excuse \subseteq excuse'
    BY DEF Dies
  <1>3. \A k \in Threads, x \in Node : DOMAIN job[k][x] = Fields
    BY DEF TypeInv, IsJob, Fields
  <1>4. ASSUME NEW k \in Threads, NEW x \in Node PROVE Passive(job[k][x], G(k, x))
    <2>1. CASE Calls(k, x, n)
      <3>1. DOMAIN job[k][x] = Fields /\ job[k][x].pc = "wait"
        BY <1>3, <2>1 DEF Calls, At
      <3>2. /\ DOMAIN Answered(job[k][x], "refused") = Fields /\ Answered(job[k][x], "refused").pc = "refused"
            /\ Passive(job[k][x], Answered(job[k][x], "refused"))
        BY <3>1, AnsweredIs
      <3>3. Answered(job[k][x], "refused") # Idle
        BY <3>2, IdleIs
      <3>4. Passive(job[k][x], Unheard(Answered(job[k][x], "refused")))
        BY <3>2, <3>3, PassiveUnheard
      <3>5. QED BY <2>1, <3>2, <3>4 DEF Passive
    <2>2. CASE ~Calls(k, x, n)
      <3>1. Passive(job[k][x], job[k][x]) /\ Passive(job[k][x], Unheard(job[k][x])) /\ Passive(job[k][x], Idle)
        BY <1>3, PassiveSelf, UnheardIs DEF Passive
      <3>2. QED BY <2>2, <3>1
    <2>3. QED BY <2>1, <2>2
  <1> HIDE DEF G
  <1>5. /\ job' = [k \in Threads |-> [x \in Node |-> job'[k][x]]]
        /\ \A k \in Threads, x \in Node : job'[k][x] = G(k, x)
    BY <1>1
  <1>6. Rest({})
    BY <1>4, <1>5 DEF Rest
  <1>7. QED BY <1>2, <1>5, <1>6 DEF G

\* A machine takes over a list: own groups and those of others stay.
LEMMA ApplyIs ==
  ASSUME PlacesAssumption, TypeInv, NEW p, IsPush(p), Apply(p.to, p)
  PROVE  /\ conf' = [conf EXCEPT ![p.to] = Merged(conf[p.to], p)]
         /\ \A n \in Node : IsFile(n, conf'[n])
         /\ \A n \in Node \ {p.to} : conf'[n] = conf[n]
         /\ DOMAIN p.groups \subseteq DOMAIN conf'[p.to]
         /\ DOMAIN conf'[p.to] \subseteq DOMAIN conf[p.to] \cup DOMAIN p.groups
         /\ \A s \in DOMAIN p.groups : conf'[p.to][s] = p.groups[s]
         /\ \A s \in DOMAIN conf'[p.to] \ DOMAIN p.groups : conf'[p.to][s] = conf[p.to][s]
         /\ \A s \in DOMAIN conf[p.to] : Owner[s] # p.from => s \in DOMAIN conf'[p.to]
         /\ conf' = [n \in Node |-> conf'[n]]
         /\ seen' \in [Node -> [Node -> Nat]] /\ excuse \subseteq excuse'
         /\ p.rev < rev[p.from] => "outdated" \in excuse'
  <1> DEFINE m == p.to
             M == Merged(conf[m], p)
  <1>1. m \in Node /\ p.from \in Node /\ p.rev \in Nat /\ p.by \in {p.from} \X {0, 1}
    BY DEF IsPush
  <1>2. IsFile(m, conf[m]) /\ conf = [n \in Node |-> conf[n]]
    BY <1>1 DEF TypeInv
  <1>3. /\ IsFile(m, M)
        /\ DOMAIN M = DOMAIN p.groups \cup {s \in DOMAIN conf[m] : conf[m][s].by # p.by}
        /\ \A s \in DOMAIN p.groups : M[s] = p.groups[s]
        /\ \A s \in DOMAIN conf[m] : conf[m][s].by # p.by /\ s \notin DOMAIN p.groups => M[s] = conf[m][s]
    <2> HIDE DEF m
    <2>1. p.to = m
      BY DEF m
    <2>2. /\ IsFile(m, M)
          /\ DOMAIN M = DOMAIN p.groups \cup {s \in DOMAIN conf[m] : conf[m][s].by # p.by}
      BY <1>1, <1>2, <2>1, MergedIs
    <2>3. \A s \in DOMAIN p.groups : M[s] = p.groups[s]
      BY MergedNew
    <2>4. \A s \in DOMAIN conf[m] : conf[m][s].by # p.by /\ s \notin DOMAIN p.groups => M[s] = conf[m][s]
      BY MergedOld
    <2>5. QED BY <2>2, <2>3, <2>4
  <1>4. conf' = [conf EXCEPT ![m] = M]
    BY DEF Apply
  <1> HIDE DEF M
  <1>5. conf' = [n \in Node |-> IF n = m THEN M ELSE conf[n]]
    BY <1>2, <1>4
  <1>6. \A s \in DOMAIN conf[m] : conf[m][s].by = p.by => Owner[s] = p.from
    <2>1. SUFFICES ASSUME NEW s \in DOMAIN conf[m], conf[m][s].by = p.by PROVE Owner[s] = p.from
      OBVIOUS
    <2>2. p.by # NoId
      BY <1>1, MarkIs
    <2>3. Owner[s] \in Node /\ conf[m][s].by \in {Owner[s]} \X {0, 1}
      BY <1>1, <1>2, <2>1, <2>2, EntryIs
    <2>4. QED BY <1>1, <2>1, <2>3, MarkIs
  <1>7. seen' \in [Node -> [Node -> Nat]]
    <2>1. seen \in [Node -> [Node -> Nat]]
      BY DEF TypeInv
    <2>2. seen' = [seen EXCEPT ![m][p.from] = IF seen[m][p.from] > p.rev THEN seen[m][p.from] ELSE p.rev]
      BY DEF Apply
    <2>3. QED BY <1>1, <2>1, <2>2
  <1>8. excuse \subseteq excuse' /\ (p.rev < rev[p.from] => "outdated" \in excuse')
    BY DEF Apply
  <1>9. \A n \in Node : IsFile(n, conf'[n])
    BY <1>1, <1>3, <1>5 DEF TypeInv
  <1>10. conf'[m] = M
    BY <1>1, <1>5
  <1>11. DOMAIN M \subseteq DOMAIN conf[m] \cup DOMAIN p.groups /\ DOMAIN p.groups \subseteq DOMAIN M
    BY <1>3
  <1>12. \A s \in DOMAIN M \ DOMAIN p.groups : M[s] = conf[m][s]
    BY <1>3
  <1>13. \A s \in DOMAIN conf[m] : Owner[s] # p.from => s \in DOMAIN M
    BY <1>3, <1>6
  <1>14. QED BY <1>3, <1>4, <1>5, <1>7, <1>8, <1>9, <1>10, <1>11, <1>12, <1>13 DEF M

----------------------------------------------------------------------------
(* Types. *)

\* A step of threads alone keeps the types.
LEMMA TypeFrame ==
  ASSUME TypeInv, UNCHANGED <<conf, at, id, near, late, rev, seen, owed>>, NEW A, Rest(A),
         \A k \in Threads, n \in Node : <<k, n>> \in A => IsJob(k, n, job'[k][n])
  PROVE  TypeInv'
  <1>1. /\ job' = [k \in Threads |-> [n \in Node |-> job'[k][n]]]
        /\ \A k \in Threads, n \in Node : IsJob(k, n, job'[k][n])
    BY JobsTyped
  <1>2. QED BY <1>1 DEF TypeInv

\* A step of one thread alone.
LEMMA TypeOne ==
  ASSUME TypeInv, UNCHANGED <<conf, at, id, near, late, rev, seen, owed>>, NEW k, NEW n, Rest({<<k, n>>}),
         IsJob(k, n, job'[k][n])
  PROVE  TypeInv'
  <1>1. \A kk \in Threads, x \in Node : <<kk, x>> \in {<<k, n>>} => IsJob(kk, x, job'[kk][x])
    OBVIOUS
  <1>2. QED BY <1>1, TypeFrame

\* Saves and handlers before and after the write keep the types.
LEMMA TypeThreads ==
  ASSUME PlacesAssumption, VerAssumption, TypeInv, NEW n \in Node, NEW k \in Savers, Moves(k, n)
  PROVE  TypeInv'
  <1>0. k \in Threads /\ "peer" \in Threads /\ "loop" \in Threads /\ "user" \in Threads
    BY DEF Savers, Threads
  <1>a. ASSUME NEW kk \in Threads, NEW x \in Node, NEW answer, job' = Ended(kk, x, answer),
               UNCHANGED <<files, net, ghosts>>
        PROVE  TypeInv'
    <2>1. Rest({})
      BY <1>a, EndedRest
    <2>2. QED BY <1>a, <2>1, TypeFrame DEF files, net, ghosts
  <1>1. CASE Form(n)
    BY <1>1, FormIs, TypeFrame DEF files, net
  <1>2. CASE Compare(k, n)
    <2>1. Rest({<<k, n>>}) /\ IsJob(k, n, job'[k][n]) /\ UNCHANGED <<files, net, rev, seen, owed>>
      BY <1>2, CompareIs
    <2>2. UNCHANGED <<conf, at, id, near, late, rev, seen, owed>>
      BY <2>1 DEF files, net
    <2>3. QED BY <2>1, <2>2, TypeOne
  <1>3. CASE Ask(k, n)
    <2>1. UNCHANGED <<files, net, ghosts>>
      BY <1>3, AskIs
    <2>2. CASE job' = Ended(k, n, "refused")
      BY <1>0, <1>a, <2>1, <2>2
    <2>3. CASE job' # Ended(k, n, "refused")
      <3>1. PICK m \in Node \ {n}, s \in DOMAIN job[k][n].ask : Asked(k, n, m, s)
        BY <1>3, <2>3, AskIs
      <3> DEFINE A == {<<k, n>>, <<"peer", m>>}
      <3>2. Rest(A) /\ \A kk \in Threads, x \in Node : <<kk, x>> \in A => IsJob(kk, x, job'[kk][x])
        BY <3>1 DEF Asked
      <3> HIDE DEF A
      <3>3. UNCHANGED <<conf, at, id, near, late, rev, seen, owed>>
        BY <2>1 DEF files, net, ghosts
      <3>4. QED BY <3>2, <3>3, TypeFrame
    <2>4. QED BY <2>2, <2>3
  <1>4. CASE Refused(k, n)
    <2>1. job' = Ended(k, n, "refused") /\ UNCHANGED <<files, net, ghosts>>
      BY <1>4 DEF Refused
    <2>2. QED BY <1>0, <1>a, <2>1
  <1>5. CASE AskTimesOut(k, n)
    BY <1>5, TimesOutIs, TypeFrame DEF files, net, ghosts
  <1>6. CASE PeerLoad(n)
    <2>1. CASE job' = Ended("peer", n, "ok")
      BY <1>0, <1>6, <1>a, <2>1, PeerLoadIs
    <2>2. CASE Rest({<<"peer", n>>}) /\ IsJob("peer", n, job'["peer"][n])
      BY <1>6, <2>2, PeerLoadIs, TypeFrame DEF files, net, ghosts
    <2>3. QED BY <1>6, <2>1, <2>2, PeerLoadIs
  <1>7. CASE PeerHealth(n)
    <2>1. CASE job' = Ended("peer", n, "refused")
      BY <1>0, <1>7, <1>a, <2>1, PeerHealthIs
    <2>2. CASE Rest({<<"peer", n>>}) /\ IsJob("peer", n, job'["peer"][n])
      BY <1>7, <2>2, PeerHealthIs, TypeFrame DEF files, net, ghosts
    <2>3. QED BY <1>7, <2>1, <2>2, PeerHealthIs
  <1>8. CASE SaveEnds(k, n)
    <2>1. PICK js : js = Ended(k, n, "ok") /\ (job' = js \/ Sleeps(js, n))
      BY <1>8, SaveEndsIs
    <2>2. UNCHANGED <<files, net, ghosts>>
      BY <1>8, SaveEndsIs
    <2>3. CASE job' = js
      BY <1>0, <1>a, <2>1, <2>2, <2>3
    <2>4. CASE Sleeps(js, n)
      <3>0. Rest({<<"loop", n>>}) /\ job'["loop"][n] = [Idle EXCEPT !.pc = "sleep"]
        BY <2>4 DEF Sleeps
      <3>1. IsJob("loop", n, job'["loop"][n])
        BY <3>0, SleepIs
      <3>2. QED BY <2>2, <3>0, <3>1, TypeFrame DEF files, net, ghosts
    <2>5. QED BY <2>1, <2>3, <2>4
  <1>9. CASE LoopWakes(n) \/ LoopRound(n) \/ LoopEnds(n)
    BY <1>9, LoopIs, TypeFrame DEF files, net
  <1>10. QED BY <1>1, <1>2, <1>3, <1>4, <1>5, <1>6, <1>7, <1>8, <1>9 DEF Moves

\* Writing, resetting and pushing keep the types.
LEMMA TypeWrites ==
  ASSUME PlacesAssumption, TypeInv, NEW n \in Node, NEW k \in Savers, Write(k, n) \/ Reset(k, n)
  PROVE  TypeInv'
  <1>1. CASE Write(k, n)
    <2>1. /\ Rest({<<k, n>>}) /\ IsJob(k, n, job'[k][n])
          /\ conf' = [conf EXCEPT ![n] = job[k][n].next] /\ rev' = [rev EXCEPT ![n] = rev[n] + 1]
      BY <1>1, WriteIs
    <2>2. /\ job' = [kk \in Threads |-> [x \in Node |-> job'[kk][x]]]
          /\ \A kk \in Threads, x \in Node : IsJob(kk, x, job'[kk][x])
      <3>1. \A kk \in Threads, x \in Node : <<kk, x>> \in {<<k, n>>} => IsJob(kk, x, job'[kk][x])
        BY <2>1
      <3>2. QED BY <2>1, <3>1, JobsTyped
    <2>3. IsFile(n, job[k][n].next) /\ conf = [x \in Node |-> conf[x]] /\ \A x \in Node : IsFile(x, conf[x])
      BY DEF TypeInv, IsJob, Savers, Threads
    <2>4. conf' = [x \in Node |-> IF x = n THEN job[k][n].next ELSE conf[x]]
      BY <2>1, <2>3
    <2>5. conf' = [x \in Node |-> conf'[x]] /\ \A x \in Node : IsFile(x, conf'[x])
      BY <2>3, <2>4
    <2>6. rev' \in [Node -> Nat]
      BY <2>1 DEF TypeInv
    <2>7. UNCHANGED <<at, id, near, late, seen, owed>>
      BY <1>1 DEF Write, net
    <2>8. QED BY <2>2, <2>5, <2>6, <2>7 DEF TypeInv
  <1>2. CASE Reset(k, n)
    <2>1. Rest({<<k, n>>}) /\ IsJob(k, n, job'[k][n]) /\ UNCHANGED <<conf, net, rev, seen, owed>>
      BY <1>2, ResetIs
    <2>2. /\ job' = [kk \in Threads |-> [x \in Node |-> job'[kk][x]]]
          /\ \A kk \in Threads, x \in Node : IsJob(kk, x, job'[kk][x])
      <3>1. \A kk \in Threads, x \in Node : <<kk, x>> \in {<<k, n>>} => IsJob(kk, x, job'[kk][x])
        BY <2>1
      <3>2. QED BY <2>1, <3>1, JobsTyped
    <2>3. at' \in [Src -> Ver \cup {0}]
      <3>1. PICK R : at' = [s \in Src |-> IF s \in R THEN 0 ELSE at[s]]
        BY <1>2 DEF Reset
      <3>2. QED BY <3>1 DEF TypeInv
    <2>4. QED BY <2>1, <2>2, <2>3 DEF TypeInv, net
  <1>3. QED BY <1>1, <1>2

\* What a push does besides the pushing thread's own record: the list arrives, or stays
\* on its way, or is not sent.
LEMMA PushData ==
  ASSUME PlacesAssumption, TypeInv, NEW k \in Threads, NEW n \in Node, Push(k, n)
  PROVE  \E m, p :
            /\ m \in Node \ {n}
            /\ p = [from |-> n, to |-> m, by |-> Id(n), rev |-> job[k][n].rev,
                    groups |-> Groups(job[k][n].next, n, m)]
            /\ IsPush(p) /\ p.from = n /\ p.to = m /\ p.rev = job[k][n].rev
            /\ DOMAIN p.groups = {s \in DOMAIN job[k][n].next : Home[s] = m}
            /\ job[k][n].pc = "push" /\ (Told(k, n, m) \/ NotTold(k, n, m))
            /\ \/ Apply(m, p) /\ ~Clashes(conf[m], p) /\ late' = late
               \/ UNCHANGED <<conf, seen, moved, excuse>> /\ late' \subseteq late \cup {p}
            /\ UNCHANGED <<at, id, near, rev, born, doomed, gone>>
  <1>1. PICK m \in job[k][n].todo :
          LET p == [from |-> n, to |-> m, by |-> Id(n), rev |-> job[k][n].rev,
                    groups |-> Groups(job[k][n].next, n, m)]
          IN  /\ Told(k, n, m) \/ NotTold(k, n, m)
              /\ \/ Apply(m, p) /\ ~Clashes(conf[m], p) /\ late' = late
                 \/ UNCHANGED <<conf, seen, moved, excuse>> /\ late' \subseteq late \cup {p}
    BY DEF Push
  <1>2. job[k][n].pc = "push" /\ UNCHANGED <<at, id, near, rev, born, doomed, gone>>
    BY DEF Push, At
  <1>3. IsJob(k, n, job[k][n]) /\ id[n] \in {0, 1}
    BY DEF TypeInv
  <1>4. m \in Node \ {n} /\ IsFile(n, job[k][n].next) /\ job[k][n].rev \in Nat
    BY <1>3 DEF IsJob
  <1> DEFINE p == [from |-> n, to |-> m, by |-> Id(n), rev |-> job[k][n].rev,
                   groups |-> Groups(job[k][n].next, n, m)]
  <1>5. IsPush(p) /\ DOMAIN Groups(job[k][n].next, n, m) = {s \in DOMAIN job[k][n].next : Home[s] = m}
    <2>1. DOMAIN p.groups = {s \in DOMAIN job[k][n].next : Home[s] = m} /\ p.groups = Groups(job[k][n].next, n, m)
      BY DEF Groups
    <2>2. \A s \in DOMAIN p.groups :
             s \in Src /\ Owner[s] = n /\ Home[s] = m /\ p.groups[s] \in Entry /\ p.groups[s].by = Id(n)
      BY <1>3, <1>4, <2>1, GroupsEntry
    <2>3. Id(n) \in {n} \X {0, 1}
      BY <1>3, Marks DEF Id
    <2>4. DOMAIN p = {"from", "to", "by", "rev", "groups"} /\ p.by = Id(n)
      OBVIOUS
    <2>5. p.from = n /\ p.to = m /\ p.rev = job[k][n].rev
      OBVIOUS
    <2> HIDE DEF p
    <2>6. QED BY <1>4, <2>1, <2>2, <2>3, <2>4, <2>5 DEF IsPush
  <1>6. p.from = n /\ p.to = m /\ p.rev = job[k][n].rev /\ p.groups = Groups(job[k][n].next, n, m)
    OBVIOUS
  <1>7. /\ Told(k, n, m) \/ NotTold(k, n, m)
        /\ \/ Apply(m, p) /\ ~Clashes(conf[m], p) /\ late' = late
           \/ UNCHANGED <<conf, seen, moved, excuse>> /\ late' \subseteq late \cup {p}
    BY <1>1
  <1>8. p = [from |-> n, to |-> m, by |-> Id(n), rev |-> job[k][n].rev,
             groups |-> Groups(job[k][n].next, n, m)]
    OBVIOUS
  <1> HIDE DEF p
  <1>9. QED BY <1>2, <1>4, <1>5, <1>6, <1>7, <1>8

\* A push keeps the types.
LEMMA TypePush ==
  ASSUME PlacesAssumption, TypeInv, NEW k \in Threads, NEW n \in Node, Push(k, n)
  PROVE  TypeInv'
  <1>1. PICK m, p :
           /\ m \in Node \ {n}
           /\ IsPush(p) /\ p.to = m
           /\ job[k][n].pc = "push" /\ (Told(k, n, m) \/ NotTold(k, n, m))
           /\ \/ Apply(m, p) /\ late' = late
              \/ UNCHANGED <<conf, seen, moved, excuse>> /\ late' \subseteq late \cup {p}
           /\ UNCHANGED <<at, id, near, rev, born, doomed, gone>>
    BY PushData
  <1>2. /\ job' = [kk \in Threads |-> [x \in Node |-> job'[kk][x]]]
        /\ \A kk \in Threads, x \in Node : IsJob(kk, x, job'[kk][x])
    <2>1. Rest({<<k, n>>}) /\ IsJob(k, n, job'[k][n])
      BY <1>1, PushIs DEF At
    <2>2. \A kk \in Threads, x \in Node : <<kk, x>> \in {<<k, n>>} => IsJob(kk, x, job'[kk][x])
      BY <2>1
    <2>3. QED BY <2>1, <2>2, JobsTyped
  <1>3. owed' = [x \in Node |-> owed'[x]] /\ \A x \in Node : owed'[x] \subseteq Node \ {x}
    <2>1. PICK o \in {owed[n], owed[n] \ {m}, owed[n] \cup {m}} : owed' = [owed EXCEPT ![n] = o]
      BY <1>1 DEF Told, NotTold
    <2>2. owed = [x \in Node |-> owed[x]] /\ \A x \in Node : owed[x] \subseteq Node \ {x}
      BY DEF TypeInv
    <2>3. owed' = [x \in Node |-> IF x = n THEN o ELSE owed[x]]
      BY <2>1, <2>2
    <2>4. o \subseteq Node \ {n}
      BY <1>1, <2>1, <2>2
    <2>5. QED BY <2>2, <2>3, <2>4
  <1>4. /\ conf' = [x \in Node |-> conf'[x]] /\ \A x \in Node : IsFile(x, conf'[x])
        /\ seen' \in [Node -> [Node -> Nat]]
    <2>1. CASE Apply(m, p)
      BY <1>1, <2>1, ApplyIs
    <2>2. CASE UNCHANGED <<conf, seen>>
      BY <2>2 DEF TypeInv
    <2>3. QED BY <1>1, <2>1, <2>2
  <1>5. \A q \in late' : IsPush(q)
    BY <1>1 DEF TypeInv
  <1>6. QED BY <1>1, <1>2, <1>3, <1>4, <1>5 DEF TypeInv

\* A late push keeps the types.
LEMMA TypeLate ==
  ASSUME PlacesAssumption, TypeInv, NEW p \in late, LateArrives(p)
  PROVE  TypeInv'
  <1>1. /\ IsPush(p) /\ late' \subseteq late /\ UNCHANGED <<at, id, near, job, left, rev, owed, born, doomed, gone>>
        /\ Apply(p.to, p) \/ UNCHANGED <<conf, seen, moved, excuse>>
    BY DEF LateArrives, TypeInv
  <1>2. /\ conf' = [x \in Node |-> conf'[x]] /\ \A x \in Node : IsFile(x, conf'[x])
        /\ seen' \in [Node -> [Node -> Nat]]
    <2>1. CASE Apply(p.to, p)
      BY <1>1, <2>1, ApplyIs
    <2>2. CASE UNCHANGED <<conf, seen>>
      BY <2>2 DEF TypeInv
    <2>3. QED BY <1>1, <2>1, <2>2
  <1>3. QED BY <1>1, <1>2 DEF TypeInv

\* What the network and the engine do keeps the types.
LEMMA TypeWorld ==
  ASSUME PlacesAssumption, VerAssumption, TypeInv, World
  PROVE  TypeInv'
  <1>1. CASE \E n, m \in Node : Cut(n, m) \/ Discover(n, m)
    <2>1. PICK n \in Node, m \in Node : Cut(n, m) \/ Discover(n, m)
      BY <1>1
    <2>2. PICK N \in {near[n] \ {m}, near[n] \cup {m}} : near' = [near EXCEPT ![n] = N]
      BY <2>1 DEF Cut, Discover
    <2>3. N \subseteq Node \ {n}
      BY <2>1, <2>2 DEF Cut, Discover, TypeInv
    <2>4. near' = [x \in Node |-> IF x = n THEN N ELSE near[x]]
      BY <2>2 DEF TypeInv
    <2>5. near' = [x \in Node |-> near'[x]] /\ \A x \in Node : near'[x] \subseteq Node \ {x}
      BY <2>3, <2>4 DEF TypeInv
    <2>6. UNCHANGED <<conf, at, id, job, late, rev, seen, owed>>
      BY <2>1 DEF Cut, Discover, files, ghosts
    <2>7. QED BY <2>5, <2>6 DEF TypeInv
  <1>2. CASE \E s \in Src : Pass(s)
    <2>1. PICK s \in Src : Pass(s)
      BY <1>2
    <2>2. s \in DOMAIN conf[Home[s]] /\ at' = [at EXCEPT ![s] = conf[Home[s]][s].v]
      BY <2>1 DEF Pass
    <2>3. Home[s] \in Node /\ IsFile(Home[s], conf[Home[s]])
      BY <2>1 DEF PlacesAssumption, TypeInv
    <2>4. conf[Home[s]][s].v \in Ver
      BY <2>2, <2>3, EntryIs
    <2>5. at' \in [Src -> Ver \cup {0}]
      BY <2>2, <2>4 DEF TypeInv
    <2>6. UNCHANGED <<conf, id, near, job, late, rev, seen, owed>>
      BY <2>1 DEF Pass, net
    <2>7. QED BY <2>5, <2>6 DEF TypeInv
  <1>3. CASE \E n \in Node : Prune(n)
    <2>1. PICK n \in Node : Prune(n)
      BY <1>3
    <2>2. UNCHANGED <<conf, id, near, job, late, rev, seen, owed>>
      BY <2>1 DEF Prune, net
    <2>3. PICK R : at' = [s \in Src |-> IF s \in R THEN at[s] ELSE 0]
      <3>1. at' = [s \in Src |-> IF s \in {x \in Src : x \in DOMAIN conf[n] \/ Home[x] # n} THEN at[s] ELSE 0]
        BY <2>1 DEF Prune
      <3>2. QED BY <3>1
    <2>4. QED BY <2>2, <2>3 DEF TypeInv
  <1>4. CASE \E n \in Node : Crash(n) \/ Rename(n)
    <2>1. PICK n \in Node : Crash(n) \/ Rename(n)
      BY <1>4
    <2>2. Dies(n) /\ UNCHANGED <<files, rev, seen, owed>>
      BY <2>1 DEF Crash, Rename
    <2>3. Rest({}) /\ late' \subseteq late
      BY <2>2, DiesIs
    <2>4. /\ job' = [kk \in Threads |-> [x \in Node |-> job'[kk][x]]]
          /\ \A kk \in Threads, x \in Node : IsJob(kk, x, job'[kk][x])
      BY <2>3, JobsTyped
    <2>5. /\ id' \in [Node -> {0, 1}] /\ near' = [x \in Node |-> near'[x]]
          /\ \A x \in Node : near'[x] \subseteq Node \ {x}
      <3>1. CASE Crash(n)
        BY <3>1 DEF Crash, TypeInv
      <3>2. CASE Rename(n)
        <4>1. id' = [id EXCEPT ![n] = 1 - id[n]] /\ near' = [x \in Node |-> near[x] \ {n}]
          BY <3>2 DEF Rename
        <4>2. id[n] \in {0, 1} /\ 1 - id[n] \in {0, 1}
          BY DEF TypeInv
        <4>3. QED BY <4>1, <4>2 DEF TypeInv
      <3>3. QED BY <2>1, <3>1, <3>2
    <2>6. QED BY <2>2, <2>3, <2>4, <2>5 DEF TypeInv, files
  <1>5. CASE \E p \in late : LateArrives(p)
    BY <1>5, TypeLate
  <1>6. CASE UNCHANGED vars
    BY <1>6 DEF vars, files, net, ghosts, TypeInv
  <1>7. QED BY <1>1, <1>2, <1>3, <1>4, <1>5, <1>6 DEF World

\* Every step is one of a thread or of the world.
LEMMA StepIs ==
  ASSUME [Next]_vars
  PROVE  \/ \E n \in Node, k \in Savers : Moves(k, n) \/ Write(k, n) \/ Reset(k, n)
         \/ \E n \in Node, k \in Threads : Push(k, n)
         \/ World
  <1>1. CASE \E n \in Node : Form(n) \/ PeerLoad(n) \/ PeerHealth(n) \/ LoopWakes(n) \/ LoopRound(n) \/ LoopEnds(n)
    BY <1>1 DEF Moves, Savers
  <1>2. CASE \E n \in Node, k \in {"user", "peer"} :
               \/ Compare(k, n) \/ Ask(k, n) \/ Refused(k, n) \/ AskTimesOut(k, n) \/ Write(k, n)
               \/ Reset(k, n) \/ SaveEnds(k, n)
    BY <1>2 DEF Moves, Savers
  <1>3. CASE \E n \in Node, k \in Threads : Push(k, n)
    BY <1>3
  <1>4. CASE World
    BY <1>4
  <1>5. QED BY <1>1, <1>2, <1>3, <1>4 DEF Next, World

\* Every step keeps the types.
LEMMA TypeStep ==
  ASSUME PlacesAssumption, VerAssumption, TypeInv, [Next]_vars
  PROVE  TypeInv'
  BY StepIs, TypeThreads, TypeWrites, TypePush, TypeWorld

\* The first state is typed.
LEMMA TypeInit ==
  ASSUME PlacesAssumption, VerAssumption, Init
  PROVE  TypeInv
  <1> DEFINE F(n) == [s \in {x \in Initial : n \in {Owner[x], Home[x]}} |->
                        [v |-> 1, by |-> IF n = Owner[s] THEN NoId ELSE <<Owner[s], 0>>]]
  <1>1. ASSUME NEW n \in Node PROVE IsFile(n, F(n))
    <2>1. \A s \in DOMAIN F(n) : s \in Src /\ Owner[s] \in Node
      BY DEF PlacesAssumption
    <2>2. \A s \in DOMAIN F(n) : <<Owner[s], 0>> \in {Owner[s]} \X {0, 1} /\ <<Owner[s], 0>> \in Node \X {0, 1}
      BY <2>1, Marks
    <2>3. \A s \in DOMAIN F(n) : F(n)[s] \in Entry
      BY <2>2 DEF Entry, VerAssumption
    <2>4. QED BY <2>1, <2>2, <2>3 DEF IsFile
  <1>2. conf = [n \in Node |-> F(n)]
    BY DEF Init
  <1> HIDE DEF F
  <1>3. conf = [n \in Node |-> conf[n]] /\ \A n \in Node : IsFile(n, conf[n])
    BY <1>1, <1>2
  <1>4. /\ job = [k \in Threads |-> [n \in Node |-> job[k][n]]]
        /\ \A k \in Threads, n \in Node : IsJob(k, n, job[k][n])
    BY IdleIs DEF Init
  <1>5. /\ at \in [Src -> Ver \cup {0}] /\ id \in [Node -> {0, 1}]
        /\ near = [n \in Node |-> near[n]] /\ owed = [n \in Node |-> owed[n]]
        /\ \A n \in Node : near[n] \subseteq Node \ {n} /\ owed[n] \subseteq Node \ {n}
        /\ rev \in [Node -> Nat] /\ seen \in [Node -> [Node -> Nat]]
        /\ \A p \in late : IsPush(p)
    BY DEF Init, VerAssumption
  <1>6. QED BY <1>3, <1>4, <1>5 DEF TypeInv

\* The types as the model states them.
LEMMA TypeOKIs ==
  ASSUME TypeInv
  PROVE  TypeOK
  <1>1. \A n \in Node :
          /\ DOMAIN conf[n] \subseteq {s \in Src : n \in {Owner[s], Home[s]}}
          /\ \A s \in DOMAIN conf[n] :
                /\ conf[n][s] \in Entry
                /\ IF n = Owner[s] THEN conf[n][s].by = NoId
                                   ELSE conf[n][s].by \in {Owner[s]} \X {0, 1}
    BY DEF TypeInv, IsFile
  <1>2. \A k \in Threads, n \in Node :
          job[k][n].pc \in {"idle", "compare", "ask", "wait", "refused", "load",
                           "health", "write", "reset", "push", "sleep", "done"}
    <2>1. SUFFICES ASSUME NEW k \in Threads, NEW n \in Node
                   PROVE  job[k][n].pc \in {"idle", "compare", "ask", "wait", "refused", "load",
                                            "health", "write", "reset", "push", "sleep", "done"}
      OBVIOUS
    <2>2. job[k][n].pc \in Pcs(k)
      BY DEF TypeInv, IsJob
    <2>3. QED BY <2>2 DEF Pcs, BeforeWrite, Written
  <1>3. QED BY <1>1, <1>2 DEF TypeOK, TypeInv

----------------------------------------------------------------------------
(* What saves contain. *)

\* A thread's files name groups that exist, and a handler's what it was asked to remove.
Sound(k, n, j) == BornJob(k, n, j) /\ (k = "peer" => PeerJob(n, j))

\* A passive thread keeps its files.
LEMMA SoundPassive ==
  ASSUME NEW k \in Threads, NEW n, NEW j, NEW jj, Sound(k, n, j), Passive(j, jj)
  PROVE  Sound(k, n, jj)
  <1>1. CASE jj = Idle
    <2>1. jj.pc = "idle" /\ DOMAIN jj.base = {} /\ DOMAIN jj.ask = {} /\ DOMAIN jj.next = {}
      BY <1>1, IdleIs, NoFileIs
    <2>2. QED BY <2>1 DEF Sound, BornJob, PeerJob, BeforeWrite, Written
  <1>2. CASE jj # Idle
    <2>1. Same(j, jj) /\ (jj.pc = j.pc \/ (j.pc = "wait" /\ jj.pc \in {"refused", "ask", "write"}))
      BY <1>2 DEF Passive
    <2>2. QED BY <2>1 DEF Sound, BornJob, PeerJob, BeforeWrite, Written, Same
  <1>3. QED BY <1>1, <1>2

\* All threads but the acting ones keep their files.
LEMMA SoundFrame ==
  ASSUME BornInv, PeerInv, born' = born, \A n \in Node : DOMAIN conf'[n] \subseteq born,
         \A p \in late' : DOMAIN p.groups \subseteq born, NEW A, Rest(A),
         \A k \in Threads, n \in Node : <<k, n>> \in A => Sound(k, n, job'[k][n])
  PROVE  BornInv' /\ PeerInv'
  <1>1. \A k \in Threads, n \in Node : Sound(k, n, job[k][n])
    BY DEF BornInv, PeerInv, Sound
  <1>2. \A k \in Threads, n \in Node : Sound(k, n, job'[k][n])
    BY <1>1, SoundPassive DEF Rest
  <1>3. "peer" \in Threads
    BY DEF Threads
  <1>4. QED BY <1>2, <1>3 DEF BornInv, PeerInv, Sound, BornJob, PeerJob

\* One thread acts, and no file changes.
LEMMA SoundOne ==
  ASSUME BornInv, PeerInv, UNCHANGED <<born, conf, late>>, NEW k, NEW n, Rest({<<k, n>>}),
         Sound(k, n, job'[k][n])
  PROVE  BornInv' /\ PeerInv'
  <1>1. \A kk \in Threads, x \in Node : <<kk, x>> \in {<<k, n>>} => Sound(kk, x, job'[kk][x])
    OBVIOUS
  <1>2. \A x \in Node : DOMAIN conf'[x] \subseteq born
    BY DEF BornInv
  <1>3. \A p \in late' : DOMAIN p.groups \subseteq born
    BY DEF BornInv
  <1>4. QED BY <1>1, <1>2, <1>3, SoundFrame

\* No thread acts.
LEMMA SoundNone ==
  ASSUME BornInv, PeerInv, UNCHANGED <<born, conf>>, late' \subseteq late, Rest({})
  PROVE  BornInv' /\ PeerInv'
  <1>1. \A p \in late' : DOMAIN p.groups \subseteq born
    BY DEF BornInv
  <1>2. \A x \in Node : DOMAIN conf'[x] \subseteq born
    BY DEF BornInv
  <1>3. \A kk \in Threads, x \in Node : <<kk, x>> \in {} => Sound(kk, x, job'[kk][x])
    OBVIOUS
  <1>4. QED BY <1>1, <1>2, <1>3, SoundFrame

\* A save that looks what its file lacks.
LEMMA SoundCompare ==
  ASSUME PlacesAssumption, TypeInv, BornInv, PeerInv, NEW n \in Node, NEW k \in Savers, Compare(k, n)
  PROVE  BornInv' /\ PeerInv'
  <1>1. Rest({<<k, n>>}) /\ UNCHANGED <<born, files, net>>
    BY CompareIs
  <1>2. UNCHANGED <<born, conf, late>>
    BY <1>1 DEF files, net
  <1>3. k \in Threads
    BY DEF Savers, Threads
  <1>4. Sound(k, n, job[k][n]) /\ DOMAIN conf[n] \subseteq born
    BY <1>3 DEF BornInv, PeerInv, Sound
  <1>5. job[k][n].pc = "compare" /\ job'[k][n].ask = Removed(conf[n], job[k][n].next)
    BY CompareIs
  <1>6. job'[k][n].pc = IF DOMAIN job'[k][n].ask = {} THEN "write" ELSE "ask"
    BY CompareIs
  <1>7. /\ job'[k][n].base = job[k][n].base /\ job'[k][n].next = job[k][n].next
        /\ job'[k][n].src = job[k][n].src
    BY CompareIs
  <1>8. DOMAIN job'[k][n].ask \subseteq DOMAIN conf[n]
    BY <1>5 DEF Removed, Restrict
  <1>9. Sound(k, n, job'[k][n])
    BY <1>4, <1>5, <1>6, <1>7, <1>8 DEF Sound, BornJob, PeerJob, BeforeWrite, Written
  <1>10. QED BY <1>1, <1>2, <1>9, SoundOne

\* Saves and handlers keep what they contain.
LEMMA SoundThreads ==
  ASSUME PlacesAssumption, VerAssumption, TypeInv, BornInv, PeerInv, NEW n \in Node, NEW k \in Savers,
         Moves(k, n) \/ Reset(k, n)
  PROVE  BornInv' /\ PeerInv'
  <1>0. k \in Threads /\ "peer" \in Threads /\ "loop" \in Threads /\ "user" \in Threads
    BY DEF Savers, Threads
  <1>s. \A kk \in Threads, x \in Node : Sound(kk, x, job[kk][x]) /\ DOMAIN conf[x] \subseteq born
    BY DEF BornInv, PeerInv, Sound
  <1>a. ASSUME NEW kk \in Threads, NEW x \in Node, NEW answer, job' = Ended(kk, x, answer),
               UNCHANGED <<files, net, ghosts>>
        PROVE  BornInv' /\ PeerInv'
    <2>1. Rest({})
      BY <1>a, EndedRest
    <2>2. UNCHANGED <<born, conf, late>>
      BY <1>a DEF files, net, ghosts
    <2>3. QED BY <2>1, <2>2, SoundNone
  <1>1. CASE Form(n)
    <2>1. Rest({<<"user", n>>}) /\ UNCHANGED <<born, conf, late>>
      BY <1>1, FormIs DEF files, net
    <2>2. /\ job'["user"][n].pc = "compare" /\ job'["user"][n].base = conf[n] /\ job'["user"][n].ask = NoFile
          /\ job'["user"][n].next \in Edits(n)
      BY <1>1, FormIs
    <2>3. IsFile(n, conf[n])
      BY DEF TypeInv
    <2>4. \A s \in DOMAIN job'["user"][n].next \ DOMAIN conf[n] : Owner[s] = n /\ s \notin born
      <3> DEFINE next == job'["user"][n].next
      <3>1. next \in Edits(n)
        BY <2>2
      <3> HIDE DEF next
      <3>2. \A s \in DOMAIN next \ DOMAIN conf[n] : Owner[s] = n /\ s \notin born
        BY <2>3, <3>1, EditsAre
      <3>3. QED BY <3>2 DEF next
    <2>5. DOMAIN job'["user"][n].ask = {}
      BY <2>2, NoFileIs
    <2>a. DOMAIN job'["user"][n].base \subseteq born
      BY <2>2 DEF BornInv
    <2>6. Sound("user", n, job'["user"][n])
      BY <2>2, <2>4, <2>5, <2>a DEF Sound, BornJob, BeforeWrite
    <2>7. QED BY <2>1, <2>6, SoundOne
  <1>2. CASE Compare(k, n)
    BY <1>2, SoundCompare
  <1>3. CASE Ask(k, n)
    <2>1. UNCHANGED <<files, net, ghosts>> /\ job[k][n].pc = "ask"
      BY <1>3, AskIs
    <2>2. CASE job' = Ended(k, n, "refused")
      BY <1>0, <1>a, <2>1, <2>2
    <2>3. CASE job' # Ended(k, n, "refused")
      <3>1. PICK m \in Node \ {n}, s \in DOMAIN job[k][n].ask : Asked(k, n, m, s)
        BY <1>3, <2>3, AskIs
      <3>2. Sound(k, n, job'[k][n])
        <4>1. Kept4(job[k][n], job'[k][n]) /\ job'[k][n].pc = "wait" /\ job'[k][n].ask = Without(job[k][n].ask, {s})
          BY <3>1 DEF Asked
        <4>2. DOMAIN job'[k][n].ask \subseteq DOMAIN job[k][n].ask
          BY <4>1 DEF Without, Restrict
        <4>3. Sound(k, n, job[k][n])
          BY <1>0, <1>s
        <4>4. QED BY <2>1, <4>1, <4>2, <4>3 DEF Sound, BornJob, PeerJob, BeforeWrite, Written, Kept4
      <3>3. Sound("peer", m, job'["peer"][m])
        <4>1. /\ job'["peer"][m].pc = "load" /\ job'["peer"][m].src = s /\ job'["peer"][m].base = NoFile
              /\ job'["peer"][m].next = NoFile /\ job'["peer"][m].ask = NoFile
              /\ Owner[s] = m /\ Home[s] = n
          BY <3>1 DEF Asked
        <4>2. s \in born
          BY <1>0, <1>s DEF Sound, BornJob
        <4>3. QED BY <4>1, <4>2, NoFileIs DEF Sound, BornJob, PeerJob, BeforeWrite, Written
      <3> DEFINE A == {<<k, n>>, <<"peer", m>>}
      <3>4. Rest(A) /\ \A kk \in Threads, x \in Node : <<kk, x>> \in A => Sound(kk, x, job'[kk][x])
        BY <3>1, <3>2, <3>3 DEF Asked
      <3> HIDE DEF A
      <3>5. UNCHANGED <<conf, born, late>>
        BY <2>1 DEF files, net, ghosts
      <3>6. \A x \in Node : DOMAIN conf'[x] \subseteq born
        BY <3>5 DEF BornInv
      <3>7. \A p \in late' : DOMAIN p.groups \subseteq born
        BY <3>5 DEF BornInv
      <3>8. QED BY <3>4, <3>5, <3>6, <3>7, SoundFrame
    <2>4. QED BY <2>2, <2>3
  <1>4. CASE Refused(k, n)
    <2>1. job' = Ended(k, n, "refused") /\ UNCHANGED <<files, net, ghosts>>
      BY <1>4 DEF Refused
    <2>2. QED BY <1>0, <1>a, <2>1
  <1>5. CASE AskTimesOut(k, n)
    <2>1. Rest({}) /\ UNCHANGED <<files, net, ghosts>>
      BY <1>5, TimesOutIs
    <2>2. UNCHANGED <<born, conf, late>>
      BY <2>1 DEF files, net, ghosts
    <2>3. QED BY <2>1, <2>2, SoundNone
  <1>6. CASE PeerLoad(n)
    <2>1. UNCHANGED <<files, net, ghosts>> /\ job["peer"][n].pc = "load"
      BY <1>6, PeerLoadIs
    <2>2. CASE job' = Ended("peer", n, "ok")
      BY <1>0, <1>a, <2>1, <2>2
    <2>3. CASE job' # Ended("peer", n, "ok")
      <3>1. /\ Rest({<<"peer", n>>}) /\ job'["peer"][n].pc = "health" /\ job'["peer"][n].base = conf[n]
            /\ job'["peer"][n].next = job["peer"][n].next /\ job'["peer"][n].ask = job["peer"][n].ask
            /\ job'["peer"][n].src = job["peer"][n].src
        BY <1>6, <2>3, PeerLoadIs
      <3>2. Sound("peer", n, job'["peer"][n])
        BY <1>0, <1>s, <2>1, <3>1 DEF Sound, BornJob, PeerJob, BeforeWrite, Written
      <3>3. UNCHANGED <<born, conf, late>>
        BY <2>1 DEF files, net, ghosts
      <3>4. QED BY <3>1, <3>2, <3>3, SoundOne
    <2>4. QED BY <2>2, <2>3
  <1>7. CASE PeerHealth(n)
    <2>1. UNCHANGED <<files, net, ghosts>> /\ job["peer"][n].pc = "health"
      BY <1>7, PeerHealthIs
    <2>2. CASE job' = Ended("peer", n, "refused")
      BY <1>0, <1>a, <2>1, <2>2
    <2>3. CASE job' # Ended("peer", n, "refused")
      <3>1. /\ Rest({<<"peer", n>>}) /\ job'["peer"][n].pc = "compare"
            /\ job'["peer"][n].base = job["peer"][n].base
            /\ job'["peer"][n].next = Without(job["peer"][n].base, {job["peer"][n].src})
            /\ job'["peer"][n].ask = job["peer"][n].ask
            /\ job'["peer"][n].src = job["peer"][n].src
        BY <1>7, <2>3, PeerHealthIs
      <3>w. DOMAIN Without(job["peer"][n].base, {job["peer"][n].src}) = DOMAIN job["peer"][n].base \ {job["peer"][n].src}
        BY WithoutIs
      <3>2. DOMAIN job'["peer"][n].next = DOMAIN job["peer"][n].base \ {job["peer"][n].src}
        BY <3>1, <3>w
      <3>a. Sound("peer", n, job["peer"][n])
        BY <1>0, <1>s
      <3>3. Sound("peer", n, job'["peer"][n])
        BY <2>1, <3>1, <3>2, <3>a DEF Sound, BornJob, PeerJob, BeforeWrite, Written
      <3>4. UNCHANGED <<born, conf, late>>
        BY <2>1 DEF files, net, ghosts
      <3>5. QED BY <3>1, <3>3, <3>4, SoundOne
    <2>4. QED BY <2>2, <2>3
  <1>8. CASE SaveEnds(k, n)
    <2>1. PICK js : js = Ended(k, n, "ok") /\ (job' = js \/ Sleeps(js, n))
      BY <1>8, SaveEndsIs
    <2>2. UNCHANGED <<files, net, ghosts>>
      BY <1>8, SaveEndsIs
    <2>3. CASE job' = js
      BY <1>0, <1>a, <2>1, <2>2, <2>3
    <2>4. CASE Sleeps(js, n)
      <3>0. Rest({<<"loop", n>>}) /\ job'["loop"][n] = [Idle EXCEPT !.pc = "sleep"]
        BY <2>4 DEF Sleeps
      <3>1. Sound("loop", n, job'["loop"][n])
        BY <3>0, SleepIs, NoFileIs DEF Sound, BornJob, BeforeWrite
      <3>2. UNCHANGED <<born, conf, late>>
        BY <2>2 DEF files, net, ghosts
      <3>3. QED BY <3>0, <3>1, <3>2, SoundOne
    <2>5. QED BY <2>1, <2>3, <2>4
  <1>9. CASE LoopWakes(n) \/ LoopRound(n) \/ LoopEnds(n)
    <2>1. Rest({<<"loop", n>>}) /\ UNCHANGED <<files, net, born>>
      BY <1>9, LoopIs
    <2>2. /\ job'["loop"][n].ask \in {job["loop"][n].ask, NoFile}
          /\ job'["loop"][n].base \in {job["loop"][n].base, NoFile}
          /\ job'["loop"][n].next \in {conf[n], job["loop"][n].next, NoFile}
          /\ job'["loop"][n].pc \in {"sleep", "done", "idle", "push"}
      BY <1>9, LoopIs
    <2>3. job["loop"][n].pc \notin BeforeWrite
      <3>1. job["loop"][n].pc \in Pcs("loop")
        BY <1>0 DEF TypeInv, IsJob
      <3>2. QED BY <3>1 DEF Pcs, BeforeWrite
    <2>4. Sound("loop", n, job'["loop"][n])
      BY <1>0, <1>s, <2>2, <2>3, NoFileIs DEF Sound, BornJob, BeforeWrite
    <2>5. UNCHANGED <<born, conf, late>>
      BY <2>1 DEF files, net
    <2>6. QED BY <2>1, <2>4, <2>5, SoundOne
  <1>10. CASE Reset(k, n)
    <2>1. Rest({<<k, n>>}) /\ UNCHANGED <<conf, net, born>>
      BY <1>10, ResetIs
    <2>2. /\ job[k][n].pc = "reset" /\ job'[k][n].pc = "push" /\ Kept4(job[k][n], job'[k][n])
          /\ job'[k][n].ask = job[k][n].ask
      BY <1>10, ResetIs
    <2>3. Sound(k, n, job'[k][n])
      BY <1>0, <1>s, <2>2 DEF Sound, BornJob, PeerJob, BeforeWrite, Written, Kept4
    <2>4. UNCHANGED <<born, conf, late>>
      BY <2>1 DEF net
    <2>5. QED BY <2>1, <2>3, <2>4, SoundOne
  <1>11. QED BY <1>1, <1>2, <1>3, <1>4, <1>5, <1>6, <1>7, <1>8, <1>9, <1>10 DEF Moves

\* A save that replaces the file: its new groups exist from now on.
LEMMA SoundWrite ==
  ASSUME PlacesAssumption, TypeInv, BornInv, PeerInv, NEW n \in Node, NEW k \in Savers, Write(k, n)
  PROVE  BornInv' /\ PeerInv'
  <1> DEFINE j == job[k][n]
  <1>1. k \in Threads /\ "peer" \in Threads
    BY DEF Savers, Threads
  <1>2. /\ \A kk \in Threads, x \in Node : Sound(kk, x, job[kk][x]) /\ DOMAIN conf[x] \subseteq born
        /\ born \subseteq Src
    BY DEF BornInv, PeerInv, Sound
  <1>a. Only(k, n)
    BY WriteIs
  <1>b. j.pc = "write" /\ job'[k][n].pc = "reset" /\ Kept4(j, job'[k][n]) /\ job'[k][n].ask = j.ask
    BY WriteIs
  <1>3. j.pc = "write" /\ job'[k][n].pc = "reset" /\ job'[k][n].base = j.base /\ job'[k][n].next = j.next
        /\ job'[k][n].src = j.src /\ job'[k][n].ask = j.ask
    BY <1>b DEF Kept4
  <1>4. conf' = [conf EXCEPT ![n] = j.next]
    BY WriteIs
  <1>5. born' = born \cup DOMAIN j.next /\ late' = late
    BY DEF Write, net
  <1>6. IsFile(n, j.next)
    BY <1>1 DEF TypeInv, IsJob
  <1>7. Sound(k, n, j)
    BY <1>1, <1>2
  <1>8. \A s \in DOMAIN j.next : s \in born \/ (k = "user" /\ Owner[s] = n)
    BY <1>3, <1>7 DEF Sound, BornJob, BeforeWrite
  <1>9. \A kk \in Threads, x \in Node : Sound(kk, x, job[kk][x])'
    <2>1. SUFFICES ASSUME NEW kk \in Threads, NEW x \in Node
                   PROVE  Sound(kk, x, job[kk][x])'
      OBVIOUS
    <2>2. CASE kk = k /\ x = n
      BY <1>3, <1>5, <1>7, <2>2 DEF Sound, BornJob, PeerJob, BeforeWrite, Written
    <2>3. CASE ~(kk = k /\ x = n)
      <3>1. job'[kk][x] = job[kk][x] /\ Sound(kk, x, job[kk][x])
        BY <1>2, <1>a, <2>3 DEF Only
      <3>2. \A s : kk = "user" /\ Owner[s] = x /\ s \notin born => s \notin born'
        BY <1>5, <1>8, <2>3
      <3>3. QED BY <1>5, <3>1, <3>2 DEF Sound, BornJob, PeerJob
    <2>4. QED BY <2>2, <2>3
  <1>10. \A x \in Node : DOMAIN conf'[x] \subseteq born'
    <2>1. conf = [x \in Node |-> conf[x]]
      BY DEF TypeInv
    <2>2. \A x \in Node : conf'[x] = IF x = n THEN j.next ELSE conf[x]
      BY <1>4, <2>1
    <2>3. \A x \in Node : DOMAIN conf[x] \subseteq born
      BY DEF BornInv
    <2>4. QED BY <1>5, <2>2, <2>3
  <1>11. \A p \in late' : DOMAIN p.groups \subseteq born'
    BY <1>5 DEF BornInv
  <1>12. born' \subseteq Src
    BY <1>2, <1>5, <1>6 DEF IsFile
  <1>13. QED BY <1>1, <1>9, <1>10, <1>11, <1>12 DEF BornInv, PeerInv, Sound

\* Lists that travel name groups that exist.
LEMMA SoundPush ==
  ASSUME PlacesAssumption, TypeInv, BornInv, PeerInv, NEW n \in Node, NEW k \in Threads, Push(k, n)
  PROVE  BornInv' /\ PeerInv'
  <1>1. PICK m, p :
           /\ m \in Node \ {n}
           /\ IsPush(p) /\ p.to = m /\ DOMAIN p.groups = {s \in DOMAIN job[k][n].next : Home[s] = m}
           /\ job[k][n].pc = "push" /\ (Told(k, n, m) \/ NotTold(k, n, m))
           /\ \/ Apply(m, p) /\ late' = late
              \/ UNCHANGED <<conf, seen, moved, excuse>> /\ late' \subseteq late \cup {p}
           /\ UNCHANGED <<at, id, near, rev, born, doomed, gone>>
    BY PushData
  <1>2. \A kk \in Threads, x \in Node : Sound(kk, x, job[kk][x]) /\ DOMAIN conf[x] \subseteq born
    BY DEF BornInv, PeerInv, Sound
  <1>3. /\ Rest({<<k, n>>}) /\ job'[k][n].pc = "push" /\ Kept4(job[k][n], job'[k][n])
        /\ job'[k][n].ask = job[k][n].ask
    BY <1>1, PushIs DEF At
  <1>4. Sound(k, n, job'[k][n])
    BY <1>1, <1>2, <1>3 DEF Sound, BornJob, PeerJob, BeforeWrite, Written, Kept4
  <1>5. DOMAIN p.groups \subseteq born
    BY <1>1, <1>2 DEF Sound, BornJob, BeforeWrite
  <1>6. \A x \in Node : DOMAIN conf'[x] \subseteq born
    <2>1. CASE Apply(m, p)
      <3>1. /\ \A x \in Node \ {m} : conf'[x] = conf[x]
            /\ DOMAIN conf'[m] \subseteq DOMAIN conf[m] \cup DOMAIN p.groups
        BY <1>1, <2>1, ApplyIs
      <3>2. QED BY <1>1, <1>2, <1>5, <3>1 DEF BornInv
    <2>2. CASE UNCHANGED conf
      BY <2>2 DEF BornInv
    <2>3. QED BY <1>1, <2>1, <2>2
  <1>7. \A q \in late' : DOMAIN q.groups \subseteq born
    BY <1>1, <1>5 DEF BornInv
  <1>8. \A kk \in Threads, x \in Node : <<kk, x>> \in {<<k, n>>} => Sound(kk, x, job'[kk][x])
    BY <1>4
  <1>9. born' = born
    BY <1>1
  <1>10. QED BY <1>3, <1>6, <1>7, <1>8, <1>9, SoundFrame

\* So do late ones, and the rest of the world changes no file.
LEMMA SoundWorld ==
  ASSUME PlacesAssumption, TypeInv, BornInv, PeerInv, World
  PROVE  BornInv' /\ PeerInv'
  <1>1. CASE \/ \E n, m \in Node : Cut(n, m) \/ Discover(n, m)
             \/ \E s \in Src : Pass(s)
             \/ \E n \in Node : Prune(n)
             \/ UNCHANGED vars
    <2>1. UNCHANGED <<conf, born, late, job>>
      <3>1. CASE \E n, m \in Node : Cut(n, m) \/ Discover(n, m)
        BY <3>1 DEF Cut, Discover, files, ghosts
      <3>2. CASE \E s \in Src : Pass(s)
        BY <3>2 DEF Pass, net
      <3>3. CASE \E n \in Node : Prune(n)
        BY <3>3 DEF Prune, net
      <3>4. CASE UNCHANGED vars
        BY <3>4 DEF vars, files, net, ghosts
      <3>5. QED BY <1>1, <3>1, <3>2, <3>3, <3>4
    <2>2. QED BY <2>1 DEF BornInv, PeerInv, BornJob, PeerJob
  <1>2. CASE \E n \in Node : Crash(n) \/ Rename(n)
    <2>1. PICK n \in Node : Dies(n) /\ UNCHANGED <<files, born>>
      BY <1>2 DEF Crash, Rename
    <2>2. Rest({}) /\ late' \subseteq late /\ UNCHANGED <<born, conf>>
      BY <2>1, DiesIs DEF files
    <2>3. QED BY <2>2, SoundNone
  <1>3. CASE \E p \in late : LateArrives(p)
    <2>1. PICK p \in late : LateArrives(p)
      BY <1>3
    <2>2. /\ IsPush(p) /\ late' \subseteq late /\ UNCHANGED <<job, born>>
          /\ Apply(p.to, p) \/ UNCHANGED conf
      BY <2>1 DEF LateArrives, TypeInv
    <2>3. \A x \in Node : DOMAIN conf'[x] \subseteq born
      <3>1. CASE Apply(p.to, p)
        <4>1. /\ \A x \in Node \ {p.to} : conf'[x] = conf[x]
              /\ DOMAIN conf'[p.to] \subseteq DOMAIN conf[p.to] \cup DOMAIN p.groups
          BY <2>2, <3>1, ApplyIs
        <4>2. QED BY <2>1, <2>2, <4>1 DEF BornInv
      <3>2. CASE UNCHANGED conf
        BY <3>2 DEF BornInv
      <3>3. QED BY <2>2, <3>1, <3>2
    <2>4. \A q \in late' : DOMAIN q.groups \subseteq born
      BY <2>2 DEF BornInv
    <2>5. QED BY <2>2, <2>3, <2>4 DEF BornInv, PeerInv, BornJob, PeerJob
  <1>4. QED BY <1>1, <1>2, <1>3 DEF World

----------------------------------------------------------------------------
(* Verified offsets. *)

\* A save about to reset offsets is still about to.
Stays(k, n) ==
    job[k][n].pc = "reset" =>
        job'[k][n].pc = "reset" /\ job'[k][n].prev = job[k][n].prev /\ job'[k][n].next = job[k][n].next

\* A thread that acts alone, and not after its write.
LEMMA StaysOnly ==
  ASSUME NEW k, NEW n, Only(k, n), job[k][n].pc # "reset"
  PROVE  \A kk \in Threads, x \in Node : Stays(kk, x)
  BY DEF Only, Stays

\* A thread that ends before its write or after its pushes.
LEMMA StaysEnded ==
  ASSUME TypeInv, NEW k \in Threads, NEW n \in Node, NEW answer, NEW js, js = Ended(k, n, answer),
         job[k][n].pc # "reset"
  PROVE  \A kk \in Threads, x \in Node :
            job[kk][x].pc = "reset" => js[kk][x] = job[kk][x]
  <1>1. \A kk \in Threads, x \in Node : (kk # k \/ x # n) =>
           js[kk][x] = IF k = "peer" /\ Calls(kk, x, n) THEN Answered(job[kk][x], answer) ELSE job[kk][x]
    BY EndedIs
  <1>2. QED BY <1>1 DEF Calls, At

\* A step that leaves the files, the offsets and the saves about to reset them.
LEMMA OffsetFrame ==
  ASSUME PlacesAssumption, OffsetInv, UNCHANGED <<conf, at, moved>>,
         \A k \in Threads, n \in Node : Stays(k, n)
  PROVE  OffsetInv'
  <1>1. SUFFICES ASSUME NEW s \in Src \ moved, at[s] # 0, s \in DOMAIN conf[Home[s]],
                        at[s] # conf[Home[s]][s].v
                 PROVE  \E k \in Threads : /\ At(k, Home[s], "reset")'
                                           /\ s \in Repathed(job[k][Home[s]].prev, job[k][Home[s]].next)'
    BY DEF OffsetInv
  <1>2. PICK k \in Threads : /\ job[k][Home[s]].pc = "reset"
                             /\ s \in Repathed(job[k][Home[s]].prev, job[k][Home[s]].next)
    BY <1>1 DEF OffsetInv, At
  <1>3. Stays(k, Home[s])
    BY <1>1 DEF PlacesAssumption
  <1>4. /\ job'[k][Home[s]].pc = "reset" /\ job'[k][Home[s]].prev = job[k][Home[s]].prev
        /\ job'[k][Home[s]].next = job[k][Home[s]].next
    BY <1>2, <1>3 DEF Stays
  <1>5. At(k, Home[s], "reset")' /\ s \in Repathed(job[k][Home[s]].prev, job[k][Home[s]].next)'
    BY <1>2, <1>4 DEF At, Repathed
  <1>6. QED BY <1>5

\* A save that replaces the file resets, as its next step, what it moved.
LEMMA OffsetWrite ==
  ASSUME PlacesAssumption, TypeInv, OffsetInv, NEW n \in Node, NEW k \in Savers, Write(k, n)
  PROVE  OffsetInv'
  <1> DEFINE j == job[k][n]
  <1>1. k \in Threads
    BY DEF Savers, Threads
  <1>2. Only(k, n) /\ j.pc = "write" /\ job'[k][n].pc = "reset"
    BY WriteIs
  <1>3. job'[k][n].prev = conf[n] /\ job'[k][n].next = j.next
    BY WriteIs DEF Kept4
  <1>4. /\ conf' = [conf EXCEPT ![n] = j.next] /\ at' = at
        /\ moved' = moved \cup {s \in DOMAIN j.next \ DOMAIN conf[n] : Home[s] = n /\ at[s] \notin {0, j.next[s].v}}
    BY DEF Write
  <1>5. conf = [x \in Node |-> conf[x]]
    BY DEF TypeInv
  <1>6. conf'[n] = j.next /\ \A x \in Node \ {n} : conf'[x] = conf[x]
    BY <1>4, <1>5
  <1>7. \A kk \in Threads, x \in Node : Stays(kk, x)
    BY <1>2, StaysOnly
  <1>8. SUFFICES ASSUME NEW s \in Src \ moved', at[s] # 0, s \in DOMAIN conf'[Home[s]],
                        at[s] # conf'[Home[s]][s].v
                 PROVE  \E kk \in Threads : /\ At(kk, Home[s], "reset")'
                                            /\ s \in Repathed(job[kk][Home[s]].prev, job[kk][Home[s]].next)'
    BY <1>4 DEF OffsetInv
  <1>9. Home[s] \in Node /\ s \notin moved
    BY <1>4, <1>8 DEF PlacesAssumption
  <1>10. CASE Home[s] = n /\ s \in DOMAIN conf[n] /\ conf[n][s].v # j.next[s].v
    <2>1. At(k, Home[s], "reset")' /\ s \in Repathed(job[k][Home[s]].prev, job[k][Home[s]].next)'
      BY <1>2, <1>3, <1>6, <1>8, <1>10 DEF At, Repathed
    <2>2. QED BY <1>1, <2>1
  <1>11. CASE ~(Home[s] = n /\ s \in DOMAIN conf[n] /\ conf[n][s].v # j.next[s].v)
    <2>1. s \in DOMAIN conf[Home[s]] /\ at[s] # conf[Home[s]][s].v
      <3>1. CASE Home[s] = n
        BY <1>4, <1>6, <1>8, <1>11, <3>1
      <3>2. CASE Home[s] # n
        BY <1>6, <1>8, <1>9, <3>2
      <3>3. QED BY <3>1, <3>2
    <2>2. PICK kk \in Threads : /\ job[kk][Home[s]].pc = "reset"
                                /\ s \in Repathed(job[kk][Home[s]].prev, job[kk][Home[s]].next)
      BY <1>8, <1>9, <2>1 DEF OffsetInv, At
    <2>3. /\ job'[kk][Home[s]].pc = "reset" /\ job'[kk][Home[s]].prev = job[kk][Home[s]].prev
          /\ job'[kk][Home[s]].next = job[kk][Home[s]].next
      BY <1>7, <1>9, <2>2 DEF Stays
    <2>4. At(kk, Home[s], "reset")' /\ s \in Repathed(job[kk][Home[s]].prev, job[kk][Home[s]].next)'
      BY <2>2, <2>3 DEF At, Repathed
    <2>5. QED BY <2>4
  <1>12. QED BY <1>10, <1>11

\* The reset clears the offsets of the moved groups, and no other save's.
LEMMA OffsetReset ==
  ASSUME PlacesAssumption, TypeInv, OffsetInv, NEW n \in Node, NEW k \in Savers, Reset(k, n)
  PROVE  OffsetInv'
  <1> DEFINE repathed == {s \in Repathed(job[k][n].prev, job[k][n].next) : Home[s] = n}
  <1>1. conf' = conf /\ at' = [s \in Src |-> IF s \in repathed THEN 0 ELSE at[s]] /\ moved' = moved \ repathed
    BY DEF Reset
  <1>2. Only(k, n)
    BY ResetIs
  <1>3. SUFFICES ASSUME NEW s \in Src \ moved', at'[s] # 0, s \in DOMAIN conf[Home[s]],
                        at'[s] # conf[Home[s]][s].v
                 PROVE  \E kk \in Threads : /\ At(kk, Home[s], "reset")'
                                            /\ s \in Repathed(job[kk][Home[s]].prev, job[kk][Home[s]].next)'
    BY <1>1 DEF OffsetInv
  <1>4. s \notin repathed /\ s \notin moved /\ at'[s] = at[s] /\ Home[s] \in Node
    BY <1>1, <1>3 DEF PlacesAssumption
  <1>5. PICK kk \in Threads : /\ job[kk][Home[s]].pc = "reset"
                              /\ s \in Repathed(job[kk][Home[s]].prev, job[kk][Home[s]].next)
    BY <1>3, <1>4 DEF OffsetInv, At
  <1>6. kk # k \/ Home[s] # n
    BY <1>4, <1>5
  <1>7. job'[kk][Home[s]] = job[kk][Home[s]]
    BY <1>2, <1>4, <1>6 DEF Only
  <1>8. At(kk, Home[s], "reset")' /\ s \in Repathed(job[kk][Home[s]].prev, job[kk][Home[s]].next)'
    BY <1>5, <1>7 DEF At, Repathed
  <1>9. QED BY <1>8

\* A list that arrives: what it moves is counted.
LEMMA OffsetApply ==
  ASSUME PlacesAssumption, TypeInv, OffsetInv, NEW p, IsPush(p), Apply(p.to, p), at' = at,
         \A k \in Threads, n \in Node : Stays(k, n)
  PROVE  OffsetInv'
  <1>1. /\ \A n \in Node \ {p.to} : conf'[n] = conf[n]
        /\ \A s \in DOMAIN p.groups : conf'[p.to][s] = p.groups[s]
        /\ DOMAIN conf'[p.to] \subseteq DOMAIN conf[p.to] \cup DOMAIN p.groups
        /\ \A s \in DOMAIN conf'[p.to] \ DOMAIN p.groups : conf'[p.to][s] = conf[p.to][s]
    BY ApplyIs
  <1>2. moved' = moved \cup {s \in DOMAIN p.groups : at[s] \notin {0, p.groups[s].v}}
    BY DEF Apply
  <1>3. SUFFICES ASSUME NEW s \in Src \ moved', at[s] # 0, s \in DOMAIN conf'[Home[s]],
                        at[s] # conf'[Home[s]][s].v
                 PROVE  \E k \in Threads : /\ At(k, Home[s], "reset")'
                                           /\ s \in Repathed(job[k][Home[s]].prev, job[k][Home[s]].next)'
    BY DEF OffsetInv
  <1>4. Home[s] \in Node /\ s \notin moved
    BY <1>2, <1>3 DEF PlacesAssumption
  <1>5. Home[s] = p.to => s \notin DOMAIN p.groups
    BY <1>1, <1>2, <1>3
  <1>6. s \in DOMAIN conf[Home[s]] /\ at[s] # conf[Home[s]][s].v
    <2>1. CASE Home[s] = p.to
      BY <1>1, <1>3, <1>5, <2>1
    <2>2. CASE Home[s] # p.to
      BY <1>1, <1>3, <1>4, <2>2
    <2>3. QED BY <2>1, <2>2
  <1>7. PICK k \in Threads : /\ job[k][Home[s]].pc = "reset"
                             /\ s \in Repathed(job[k][Home[s]].prev, job[k][Home[s]].next)
    BY <1>3, <1>4, <1>6 DEF OffsetInv, At
  <1>8. /\ job'[k][Home[s]].pc = "reset" /\ job'[k][Home[s]].prev = job[k][Home[s]].prev
        /\ job'[k][Home[s]].next = job[k][Home[s]].next
    BY <1>4, <1>7 DEF Stays
  <1>9. At(k, Home[s], "reset")' /\ s \in Repathed(job[k][Home[s]].prev, job[k][Home[s]].next)'
    BY <1>7, <1>8 DEF At, Repathed
  <1>10. QED BY <1>9

\* What the steps of threads other than the write, the reset and the pushes leave alone.
Calm ==
    /\ UNCHANGED <<conf, at, moved, rev, born, gone, late>>
    /\ excuse \subseteq excuse' /\ doomed \subseteq doomed'
    /\ \A k \in Threads, n \in Node : Stays(k, n)

\* A thread that ends, and changes nothing else.
LEMMA CalmEnded ==
  ASSUME TypeInv, NEW k \in Threads, NEW n \in Node, NEW answer, job' = Ended(k, n, answer),
         job[k][n].pc # "reset", UNCHANGED <<files, net, ghosts>>
  PROVE  Calm
  <1>1. \A kk \in Threads, x \in Node : job[kk][x].pc = "reset" => job'[kk][x] = job[kk][x]
    BY StaysEnded
  <1>2. QED BY <1>1 DEF Calm, Stays, files, net, ghosts

\* They do.
LEMMA CalmThreads ==
  ASSUME PlacesAssumption, VerAssumption, TypeInv, NEW n \in Node, NEW k \in Savers, Moves(k, n)
  PROVE  Calm
  <1>0. k \in Threads /\ "peer" \in Threads /\ "loop" \in Threads /\ "user" \in Threads
    BY DEF Savers, Threads
  <1>1. CASE Form(n)
    <2>1. Only("user", n) /\ job["user"][n].pc = "idle"
      BY <1>1, FormIs
    <2>2. /\ UNCHANGED <<files, net, rev, seen, owed, born, gone, moved, excuse>>
          /\ doomed \subseteq doomed'
      BY <1>1 DEF Form
    <2>3. QED BY <2>1, <2>2, StaysOnly DEF Calm, files, net
  <1>2. CASE Compare(k, n)
    <2>1. Only(k, n)
      BY <1>2, CompareIs
    <2>2. /\ UNCHANGED <<files, net, left, rev, seen, owed, born, doomed, gone, moved>>
          /\ excuse \subseteq excuse' /\ job[k][n].pc = "compare"
      BY <1>2 DEF Compare, At
    <2>3. QED BY <2>1, <2>2, StaysOnly DEF Calm, files, net
  <1>3. CASE Ask(k, n)
    <2>1. UNCHANGED <<files, net, ghosts>> /\ job[k][n].pc = "ask"
      BY <1>3, AskIs
    <2>2. CASE job' = Ended(k, n, "refused")
      BY <1>0, <2>1, <2>2, CalmEnded
    <2>3. CASE job' # Ended(k, n, "refused")
      <3>1. PICK m \in Node \ {n}, s \in DOMAIN job[k][n].ask : Asked(k, n, m, s)
        BY <1>3, <2>3, AskIs
      <3>2. /\ \A kk \in Threads, x \in Node :
                  <<kk, x>> \notin {<<k, n>>, <<"peer", m>>} => job'[kk][x] = job[kk][x]
            /\ job["peer"][m].pc = "idle"
        BY <3>1 DEF Asked
      <3>3. \A kk \in Threads, x \in Node : job[kk][x].pc = "reset" => job'[kk][x] = job[kk][x]
        BY <2>1, <3>2
      <3>4. QED BY <2>1, <3>3 DEF Calm, Stays, files, net, ghosts
    <2>4. QED BY <2>2, <2>3
  <1>4. CASE Refused(k, n)
    <2>1. job' = Ended(k, n, "refused") /\ UNCHANGED <<files, net, ghosts>> /\ job[k][n].pc # "reset"
      BY <1>4 DEF Refused, At
    <2>2. QED BY <1>0, <2>1, CalmEnded
  <1>5. CASE AskTimesOut(k, n)
    <2>1. job[k][n].pc = "wait" /\ UNCHANGED <<files, net, ghosts>>
      BY <1>5, TimesOutIs
    <2>2. \A kk \in Threads, x \in Node : (kk # k \/ x # n) =>
             job'[kk][x] = LET j == IF k = "peer" /\ Calls(kk, x, n) THEN Answered(job[kk][x], "refused")
                                    ELSE job[kk][x]
                           IN  IF kk = "peer" /\ Calls(k, n, x) THEN Unheard(j) ELSE j
      BY <1>5, TimesOutIs
    <2>3. ASSUME NEW kk \in Threads, NEW x \in Node PROVE Stays(kk, x)
      <3>1. DOMAIN job[kk][x] = Fields
        BY DEF TypeInv, IsJob, Fields
      <3>2. CASE job[kk][x].pc = "reset"
        <4>1. kk # k \/ x # n
          BY <2>1, <3>2
        <4>2. job'[kk][x] = job[kk][x] \/ job'[kk][x] = Unheard(job[kk][x])
          BY <2>2, <3>2, <4>1 DEF Calls, At
        <4>3. QED BY <3>1, <3>2, <4>2, UnheardIs DEF Stays, Same
      <3>3. QED BY <3>2 DEF Stays
    <2>4. QED BY <2>1, <2>3 DEF Calm, files, net, ghosts
  <1>6. CASE PeerLoad(n)
    <2>1. UNCHANGED <<files, net, ghosts>> /\ job["peer"][n].pc = "load"
      BY <1>6, PeerLoadIs
    <2>2. CASE job' = Ended("peer", n, "ok")
      BY <1>0, <2>1, <2>2, CalmEnded
    <2>3. CASE job' # Ended("peer", n, "ok")
      <3>1. Only("peer", n)
        BY <1>6, <2>3, PeerLoadIs
      <3>2. QED BY <2>1, <3>1, StaysOnly DEF Calm, files, net, ghosts
    <2>4. QED BY <2>2, <2>3
  <1>7. CASE PeerHealth(n)
    <2>1. UNCHANGED <<files, net, ghosts>> /\ job["peer"][n].pc = "health"
      BY <1>7, PeerHealthIs
    <2>2. CASE job' = Ended("peer", n, "refused")
      BY <1>0, <2>1, <2>2, CalmEnded
    <2>3. CASE job' # Ended("peer", n, "refused")
      <3>1. Only("peer", n)
        BY <1>7, <2>3, PeerHealthIs
      <3>2. QED BY <2>1, <3>1, StaysOnly DEF Calm, files, net, ghosts
    <2>4. QED BY <2>2, <2>3
  <1>8. CASE SaveEnds(k, n)
    <2>1. PICK js : js = Ended(k, n, "ok") /\ (job' = js \/ Sleeps(js, n))
      BY <1>8, SaveEndsIs
    <2>2. UNCHANGED <<files, net, ghosts>> /\ job[k][n].pc = "push"
      BY <1>8, SaveEndsIs
    <2>3. \A kk \in Threads, x \in Node : job[kk][x].pc = "reset" => js[kk][x] = job[kk][x]
      BY <1>0, <2>1, <2>2, StaysEnded
    <2>4. \A kk \in Threads, x \in Node : job[kk][x].pc = "reset" => job'[kk][x] = job[kk][x]
      BY <2>1, <2>3 DEF Sleeps
    <2>5. QED BY <2>2, <2>4 DEF Calm, Stays, files, net, ghosts
  <1>9. CASE LoopWakes(n) \/ LoopRound(n) \/ LoopEnds(n)
    <2>1. Only("loop", n)
      BY <1>9, LoopIs
    <2>2. UNCHANGED <<files, net, left, rev, seen, owed, born, doomed, gone, moved>> /\ excuse \subseteq excuse'
      BY <1>9, LoopIs
    <2>3. job["loop"][n].pc # "reset"
      BY <1>9 DEF LoopWakes, LoopRound, LoopEnds, At
    <2>4. QED BY <2>1, <2>2, <2>3, StaysOnly DEF Calm, files, net
  <1>10. QED BY <1>1, <1>2, <1>3, <1>4, <1>5, <1>6, <1>7, <1>8, <1>9 DEF Moves

\* A push changes offsets' groups only through the list that arrives.
LEMMA OffsetPush ==
  ASSUME PlacesAssumption, TypeInv, OffsetInv, NEW n \in Node, NEW k \in Threads, Push(k, n)
  PROVE  OffsetInv'
  <1>1. PICK m, p :
           /\ m \in Node \ {n}
           /\ IsPush(p) /\ p.to = m
           /\ job[k][n].pc = "push" /\ (Told(k, n, m) \/ NotTold(k, n, m))
           /\ Apply(m, p) \/ UNCHANGED <<conf, seen, moved, excuse>>
           /\ UNCHANGED <<at, id, near, rev, born, doomed, gone>>
    BY PushData
  <1>2. Only(k, n)
    BY <1>1, PushIs DEF At
  <1>3. \A kk \in Threads, x \in Node : Stays(kk, x)
    BY <1>1, <1>2, StaysOnly
  <1>4. CASE Apply(m, p)
    <2>1. Apply(p.to, p) /\ at' = at
      BY <1>1, <1>4
    <2>2. QED BY <1>1, <1>3, <2>1, OffsetApply
  <1>5. CASE UNCHANGED <<conf, seen, moved, excuse>>
    <2>1. UNCHANGED <<conf, at, moved>>
      BY <1>1, <1>5
    <2>2. QED BY <1>3, <2>1, OffsetFrame
  <1>6. QED BY <1>1, <1>4, <1>5

\* So does a late one; the engine verifies and prunes; what a crash leaves is counted.
LEMMA OffsetWorld ==
  ASSUME PlacesAssumption, TypeInv, OffsetInv, World
  PROVE  OffsetInv'
  <1>1. CASE UNCHANGED vars \/ \E n, m \in Node : Cut(n, m) \/ Discover(n, m)
    <2>1. UNCHANGED <<conf, at, moved, job>>
      BY <1>1 DEF Cut, Discover, vars, files, ghosts
    <2>2. QED BY <2>1, OffsetFrame DEF Stays
  <1>2. CASE \E s \in Src : Pass(s)
    <2>1. PICK z \in Src : Pass(z)
      BY <1>2
    <2>2. at' = [at EXCEPT ![z] = conf[Home[z]][z].v] /\ moved' = moved \ {z} /\ UNCHANGED <<conf, job>>
      BY <2>1 DEF Pass
    <2>3. \A s \in Src : s # z => at'[s] = at[s]
      BY <2>2 DEF TypeInv
    <2>4. at'[z] = conf[Home[z]][z].v
      BY <2>1, <2>2 DEF TypeInv
    <2>5. QED BY <2>2, <2>3, <2>4 DEF OffsetInv, At, Repathed
  <1>3. CASE \E n \in Node : Prune(n)
    <2>1. PICK n \in Node : Prune(n)
      BY <1>3
    <2>2. /\ at' = [s \in Src |-> IF s \in DOMAIN conf[n] \/ Home[s] # n THEN at[s] ELSE 0]
          /\ moved' = {s \in moved : s \in DOMAIN conf[n] \/ Home[s] # n} /\ UNCHANGED <<conf, job>>
      BY <2>1 DEF Prune
    <2>3. \A s \in Src : at'[s] # 0 => at'[s] = at[s] /\ (s \in moved => s \in moved')
      BY <2>2
    <2>4. QED BY <2>2, <2>3 DEF OffsetInv, At, Repathed
  <1>4. CASE \E n \in Node : Crash(n) \/ Rename(n)
    <2>1. PICK n \in Node : Dies(n) /\ UNCHANGED files
      BY <1>4 DEF Crash, Rename
    <2>2. /\ UNCHANGED <<conf, at>>
          /\ moved' = moved \cup
               {s \in Src : /\ Home[s] = n /\ at[s] # 0
                            /\ \E k \in {k \in Threads : job[k][n].pc \in {"reset", "push"}} :
                                  At(k, n, "reset") /\ s \in Repathed(job[k][n].prev, job[k][n].next)}
      BY <2>1 DEF Dies, files
    <2>3. \A k \in Threads, x \in Node \ {n} :
             job'[k][x] = LET j == IF Calls(k, x, n) THEN Answered(job[k][x], "refused") ELSE job[k][x]
                          IN  IF k = "peer" /\ \E kk \in Threads : Calls(kk, n, x) THEN Unheard(j) ELSE j
      BY <2>1, DiesIs
    <2>4. ASSUME NEW k \in Threads, NEW x \in Node \ {n} PROVE Stays(k, x)
      <3>1. DOMAIN job[k][x] = Fields
        BY DEF TypeInv, IsJob, Fields
      <3>2. CASE job[k][x].pc = "reset"
        <4>1. job'[k][x] = job[k][x] \/ job'[k][x] = Unheard(job[k][x])
          BY <2>3, <3>2 DEF Calls, At
        <4>2. QED BY <3>1, <3>2, <4>1, UnheardIs DEF Stays, Same
      <3>3. QED BY <3>2 DEF Stays
    <2>5. SUFFICES ASSUME NEW s \in Src \ moved', at[s] # 0, s \in DOMAIN conf[Home[s]],
                          at[s] # conf[Home[s]][s].v
                   PROVE  \E k \in Threads : /\ At(k, Home[s], "reset")'
                                             /\ s \in Repathed(job[k][Home[s]].prev, job[k][Home[s]].next)'
      BY <2>2 DEF OffsetInv
    <2>6. PICK k \in Threads : /\ job[k][Home[s]].pc = "reset"
                               /\ s \in Repathed(job[k][Home[s]].prev, job[k][Home[s]].next)
      BY <2>2, <2>5 DEF OffsetInv, At
    <2>7. Home[s] \in Node \ {n}
      BY <2>2, <2>5, <2>6 DEF PlacesAssumption, At
    <2>8. /\ job'[k][Home[s]].pc = "reset" /\ job'[k][Home[s]].prev = job[k][Home[s]].prev
          /\ job'[k][Home[s]].next = job[k][Home[s]].next
      BY <2>4, <2>6, <2>7 DEF Stays
    <2>9. At(k, Home[s], "reset")' /\ s \in Repathed(job[k][Home[s]].prev, job[k][Home[s]].next)'
      BY <2>6, <2>8 DEF At, Repathed
    <2>10. QED BY <2>9
  <1>5. CASE \E p \in late : LateArrives(p)
    <2>1. PICK p \in late : LateArrives(p)
      BY <1>5
    <2>2. /\ IsPush(p) /\ UNCHANGED <<at, job>>
          /\ Apply(p.to, p) \/ UNCHANGED <<conf, seen, moved, excuse>>
      BY <2>1 DEF LateArrives, TypeInv
    <2>3. \A k \in Threads, n \in Node : Stays(k, n)
      BY <2>2 DEF Stays
    <2>4. CASE Apply(p.to, p)
      BY <2>2, <2>3, <2>4, OffsetApply
    <2>5. CASE UNCHANGED <<conf, seen, moved, excuse>>
      <3>1. UNCHANGED <<conf, at, moved>>
        BY <2>2, <2>5
      <3>2. QED BY <2>3, <3>1, OffsetFrame
    <2>6. QED BY <2>2, <2>4, <2>5
  <1>6. QED BY <1>1, <1>2, <1>3, <1>4, <1>5 DEF World

----------------------------------------------------------------------------
(* Newest lists. *)

\* A thread after its write was there before, or is the loop with the newest file.
Keeps(k, n) ==
    job'[k][n].pc \in Written =>
        \/ /\ job[k][n].pc = job'[k][n].pc /\ job'[k][n].next = job[k][n].next
           /\ job'[k][n].rev = job[k][n].rev /\ job'[k][n].src = job[k][n].src
        \/ k = "loop" /\ job'[k][n].next = conf[n] /\ job'[k][n].rev = rev[n]

\* Passive threads do not get there.
LEMMA KeepsRest ==
  ASSUME NEW A, Rest(A), \A k \in Threads, n \in Node : <<k, n>> \in A => Keeps(k, n)
  PROVE  \A k \in Threads, n \in Node : Keeps(k, n)
  <1>1. SUFFICES ASSUME NEW k \in Threads, NEW n \in Node, Passive(job[k][n], job'[k][n]) PROVE Keeps(k, n)
    BY DEF Rest
  <1>2. CASE job'[k][n] = Idle
    BY <1>2, IdleIs DEF Keeps, Written
  <1>3. CASE job'[k][n] # Idle
    BY <1>1, <1>3 DEF Passive, Same, Keeps, Written
  <1>4. QED BY <1>2, <1>3

\* One thread acts.
LEMMA KeepsOne ==
  ASSUME NEW k, NEW n, Rest({<<k, n>>}), Keeps(k, n)
  PROVE  \A kk \in Threads, x \in Node : Keeps(kk, x)
  <1>1. \A kk \in Threads, x \in Node : <<kk, x>> \in {<<k, n>>} => Keeps(kk, x)
    OBVIOUS
  <1>2. QED BY <1>1, KeepsRest

\* None acts.
LEMMA KeepsNone ==
  ASSUME Rest({})
  PROVE  \A kk \in Threads, x \in Node : Keeps(kk, x)
  <1>1. \A kk \in Threads, x \in Node : <<kk, x>> \in {} => Keeps(kk, x)
    OBVIOUS
  <1>2. QED BY <1>1, KeepsRest

\* Only writes and the loop's wake-up bring a thread there.
LEMMA KeepsThreads ==
  ASSUME PlacesAssumption, VerAssumption, TypeInv, NEW n \in Node, NEW k \in Savers, Moves(k, n)
  PROVE  \A kk \in Threads, x \in Node : Keeps(kk, x)
  <1>0. k \in Threads /\ "peer" \in Threads /\ "loop" \in Threads /\ "user" \in Threads
    BY DEF Savers, Threads
  <1>a. ASSUME NEW kk \in Threads, NEW x \in Node, NEW answer, job' = Ended(kk, x, answer)
        PROVE  \A k2 \in Threads, y \in Node : Keeps(k2, y)
    BY <1>a, EndedRest, KeepsNone
  <1>1. CASE Form(n)
    <2>1. Rest({<<"user", n>>}) /\ job'["user"][n].pc = "compare"
      BY <1>1, FormIs
    <2>2. Keeps("user", n)
      BY <2>1 DEF Keeps, Written
    <2>3. QED BY <2>1, <2>2, KeepsOne
  <1>2. CASE Compare(k, n)
    <2>1. Rest({<<k, n>>})
      BY <1>2, CompareIs
    <2>2. job'[k][n].pc = IF DOMAIN job'[k][n].ask = {} THEN "write" ELSE "ask"
      BY <1>2, CompareIs
    <2>3. Keeps(k, n)
      BY <2>2 DEF Keeps, Written
    <2>4. QED BY <2>1, <2>3, KeepsOne
  <1>3. CASE Ask(k, n)
    <2>1. CASE job' = Ended(k, n, "refused")
      BY <1>0, <1>a, <2>1
    <2>2. CASE job' # Ended(k, n, "refused")
      <3>1. PICK m \in Node \ {n}, s \in DOMAIN job[k][n].ask : Asked(k, n, m, s)
        BY <1>3, <2>2, AskIs
      <3> DEFINE A == {<<k, n>>, <<"peer", m>>}
      <3>2. Rest(A) /\ \A kk \in Threads, x \in Node : <<kk, x>> \in A => Keeps(kk, x)
        BY <3>1 DEF Asked, Keeps, Written
      <3> HIDE DEF A
      <3>3. QED BY <3>2, KeepsRest
    <2>3. QED BY <2>1, <2>2
  <1>4. CASE Refused(k, n)
    <2>1. job' = Ended(k, n, "refused")
      BY <1>4 DEF Refused
    <2>2. QED BY <1>0, <1>a, <2>1
  <1>5. CASE AskTimesOut(k, n)
    BY <1>5, TimesOutIs, KeepsNone
  <1>6. CASE PeerLoad(n)
    <2>1. CASE job' = Ended("peer", n, "ok")
      BY <1>0, <1>a, <2>1
    <2>2. CASE job' # Ended("peer", n, "ok")
      <3>1. Rest({<<"peer", n>>}) /\ job'["peer"][n].pc = "health"
        BY <1>6, <2>2, PeerLoadIs
      <3>2. Keeps("peer", n)
        BY <3>1 DEF Keeps, Written
      <3>3. QED BY <3>1, <3>2, KeepsOne
    <2>3. QED BY <2>1, <2>2
  <1>7. CASE PeerHealth(n)
    <2>1. CASE job' = Ended("peer", n, "refused")
      BY <1>0, <1>a, <2>1
    <2>2. CASE job' # Ended("peer", n, "refused")
      <3>1. Rest({<<"peer", n>>}) /\ job'["peer"][n].pc = "compare"
        BY <1>7, <2>2, PeerHealthIs
      <3>2. Keeps("peer", n)
        BY <3>1 DEF Keeps, Written
      <3>3. QED BY <3>1, <3>2, KeepsOne
    <2>3. QED BY <2>1, <2>2
  <1>8. CASE SaveEnds(k, n)
    <2>1. PICK js : js = Ended(k, n, "ok") /\ (job' = js \/ Sleeps(js, n))
      BY <1>8, SaveEndsIs
    <2>2. CASE job' = js
      BY <1>0, <1>a, <2>1, <2>2
    <2>3. CASE Sleeps(js, n)
      <3>1. Rest({<<"loop", n>>}) /\ job'["loop"][n] = [Idle EXCEPT !.pc = "sleep"]
        BY <2>3 DEF Sleeps
      <3>2. Keeps("loop", n)
        BY <3>1, SleepIs DEF Keeps, Written
      <3>3. QED BY <3>1, <3>2, KeepsOne
    <2>4. QED BY <2>1, <2>2, <2>3
  <1>9. CASE LoopWakes(n) \/ LoopRound(n) \/ LoopEnds(n)
    <2>1. Rest({<<"loop", n>>})
      BY <1>9, LoopIs
    <2>2. \/ /\ job'["loop"][n].pc = "push" /\ job'["loop"][n].next = conf[n] /\ job'["loop"][n].rev = rev[n]
          \/ job'["loop"][n].pc \in {"sleep", "done", "idle"}
      BY <1>9, LoopIs
    <2>3. Keeps("loop", n)
      BY <2>2 DEF Keeps, Written
    <2>4. QED BY <2>1, <2>3, KeepsOne
  <1>10. QED BY <1>1, <1>2, <1>3, <1>4, <1>5, <1>6, <1>7, <1>8, <1>9 DEF Moves

\* No machine gains or loses a group of its own.
OwnSame == \A n \in Node : \A s : Owner[s] = n => (s \in DOMAIN conf'[n] <=> s \in DOMAIN conf[n])

\* A list that arrives neither adds to nor takes from the groups the machine owns.
LEMMA OwnApply ==
  ASSUME PlacesAssumption, TypeInv, NEW p, IsPush(p), Apply(p.to, p)
  PROVE  OwnSame
  <1>1. SUFFICES ASSUME NEW n \in Node, NEW s, Owner[s] = n
                 PROVE  s \in DOMAIN conf'[n] <=> s \in DOMAIN conf[n]
    BY DEF OwnSame
  <1>2. CASE n # p.to
    <2>1. \A x \in Node \ {p.to} : conf'[x] = conf[x]
      BY ApplyIs
    <2>2. QED BY <1>2, <2>1
  <1>3. CASE n = p.to
    <2>1. /\ DOMAIN conf'[p.to] \subseteq DOMAIN conf[p.to] \cup DOMAIN p.groups
          /\ \A x \in DOMAIN conf[p.to] : Owner[x] # p.from => x \in DOMAIN conf'[p.to]
      BY ApplyIs
    <2>2. \A x \in DOMAIN p.groups : Owner[x] = p.from
      BY DEF IsPush
    <2>3. n # p.from
      BY <1>3 DEF IsPush
    <2>4. QED BY <1>1, <1>3, <2>1, <2>2, <2>3
  <1>4. QED BY <1>2, <1>3

\* A step in which nobody saves.
LEMMA RevFrame ==
  ASSUME TypeInv, RevInv, rev' = rev, OwnSame, \A k \in Threads, n \in Node : Keeps(k, n),
         \A p \in late' : p \in late \/
            /\ IsPush(p) /\ p.rev <= rev[p.from]
            /\ p.rev = rev[p.from] =>
                  DOMAIN p.groups = {s \in DOMAIN conf[p.from] : Owner[s] = p.from /\ Home[s] = p.to}
  PROVE  RevInv'
  <1>1. \A n \in Node : {s \in DOMAIN conf'[n] : Owner[s] = n} = {s \in DOMAIN conf[n] : Owner[s] = n}
    BY DEF OwnSame
  <1>2. \A n \in Node : rev[n] \in Nat
    BY DEF TypeInv
  <1>3. ASSUME NEW k \in Threads, NEW n \in Node, job'[k][n].pc \in Written
        PROVE  /\ job'[k][n].rev <= rev[n]
               /\ job'[k][n].rev = rev[n] =>
                     {s \in DOMAIN job'[k][n].next : Owner[s] = n} = {s \in DOMAIN conf'[n] : Owner[s] = n}
    <2>1. CASE /\ job[k][n].pc = job'[k][n].pc /\ job'[k][n].next = job[k][n].next
               /\ job'[k][n].rev = job[k][n].rev
      <3>1. /\ job[k][n].rev <= rev[n]
            /\ job[k][n].rev = rev[n] =>
                  {s \in DOMAIN job[k][n].next : Owner[s] = n} = {s \in DOMAIN conf[n] : Owner[s] = n}
        BY <1>3, <2>1 DEF RevInv, Newest
      <3>2. QED BY <1>1, <2>1, <3>1
    <2>2. CASE job'[k][n].next = conf[n] /\ job'[k][n].rev = rev[n]
      BY <1>1, <1>2, <2>2
    <2>3. QED BY <1>3, <2>1, <2>2 DEF Keeps
  <1>4. ASSUME NEW p \in late'
        PROVE  /\ p.rev <= rev[p.from]
               /\ p.rev = rev[p.from] =>
                     DOMAIN p.groups = {s \in DOMAIN conf'[p.from] : Owner[s] = p.from /\ Home[s] = p.to}
    <2>1. /\ IsPush(p) /\ p.rev <= rev[p.from]
          /\ p.rev = rev[p.from] =>
                DOMAIN p.groups = {s \in DOMAIN conf[p.from] : Owner[s] = p.from /\ Home[s] = p.to}
      BY DEF RevInv, TypeInv
    <2>2. p.from \in Node
      BY <2>1 DEF IsPush
    <2>3. {s \in DOMAIN conf'[p.from] : Owner[s] = p.from /\ Home[s] = p.to}
             = {s \in DOMAIN conf[p.from] : Owner[s] = p.from /\ Home[s] = p.to}
      BY <2>2 DEF OwnSame
    <2>4. QED BY <2>1, <2>3
  <1>5. QED BY <1>3, <1>4 DEF RevInv, Newest

\* A save that replaces the file: its list is the newest.
LEMMA RevWrite ==
  ASSUME PlacesAssumption, TypeInv, RevInv, NEW n \in Node, NEW k \in Savers, Write(k, n)
  PROVE  RevInv'
  <1> DEFINE j == job[k][n]
  <1>1. k \in Threads
    BY DEF Savers, Threads
  <1>2. Only(k, n)
    BY WriteIs
  <1>3. job'[k][n].pc = "reset" /\ job'[k][n].rev = rev[n] + 1
    BY WriteIs
  <1>4. job'[k][n].next = j.next
    BY WriteIs DEF Kept4
  <1>5. conf' = [conf EXCEPT ![n] = j.next] /\ rev' = [rev EXCEPT ![n] = rev[n] + 1] /\ late' = late
    BY DEF Write, net
  <1>6. conf = [x \in Node |-> conf[x]] /\ rev \in [Node -> Nat]
    BY DEF TypeInv
  <1>7. conf'[n] = j.next /\ rev'[n] = rev[n] + 1 /\ \A x \in Node \ {n} : conf'[x] = conf[x] /\ rev'[x] = rev[x]
    BY <1>5, <1>6
  <1>8. ASSUME NEW kk \in Threads, NEW x \in Node, job'[kk][x].pc \in Written
        PROVE  /\ job'[kk][x].rev <= rev'[x]
               /\ job'[kk][x].rev = rev'[x] =>
                     {s \in DOMAIN job'[kk][x].next : Owner[s] = x} = {s \in DOMAIN conf'[x] : Owner[s] = x}
    <2>1. CASE kk = k /\ x = n
      <3>1. rev[n] + 1 \in Nat
        BY <1>6
      <3>2. QED BY <1>3, <1>4, <1>7, <2>1, <3>1
    <2>2. CASE ~(kk = k /\ x = n)
      <3>1. job'[kk][x] = job[kk][x]
        BY <1>2, <2>2 DEF Only
      <3>2. /\ job[kk][x].rev <= rev[x]
            /\ job[kk][x].rev = rev[x] =>
                  {s \in DOMAIN job[kk][x].next : Owner[s] = x} = {s \in DOMAIN conf[x] : Owner[s] = x}
        BY <1>8, <3>1 DEF RevInv, Newest
      <3>3. job[kk][x].rev \in Nat /\ rev[x] \in Nat
        BY <1>6 DEF TypeInv, IsJob
      <3>4. CASE x = n
        BY <1>7, <3>1, <3>2, <3>3, <3>4
      <3>5. CASE x # n
        BY <1>7, <3>1, <3>2, <3>5
      <3>6. QED BY <3>4, <3>5
    <2>3. QED BY <2>1, <2>2
  <1>9. ASSUME NEW p \in late'
        PROVE  /\ p.rev <= rev'[p.from]
               /\ p.rev = rev'[p.from] =>
                     DOMAIN p.groups = {s \in DOMAIN conf'[p.from] : Owner[s] = p.from /\ Home[s] = p.to}
    <2>1. p \in late /\ IsPush(p)
      BY <1>5 DEF TypeInv
    <2>2. p.from \in Node /\ p.rev \in Nat /\ rev[p.from] \in Nat
      BY <1>6, <2>1 DEF IsPush
    <2>3. /\ p.rev <= rev[p.from]
          /\ p.rev = rev[p.from] =>
                DOMAIN p.groups = {s \in DOMAIN conf[p.from] : Owner[s] = p.from /\ Home[s] = p.to}
      BY <2>1 DEF RevInv
    <2>4. CASE p.from = n
      BY <1>7, <2>2, <2>3, <2>4
    <2>5. CASE p.from # n
      BY <1>7, <2>2, <2>3, <2>5
    <2>6. QED BY <2>4, <2>5
  <1>10. QED BY <1>8, <1>9 DEF RevInv, Newest

\* The list a thread pushes names, when it is the newest, what its machine has for the other.
LEMMA PushNewest ==
  ASSUME TypeInv, RevInv, NEW k \in Threads, NEW n \in Node, job[k][n].pc = "push", NEW m \in Node \ {n}
  PROVE  /\ job[k][n].rev <= rev[n]
         /\ job[k][n].rev = rev[n] =>
               {s \in DOMAIN job[k][n].next : Home[s] = m} = {s \in DOMAIN conf[n] : Owner[s] = n /\ Home[s] = m}
  <1>1. /\ job[k][n].rev <= rev[n]
        /\ job[k][n].rev = rev[n] =>
              {s \in DOMAIN job[k][n].next : Owner[s] = n} = {s \in DOMAIN conf[n] : Owner[s] = n}
    BY DEF RevInv, Newest, Written
  <1>2. \A s \in DOMAIN job[k][n].next : Home[s] = m => Owner[s] = n
    <2>1. IsFile(n, job[k][n].next)
      BY DEF TypeInv, IsJob
    <2>2. DOMAIN job[k][n].next \subseteq {s \in Src : n \in {Owner[s], Home[s]}}
      BY <2>1 DEF IsFile
    <2>3. QED BY <2>2
  <1>3. QED BY <1>1, <1>2

\* A push makes no list newer.
LEMMA RevPush ==
  ASSUME PlacesAssumption, TypeInv, RevInv, NEW n \in Node, NEW k \in Threads, Push(k, n)
  PROVE  RevInv'
  <1>1. PICK m, p :
           /\ m \in Node \ {n}
           /\ IsPush(p) /\ p.from = n /\ p.to = m /\ p.rev = job[k][n].rev
           /\ DOMAIN p.groups = {s \in DOMAIN job[k][n].next : Home[s] = m}
           /\ job[k][n].pc = "push" /\ (Told(k, n, m) \/ NotTold(k, n, m))
           /\ \/ Apply(m, p) /\ late' = late
              \/ UNCHANGED <<conf, seen, moved, excuse>> /\ late' \subseteq late \cup {p}
           /\ UNCHANGED <<at, id, near, rev, born, doomed, gone>>
    BY PushData
  <1>2. Rest({<<k, n>>})
    BY <1>1, PushIs DEF At
  <1>3. job'[k][n].pc = "push" /\ job'[k][n].rev = job[k][n].rev /\ Kept4(job[k][n], job'[k][n])
    BY <1>1, PushIs DEF At
  <1>4. Keeps(k, n)
    BY <1>1, <1>3 DEF Keeps, Kept4
  <1>5. \A kk \in Threads, x \in Node : Keeps(kk, x)
    BY <1>2, <1>4, KeepsOne
  <1>6. OwnSame
    <2>1. CASE Apply(m, p)
      BY <1>1, <2>1, OwnApply
    <2>2. CASE UNCHANGED conf
      BY <2>2 DEF OwnSame
    <2>3. QED BY <1>1, <2>1, <2>2
  <1>7. /\ job[k][n].rev <= rev[n]
        /\ job[k][n].rev = rev[n] =>
              {s \in DOMAIN job[k][n].next : Home[s] = m} = {s \in DOMAIN conf[n] : Owner[s] = n /\ Home[s] = m}
    BY <1>1, PushNewest
  <1>8. \A q \in late' : q \in late \/
            /\ IsPush(q) /\ q.rev <= rev[q.from]
            /\ q.rev = rev[q.from] =>
                  DOMAIN q.groups = {s \in DOMAIN conf[q.from] : Owner[s] = q.from /\ Home[s] = q.to}
    <2>1. SUFFICES ASSUME NEW q \in late', q \notin late
                   PROVE  /\ IsPush(q) /\ q.rev <= rev[q.from]
                          /\ q.rev = rev[q.from] =>
                                DOMAIN q.groups = {s \in DOMAIN conf[q.from] : Owner[s] = q.from /\ Home[s] = q.to}
      OBVIOUS
    <2>2. q = p
      BY <1>1, <2>1
    <2>3. QED BY <1>1, <1>7, <2>2
  <1>9. rev' = rev
    BY <1>1
  <1>10. QED BY <1>5, <1>6, <1>8, <1>9, RevFrame

\* What the network, the engine, crashes and late lists leave alone.
LEMMA WorldIs ==
  ASSUME TypeInv, World
  PROVE  /\ UNCHANGED <<rev, born, doomed, gone>> /\ late' \subseteq late /\ excuse \subseteq excuse'
         /\ job' = job \/ Rest({})
         /\ conf' = conf \/ \E p \in late : Apply(p.to, p)
  <1>1. CASE \E n, m \in Node : Cut(n, m) \/ Discover(n, m)
    BY <1>1 DEF Cut, Discover, files, ghosts
  <1>2. CASE \E s \in Src : Pass(s)
    BY <1>2 DEF Pass, net
  <1>3. CASE \E n \in Node : Prune(n)
    BY <1>3 DEF Prune, net
  <1>4. CASE UNCHANGED vars
    BY <1>4 DEF vars, files, net, ghosts
  <1>5. CASE \E n \in Node : Crash(n) \/ Rename(n)
    <2>1. PICK n \in Node : Dies(n) /\ UNCHANGED <<files, rev, born, doomed, gone>>
      BY <1>5 DEF Crash, Rename
    <2>2. QED BY <2>1, DiesIs DEF files
  <1>6. CASE \E p \in late : LateArrives(p)
    <2>1. PICK p \in late : LateArrives(p)
      BY <1>6
    <2>2. UNCHANGED <<rev, born, doomed, gone, job>> /\ late' \subseteq late
      BY <2>1 DEF LateArrives
    <2>3. Apply(p.to, p) \/ UNCHANGED <<conf, seen, moved, excuse>>
      BY <2>1 DEF LateArrives
    <2>4. Apply(p.to, p) => excuse \subseteq excuse'
      BY DEF Apply
    <2>5. QED BY <2>1, <2>2, <2>3, <2>4
  <1>7. QED BY <1>1, <1>2, <1>3, <1>4, <1>5, <1>6 DEF World

\* Nor does the rest of the world.
LEMMA RevWorld ==
  ASSUME PlacesAssumption, TypeInv, RevInv, World
  PROVE  RevInv'
  <1>1. /\ rev' = rev /\ late' \subseteq late
        /\ job' = job \/ Rest({})
        /\ conf' = conf \/ \E p \in late : Apply(p.to, p)
    BY WorldIs
  <1>2. \A k \in Threads, n \in Node : Keeps(k, n)
    <2>1. CASE job' = job
      BY <2>1 DEF Keeps
    <2>2. CASE Rest({})
      BY <2>2, KeepsNone
    <2>3. QED BY <1>1, <2>1, <2>2
  <1>3. OwnSame
    <2>1. CASE \E p \in late : Apply(p.to, p)
      BY <2>1, OwnApply DEF TypeInv
    <2>2. CASE conf' = conf
      BY <2>2 DEF OwnSame
    <2>3. QED BY <1>1, <2>1, <2>2
  <1>4. \A q \in late' : q \in late
    BY <1>1
  <1>5. rev' = rev
    BY <1>1
  <1>6. QED BY <1>2, <1>3, <1>4, <1>5, RevFrame

----------------------------------------------------------------------------
(* Deletions. *)

\* A passive thread removes nothing more.
LEMMA DoomedPassive ==
  ASSUME NEW k \in Threads, NEW n, NEW j, NEW jj, DoomedJob(k, n, j), Passive(j, jj)
  PROVE  DoomedJob(k, n, jj)
  <1>1. CASE jj = Idle
    BY <1>1, IdleIs DEF DoomedJob, BeforeWrite
  <1>2. CASE jj # Idle
    <2>1. Same(j, jj) /\ (jj.pc = j.pc \/ (j.pc = "wait" /\ jj.pc \in {"refused", "ask", "write"}))
      BY <1>2 DEF Passive
    <2>2. QED BY <2>1 DEF DoomedJob, BeforeWrite, Same
  <1>3. QED BY <1>1, <1>2

\* All threads but the acting ones remove nothing more.
LEMMA DoomedFrame ==
  ASSUME DoomedInv, excuse \subseteq excuse', doomed \subseteq doomed', NEW A, Rest(A),
         NoExcuse({"stale"})' =>
            \A k \in Threads, n \in Node : <<k, n>> \in A => DoomedJob(k, n, job[k][n])'
  PROVE  DoomedInv'
  <1>1. SUFFICES ASSUME NoExcuse({"stale"})', NEW k \in Threads, NEW n \in Node
                 PROVE  DoomedJob(k, n, job[k][n])'
    BY DEF DoomedInv
  <1>2. CASE <<k, n>> \in A
    BY <1>1, <1>2
  <1>3. CASE <<k, n>> \notin A
    <2>1. DoomedJob(k, n, job[k][n])
      BY <1>1 DEF DoomedInv, NoExcuse
    <2>2. Passive(job[k][n], job'[k][n])
      BY <1>3 DEF Rest
    <2>3. DoomedJob(k, n, job'[k][n])
      BY <2>1, <2>2, DoomedPassive
    <2>4. QED BY <2>3 DEF DoomedJob
  <1>4. QED BY <1>2, <1>3

\* One thread acts.
LEMMA DoomedOne ==
  ASSUME DoomedInv, excuse \subseteq excuse', doomed \subseteq doomed', NEW k, NEW n, Rest({<<k, n>>}),
         NoExcuse({"stale"})' => DoomedJob(k, n, job[k][n])'
  PROVE  DoomedInv'
  <1>1. NoExcuse({"stale"})' =>
            \A kk \in Threads, x \in Node : <<kk, x>> \in {<<k, n>>} => DoomedJob(kk, x, job[kk][x])'
    BY DEF DoomedJob
  <1>2. QED BY <1>1, DoomedFrame

\* None acts.
LEMMA DoomedNone ==
  ASSUME DoomedInv, excuse \subseteq excuse', doomed \subseteq doomed', Rest({})
  PROVE  DoomedInv'
  <1>1. NoExcuse({"stale"})' =>
            \A kk \in Threads, x \in Node : <<kk, x>> \in {} => DoomedJob(kk, x, job[kk][x])'
    OBVIOUS
  <1>2. QED BY <1>1, DoomedFrame

\* An entry that changed since the file was read is not overwritten but in a lost update.
LEMMA NotLost ==
  ASSUME PlacesAssumption, VerAssumption, NEW n \in Node, NEW cur, IsFile(n, cur), NEW base, IsFile(n, base),
         NEW next, IsFile(n, next), ~LostUpdate(cur, base, next), NEW s \in Src
  PROVE  /\ s \in DOMAIN cur /\ s \notin DOMAIN next => s \in DOMAIN base
         /\ s \notin DOMAIN cur /\ s \in DOMAIN next => s \notin DOMAIN base
  <1>1. /\ s \in DOMAIN cur => cur[s].v # 0
        /\ s \in DOMAIN base => base[s].v # 0
        /\ s \in DOMAIN next => next[s].v # 0
    BY EntryIs DEF VerAssumption
  <1>2. ~(/\ (IF s \in DOMAIN cur THEN cur[s].v ELSE 0) # (IF s \in DOMAIN base THEN base[s].v ELSE 0)
          /\ (IF s \in DOMAIN next THEN next[s].v ELSE 0) # (IF s \in DOMAIN cur THEN cur[s].v ELSE 0))
    BY DEF LostUpdate
  <1>3. QED BY <1>1, <1>2

\* A save that looks what its file lacks reports what its user deleted.
LEMMA DoomedCompare ==
  ASSUME PlacesAssumption, TypeInv, DoomedInv, NEW n \in Node, NEW k \in Savers, Compare(k, n)
  PROVE  DoomedInv'
  <1>1. Rest({<<k, n>>})
    BY CompareIs
  <1>2. job[k][n].pc = "compare" /\ job'[k][n].ask = Removed(conf[n], job[k][n].next)
    BY CompareIs
  <1>3. job'[k][n].pc = IF DOMAIN job'[k][n].ask = {} THEN "write" ELSE "ask"
    BY CompareIs
  <1>4. /\ job'[k][n].base = job[k][n].base /\ job'[k][n].next = job[k][n].next
        /\ job'[k][n].src = job[k][n].src
    BY CompareIs
  <1>5. excuse' = excuse \cup IF DOMAIN job'[k][n].ask \subseteq DOMAIN job[k][n].base THEN {} ELSE {"stale"}
    BY CompareIs
  <1>6. doomed' = doomed
    BY DEF Compare
  <1>7. DOMAIN job'[k][n].ask \cap DOMAIN job[k][n].next = {}
    BY <1>2 DEF Removed, Restrict
  <1>8. ASSUME NoExcuse({"stale"})' PROVE DoomedJob(k, n, job[k][n])'
    <2>1. DOMAIN job'[k][n].ask \subseteq DOMAIN job[k][n].base \ DOMAIN job[k][n].next
      BY <1>5, <1>7, <1>8 DEF NoExcuse
    <2>2. DoomedJob(k, n, job[k][n])
      BY <1>5, <1>8 DEF DoomedInv, NoExcuse, Savers, Threads
    <2>3. QED BY <1>2, <1>3, <1>4, <1>6, <2>1, <2>2 DEF DoomedJob, BeforeWrite
  <1>9. excuse \subseteq excuse' /\ doomed \subseteq doomed'
    BY <1>5, <1>6
  <1>10. QED BY <1>1, <1>8, <1>9, DoomedOne

\* An owner is asked to remove what some user deleted.
LEMMA DoomedAsk ==
  ASSUME PlacesAssumption, TypeInv, PeerInv, DoomedInv, NEW n \in Node, NEW k \in Savers, Ask(k, n)
  PROVE  DoomedInv'
  <1>1. UNCHANGED <<files, net, left, ghosts>> /\ job[k][n].pc = "ask"
    BY AskIs
  <1>2. excuse' = excuse /\ doomed' = doomed
    BY <1>1 DEF ghosts
  <1>3. k \in Threads /\ "peer" \in Threads
    BY DEF Savers, Threads
  <1>4. CASE job' = Ended(k, n, "refused")
    <2>1. Rest({})
      BY <1>3, <1>4, EndedRest
    <2>2. QED BY <1>2, <2>1, DoomedNone
  <1>5. CASE job' # Ended(k, n, "refused")
    <2>1. PICK m \in Node \ {n}, s \in DOMAIN job[k][n].ask : Asked(k, n, m, s)
      BY <1>5, AskIs
    <2>2. Kept4(job[k][n], job'[k][n]) /\ job'[k][n].pc = "wait" /\ job'[k][n].ask = Without(job[k][n].ask, {s})
      BY <2>1 DEF Asked
    <2>3. DOMAIN job'[k][n].ask \subseteq DOMAIN job[k][n].ask
      BY <2>2 DEF Without, Restrict
    <2>4. ASSUME NoExcuse({"stale"})'
          PROVE  DoomedJob(k, n, job[k][n])' /\ DoomedJob("peer", m, job["peer"][m])'
      <3>1. DoomedJob(k, n, job[k][n])
        BY <1>2, <1>3, <2>4 DEF DoomedInv, NoExcuse
      <3>2. job'[k][n].base = job[k][n].base /\ job'[k][n].next = job[k][n].next /\ job'[k][n].src = job[k][n].src
        BY <2>2 DEF Kept4
      <3>3. DoomedJob(k, n, job[k][n])'
        BY <1>1, <1>2, <2>2, <2>3, <3>1, <3>2 DEF DoomedJob, BeforeWrite
      <3>4. s \in DOMAIN job[k][n].base \ DOMAIN job[k][n].next
        BY <1>1, <3>1 DEF DoomedJob
      <3>5. s \in doomed
        <4>1. CASE k = "user"
          BY <1>1, <3>1, <3>4, <4>1 DEF DoomedJob, BeforeWrite
        <4>2. CASE k = "peer"
          <5>1. s = job[k][n].src
            BY <1>1, <3>4, <4>2 DEF PeerInv, PeerJob, BeforeWrite
          <5>2. QED BY <1>1, <3>1, <4>2, <5>1 DEF DoomedJob
        <4>3. QED BY <4>1, <4>2 DEF Savers
      <3>6. job'["peer"][m].pc = "load" /\ job'["peer"][m].src = s
        BY <2>1 DEF Asked
      <3>7. DoomedJob("peer", m, job["peer"][m])'
        BY <1>2, <3>5, <3>6 DEF DoomedJob, BeforeWrite
      <3>8. QED BY <3>3, <3>7
    <2> DEFINE A == {<<k, n>>, <<"peer", m>>}
    <2>5. /\ Rest(A)
          /\ NoExcuse({"stale"})' =>
                \A kk \in Threads, x \in Node : <<kk, x>> \in A => DoomedJob(kk, x, job[kk][x])'
      <3>1. Rest(A)
        BY <2>1 DEF Asked
      <3>2. ASSUME NoExcuse({"stale"})', NEW kk \in Threads, NEW x \in Node, <<kk, x>> \in A
            PROVE  DoomedJob(kk, x, job[kk][x])'
        <4>1. (kk = k /\ x = n) \/ (kk = "peer" /\ x = m)
          BY <3>2
        <4>2. QED BY <2>4, <3>2, <4>1
      <3>3. QED BY <3>1, <3>2
    <2> HIDE DEF A
    <2>6. QED BY <1>2, <2>5, DoomedFrame
  <1>6. QED BY <1>4, <1>5

\* Every other step of a thread.
LEMMA DoomedThreads ==
  ASSUME PlacesAssumption, VerAssumption, TypeInv, PeerInv, DoomedInv, NEW n \in Node,
         NEW k \in Savers, Moves(k, n)
  PROVE  DoomedInv'
  <1>0. k \in Threads /\ "peer" \in Threads /\ "loop" \in Threads /\ "user" \in Threads
    BY DEF Savers, Threads
  <1>g. excuse \subseteq excuse' /\ doomed \subseteq doomed'
    BY CalmThreads DEF Calm
  <1>a. ASSUME NEW kk \in Threads, NEW x \in Node, NEW answer, job' = Ended(kk, x, answer)
        PROVE  DoomedInv'
    <2>1. Rest({})
      BY <1>a, EndedRest
    <2>2. QED BY <1>g, <2>1, DoomedNone
  <1>1. CASE Form(n)
    <2>1. Rest({<<"user", n>>})
      BY <1>1, FormIs
    <2>2. job'["user"][n].pc = "compare" /\ job'["user"][n].base = conf[n]
      BY <1>1, FormIs
    <2>3. doomed' = doomed \cup (DOMAIN conf[n] \ DOMAIN job'["user"][n].next)
      BY <1>1, FormIs
    <2>4. DoomedJob("user", n, job["user"][n])'
      BY <2>2, <2>3 DEF DoomedJob
    <2>5. QED BY <1>g, <2>1, <2>4, DoomedOne
  <1>2. CASE Compare(k, n)
    BY <1>2, DoomedCompare
  <1>3. CASE Ask(k, n)
    BY <1>3, DoomedAsk
  <1>4. CASE Refused(k, n)
    <2>1. job' = Ended(k, n, "refused")
      BY <1>4 DEF Refused
    <2>2. QED BY <1>0, <1>a, <2>1
  <1>5. CASE AskTimesOut(k, n)
    <2>1. Rest({})
      BY <1>5, TimesOutIs
    <2>2. QED BY <1>g, <2>1, DoomedNone
  <1>6. CASE PeerLoad(n)
    <2>1. CASE job' = Ended("peer", n, "ok")
      BY <1>0, <1>a, <2>1
    <2>2. CASE job' # Ended("peer", n, "ok")
      <3>1. /\ Rest({<<"peer", n>>}) /\ job'["peer"][n].pc = "health"
            /\ job'["peer"][n].src = job["peer"][n].src /\ job["peer"][n].pc = "load"
        BY <1>6, <2>2, PeerLoadIs
      <3>2. NoExcuse({"stale"})' => DoomedJob("peer", n, job["peer"][n])'
        BY <1>0, <1>g, <3>1 DEF DoomedInv, NoExcuse, DoomedJob
      <3>3. QED BY <1>g, <3>1, <3>2, DoomedOne
    <2>3. QED BY <2>1, <2>2
  <1>7. CASE PeerHealth(n)
    <2>1. CASE job' = Ended("peer", n, "refused")
      BY <1>0, <1>a, <2>1
    <2>2. CASE job' # Ended("peer", n, "refused")
      <3>1. /\ Rest({<<"peer", n>>}) /\ job'["peer"][n].pc = "compare"
            /\ job'["peer"][n].src = job["peer"][n].src /\ job["peer"][n].pc = "health"
        BY <1>7, <2>2, PeerHealthIs
      <3>2. NoExcuse({"stale"})' => DoomedJob("peer", n, job["peer"][n])'
        BY <1>0, <1>g, <3>1 DEF DoomedInv, NoExcuse, DoomedJob
      <3>3. QED BY <1>g, <3>1, <3>2, DoomedOne
    <2>3. QED BY <2>1, <2>2
  <1>8. CASE SaveEnds(k, n)
    <2>1. PICK js : js = Ended(k, n, "ok") /\ (job' = js \/ Sleeps(js, n))
      BY <1>8, SaveEndsIs
    <2>2. CASE job' = js
      BY <1>0, <1>a, <2>1, <2>2
    <2>3. CASE Sleeps(js, n)
      <3>1. Rest({<<"loop", n>>}) /\ job'["loop"][n] = [Idle EXCEPT !.pc = "sleep"]
        BY <2>3 DEF Sleeps
      <3>2. DoomedJob("loop", n, job["loop"][n])'
        BY <3>1, SleepIs DEF DoomedJob
      <3>3. QED BY <1>g, <3>1, <3>2, DoomedOne
    <2>4. QED BY <2>1, <2>2, <2>3
  <1>9. CASE LoopWakes(n) \/ LoopRound(n) \/ LoopEnds(n)
    <2>1. Rest({<<"loop", n>>})
      BY <1>9, LoopIs
    <2>2. job'["loop"][n].pc \in {"push", "sleep", "done", "idle"}
      BY <1>9, LoopIs
    <2>3. DoomedJob("loop", n, job["loop"][n])'
      BY <2>2 DEF DoomedJob
    <2>4. QED BY <1>g, <2>1, <2>3, DoomedOne
  <1>10. QED BY <1>1, <1>2, <1>3, <1>4, <1>5, <1>6, <1>7, <1>8, <1>9 DEF Moves

\* Writing, resetting and pushing.
LEMMA DoomedWrites ==
  ASSUME PlacesAssumption, TypeInv, DoomedInv, NEW n \in Node, NEW k \in Savers, Write(k, n) \/ Reset(k, n)
  PROVE  DoomedInv'
  <1>1. /\ Rest({<<k, n>>}) /\ job[k][n].pc # "idle"
        /\ job'[k][n].pc \in {"reset", "push"} /\ Kept4(job[k][n], job'[k][n])
    <2>1. CASE Write(k, n)
      BY <2>1, WriteIs
    <2>2. CASE Reset(k, n)
      BY <2>2, ResetIs
    <2>3. QED BY <2>1, <2>2
  <1>2. excuse \subseteq excuse' /\ doomed' = doomed
    BY DEF Write, Reset
  <1>3. k \in Threads
    BY DEF Savers, Threads
  <1>4. NoExcuse({"stale"})' => DoomedJob(k, n, job[k][n])'
    BY <1>1, <1>2, <1>3 DEF DoomedInv, NoExcuse, DoomedJob, Kept4, BeforeWrite
  <1>5. QED BY <1>1, <1>2, <1>4, DoomedOne

\* A push.
LEMMA DoomedPush ==
  ASSUME PlacesAssumption, TypeInv, DoomedInv, NEW n \in Node, NEW k \in Threads, Push(k, n)
  PROVE  DoomedInv'
  <1>1. PICK m, p :
           /\ m \in Node \ {n}
           /\ job[k][n].pc = "push" /\ (Told(k, n, m) \/ NotTold(k, n, m))
           /\ Apply(m, p) \/ UNCHANGED <<conf, seen, moved, excuse>>
           /\ UNCHANGED <<at, id, near, rev, born, doomed, gone>>
    BY PushData
  <1>2. Rest({<<k, n>>})
    BY <1>1, PushIs DEF At
  <1>3. job'[k][n].pc = "push" /\ Kept4(job[k][n], job'[k][n])
    BY <1>1, PushIs DEF At
  <1>4. excuse \subseteq excuse' /\ doomed' = doomed
    BY <1>1 DEF Apply
  <1>5. NoExcuse({"stale"})' => DoomedJob(k, n, job[k][n])'
    BY <1>1, <1>3, <1>4 DEF DoomedInv, NoExcuse, DoomedJob, Kept4, BeforeWrite
  <1>6. QED BY <1>2, <1>4, <1>5, DoomedOne

\* The rest of the world.
LEMMA DoomedWorld ==
  ASSUME TypeInv, DoomedInv, World
  PROVE  DoomedInv'
  <1>1. excuse \subseteq excuse' /\ doomed' = doomed /\ (job' = job \/ Rest({}))
    BY WorldIs
  <1>2. CASE job' = job
    BY <1>1, <1>2 DEF DoomedInv, DoomedJob, NoExcuse
  <1>3. CASE Rest({})
    BY <1>1, <1>3, DoomedNone
  <1>4. QED BY <1>1, <1>2, <1>3

\* A step in which nobody saves keeps all groups.
LEMMA KeptFrame ==
  ASSUME PlacesAssumption, BornInv, KeptUnlessDeleted, OwnSame, born' = born, doomed \subseteq doomed',
         excuse \subseteq excuse'
  PROVE  KeptUnlessDeleted'
  <1>1. SUFFICES ASSUME NoExcuse({"stale"})', NEW s \in born \ doomed' PROVE s \in DOMAIN conf'[Owner[s]]
    BY DEF KeptUnlessDeleted
  <1>2. s \in DOMAIN conf[Owner[s]]
    BY <1>1 DEF KeptUnlessDeleted, NoExcuse
  <1>3. Owner[s] \in Node
    BY DEF BornInv, PlacesAssumption
  <1>4. QED BY <1>2, <1>3 DEF OwnSame

\* A write keeps what its user, or the user who asked its handler, did not delete.
LEMMA KeptWrite ==
  ASSUME PlacesAssumption, VerAssumption, TypeInv, BornInv, PeerInv, DoomedInv, KeptUnlessDeleted,
         NEW n \in Node, NEW k \in Savers, Write(k, n)
  PROVE  KeptUnlessDeleted'
  <1> DEFINE j == job[k][n]
  <1>1. k \in Threads
    BY DEF Savers, Threads
  <1>2. /\ conf' = [conf EXCEPT ![n] = j.next] /\ born' = born \cup DOMAIN j.next /\ doomed' = doomed
        /\ excuse' = excuse \cup IF LostUpdate(conf[n], j.base, j.next) THEN {"stale"} ELSE {}
        /\ j.pc = "write"
    BY DEF Write, At
  <1>3. /\ IsFile(n, j.base) /\ IsFile(n, j.next) /\ IsFile(n, conf[n]) /\ conf = [x \in Node |-> conf[x]]
    BY <1>1 DEF TypeInv, IsJob
  <1>4. conf'[n] = j.next /\ \A x \in Node \ {n} : conf'[x] = conf[x]
    BY <1>2, <1>3
  <1>5. SUFFICES ASSUME NoExcuse({"stale"})', NEW s \in born' \ doomed PROVE s \in DOMAIN conf'[Owner[s]]
    BY <1>2 DEF KeptUnlessDeleted
  <1>6. ~LostUpdate(conf[n], j.base, j.next) /\ NoExcuse({"stale"})
    BY <1>2, <1>5 DEF NoExcuse
  <1>7. /\ DOMAIN j.base \subseteq born
        /\ \A x \in DOMAIN j.next \ DOMAIN j.base : Owner[x] = n /\ x \notin born
    BY <1>1, <1>2 DEF BornInv, BornJob, BeforeWrite
  <1>8. s \in Src /\ Owner[s] \in Node
    BY <1>2, <1>3, <1>5 DEF BornInv, PlacesAssumption, IsFile
  <1>9. CASE s \notin born
    BY <1>2, <1>4, <1>5, <1>7, <1>9
  <1>10. CASE s \in born
    <2>1. s \in DOMAIN conf[Owner[s]]
      BY <1>5, <1>6, <1>10 DEF KeptUnlessDeleted
    <2>2. CASE Owner[s] # n
      BY <1>4, <1>8, <2>1, <2>2
    <2>3. CASE Owner[s] = n
      <3>1. SUFFICES ASSUME s \notin DOMAIN j.next PROVE FALSE
        BY <1>4, <2>3
      <3>2. s \in DOMAIN j.base
        BY <1>3, <1>6, <1>8, <2>1, <2>3, <3>1, NotLost
      <3>3. DoomedJob(k, n, j)
        BY <1>1, <1>6 DEF DoomedInv
      <3>4. CASE k = "user"
        BY <1>2, <1>5, <3>1, <3>2, <3>3, <3>4 DEF DoomedJob, BeforeWrite
      <3>5. CASE k = "peer"
        <4>1. s = j.src
          BY <1>2, <3>1, <3>2, <3>5 DEF PeerInv, PeerJob, BeforeWrite
        <4>2. QED BY <1>2, <1>5, <3>3, <3>5, <4>1 DEF DoomedJob
      <3>6. QED BY <3>4, <3>5 DEF Savers
    <2>4. QED BY <2>2, <2>3
  <1>11. QED BY <1>9, <1>10

----------------------------------------------------------------------------
(* Callers and handlers. *)

\* The handler of m answers thread k of n.
Link(k, n, m) == n # m /\ job["peer"][m].from = k /\ job["peer"][m].reporter[1] = n

\* A caller waits for the handler that answers it, and for no other.
LEMMA CallIs ==
  ASSUME CallInv, NEW k \in Savers, NEW n \in Node, NEW m \in Node, Link(k, n, m)
  PROVE  /\ job[k][n].pc = "wait" /\ Calls(k, n, m)
         /\ \A l \in Node : Link(k, n, l) => l = m
  <1>1. At(k, n, "wait") /\ \A l \in Node : Calls(k, n, l) => l = m
    BY DEF CallInv, Link, Savers
  <1>2. \A l \in Node : Link(k, n, l) => Calls(k, n, l)
    BY <1>1 DEF Calls, Link, Savers
  <1>3. QED BY <1>1, <1>2 DEF At

\* No new link, and whoever is linked waits.
LEMMA CallFrame ==
  ASSUME CallInv,
         \A k \in Savers, n \in Node, m \in Node :
            Link(k, n, m)' => Link(k, n, m) /\ job'[k][n].pc = "wait"
  PROVE  CallInv'
  <1>1. SUFFICES ASSUME NEW m \in Node, NEW n \in Node, NEW k \in {"user", "peer"}, Link(k, n, m)'
                 PROVE  At(k, n, "wait")' /\ \A l \in Node : Calls(k, n, l)' => l = m
    BY DEF CallInv, Link
  <1>2. k \in Savers
    BY DEF Savers
  <1>3. Link(k, n, m) /\ job'[k][n].pc = "wait"
    BY <1>1, <1>2
  <1>4. ASSUME NEW l \in Node, Calls(k, n, l)' PROVE l = m
    <2>1. Link(k, n, l)'
      BY <1>4 DEF Calls, Link
    <2>2. Link(k, n, l)
      BY <1>2, <2>1
    <2>3. QED BY <1>2, <1>3, <2>2, CallIs
  <1>5. QED BY <1>3, <1>4 DEF At

\* A thread that does not wait acts alone; a handler keeps its caller or loses it.
LEMMA CallOnly ==
  ASSUME CallInv, NEW k \in Threads, NEW n \in Node, Only(k, n), job[k][n].pc # "wait",
         job'[k][n].from = "none" \/ (job'[k][n].from = job[k][n].from /\ job'[k][n].reporter = job[k][n].reporter)
  PROVE  CallInv'
  <1>1. ASSUME NEW kk \in Savers, NEW x \in Node, NEW m \in Node, Link(kk, x, m)'
        PROVE  Link(kk, x, m) /\ job'[kk][x].pc = "wait"
    <2>1. x # m /\ job'["peer"][m].from = kk /\ job'["peer"][m].reporter[1] = x
      BY <1>1 DEF Link
    <2>2. kk # "none" /\ kk \in Threads /\ "peer" \in Threads
      BY DEF Savers, Threads
    <2>3. job["peer"][m].from = job'["peer"][m].from /\ job["peer"][m].reporter = job'["peer"][m].reporter
      BY <2>1, <2>2 DEF Only
    <2>4. Link(kk, x, m)
      BY <2>1, <2>3 DEF Link
    <2>5. job[kk][x].pc = "wait"
      BY <2>4, CallIs
    <2>6. job'[kk][x] = job[kk][x]
      BY <2>2, <2>5 DEF Only
    <2>7. QED BY <2>4, <2>5, <2>6
  <1>2. QED BY <1>1, CallFrame

\* A thread that does not wait ends, and answers its own caller.
LEMMA CallEnded ==
  ASSUME TypeInv, CallInv, NEW k \in Threads, NEW n \in Node, NEW answer, NEW js, js = Ended(k, n, answer),
         job[k][n].pc # "wait", \A kk \in Savers, x \in Node : job'[kk][x] = js[kk][x]
  PROVE  CallInv'
  <1>1. js[k][n] = Idle
    BY EndedIs
  <1>2. \A kk \in Threads, x \in Node : (kk # k \/ x # n) =>
           js[kk][x] = IF k = "peer" /\ Calls(kk, x, n) THEN Answered(job[kk][x], answer) ELSE job[kk][x]
    BY EndedIs
  <1>3. ASSUME NEW kk \in Savers, NEW x \in Node, NEW m \in Node, Link(kk, x, m)'
        PROVE  Link(kk, x, m) /\ job'[kk][x].pc = "wait"
    <2>1. x # m /\ job'["peer"][m].from = kk /\ job'["peer"][m].reporter[1] = x
      BY <1>3 DEF Link
    <2>2. kk # "none" /\ kk \in Threads /\ "peer" \in Threads /\ "peer" \in Savers
      BY DEF Savers, Threads
    <2>3. ~(k = "peer" /\ m = n)
      BY <1>1, <2>1, <2>2, IdleIs
    <2>4. job["peer"][m].from = job'["peer"][m].from /\ job["peer"][m].reporter = job'["peer"][m].reporter
      <3>1. job'["peer"][m] = js["peer"][m]
        BY <2>2
      <3>2. CASE k = "peer" /\ Calls("peer", m, n)
        <4>1. js["peer"][m] = Answered(job["peer"][m], answer) /\ job["peer"][m].pc = "wait"
          BY <1>2, <2>2, <2>3, <3>2 DEF Calls, At
        <4>2. DOMAIN job["peer"][m] = Fields
          BY <2>2 DEF TypeInv, IsJob, Fields
        <4>3. QED BY <3>1, <4>1, <4>2, AnsweredIs DEF Same
      <3>3. CASE ~(k = "peer" /\ Calls("peer", m, n))
        BY <1>2, <2>2, <2>3, <3>1, <3>3
      <3>4. QED BY <3>2, <3>3
    <2>5. Link(kk, x, m)
      BY <2>1, <2>4 DEF Link
    <2>6. job[kk][x].pc = "wait" /\ \A l \in Node : Link(kk, x, l) => l = m
      BY <2>5, CallIs
    <2>7. kk # k \/ x # n
      BY <2>6
    <2>8. ~(k = "peer" /\ Calls(kk, x, n))
      BY <2>3, <2>6 DEF Calls, Link
    <2>9. job'[kk][x] = job[kk][x]
      BY <1>2, <2>2, <2>7, <2>8
    <2>10. QED BY <2>5, <2>6, <2>9
  <1>4. QED BY <1>3, CallFrame

\* A caller that gives up leaves its handler.
LEMMA CallTimesOut ==
  ASSUME TypeInv, CallInv, NEW k \in Savers, NEW n \in Node, AskTimesOut(k, n)
  PROVE  CallInv'
  <1>1. job'[k][n] = Idle
    BY TimesOutIs
  <1>2. \A kk \in Threads, x \in Node : (kk # k \/ x # n) =>
           job'[kk][x] = LET j == IF k = "peer" /\ Calls(kk, x, n) THEN Answered(job[kk][x], "refused")
                                  ELSE job[kk][x]
                         IN  IF kk = "peer" /\ Calls(k, n, x) THEN Unheard(j) ELSE j
    BY TimesOutIs
  <1>3. ASSUME NEW kk \in Savers, NEW x \in Node, NEW m \in Node, Link(kk, x, m)'
        PROVE  Link(kk, x, m) /\ job'[kk][x].pc = "wait"
    <2> DEFINE h == job["peer"][m]
               J == IF k = "peer" /\ Calls("peer", m, n) THEN Answered(h, "refused") ELSE h
    <2>1. x # m /\ job'["peer"][m].from = kk /\ job'["peer"][m].reporter[1] = x
      BY <1>3 DEF Link
    <2>2. kk # "none" /\ kk \in Threads /\ "peer" \in Threads /\ "peer" \in Savers /\ k \in Threads
      BY DEF Savers, Threads
    <2>3. ~(k = "peer" /\ m = n)
      BY <1>1, <2>1, <2>2, IdleIs
    <2>4. \A y \in Node : DOMAIN job["peer"][y] = Fields
      BY <2>2 DEF TypeInv, IsJob, Fields
    <2>5. DOMAIN J = Fields /\ J.from = h.from /\ J.reporter = h.reporter
      <3>1. CASE k = "peer" /\ Calls("peer", m, n)
        <4>1. h.pc = "wait" /\ J = Answered(h, "refused")
          BY <3>1 DEF Calls, At
        <4>2. QED BY <2>4, <4>1, AnsweredIs DEF Same
      <3>2. CASE ~(k = "peer" /\ Calls("peer", m, n))
        BY <2>4, <3>2
      <3>3. QED BY <3>1, <3>2
    <2>6. job'["peer"][m] = IF Calls(k, n, m) THEN Unheard(J) ELSE J
      BY <1>2, <2>2, <2>3
    <2> HIDE DEF J
    <2>7. ~Calls(k, n, m)
      BY <2>1, <2>2, <2>5, <2>6, UnheardIs
    <2>8. Link(kk, x, m)
      BY <2>1, <2>5, <2>6, <2>7 DEF Link
    <2>9. job[kk][x].pc = "wait" /\ Calls(kk, x, m) /\ \A l \in Node : Link(kk, x, l) => l = m
      BY <2>8, CallIs
    <2>10. kk # k \/ x # n
      BY <2>7, <2>9
    <2>11. ~(k = "peer" /\ Calls(kk, x, n))
      BY <2>3, <2>9 DEF Calls, Link
    <2>12. job'[kk][x] = IF kk = "peer" /\ Calls(k, n, x) THEN Unheard(job[kk][x]) ELSE job[kk][x]
      BY <1>2, <2>2, <2>10, <2>11
    <2>13. job'[kk][x].pc = "wait"
      <3>1. CASE kk = "peer" /\ Calls(k, n, x)
        BY <2>4, <2>9, <2>12, <3>1, UnheardIs
      <3>2. CASE ~(kk = "peer" /\ Calls(k, n, x))
        BY <2>9, <2>12, <3>2
      <3>3. QED BY <3>1, <3>2
    <2>14. QED BY <2>8, <2>13
  <1>4. QED BY <1>3, CallFrame

\* A machine that dies leaves its handlers, and its callers have their answer.
LEMMA CallDies ==
  ASSUME TypeInv, CallInv, NEW n \in Node, Dies(n)
  PROVE  CallInv'
  <1>1. \A k \in Threads : job'[k][n] = Idle
    BY DiesIs
  <1>2. \A k \in Threads, x \in Node \ {n} :
           job'[k][x] = LET j == IF Calls(k, x, n) THEN Answered(job[k][x], "refused") ELSE job[k][x]
                        IN  IF k = "peer" /\ \E kk \in Threads : Calls(kk, n, x) THEN Unheard(j) ELSE j
    BY DiesIs
  <1>3. ASSUME NEW kk \in Savers, NEW x \in Node, NEW m \in Node, Link(kk, x, m)'
        PROVE  Link(kk, x, m) /\ job'[kk][x].pc = "wait"
    <2> DEFINE h == job["peer"][m]
               J == IF Calls("peer", m, n) THEN Answered(h, "refused") ELSE h
    <2>1. x # m /\ job'["peer"][m].from = kk /\ job'["peer"][m].reporter[1] = x
      BY <1>3 DEF Link
    <2>2. kk # "none" /\ kk \in Threads /\ "peer" \in Threads /\ "peer" \in Savers
      BY DEF Savers, Threads
    <2>3. m # n
      BY <1>1, <2>1, <2>2, IdleIs
    <2>4. \A y \in Node : DOMAIN job["peer"][y] = Fields
      BY <2>2 DEF TypeInv, IsJob, Fields
    <2>5. DOMAIN J = Fields /\ J.from = h.from /\ J.reporter = h.reporter
      <3>1. CASE Calls("peer", m, n)
        <4>1. h.pc = "wait" /\ J = Answered(h, "refused")
          BY <3>1 DEF Calls, At
        <4>2. QED BY <2>4, <4>1, AnsweredIs DEF Same
      <3>2. CASE ~Calls("peer", m, n)
        BY <2>4, <3>2
      <3>3. QED BY <3>1, <3>2
    <2>6. job'["peer"][m] = IF \E k \in Threads : Calls(k, n, m) THEN Unheard(J) ELSE J
      BY <1>2, <2>2, <2>3
    <2> HIDE DEF J
    <2>7. \A k \in Threads : ~Calls(k, n, m)
      BY <2>1, <2>2, <2>5, <2>6, UnheardIs
    <2>8. Link(kk, x, m)
      BY <2>1, <2>5, <2>6, <2>7 DEF Link
    <2>9. job[kk][x].pc = "wait" /\ Calls(kk, x, m) /\ \A l \in Node : Link(kk, x, l) => l = m
      BY <2>8, CallIs
    <2>10. x # n
      BY <2>2, <2>7, <2>9
    <2>11. ~Calls(kk, x, n)
      BY <2>3, <2>9 DEF Calls, Link
    <2>12. job'[kk][x] = IF kk = "peer" /\ \E k \in Threads : Calls(k, n, x) THEN Unheard(job[kk][x]) ELSE job[kk][x]
      BY <1>2, <2>2, <2>10, <2>11
    <2>13. job'[kk][x].pc = "wait"
      <3>1. CASE kk = "peer" /\ \E k \in Threads : Calls(k, n, x)
        BY <2>4, <2>9, <2>12, <3>1, UnheardIs
      <3>2. CASE ~(kk = "peer" /\ \E k \in Threads : Calls(k, n, x))
        BY <2>9, <2>12, <3>2
      <3>3. QED BY <3>1, <3>2
    <2>14. QED BY <2>8, <2>13
  <1>4. QED BY <1>3, CallFrame

\* A caller gets a handler of its own.
LEMMA CallAsk ==
  ASSUME PlacesAssumption, TypeInv, CallInv, NEW k \in Savers, NEW n \in Node, Ask(k, n)
  PROVE  CallInv'
  <1>0. k \in Threads /\ "peer" \in Threads /\ "peer" \in Savers /\ job[k][n].pc = "ask"
    BY AskIs DEF Savers, Threads
  <1>1. CASE job' = Ended(k, n, "refused")
    <2>1. job[k][n].pc # "wait"
      BY <1>0
    <2>2. QED BY <1>0, <1>1, <2>1, CallEnded
  <1>2. CASE job' # Ended(k, n, "refused")
    <2>1. PICK m \in Node \ {n}, s \in DOMAIN job[k][n].ask : Asked(k, n, m, s)
      BY <1>2, AskIs
    <2>2. /\ \A kk \in Threads, x \in Node :
                <<kk, x>> \notin {<<k, n>>, <<"peer", m>>} => job'[kk][x] = job[kk][x]
          /\ Kept4(job[k][n], job'[k][n]) /\ job'[k][n].pc = "wait" /\ job["peer"][m].pc = "idle"
          /\ job'["peer"][m].from = k /\ job'["peer"][m].reporter[1] = n
      BY <2>1 DEF Asked
    <2>3. ASSUME NEW kk \in Savers, NEW x \in Node, NEW l \in Node, Link(kk, x, l)', l # m
          PROVE  /\ job'[kk][x].pc = "wait" /\ (kk # k \/ x # n)
                 /\ \A y \in Node : Link(kk, x, y)' => y = l
      <3>1. kk # "none" /\ kk \in Threads
        BY DEF Savers, Threads
      <3>2. ASSUME NEW y \in Node, y # m
            PROVE  /\ job["peer"][y].from = job'["peer"][y].from
                   /\ job["peer"][y].reporter = job'["peer"][y].reporter
        <4>1. CASE k = "peer" /\ y = n
          BY <2>2, <4>1 DEF Kept4
        <4>2. CASE ~(k = "peer" /\ y = n)
          <5>1. <<"peer", y>> \notin {<<k, n>>, <<"peer", m>>}
            BY <3>2, <4>2
          <5>2. QED BY <1>0, <2>2, <5>1
        <4>3. QED BY <4>1, <4>2
      <3>3. Link(kk, x, l)
        BY <2>3, <3>2 DEF Link
      <3>4. job[kk][x].pc = "wait" /\ \A y \in Node : Link(kk, x, y) => y = l
        BY <3>3, CallIs
      <3>5. kk # k \/ x # n
        BY <1>0, <3>4
      <3>6. <<kk, x>> # <<"peer", m>>
        BY <2>2, <3>4
      <3>7. job'[kk][x].pc = "wait"
        BY <2>2, <3>1, <3>4, <3>5, <3>6
      <3>8. ~Link(kk, x, m)'
        BY <2>2, <3>5 DEF Link
      <3>9. \A y \in Node : Link(kk, x, y)' => y = l
        BY <3>2, <3>4, <3>8 DEF Link
      <3>10. QED BY <3>5, <3>7, <3>9
    <2>4. ASSUME NEW kk \in Savers, NEW x \in Node, NEW l \in Node, Link(kk, x, l)'
          PROVE  job'[kk][x].pc = "wait" /\ \A y \in Node : Link(kk, x, y)' => y = l
      <3>1. CASE l # m
        BY <2>3, <2>4, <3>1
      <3>2. CASE l = m
        <4>1. kk = k /\ x = n
          BY <2>2, <2>4, <3>2 DEF Link
        <4>2. \A y \in Node : Link(kk, x, y)' => y = m
          BY <2>3, <4>1
        <4>3. QED BY <2>2, <3>2, <4>1, <4>2
      <3>3. QED BY <3>1, <3>2
    <2>5. QED
      <3>1. SUFFICES ASSUME NEW l \in Node, NEW x \in Node, NEW kk \in {"user", "peer"}, Link(kk, x, l)'
                     PROVE  At(kk, x, "wait")' /\ \A y \in Node : Calls(kk, x, y)' => y = l
        BY DEF CallInv, Link
      <3>2. job'[kk][x].pc = "wait" /\ \A y \in Node : Link(kk, x, y)' => y = l
        BY <2>4, <3>1 DEF Savers
      <3>3. QED BY <3>2 DEF At, Calls, Link
  <1>3. QED BY <1>1, <1>2

\* The steps of threads keep callers and handlers together.
LEMMA CallThreads ==
  ASSUME PlacesAssumption, VerAssumption, TypeInv, CallInv, NEW n \in Node, NEW k \in Savers,
         Moves(k, n) \/ Write(k, n) \/ Reset(k, n)
  PROVE  CallInv'
  <1>0. k \in Threads /\ "peer" \in Threads /\ "loop" \in Threads /\ "user" \in Threads
    BY DEF Savers, Threads
  <1>a. ASSUME NEW kk \in Threads, NEW x \in Node, NEW answer, job' = Ended(kk, x, answer), job[kk][x].pc # "wait"
        PROVE  CallInv'
    BY <1>a, CallEnded
  <1>1. CASE Form(n)
    <2>1. Only("user", n) /\ job["user"][n].pc = "idle" /\ job'["user"][n].from = "none"
      BY <1>1, FormIs
    <2>2. QED BY <1>0, <2>1, CallOnly
  <1>2. CASE Compare(k, n)
    <2>1. Only(k, n) /\ job[k][n].pc = "compare"
      BY <1>2, CompareIs
    <2>2. job'[k][n].from = job[k][n].from /\ job'[k][n].reporter = job[k][n].reporter
      BY <1>2, CompareIs
    <2>3. QED BY <1>0, <2>1, <2>2, CallOnly
  <1>3. CASE Ask(k, n)
    BY <1>3, CallAsk
  <1>4. CASE Refused(k, n)
    <2>1. job' = Ended(k, n, "refused") /\ job[k][n].pc = "refused"
      BY <1>4 DEF Refused, At
    <2>2. job[k][n].pc # "wait"
      BY <2>1
    <2>3. QED BY <1>0, <1>a, <2>1, <2>2
  <1>5. CASE AskTimesOut(k, n)
    BY <1>5, CallTimesOut
  <1>6. CASE PeerLoad(n)
    <2>0. job["peer"][n].pc = "load"
      BY <1>6, PeerLoadIs
    <2>1. CASE job' = Ended("peer", n, "ok")
      <3>1. job["peer"][n].pc # "wait"
        BY <2>0
      <3>2. QED BY <1>0, <1>a, <2>1, <3>1
    <2>2. CASE job' # Ended("peer", n, "ok")
      <3>1. /\ Only("peer", n) /\ job'["peer"][n].from = job["peer"][n].from
            /\ job'["peer"][n].reporter = job["peer"][n].reporter
        BY <1>6, <2>2, PeerLoadIs
      <3>2. QED BY <1>0, <2>0, <3>1, CallOnly
    <2>3. QED BY <2>1, <2>2
  <1>7. CASE PeerHealth(n)
    <2>0. job["peer"][n].pc = "health"
      BY <1>7, PeerHealthIs
    <2>1. CASE job' = Ended("peer", n, "refused")
      <3>1. job["peer"][n].pc # "wait"
        BY <2>0
      <3>2. QED BY <1>0, <1>a, <2>1, <3>1
    <2>2. CASE job' # Ended("peer", n, "refused")
      <3>1. /\ Only("peer", n) /\ job'["peer"][n].from = job["peer"][n].from
            /\ job'["peer"][n].reporter = job["peer"][n].reporter
        BY <1>7, <2>2, PeerHealthIs
      <3>2. QED BY <1>0, <2>0, <3>1, CallOnly
    <2>3. QED BY <2>1, <2>2
  <1>8. CASE SaveEnds(k, n)
    <2>1. PICK js : js = Ended(k, n, "ok") /\ (job' = js \/ Sleeps(js, n))
      BY <1>8, SaveEndsIs
    <2>2. job[k][n].pc = "push"
      BY <1>8, SaveEndsIs
    <2>3. \A kk \in Savers, x \in Node : job'[kk][x] = js[kk][x]
      BY <2>1 DEF Sleeps, Savers, Threads
    <2>4. js = Ended(k, n, "ok") /\ job[k][n].pc # "wait"
      BY <2>1, <2>2
    <2>5. QED BY <1>0, <2>3, <2>4, CallEnded
  <1>9. CASE LoopWakes(n) \/ LoopRound(n) \/ LoopEnds(n)
    <2>1. Only("loop", n)
      BY <1>9, LoopIs
    <2>2. SUFFICES \A kk \in Savers, x \in Node, m \in Node :
                      Link(kk, x, m)' => Link(kk, x, m) /\ job'[kk][x].pc = "wait"
      BY CallFrame
    <2>3. \A kk \in Savers, x \in Node : job'[kk][x] = job[kk][x]
      BY <2>1 DEF Only, Savers, Threads
    <2>4. \A kk \in Savers, x \in Node, m \in Node : Link(kk, x, m)' => Link(kk, x, m)
      BY <2>3 DEF Link, Savers
    <2>5. QED BY <2>3, <2>4, CallIs
  <1>10. CASE Write(k, n)
    <2>1. Only(k, n) /\ job[k][n].pc = "write" /\ Kept4(job[k][n], job'[k][n])
      BY <1>10, WriteIs
    <2>2. QED BY <1>0, <2>1, CallOnly DEF Kept4
  <1>11. CASE Reset(k, n)
    <2>1. Only(k, n) /\ job[k][n].pc = "reset" /\ Kept4(job[k][n], job'[k][n])
      BY <1>11, ResetIs
    <2>2. QED BY <1>0, <2>1, CallOnly DEF Kept4
  <1>12. QED BY <1>1, <1>2, <1>3, <1>4, <1>5, <1>6, <1>7, <1>8, <1>9, <1>10, <1>11 DEF Moves

\* So does a push.
LEMMA CallPush ==
  ASSUME PlacesAssumption, TypeInv, CallInv, NEW n \in Node, NEW k \in Threads, Push(k, n)
  PROVE  CallInv'
  <1>1. PICK m, p : m \in Node \ {n} /\ job[k][n].pc = "push" /\ (Told(k, n, m) \/ NotTold(k, n, m))
    BY PushData
  <1>2. Only(k, n)
    BY <1>1, PushIs DEF At
  <1>3. Kept4(job[k][n], job'[k][n])
    BY <1>1, PushIs DEF At
  <1>4. QED BY <1>1, <1>2, <1>3, CallOnly DEF Kept4

\* And the rest of the world.
LEMMA CallWorld ==
  ASSUME TypeInv, CallInv, World
  PROVE  CallInv'
  <1>1. CASE \E n \in Node : Crash(n) \/ Rename(n)
    BY <1>1, CallDies DEF Crash, Rename
  <1>2. CASE ~\E n \in Node : Crash(n) \/ Rename(n)
    <2>1. job' = job
      BY <1>2 DEF World, Cut, Discover, Pass, Prune, LateArrives, net, vars
    <2>2. QED BY <2>1 DEF CallInv, Calls, At
  <1>3. QED BY <1>1, <1>2

----------------------------------------------------------------------------
(* Newest lists and kept groups, step by step. *)

\* Steps of threads that keep their place after the write.
LEMMA RevThreads ==
  ASSUME PlacesAssumption, VerAssumption, TypeInv, RevInv, NEW n \in Node, NEW k \in Savers, Moves(k, n)
  PROVE  RevInv'
  <1>1. Calm
    BY CalmThreads
  <1>2. rev' = rev /\ OwnSame /\ \A p \in late' : p \in late
    BY <1>1 DEF Calm, OwnSame
  <1>3. \A kk \in Threads, x \in Node : Keeps(kk, x)
    BY KeepsThreads
  <1>4. QED BY <1>2, <1>3, RevFrame

\* After the reset the list is still the newest.
LEMMA RevReset ==
  ASSUME PlacesAssumption, TypeInv, RevInv, NEW n \in Node, NEW k \in Savers, Reset(k, n)
  PROVE  RevInv'
  <1>1. Only(k, n)
    BY ResetIs
  <1>2. job[k][n].pc = "reset" /\ job'[k][n].rev = job[k][n].rev /\ Kept4(job[k][n], job'[k][n])
    BY ResetIs
  <1>3. conf' = conf /\ rev' = rev /\ late' = late
    BY DEF Reset, net
  <1>4. \A kk \in Threads, x \in Node :
           job'[kk][x].pc \in Written =>
              job[kk][x].pc \in Written /\ job'[kk][x].rev = job[kk][x].rev /\ job'[kk][x].next = job[kk][x].next
    BY <1>1, <1>2 DEF Only, Written, Kept4
  <1>5. QED BY <1>3, <1>4 DEF RevInv, Newest

\* Every step but a write keeps the groups nobody deletes.
LEMMA KeptSteps ==
  ASSUME PlacesAssumption, VerAssumption, TypeInv, BornInv, KeptUnlessDeleted,
         \/ \E n \in Node, k \in Savers : Moves(k, n) \/ Reset(k, n)
         \/ \E n \in Node, k \in Threads : Push(k, n)
         \/ World
  PROVE  OwnSame /\ born' = born /\ excuse \subseteq excuse' /\ KeptUnlessDeleted'
  <1>1. CASE \E n \in Node, k \in Savers : Moves(k, n)
    <2>1. Calm
      BY <1>1, CalmThreads
    <2>2. OwnSame /\ born' = born /\ doomed \subseteq doomed' /\ excuse \subseteq excuse'
      BY <2>1 DEF Calm, OwnSame
    <2>3. QED BY <2>2, KeptFrame
  <1>2. CASE \E n \in Node, k \in Savers : Reset(k, n)
    <2>1. UNCHANGED <<conf, born, doomed, excuse>>
      BY <1>2 DEF Reset
    <2>2. OwnSame /\ born' = born /\ doomed \subseteq doomed' /\ excuse \subseteq excuse'
      BY <2>1 DEF OwnSame
    <2>3. QED BY <2>2, KeptFrame
  <1>3. CASE \E n \in Node, k \in Threads : Push(k, n)
    <2>1. PICK n \in Node, k \in Threads : Push(k, n)
      BY <1>3
    <2>2. PICK m, p :
             /\ m \in Node \ {n}
             /\ IsPush(p) /\ p.to = m
             /\ Apply(m, p) \/ UNCHANGED <<conf, seen, moved, excuse>>
             /\ UNCHANGED <<at, id, near, rev, born, doomed, gone>>
      BY <2>1, PushData
    <2>3. OwnSame
      <3>1. CASE Apply(m, p)
        BY <2>2, <3>1, OwnApply
      <3>2. CASE UNCHANGED conf
        BY <3>2 DEF OwnSame
      <3>3. QED BY <2>2, <3>1, <3>2
    <2>4. born' = born /\ doomed \subseteq doomed' /\ excuse \subseteq excuse'
      BY <2>2 DEF Apply
    <2>5. QED BY <2>3, <2>4, KeptFrame
  <1>4. CASE World
    <2>1. born' = born /\ doomed \subseteq doomed' /\ excuse \subseteq excuse'
      BY <1>4, WorldIs
    <2>2. conf' = conf \/ \E p \in late : Apply(p.to, p)
      BY <1>4, WorldIs
    <2>3. OwnSame
      <3>1. CASE \E p \in late : Apply(p.to, p)
        BY <3>1, OwnApply DEF TypeInv
      <3>2. CASE conf' = conf
        BY <3>2 DEF OwnSame
      <3>3. QED BY <2>2, <3>1, <3>2
    <2>4. QED BY <2>1, <2>3, KeptFrame
  <1>5. QED BY <1>1, <1>2, <1>3, <1>4

----------------------------------------------------------------------------
(* Deleted groups. *)

\* What the owner has dropped stays dropped.
DropKept == \A s \in Src : Dropped(s) => Dropped(s)'

\* A dropped group does not come to a machine, and what a machine loses its owner has
\* dropped.
FilesKept ==
    \A n \in Node, s \in Src :
        /\ Dropped(s) /\ s \notin DOMAIN conf[n] => s \notin DOMAIN conf'[n]
        /\ Owner[s] # n /\ s \in DOMAIN conf[n] \ DOMAIN conf'[n] => Dropped(s)

\* A user's save has no obligation, or stays as it was, its handler too.
UserStep(n) ==
    \/ job'["user"][n].pc \notin {"compare", "ask", "wait", "write"}
    \/ /\ job'["user"][n].pc = job["user"][n].pc /\ job'["user"][n].base = job["user"][n].base
       /\ job'["user"][n].next = job["user"][n].next /\ job'["user"][n].ask = job["user"][n].ask
       /\ job["user"][n].pc = "wait" =>
             \A m \in Node : Calls("user", n, m) /\ job["peer"][m].pc # "idle" =>
                /\ job'["peer"][m].from = "user" /\ job'["peer"][m].reporter = job["peer"][m].reporter
                /\ job'["peer"][m].pc # "idle" /\ job'["peer"][m].src = job["peer"][m].src

\* A step in which no deletion is saved.
LEMMA DroppedFrame ==
  ASSUME PlacesAssumption, DroppedInv, excuse \subseteq excuse', gone' = gone,
         NoExcuse({"stale"})' =>
            /\ DropKept
            /\ (\A n \in Node : job["peer"][n].pc \in Written => Dropped(job["peer"][n].src))',
         NoExcuse({"stale", "outdated"})' =>
            /\ FilesKept
            /\ (\A n \in Node : DroppedJob(n, job["user"][n]))'
  PROVE  DroppedInv'
  <1>1. \A d \in gone' : d[1] \in Src /\ d[2] \in Node
    BY DEF DroppedInv
  <1>2. ASSUME NoExcuse({"stale", "outdated"})', NEW d \in gone'
        PROVE  Dropped(d[1])' /\ d[1] \notin DOMAIN conf'[d[2]]
    <2>1. NoExcuse({"stale"})' /\ NoExcuse({"stale", "outdated"})
      BY <1>2 DEF NoExcuse
    <2>2. Dropped(d[1]) /\ d[1] \notin DOMAIN conf[d[2]] /\ d[1] \in Src /\ d[2] \in Node
      BY <1>1, <2>1 DEF DroppedInv
    <2>3. DropKept /\ FilesKept
      BY <1>2, <2>1
    <2>4. QED BY <2>2, <2>3 DEF DropKept, FilesKept
  <1>3. QED BY <1>1, <1>2 DEF DroppedInv

\* A save with no part in the step keeps what it knows.
LEMMA UserFrame ==
  ASSUME TypeInv, NEW n \in Node, DroppedJob(n, job["user"][n]), DropKept, FilesKept, UserStep(n)
  PROVE  DroppedJob(n, job["user"][n])'
  <1> DEFINE j == job["user"][n]
             jj == job'["user"][n]
  <1>1. CASE jj.pc \notin {"compare", "ask", "wait", "write"}
    BY <1>1 DEF DroppedJob
  <1>2. CASE jj.pc \in {"compare", "ask", "wait", "write"}
    <2>1. jj.pc = j.pc /\ jj.base = j.base /\ jj.next = j.next /\ jj.ask = j.ask
      BY <1>2 DEF UserStep
    <2>2. DOMAIN j.base \subseteq Src
      BY DEF TypeInv, IsJob, IsFile, Threads
    <2>3. SUFFICES ASSUME NEW s \in DOMAIN j.base \ DOMAIN j.next, Owner[s] # n
                   PROVE  /\ j.pc = "compare" => s \in DOMAIN conf'[n] \/ Dropped(s)'
                          /\ j.pc = "ask" => s \in DOMAIN j.ask \/ Dropped(s)'
                          /\ j.pc = "wait" => \/ s \in DOMAIN j.ask \/ Dropped(s)'
                                              \/ \E m \in Node : /\ Calls("user", n, m)' /\ job'["peer"][m].pc # "idle"
                                                                 /\ job'["peer"][m].src = s
                          /\ j.pc = "write" => Dropped(s)'
      BY <2>1 DEF DroppedJob
    <2>4. s \in Src /\ (Dropped(s) => Dropped(s)')
      BY <2>2, <2>3 DEF DropKept
    <2>5. j.pc = "compare" => s \in DOMAIN conf'[n] \/ Dropped(s)'
      BY <2>3, <2>4 DEF DroppedJob, FilesKept
    <2>6. j.pc = "ask" => s \in DOMAIN j.ask \/ Dropped(s)'
      BY <2>3, <2>4 DEF DroppedJob
    <2>7. j.pc = "write" => Dropped(s)'
      BY <2>3, <2>4 DEF DroppedJob
    <2>8. ASSUME j.pc = "wait", s \notin DOMAIN j.ask, ~Dropped(s)'
          PROVE  \E m \in Node : /\ Calls("user", n, m)' /\ job'["peer"][m].pc # "idle"
                                 /\ job'["peer"][m].src = s
      <3>1. PICK m \in Node : Calls("user", n, m) /\ job["peer"][m].pc # "idle" /\ job["peer"][m].src = s
        BY <2>3, <2>4, <2>8 DEF DroppedJob
      <3>2. /\ job'["peer"][m].from = "user" /\ job'["peer"][m].reporter = job["peer"][m].reporter
            /\ job'["peer"][m].pc # "idle" /\ job'["peer"][m].src = job["peer"][m].src
        BY <1>2, <2>8, <3>1 DEF UserStep
      <3>3. Calls("user", n, m)'
        BY <2>1, <2>8, <3>1, <3>2 DEF Calls, At
      <3>4. QED BY <3>1, <3>2, <3>3
    <2>9. QED BY <2>5, <2>6, <2>7, <2>8
  <1>3. QED BY <1>1, <1>2

\* No save of a user has a part in what another thread does alone.
LEMMA UserOnly ==
  ASSUME NEW k \in {"peer", "loop"}, NEW n \in Node, Only(k, n),
         k = "peer" => /\ job'[k][n].from = job[k][n].from /\ job'[k][n].reporter = job[k][n].reporter
                       /\ job'[k][n].src = job[k][n].src /\ job'[k][n].pc # "idle"
  PROVE  \A x \in Node : UserStep(x)
  <1>1. SUFFICES ASSUME NEW x \in Node PROVE UserStep(x)
    OBVIOUS
  <1>2. job'["user"][x] = job["user"][x]
    BY DEF Only, Threads
  <1>3. \A m \in Node : job["peer"][m].pc # "idle" =>
           /\ job'["peer"][m].from = job["peer"][m].from /\ job'["peer"][m].reporter = job["peer"][m].reporter
           /\ job'["peer"][m].src = job["peer"][m].src /\ job'["peer"][m].pc # "idle"
    <2>1. \A m \in Node : k # "peer" \/ m # n => job'["peer"][m] = job["peer"][m]
      BY DEF Only, Threads
    <2>2. QED BY <2>1
  <1>4. QED BY <1>2, <1>3 DEF UserStep, Calls

\* Nor in what the user of another machine does.
LEMMA UserOther ==
  ASSUME NEW n \in Node, Only("user", n), NEW x \in Node \ {n}
  PROVE  UserStep(x)
  <1>1. job'["user"][x] = job["user"][x] /\ \A m \in Node : job'["peer"][m] = job["peer"][m]
    BY DEF Only, Threads
  <1>2. QED BY <1>1 DEF UserStep, Calls

\* A machine that stops, or a caller that gives up, leaves the other saves as they are or
\* refused.
LEMMA UserUnheard ==
  ASSUME TypeInv, CallInv, (\E n \in Node, k \in Savers : AskTimesOut(k, n)) \/ (\E n \in Node : Dies(n)),
         NEW x \in Node
  PROVE  UserStep(x)
  <1>0. "user" \in Threads /\ "peer" \in Threads /\ \A kk \in Threads, y \in Node : DOMAIN job[kk][y] = Fields
    BY DEF TypeInv, IsJob, Fields, Threads
  <1>1. CASE \E n \in Node, k \in Savers : AskTimesOut(k, n)
    <2>1. PICK n \in Node, k \in Savers : AskTimesOut(k, n)
      BY <1>1
    <2>2. job'[k][n] = Idle /\ job[k][n].pc = "wait"
      BY <2>1, TimesOutIs
    <2>3. \A kk \in Threads, y \in Node : (kk # k \/ y # n) =>
             job'[kk][y] = LET j == IF k = "peer" /\ Calls(kk, y, n) THEN Answered(job[kk][y], "refused")
                                    ELSE job[kk][y]
                           IN  IF kk = "peer" /\ Calls(k, n, y) THEN Unheard(j) ELSE j
      BY <2>1, TimesOutIs
    <2>4. CASE k = "user" /\ x = n
      BY <2>2, <2>4, IdleIs, <1>0 DEF UserStep
    <2>5. CASE ~(k = "user" /\ x = n)
      <3>1. job'["user"][x] = IF k = "peer" /\ Calls("user", x, n) THEN Answered(job["user"][x], "refused")
                              ELSE job["user"][x]
        BY <1>0, <2>3, <2>5
      <3>2. CASE k = "peer" /\ Calls("user", x, n)
        <4>1. job["user"][x].pc = "wait" /\ job'["user"][x] = Answered(job["user"][x], "refused")
          BY <3>1, <3>2 DEF Calls, At
        <4>2. job'["user"][x].pc = "refused"
          BY <1>0, <4>1, AnsweredIs
        <4>3. QED BY <4>2 DEF UserStep
      <3>3. CASE ~(k = "peer" /\ Calls("user", x, n))
        <4>1. job'["user"][x] = job["user"][x]
          BY <3>1, <3>3
        <4>2. ASSUME NEW m \in Node, Calls("user", x, m), job["peer"][m].pc # "idle"
              PROVE  /\ job'["peer"][m].from = "user" /\ job'["peer"][m].reporter = job["peer"][m].reporter
                     /\ job'["peer"][m].pc # "idle" /\ job'["peer"][m].src = job["peer"][m].src
          <5>1. ~(k = "peer" /\ m = n)
            BY <3>3, <4>2
          <5>2. ~Calls(k, n, m)
            BY <2>5, <4>2 DEF Calls
          <5>3. job'["peer"][m] = IF k = "peer" /\ Calls("peer", m, n) THEN Answered(job["peer"][m], "refused")
                                  ELSE job["peer"][m]
            BY <1>0, <2>3, <5>1, <5>2
          <5>4. job["peer"][m].from = "user"
            BY <4>2 DEF Calls
          <5>5. CASE k = "peer" /\ Calls("peer", m, n)
            <6>1. job["peer"][m].pc = "wait" /\ job'["peer"][m] = Answered(job["peer"][m], "refused")
              BY <5>3, <5>5 DEF Calls, At
            <6>2. QED BY <1>0, <5>4, <6>1, AnsweredIs DEF Same
          <5>6. CASE ~(k = "peer" /\ Calls("peer", m, n))
            BY <4>2, <5>3, <5>4, <5>6
          <5>7. QED BY <5>5, <5>6
        <4>3. QED BY <4>1, <4>2 DEF UserStep
      <3>4. QED BY <3>2, <3>3
    <2>6. QED BY <2>4, <2>5
  <1>2. CASE \E n \in Node : Dies(n)
    <2>1. PICK n \in Node : Dies(n)
      BY <1>2
    <2>2. \A k \in Threads : job'[k][n] = Idle
      BY <2>1, DiesIs
    <2>3. \A k \in Threads, y \in Node \ {n} :
             job'[k][y] = LET j == IF Calls(k, y, n) THEN Answered(job[k][y], "refused") ELSE job[k][y]
                          IN  IF k = "peer" /\ \E kk \in Threads : Calls(kk, n, y) THEN Unheard(j) ELSE j
      BY <2>1, DiesIs
    <2>4. CASE x = n
      BY <1>0, <2>2, <2>4, IdleIs DEF UserStep
    <2>5. CASE x # n
      <3>1. job'["user"][x] = IF Calls("user", x, n) THEN Answered(job["user"][x], "refused")
                              ELSE job["user"][x]
        BY <1>0, <2>3, <2>5
      <3>2. CASE Calls("user", x, n)
        <4>1. job["user"][x].pc = "wait" /\ job'["user"][x] = Answered(job["user"][x], "refused")
          BY <3>1, <3>2 DEF Calls, At
        <4>2. job'["user"][x].pc = "refused"
          BY <1>0, <4>1, AnsweredIs
        <4>3. QED BY <4>2 DEF UserStep
      <3>3. CASE ~Calls("user", x, n)
        <4>1. job'["user"][x] = job["user"][x]
          BY <3>1, <3>3
        <4>2. ASSUME NEW m \in Node, Calls("user", x, m), job["peer"][m].pc # "idle"
              PROVE  /\ job'["peer"][m].from = "user" /\ job'["peer"][m].reporter = job["peer"][m].reporter
                     /\ job'["peer"][m].pc # "idle" /\ job'["peer"][m].src = job["peer"][m].src
          <5>1. m # n
            BY <3>3, <4>2
          <5>2. ~\E kk \in Threads : Calls(kk, n, m)
            BY <2>5, <4>2 DEF Calls
          <5>3. job'["peer"][m] = IF Calls("peer", m, n) THEN Answered(job["peer"][m], "refused")
                                  ELSE job["peer"][m]
            BY <1>0, <2>3, <5>1, <5>2
          <5>4. job["peer"][m].from = "user"
            BY <4>2 DEF Calls
          <5>5. CASE Calls("peer", m, n)
            <6>1. job["peer"][m].pc = "wait" /\ job'["peer"][m] = Answered(job["peer"][m], "refused")
              BY <5>3, <5>5 DEF Calls, At
            <6>2. QED BY <1>0, <5>4, <6>1, AnsweredIs DEF Same
          <5>6. CASE ~Calls("peer", m, n)
            BY <4>2, <5>3, <5>4, <5>6
          <5>7. QED BY <5>5, <5>6
        <4>3. QED BY <4>1, <4>2 DEF UserStep
      <3>4. QED BY <3>2, <3>3
    <2>6. QED BY <2>4, <2>5
  <1>3. QED BY <1>1, <1>2

\* A thread ends: the save that waits for it goes on once its group is dropped.
LEMMA UserEnded ==
  ASSUME TypeInv, CallInv, NEW k \in Threads, NEW n \in Node, NEW answer, NEW js, js = Ended(k, n, answer),
         \A kk \in Savers, y \in Node : job'[kk][y] = js[kk][y], UNCHANGED conf, DropKept,
         k = "peer" /\ answer # "refused" => Dropped(job["peer"][n].src),
         NEW x \in Node, DroppedJob(x, job["user"][x])
  PROVE  DroppedJob(x, job["user"][x])'
  <1> DEFINE j == job["user"][x]
  <1>1. js[k][n] = Idle
    BY EndedIs
  <1>2. \A kk \in Threads, y \in Node : (kk # k \/ y # n) =>
           js[kk][y] = IF k = "peer" /\ Calls(kk, y, n) THEN Answered(job[kk][y], answer) ELSE job[kk][y]
    BY EndedIs
  <1>3. "user" \in Threads /\ "peer" \in Threads /\ "user" \in Savers /\ "peer" \in Savers
    BY DEF Threads, Savers
  <1>4. \A kk \in Threads, y \in Node : DOMAIN job[kk][y] = Fields
    BY DEF TypeInv, IsJob, Fields
  <1>5. CASE k = "user" /\ x = n
    <2>1. job'["user"][x].pc = "idle"
      BY <1>1, <1>3, <1>5, IdleIs
    <2>2. QED BY <2>1 DEF DroppedJob
  <1>6. CASE k = "peer" /\ Calls("user", x, n)
    <2>1. j.pc = "wait" /\ job'["user"][x] = Answered(j, answer)
      BY <1>2, <1>3, <1>6 DEF Calls, At
    <2>2. /\ Same(j, job'["user"][x])
          /\ job'["user"][x].pc = IF answer = "refused" THEN "refused"
                                  ELSE IF DOMAIN j.ask = {} THEN "write" ELSE "ask"
      BY <1>3, <1>4, <2>1, AnsweredIs
    <2>3. CASE answer = "refused"
      BY <2>2, <2>3 DEF DroppedJob
    <2>4. CASE answer # "refused"
      <3>1. SUFFICES ASSUME NEW s \in DOMAIN j.base \ DOMAIN j.next, Owner[s] # x, s \notin DOMAIN j.ask
                     PROVE  Dropped(s)'
        BY <2>2, <2>4 DEF DroppedJob, Same
      <3>2. s \in Src
        BY <1>3 DEF TypeInv, IsJob, IsFile
      <3>3. Dropped(s) \/ \E m \in Node : Calls("user", x, m) /\ job["peer"][m].src = s
        BY <2>1, <3>1 DEF DroppedJob
      <3>4. \A m \in Node : Calls("user", x, m) => m = n
        BY <1>6 DEF CallInv, Calls
      <3>5. Dropped(s)
        BY <1>6, <2>4, <3>3, <3>4
      <3>6. QED BY <3>2, <3>5 DEF DropKept
    <2>5. QED BY <2>3, <2>4
  <1>7. CASE ~(k = "user" /\ x = n) /\ ~(k = "peer" /\ Calls("user", x, n))
    <2>1. job'["user"][x] = j
      BY <1>2, <1>3, <1>7
    <2>2. ASSUME NEW m \in Node, Calls("user", x, m), job["peer"][m].pc # "idle"
          PROVE  /\ job'["peer"][m].from = "user" /\ job'["peer"][m].reporter = job["peer"][m].reporter
                 /\ job'["peer"][m].pc # "idle" /\ job'["peer"][m].src = job["peer"][m].src
      <3>1. ~(k = "peer" /\ m = n)
        BY <1>7, <2>2
      <3>2. job'["peer"][m] = IF k = "peer" /\ Calls("peer", m, n) THEN Answered(job["peer"][m], answer)
                              ELSE job["peer"][m]
        BY <1>2, <1>3, <3>1
      <3>3. job["peer"][m].from = "user"
        BY <2>2 DEF Calls
      <3>4. CASE k = "peer" /\ Calls("peer", m, n)
        <4>1. job["peer"][m].pc = "wait" /\ job'["peer"][m] = Answered(job["peer"][m], answer)
          BY <3>2, <3>4 DEF Calls, At
        <4>2. QED BY <1>3, <1>4, <3>3, <4>1, AnsweredIs DEF Same
      <3>5. CASE ~(k = "peer" /\ Calls("peer", m, n))
        BY <2>2, <3>2, <3>3, <3>5
      <3>6. QED BY <3>4, <3>5
    <2>3. UserStep(x)
      BY <2>1, <2>2 DEF UserStep
    <2>4. FilesKept
      BY DEF FilesKept
    <2>5. QED BY <2>3, <2>4, UserFrame
  <1>8. QED BY <1>5, <1>6, <1>7

\* A user's save whose group nobody was asked about yet.
LEMMA UserCompare ==
  ASSUME PlacesAssumption, TypeInv, NEW n \in Node, DroppedJob(n, job["user"][n]), DropKept, Compare("user", n)
  PROVE  DroppedJob(n, job["user"][n])'
  <1> DEFINE j == job["user"][n]
  <1>0. "user" \in Savers /\ "user" \in Threads
    BY DEF Savers, Threads
  <1>1. j.pc = "compare" /\ job'["user"][n].ask = Removed(conf[n], j.next)
    BY <1>0, CompareIs
  <1>2. job'["user"][n].pc = IF DOMAIN job'["user"][n].ask = {} THEN "write" ELSE "ask"
    BY <1>0, CompareIs
  <1>3. job'["user"][n].base = j.base /\ job'["user"][n].next = j.next
    BY <1>0, CompareIs
  <1>4. IsFile(n, conf[n]) /\ IsFile(n, j.base)
    BY <1>0 DEF TypeInv, IsJob
  <1>5. \A s \in DOMAIN conf[n] \ DOMAIN j.next : Owner[s] # n => s \in DOMAIN job'["user"][n].ask
    <2> HIDE DEF j
    <2>1. DOMAIN Removed(conf[n], j.next) = {s \in DOMAIN conf[n] \ DOMAIN j.next : Owner[s] # n}
      BY <1>4, RemovedIs
    <2>2. QED BY <1>1, <2>1
  <1>6. SUFFICES ASSUME NEW s \in DOMAIN j.base \ DOMAIN j.next, Owner[s] # n, s \notin DOMAIN job'["user"][n].ask
                 PROVE  Dropped(s)'
    BY <1>2, <1>3 DEF DroppedJob
  <1>7. s \in DOMAIN conf[n] \/ Dropped(s)
    BY <1>1, <1>6 DEF DroppedJob
  <1>8. s \in Src /\ Dropped(s)
    BY <1>4, <1>5, <1>6, <1>7 DEF IsFile
  <1>9. QED BY <1>8 DEF DropKept

\* A save asks the owner of one group.
LEMMA UserAsk ==
  ASSUME PlacesAssumption, TypeInv, NEW k \in Savers, NEW n \in Node, NEW m \in Node \ {n},
         NEW g \in DOMAIN job[k][n].ask, Asked(k, n, m, g), job[k][n].pc = "ask", DropKept, UNCHANGED conf,
         NEW x \in Node, DroppedJob(x, job["user"][x])
  PROVE  DroppedJob(x, job["user"][x])'
  <1> DEFINE j == job["user"][x]
  <1>0. "user" \in Threads /\ "peer" \in Threads
    BY DEF Threads
  <1>1. /\ \A kk \in Threads, y \in Node :
              <<kk, y>> \notin {<<k, n>>, <<"peer", m>>} => job'[kk][y] = job[kk][y]
        /\ Kept4(job[k][n], job'[k][n]) /\ job'[k][n].pc = "wait" /\ job["peer"][m].pc = "idle"
        /\ job'[k][n].ask = Without(job[k][n].ask, {g})
    BY DEF Asked
  <1>2. /\ job'["peer"][m].from = k /\ job'["peer"][m].reporter[1] = n /\ job'["peer"][m].src = g
        /\ job'["peer"][m].pc = "load"
    BY DEF Asked
  <1>3. CASE k = "user" /\ x = n
    <2>0. DOMAIN Without(job[k][n].ask, {g}) = DOMAIN job[k][n].ask \ {g}
      BY WithoutIs
    <2>1. /\ job'["user"][x].base = j.base /\ job'["user"][x].next = j.next /\ job'["user"][x].pc = "wait"
          /\ DOMAIN job'["user"][x].ask = DOMAIN j.ask \ {g}
      BY <1>1, <1>3, <2>0 DEF Kept4
    <2>2. Calls("user", x, m)' /\ job'["peer"][m].pc # "idle" /\ job'["peer"][m].src = g
      BY <1>2, <1>3, <2>1 DEF Calls, At
    <2>3. SUFFICES ASSUME NEW s \in DOMAIN j.base \ DOMAIN j.next, Owner[s] # x, s \notin DOMAIN j.ask \ {g}, s # g
                   PROVE  Dropped(s)'
      BY <2>1, <2>2 DEF DroppedJob
    <2>4. s \in Src
      BY <1>0 DEF TypeInv, IsJob, IsFile
    <2>5. Dropped(s)
      BY <1>3, <2>3 DEF DroppedJob
    <2>6. QED BY <2>4, <2>5 DEF DropKept
  <1>4. CASE ~(k = "user" /\ x = n)
    <2>1. <<"user", x>> \notin {<<k, n>>, <<"peer", m>>}
      BY <1>4
    <2>2. job'["user"][x] = j
      BY <1>0, <1>1, <2>1
    <2>3. ASSUME NEW l \in Node, Calls("user", x, l), job["peer"][l].pc # "idle"
          PROVE  /\ job'["peer"][l].from = "user" /\ job'["peer"][l].reporter = job["peer"][l].reporter
                 /\ job'["peer"][l].pc # "idle" /\ job'["peer"][l].src = job["peer"][l].src
      <3>1. l # m /\ job["peer"][l].from = "user"
        BY <1>1, <2>3 DEF Calls
      <3>2. CASE k = "peer" /\ l = n
        BY <1>1, <3>1, <3>2 DEF Kept4
      <3>3. CASE ~(k = "peer" /\ l = n)
        <4>1. <<"peer", l>> \notin {<<k, n>>, <<"peer", m>>}
          BY <3>1, <3>3
        <4>2. job'["peer"][l] = job["peer"][l]
          BY <1>0, <1>1, <4>1
        <4>3. QED BY <2>3, <3>1, <4>2
      <3>4. QED BY <3>2, <3>3
    <2>4. UserStep(x)
      BY <2>2, <2>3 DEF UserStep
    <2>5. FilesKept
      BY DEF FilesKept
    <2>6. QED BY <2>4, <2>5, UserFrame
  <1>5. QED BY <1>3, <1>4

\* The groups of handlers that have written stay dropped.
LEMMA DroppedPeers ==
  ASSUME BornInv, DroppedInv, excuse \subseteq excuse', NoExcuse({"stale"})', DropKept,
         \A n \in Node : job'["peer"][n].pc \in Written =>
            job["peer"][n].pc \in Written /\ job'["peer"][n].src = job["peer"][n].src
  PROVE  (\A n \in Node : job["peer"][n].pc \in Written => Dropped(job["peer"][n].src))'
  <1>1. SUFFICES ASSUME NEW n \in Node, job'["peer"][n].pc \in Written PROVE Dropped(job["peer"][n].src)'
    OBVIOUS
  <1>2. NoExcuse({"stale"})
    BY DEF NoExcuse
  <1>3. Dropped(job["peer"][n].src) /\ job'["peer"][n].src = job["peer"][n].src
    BY <1>1, <1>2 DEF DroppedInv
  <1>4. job["peer"][n].src \in Src
    BY <1>3 DEF Dropped, BornInv
  <1>5. QED BY <1>3, <1>4 DEF DropKept, Dropped

\* A step that leaves the files and who exists.
LEMMA DropSame ==
  ASSUME UNCHANGED <<conf, born>>
  PROVE  DropKept /\ FilesKept
  BY DEF DropKept, FilesKept, Dropped

\* The steps of threads bring no deleted group back.
LEMMA DroppedThreads ==
  ASSUME PlacesAssumption, VerAssumption, TypeInv, BornInv, PeerInv, CallInv, DroppedInv,
         NEW n \in Node, NEW k \in Savers, Moves(k, n)
  PROVE  DroppedInv'
  <1>0. k \in Threads /\ "peer" \in Threads /\ "loop" \in Threads /\ "user" \in Threads
    BY DEF Savers, Threads
  <1>1. UNCHANGED <<conf, born, gone>> /\ excuse \subseteq excuse'
    BY CalmThreads DEF Calm
  <1>2. DropKept /\ FilesKept
    BY <1>1, DropSame
  <1>3. \A x \in Node : job'["peer"][x].pc \in Written =>
           job["peer"][x].pc \in Written /\ job'["peer"][x].src = job["peer"][x].src
    <2>1. \A kk \in Threads, x \in Node : Keeps(kk, x)
      BY KeepsThreads
    <2>2. QED BY <1>0, <2>1 DEF Keeps
  <1>4. NoExcuse({"stale"})' => (\A x \in Node : job["peer"][x].pc \in Written => Dropped(job["peer"][x].src))'
    BY <1>1, <1>2, <1>3, DroppedPeers
  <1>5. SUFFICES ASSUME NoExcuse({"stale", "outdated"})', NEW x \in Node
                 PROVE  DroppedJob(x, job["user"][x])'
    BY <1>1, <1>2, <1>4, DroppedFrame
  <1>6. NoExcuse({"stale", "outdated"}) /\ NoExcuse({"stale"})
    BY <1>1, <1>5 DEF NoExcuse
  <1>7. DroppedJob(x, job["user"][x])
    BY <1>6 DEF DroppedInv
  <1>a. ASSUME NEW kk \in Threads, NEW y \in Node, NEW answer, job' = Ended(kk, y, answer),
               kk = "peer" /\ answer # "refused" => Dropped(job["peer"][y].src)
        PROVE  DroppedJob(x, job["user"][x])'
    BY <1>1, <1>2, <1>7, <1>a, UserEnded
  <1>b. UserStep(x) => DroppedJob(x, job["user"][x])'
    BY <1>2, <1>7, UserFrame
  <1>11. CASE Form(n)
    <2>1. Only("user", n) /\ job'["user"][n].pc = "compare" /\ job'["user"][n].base = conf[n]
      BY <1>11, FormIs
    <2>2. CASE x = n
      BY <1>1, <2>1, <2>2 DEF DroppedJob
    <2>3. CASE x # n
      BY <1>b, <2>1, <2>3, UserOther
    <2>4. QED BY <2>2, <2>3
  <1>12. CASE Compare(k, n)
    <2>1. Only(k, n)
      BY <1>12, CompareIs
    <2>2. CASE k = "user"
      <3>1. CASE x = n
        BY <1>2, <1>7, <1>12, <2>2, <3>1, UserCompare
      <3>2. CASE x # n
        BY <1>b, <2>1, <2>2, <3>2, UserOther
      <3>3. QED BY <3>1, <3>2
    <2>3. CASE k = "peer"
      <3>1. /\ job'[k][n].src = job[k][n].src /\ job'[k][n].from = job[k][n].from
            /\ job'[k][n].reporter = job[k][n].reporter
        BY <1>12, CompareIs
      <3>2. job'[k][n].pc = IF DOMAIN job'[k][n].ask = {} THEN "write" ELSE "ask"
        BY <1>12, CompareIs
      <3>3. job'[k][n].pc # "idle"
        BY <3>2
      <3>4. QED BY <1>b, <2>1, <2>3, <3>1, <3>3, UserOnly
    <2>4. QED BY <2>2, <2>3 DEF Savers
  <1>13. CASE Ask(k, n)
    <2>1. CASE job' = Ended(k, n, "refused")
      BY <1>0, <1>a, <2>1
    <2>2. CASE job' # Ended(k, n, "refused")
      <3>1. PICK m \in Node \ {n}, g \in DOMAIN job[k][n].ask : Asked(k, n, m, g)
        BY <1>13, <2>2, AskIs
      <3>2. job[k][n].pc = "ask"
        BY <1>13, AskIs
      <3>3. QED BY <1>1, <1>2, <1>7, <3>1, <3>2, UserAsk
    <2>3. QED BY <2>1, <2>2
  <1>14. CASE Refused(k, n)
    <2>1. job' = Ended(k, n, "refused")
      BY <1>14 DEF Refused
    <2>2. QED BY <1>0, <1>a, <2>1
  <1>15. CASE AskTimesOut(k, n)
    BY <1>b, <1>15, UserUnheard
  <1>16. CASE PeerLoad(n)
    <2>1. CASE job' = Ended("peer", n, "ok")
      <3>1. job["peer"][n].pc = "load"
        BY <1>16, PeerLoadIs
      <3>2. job["peer"][n].src \in born /\ Owner[job["peer"][n].src] = n /\ Home[job["peer"][n].src] # n
        BY <3>1 DEF PeerInv, PeerJob
      <3>3. job["peer"][n].src \notin DOMAIN conf[n]
        <4>1. job'["peer"][n] = Idle
          BY <1>0, <2>1, EndedIs
        <4>2. job'["peer"][n].pc = "idle"
          BY <1>0, <4>1, IdleIs
        <4>3. QED BY <1>16, <3>2, <4>2, PeerLoadIs
      <3>4. Dropped(job["peer"][n].src)
        BY <3>2, <3>3 DEF Dropped
      <3>5. QED BY <1>0, <1>a, <2>1, <3>4
    <2>2. CASE job' # Ended("peer", n, "ok")
      <3>1. /\ Only("peer", n) /\ job'["peer"][n].pc = "health"
            /\ job'["peer"][n].src = job["peer"][n].src /\ job'["peer"][n].from = job["peer"][n].from
            /\ job'["peer"][n].reporter = job["peer"][n].reporter
        BY <1>16, <2>2, PeerLoadIs
      <3>2. QED BY <1>b, <3>1, UserOnly
    <2>3. QED BY <2>1, <2>2
  <1>17. CASE PeerHealth(n)
    <2>1. CASE job' = Ended("peer", n, "refused")
      BY <1>0, <1>a, <2>1
    <2>2. CASE job' # Ended("peer", n, "refused")
      <3>1. /\ Only("peer", n) /\ job'["peer"][n].pc = "compare"
            /\ job'["peer"][n].src = job["peer"][n].src /\ job'["peer"][n].from = job["peer"][n].from
            /\ job'["peer"][n].reporter = job["peer"][n].reporter
        BY <1>17, <2>2, PeerHealthIs
      <3>2. QED BY <1>b, <3>1, UserOnly
    <2>3. QED BY <2>1, <2>2
  <1>18. CASE SaveEnds(k, n)
    <2>1. PICK js : js = Ended(k, n, "ok") /\ (job' = js \/ Sleeps(js, n))
      BY <1>18, SaveEndsIs
    <2>2. job[k][n].pc = "push"
      BY <1>18, SaveEndsIs
    <2>3. \A kk \in Savers, y \in Node : job'[kk][y] = js[kk][y]
      BY <2>1 DEF Sleeps, Savers, Threads
    <2>4. k = "peer" => Dropped(job["peer"][n].src)
      BY <1>6, <2>2 DEF DroppedInv, Written
    <2>5. js = Ended(k, n, "ok")
      BY <2>1
    <2>6. QED BY <1>0, <1>1, <1>2, <1>7, <2>3, <2>4, <2>5, UserEnded
  <1>19. CASE LoopWakes(n) \/ LoopRound(n) \/ LoopEnds(n)
    <2>1. Only("loop", n)
      BY <1>19, LoopIs
    <2>2. QED BY <1>b, <2>1, UserOnly
  <1>20. QED BY <1>11, <1>12, <1>13, <1>14, <1>15, <1>16, <1>17, <1>18, <1>19 DEF Moves

\* Nor does a reset.
LEMMA DroppedReset ==
  ASSUME PlacesAssumption, TypeInv, BornInv, DroppedInv, NEW n \in Node, NEW k \in Savers, Reset(k, n)
  PROVE  DroppedInv'
  <1>1. Only(k, n)
    BY ResetIs
  <1>2. job[k][n].pc = "reset" /\ job'[k][n].pc = "push" /\ Kept4(job[k][n], job'[k][n])
    BY ResetIs
  <1>3. UNCHANGED <<conf, born, gone>> /\ excuse \subseteq excuse'
    BY DEF Reset
  <1>4. DropKept /\ FilesKept
    BY <1>3, DropSame
  <1>5. \A x \in Node : job'["peer"][x].pc \in Written =>
           job["peer"][x].pc \in Written /\ job'["peer"][x].src = job["peer"][x].src
    BY <1>1, <1>2 DEF Only, Kept4, Written, Threads
  <1>6. NoExcuse({"stale"})' => (\A x \in Node : job["peer"][x].pc \in Written => Dropped(job["peer"][x].src))'
    BY <1>3, <1>4, <1>5, DroppedPeers
  <1>7. \A x \in Node : UserStep(x)
    <2>1. CASE k = "user"
      <3>1. UserStep(n)
        BY <1>2, <2>1 DEF UserStep
      <3>2. \A x \in Node \ {n} : UserStep(x)
        BY <1>1, <2>1, UserOther
      <3>3. QED BY <3>1, <3>2
    <2>2. CASE k = "peer"
      <3>1. /\ job'[k][n].src = job[k][n].src /\ job'[k][n].from = job[k][n].from
            /\ job'[k][n].reporter = job[k][n].reporter /\ job'[k][n].pc # "idle"
        BY <1>2 DEF Kept4
      <3>2. QED BY <1>1, <2>2, <3>1, UserOnly
    <2>3. QED BY <2>1, <2>2 DEF Savers
  <1>8. ASSUME NoExcuse({"stale", "outdated"})', NEW x \in Node
        PROVE  DroppedJob(x, job["user"][x])'
    <2>1. DroppedJob(x, job["user"][x])
      BY <1>3, <1>8 DEF DroppedInv, NoExcuse
    <2>2. QED BY <1>4, <1>7, <2>1, UserFrame
  <1>9. QED BY <1>3, <1>4, <1>6, <1>8, DroppedFrame

\* A list that arrives takes only what its owner has dropped, and, when it is the newest,
\* brings nothing dropped.
LEMMA DropApply ==
  ASSUME PlacesAssumption, TypeInv, BornInv, NEW p, IsPush(p), Apply(p.to, p), born' = born,
         p.rev <= rev[p.from],
         p.rev = rev[p.from] =>
            DOMAIN p.groups = {s \in DOMAIN conf[p.from] : Owner[s] = p.from /\ Home[s] = p.to}
  PROVE  DropKept /\ (NoExcuse({"stale", "outdated"})' => FilesKept)
  <1>1. DropKept
    <2>1. OwnSame
      BY OwnApply
    <2>2. QED BY <2>1 DEF DropKept, Dropped, OwnSame, PlacesAssumption
  <1>2. p.from \in Node /\ p.to \in Node \ {p.from} /\ p.rev \in Nat /\ rev[p.from] \in Nat
    BY DEF IsPush, TypeInv
  <1>3. ASSUME NoExcuse({"stale", "outdated"})', NEW n \in Node, NEW s \in Src
        PROVE  /\ Dropped(s) /\ s \notin DOMAIN conf[n] => s \notin DOMAIN conf'[n]
               /\ Owner[s] # n /\ s \in DOMAIN conf[n] \ DOMAIN conf'[n] => Dropped(s)
    <2>1. "outdated" \notin excuse'
      BY <1>3 DEF NoExcuse
    <2>2. p.rev < rev[p.from] => "outdated" \in excuse'
      BY ApplyIs
    <2>3. DOMAIN p.groups = {x \in DOMAIN conf[p.from] : Owner[x] = p.from /\ Home[x] = p.to}
      BY <1>2, <2>1, <2>2
    <2>4. CASE n # p.to
      <3>1. conf'[n] = conf[n]
        BY <2>4, ApplyIs
      <3>2. QED BY <3>1
    <2>5. CASE n = p.to
      <3>1. DOMAIN conf'[p.to] \subseteq DOMAIN conf[p.to] \cup DOMAIN p.groups
        BY ApplyIs
      <3>2. DOMAIN p.groups \subseteq DOMAIN conf'[p.to]
        BY ApplyIs
      <3>3. \A x \in DOMAIN conf[p.to] : Owner[x] # p.from => x \in DOMAIN conf'[p.to]
        BY ApplyIs
      <3>4. Dropped(s) /\ s \notin DOMAIN conf[n] => s \notin DOMAIN conf'[n]
        BY <2>3, <2>5, <3>1 DEF Dropped
      <3>5. ASSUME Owner[s] # n, s \in DOMAIN conf[n] \ DOMAIN conf'[n] PROVE Dropped(s)
        <4>1. Owner[s] = p.from /\ s \in born
          BY <1>2, <2>5, <3>3, <3>5 DEF BornInv
        <4>2. Home[s] = p.to
          BY <1>2, <2>5, <3>5, EntryIs DEF TypeInv
        <4>3. s \notin DOMAIN conf[p.from]
          BY <2>3, <2>5, <3>2, <3>5, <4>1, <4>2
        <4>4. QED BY <4>1, <4>3 DEF Dropped
      <3>6. QED BY <3>4, <3>5
    <2>6. QED BY <2>4, <2>5
  <1>4. QED BY <1>1, <1>3 DEF FilesKept

\* A push brings no deleted group back, unless it is outdated.
LEMMA DroppedPush ==
  ASSUME PlacesAssumption, TypeInv, BornInv, RevInv, DroppedInv, NEW n \in Node, NEW k \in Threads, Push(k, n)
  PROVE  DroppedInv'
  <1>1. PICK m, p :
           /\ m \in Node \ {n}
           /\ IsPush(p) /\ p.from = n /\ p.to = m /\ p.rev = job[k][n].rev
           /\ DOMAIN p.groups = {s \in DOMAIN job[k][n].next : Home[s] = m}
           /\ job[k][n].pc = "push" /\ (Told(k, n, m) \/ NotTold(k, n, m))
           /\ Apply(m, p) \/ UNCHANGED <<conf, seen, moved, excuse>>
           /\ UNCHANGED <<at, id, near, rev, born, doomed, gone>>
    BY PushData
  <1>2. Only(k, n)
    BY <1>1, PushIs DEF At
  <1>3. job'[k][n].pc = "push" /\ Kept4(job[k][n], job'[k][n])
    BY <1>1, PushIs DEF At
  <1>4. born' = born /\ gone' = gone /\ excuse \subseteq excuse'
    BY <1>1 DEF Apply
  <1>5. DropKept /\ (NoExcuse({"stale", "outdated"})' => FilesKept)
    <2>1. CASE Apply(m, p)
      <3>1. /\ job[k][n].rev <= rev[n]
            /\ job[k][n].rev = rev[n] =>
                  {s \in DOMAIN job[k][n].next : Home[s] = m} = {s \in DOMAIN conf[n] : Owner[s] = n /\ Home[s] = m}
        BY <1>1, PushNewest
      <3>2. /\ p.rev <= rev[p.from]
            /\ p.rev = rev[p.from] =>
                  DOMAIN p.groups = {s \in DOMAIN conf[p.from] : Owner[s] = p.from /\ Home[s] = p.to}
        BY <1>1, <3>1
      <3>3. Apply(p.to, p)
        BY <1>1, <2>1
      <3>4. QED BY <1>1, <1>4, <3>2, <3>3, DropApply
    <2>2. CASE UNCHANGED conf
      BY <1>4, <2>2, DropSame
    <2>3. QED BY <1>1, <2>1, <2>2
  <1>6. \A x \in Node : job'["peer"][x].pc \in Written =>
           job["peer"][x].pc \in Written /\ job'["peer"][x].src = job["peer"][x].src
    BY <1>1, <1>2, <1>3 DEF Only, Kept4, Written, Threads
  <1>7. NoExcuse({"stale"})' => (\A x \in Node : job["peer"][x].pc \in Written => Dropped(job["peer"][x].src))'
    BY <1>4, <1>5, <1>6, DroppedPeers
  <1>8. \A x \in Node : UserStep(x)
    <2>1. CASE k = "user"
      <3>1. UserStep(n)
        BY <1>3, <2>1 DEF UserStep
      <3>2. \A x \in Node \ {n} : UserStep(x)
        BY <1>2, <2>1, UserOther
      <3>3. QED BY <3>1, <3>2
    <2>2. CASE k \in {"peer", "loop"}
      <3>1. /\ job'[k][n].src = job[k][n].src /\ job'[k][n].from = job[k][n].from
            /\ job'[k][n].reporter = job[k][n].reporter /\ job'[k][n].pc # "idle"
        BY <1>3 DEF Kept4
      <3>2. QED BY <1>2, <2>2, <3>1, UserOnly
    <2>3. QED BY <2>1, <2>2 DEF Threads
  <1>9. ASSUME NoExcuse({"stale", "outdated"})', NEW x \in Node
        PROVE  DroppedJob(x, job["user"][x])'
    <2>1. DroppedJob(x, job["user"][x])
      BY <1>4, <1>9 DEF DroppedInv, NoExcuse
    <2>2. FilesKept /\ DropKept
      BY <1>5, <1>9
    <2>3. QED BY <1>8, <2>1, <2>2, UserFrame
  <1>10. QED BY <1>4, <1>5, <1>7, <1>9, DroppedFrame

\* Nor does the rest of the world.
LEMMA DroppedWorld ==
  ASSUME PlacesAssumption, TypeInv, BornInv, CallInv, RevInv, DroppedInv, World
  PROVE  DroppedInv'
  <1>1. born' = born /\ gone' = gone /\ excuse \subseteq excuse'
    BY WorldIs
  <1>2. job' = job \/ Rest({})
    BY WorldIs
  <1>3. DropKept /\ (NoExcuse({"stale", "outdated"})' => FilesKept)
    <2>1. CASE \E p \in late : Apply(p.to, p)
      <3>1. PICK p \in late : Apply(p.to, p)
        BY <2>1
      <3>2. /\ IsPush(p) /\ p.rev <= rev[p.from]
            /\ p.rev = rev[p.from] =>
                  DOMAIN p.groups = {s \in DOMAIN conf[p.from] : Owner[s] = p.from /\ Home[s] = p.to}
        BY DEF TypeInv, RevInv
      <3>3. QED BY <1>1, <3>1, <3>2, DropApply
    <2>2. CASE conf' = conf
      BY <1>1, <2>2, DropSame
    <2>3. conf' = conf \/ \E p \in late : Apply(p.to, p)
      BY WorldIs
    <2>4. QED BY <2>1, <2>2, <2>3
  <1>4. \A x \in Node : job'["peer"][x].pc \in Written =>
           job["peer"][x].pc \in Written /\ job'["peer"][x].src = job["peer"][x].src
    <2>1. CASE job' = job
      BY <2>1
    <2>2. CASE Rest({})
      <3>1. \A kk \in Threads, x \in Node : Keeps(kk, x)
        BY <2>2, KeepsNone
      <3>2. QED BY <3>1 DEF Keeps, Threads
    <2>3. QED BY <1>2, <2>1, <2>2
  <1>5. NoExcuse({"stale"})' => (\A x \in Node : job["peer"][x].pc \in Written => Dropped(job["peer"][x].src))'
    BY <1>1, <1>3, <1>4, DroppedPeers
  <1>6. \A x \in Node : UserStep(x)
    <2>1. CASE \E n \in Node : Crash(n) \/ Rename(n)
      <3>1. \E n \in Node : Dies(n)
        BY <2>1 DEF Crash, Rename
      <3>2. QED BY <3>1, UserUnheard
    <2>2. CASE ~\E n \in Node : Crash(n) \/ Rename(n)
      <3>1. job' = job
        BY <2>2 DEF World, Cut, Discover, Pass, Prune, LateArrives, net, vars
      <3>2. QED BY <3>1 DEF UserStep, Calls
    <2>3. QED BY <2>1, <2>2
  <1>7. ASSUME NoExcuse({"stale", "outdated"})', NEW x \in Node
        PROVE  DroppedJob(x, job["user"][x])'
    <2>1. DroppedJob(x, job["user"][x])
      BY <1>1, <1>7 DEF DroppedInv, NoExcuse
    <2>2. FilesKept /\ DropKept
      BY <1>3, <1>7
    <2>3. QED BY <1>6, <2>1, <2>2, UserFrame
  <1>8. QED BY <1>1, <1>3, <1>5, <1>7, DroppedFrame

\* A save brings back nothing that was dropped, unless its file was outdated.
LEMMA WriteOld ==
  ASSUME PlacesAssumption, VerAssumption, TypeInv, BornInv, NEW n \in Node, NEW k \in Savers, Write(k, n),
         NoExcuse({"stale"})', NEW s \in Src
  PROVE  /\ conf'[n] = job[k][n].next /\ \A x \in Node \ {n} : conf'[x] = conf[x]
         /\ s \in DOMAIN conf[n] /\ s \notin DOMAIN conf'[n] => s \in DOMAIN job[k][n].base
         /\ s \in born /\ s \notin DOMAIN conf[n] => s \notin DOMAIN conf'[n]
         /\ Dropped(s) => Dropped(s)'
  <1> DEFINE j == job[k][n]
  <1>1. k \in Threads
    BY DEF Savers, Threads
  <1>2. /\ conf' = [conf EXCEPT ![n] = j.next] /\ born' = born \cup DOMAIN j.next
        /\ excuse' = excuse \cup IF LostUpdate(conf[n], j.base, j.next) THEN {"stale"} ELSE {}
        /\ j.pc = "write"
    BY DEF Write, At
  <1>3. /\ IsFile(n, j.base) /\ IsFile(n, j.next) /\ IsFile(n, conf[n]) /\ conf = [x \in Node |-> conf[x]]
    BY <1>1 DEF TypeInv, IsJob
  <1>4. conf'[n] = j.next /\ \A x \in Node \ {n} : conf'[x] = conf[x]
    BY <1>2, <1>3
  <1>5. ~LostUpdate(conf[n], j.base, j.next)
    BY <1>2 DEF NoExcuse
  <1>6. /\ s \in DOMAIN conf[n] /\ s \notin DOMAIN j.next => s \in DOMAIN j.base
        /\ s \notin DOMAIN conf[n] /\ s \in DOMAIN j.next => s \notin DOMAIN j.base
    BY <1>3, <1>5, NotLost
  <1>7. \A x \in DOMAIN j.next \ DOMAIN j.base : x \notin born
    BY <1>1, <1>2 DEF BornInv, BornJob, BeforeWrite
  <1>8. s \in born /\ s \notin DOMAIN conf[n] => s \notin DOMAIN conf'[n]
    BY <1>4, <1>6, <1>7
  <1>9. Dropped(s) => Dropped(s)'
    <2>1. Owner[s] \in Node
      BY DEF PlacesAssumption
    <2>2. CASE Owner[s] = n
      BY <1>2, <1>8, <2>2 DEF Dropped
    <2>3. CASE Owner[s] # n
      BY <1>2, <1>4, <2>1, <2>3 DEF Dropped
    <2>4. QED BY <2>2, <2>3
  <1>10. QED BY <1>4, <1>6, <1>8, <1>9

\* A save of a deletion is the end of the group: its owner has dropped it before.
LEMMA DroppedWrite ==
  ASSUME PlacesAssumption, VerAssumption, TypeInv, BornInv, PeerInv, DroppedInv,
         NEW n \in Node, NEW k \in Savers, Write(k, n)
  PROVE  DroppedInv'
  <1> DEFINE j == job[k][n]
  <1>0. k \in Threads /\ "peer" \in Threads /\ "user" \in Threads
    BY DEF Savers, Threads
  <1>1. Only(k, n)
    BY WriteIs
  <1>2. j.pc = "write" /\ job'[k][n].pc = "reset" /\ Kept4(j, job'[k][n])
    BY WriteIs
  <1>3. /\ gone' = IF k = "user" THEN gone \cup ((DOMAIN j.base \ DOMAIN j.next) \X {n}) ELSE gone
        /\ born' = born \cup DOMAIN j.next /\ excuse \subseteq excuse'
    BY DEF Write
  <1>4. DOMAIN j.base \subseteq Src /\ DOMAIN j.base \subseteq born
    BY <1>0 DEF TypeInv, IsJob, IsFile, BornInv, BornJob
  <1>5. \A d \in gone' : d[1] \in Src /\ d[2] \in Node
    BY <1>3, <1>4 DEF DroppedInv
  <1>6. NoExcuse({"stale"})' => DropKept
    BY WriteOld DEF DropKept
  <1>7. NoExcuse({"stale"})' => (\A x \in Node : job["peer"][x].pc \in Written => Dropped(job["peer"][x].src))'
    <2>1. SUFFICES ASSUME NoExcuse({"stale"})', NEW x \in Node, job'["peer"][x].pc \in Written
                   PROVE  Dropped(job["peer"][x].src)'
      OBVIOUS
    <2>2. CASE k = "peer" /\ x = n
      <3>1. /\ j.src \in born /\ Owner[j.src] = n /\ j.src \notin DOMAIN j.next
            /\ job'["peer"][x].src = j.src
        BY <1>2, <2>2 DEF PeerInv, PeerJob, BeforeWrite, Kept4
      <3>2. conf'[n] = j.next
        BY <2>1, <3>1, WriteOld DEF BornInv
      <3>3. QED BY <1>3, <2>2, <3>1, <3>2 DEF Dropped
    <2>3. CASE ~(k = "peer" /\ x = n)
      <3>1. job'["peer"][x] = job["peer"][x]
        BY <1>0, <1>1, <2>3 DEF Only
      <3>2. Dropped(job["peer"][x].src)
        BY <1>3, <2>1, <3>1 DEF DroppedInv, NoExcuse
      <3>3. job["peer"][x].src \in Src
        BY <3>2 DEF Dropped, BornInv
      <3>4. QED BY <1>6, <2>1, <3>1, <3>2, <3>3 DEF DropKept, Dropped
    <2>4. QED BY <2>2, <2>3
  <1>8. ASSUME NoExcuse({"stale", "outdated"})'
        PROVE  /\ \A d \in gone' : Dropped(d[1])' /\ d[1] \notin DOMAIN conf'[d[2]]
               /\ \A x \in Node : DroppedJob(x, job["user"][x])'
    <2>1. NoExcuse({"stale"})' /\ NoExcuse({"stale", "outdated"}) /\ DropKept
      BY <1>3, <1>6, <1>8 DEF NoExcuse
    <2>2. k = "user" => DroppedJob(n, j)
      BY <2>1 DEF DroppedInv
    <2>3. k = "peer" => DOMAIN j.base \ DOMAIN j.next \subseteq {j.src} /\ Owner[j.src] = n
      BY <1>2 DEF PeerInv, PeerJob, BeforeWrite
    <2>4. FilesKept
      <3>1. SUFFICES ASSUME NEW x \in Node, NEW s \in Src
                     PROVE  /\ Dropped(s) /\ s \notin DOMAIN conf[x] => s \notin DOMAIN conf'[x]
                            /\ Owner[s] # x /\ s \in DOMAIN conf[x] \ DOMAIN conf'[x] => Dropped(s)
        BY DEF FilesKept
      <3>2. /\ conf'[n] = j.next /\ (x # n => conf'[x] = conf[x])
            /\ s \in DOMAIN conf[n] /\ s \notin DOMAIN conf'[n] => s \in DOMAIN j.base
            /\ s \in born /\ s \notin DOMAIN conf[n] => s \notin DOMAIN conf'[n]
        BY <2>1, WriteOld
      <3>3. CASE x # n
        BY <3>2, <3>3
      <3>4. CASE x = n
        <4>1. Dropped(s) /\ s \notin DOMAIN conf[x] => s \notin DOMAIN conf'[x]
          BY <3>2, <3>4 DEF Dropped
        <4>2. ASSUME Owner[s] # x, s \in DOMAIN conf[x] \ DOMAIN conf'[x] PROVE Dropped(s)
          <5>1. s \in DOMAIN j.base \ DOMAIN j.next
            BY <3>2, <3>4, <4>2
          <5>2. k = "user"
            BY <2>3, <3>4, <4>2, <5>1 DEF Savers
          <5>3. QED BY <1>2, <2>2, <3>4, <4>2, <5>1, <5>2 DEF DroppedJob
        <4>3. QED BY <4>1, <4>2
      <3>5. QED BY <3>3, <3>4
    <2>5. ASSUME NEW d \in gone'
          PROVE  Dropped(d[1])' /\ d[1] \notin DOMAIN conf'[d[2]]
      <3>1. CASE d \in gone
        <4>1. Dropped(d[1]) /\ d[1] \notin DOMAIN conf[d[2]] /\ d[1] \in Src /\ d[2] \in Node
          BY <2>1, <3>1 DEF DroppedInv
        <4>2. QED BY <2>1, <2>4, <4>1 DEF DropKept, FilesKept
      <3>2. CASE d \notin gone
        <4>1. k = "user" /\ d[1] \in DOMAIN j.base \ DOMAIN j.next /\ d[2] = n
          BY <1>3, <3>2
        <4>2. d[1] \in Src /\ d[1] \in born
          BY <1>4, <4>1
        <4>3. conf'[n] = j.next
          BY <2>1, <4>2, WriteOld
        <4>4. Dropped(d[1])'
          <5>1. CASE Owner[d[1]] = n
            BY <1>3, <4>1, <4>2, <4>3, <5>1 DEF Dropped
          <5>2. CASE Owner[d[1]] # n
            <6>1. Dropped(d[1])
              BY <1>2, <2>2, <4>1, <5>2 DEF DroppedJob
            <6>2. QED BY <2>1, <4>2, <6>1 DEF DropKept
          <5>3. QED BY <5>1, <5>2
        <4>5. QED BY <4>1, <4>3, <4>4
      <3>3. QED BY <3>1, <3>2
    <2>6. ASSUME NEW x \in Node PROVE DroppedJob(x, job["user"][x])'
      <3>1. UserStep(x)
        <4>1. CASE k = "user"
          <5>1. UserStep(n)
            BY <1>2, <4>1 DEF UserStep
          <5>2. \A y \in Node \ {n} : UserStep(y)
            BY <1>1, <4>1, UserOther
          <5>3. QED BY <5>1, <5>2
        <4>2. CASE k = "peer"
          <5>1. /\ job'[k][n].src = job[k][n].src /\ job'[k][n].from = job[k][n].from
                /\ job'[k][n].reporter = job[k][n].reporter /\ job'[k][n].pc # "idle"
            BY <1>2 DEF Kept4
          <5>2. QED BY <1>1, <4>2, <5>1, UserOnly
        <4>3. QED BY <4>1, <4>2 DEF Savers
      <3>2. DroppedJob(x, job["user"][x])
        BY <2>1 DEF DroppedInv
      <3>3. QED BY <2>1, <2>4, <3>1, <3>2, UserFrame
    <2>7. QED BY <2>5, <2>6
  <1>9. QED BY <1>5, <1>7, <1>8 DEF DroppedInv

----------------------------------------------------------------------------
(* The inductive invariant. *)

\* It holds of the machines as they start: nothing runs, and every delegated group is where
\* it belongs.
LEMMA InvInit ==
  ASSUME PlacesAssumption, VerAssumption, Init
  PROVE  IInv
  <1>1. TypeInv
    BY TypeInit
  <1>2. /\ \A k \in Threads, n \in Node : job[k][n] = Idle
        /\ late = {} /\ born = Initial /\ doomed = {} /\ gone = {} /\ moved = {} /\ excuse = {}
    BY DEF Init
  <1>3. ASSUME NEW n \in Node
        PROVE  /\ DOMAIN conf[n] = {s \in Initial : n \in {Owner[s], Home[s]}}
               /\ \A s \in DOMAIN conf[n] : conf[n][s].v = 1
    BY DEF Init
  <1>4. \A s \in Initial : s \in Src /\ Owner[s] \in Node /\ Home[s] \in Node
    BY DEF PlacesAssumption
  <1>5. /\ Idle.pc = "idle" /\ Idle.from = "none"
        /\ DOMAIN Idle.base = {} /\ DOMAIN Idle.next = {} /\ DOMAIN Idle.ask = {}
    BY IdleIs, NoFileIs DEF Threads
  <1>6. "user" \in Threads /\ "peer" \in Threads
    BY DEF Threads
  <1>7. BornInv
    BY <1>2, <1>3, <1>4, <1>5 DEF BornInv, BornJob, BeforeWrite
  <1>8. PeerInv
    BY <1>2, <1>5, <1>6 DEF PeerInv, PeerJob, BeforeWrite, Written
  <1>9. CallInv
    BY <1>2, <1>5, <1>6 DEF CallInv
  <1>10. OffsetInv
    <2>1. \A s \in Src : at[s] = IF s \in Initial THEN 1 ELSE 0
      BY DEF Init
    <2>2. QED BY <1>3, <1>4, <2>1 DEF OffsetInv
  <1>11. DoomedInv
    BY <1>2, <1>5 DEF DoomedInv, DoomedJob, BeforeWrite
  <1>12. RevInv
    BY <1>2, <1>5 DEF RevInv, Written
  <1>13. DroppedInv
    BY <1>2, <1>5, <1>6 DEF DroppedInv, DroppedJob, Written
  <1>14. KeptUnlessDeleted
    BY <1>2, <1>3, <1>4 DEF KeptUnlessDeleted
  <1>15. QED BY <1>1, <1>7, <1>8, <1>9, <1>10, <1>11, <1>12, <1>13, <1>14 DEF IInv

\* And of every step.
LEMMA InvStep ==
  ASSUME PlacesAssumption, VerAssumption, IInv, [Next]_vars
  PROVE  IInv'
  <1>1. /\ TypeInv /\ BornInv /\ PeerInv /\ CallInv /\ OffsetInv /\ DoomedInv /\ RevInv /\ DroppedInv
        /\ KeptUnlessDeleted
    BY DEF IInv
  <1>2. TypeInv'
    BY <1>1, TypeStep
  <1>3. CASE \E n \in Node, k \in Savers : Moves(k, n)
    <2>1. PICK n \in Node, k \in Savers : Moves(k, n)
      BY <1>3
    <2>2. BornInv' /\ PeerInv'
      BY <1>1, <2>1, SoundThreads
    <2>3. CallInv'
      BY <1>1, <2>1, CallThreads
    <2>4. OffsetInv'
      <3>1. Calm
        BY <1>1, <2>1, CalmThreads
      <3>2. QED BY <1>1, <3>1, OffsetFrame DEF Calm
    <2>5. DoomedInv'
      BY <1>1, <2>1, DoomedThreads
    <2>6. RevInv'
      BY <1>1, <2>1, RevThreads
    <2>7. DroppedInv'
      BY <1>1, <2>1, DroppedThreads
    <2>8. KeptUnlessDeleted'
      BY <1>1, <2>1, KeptSteps
    <2>9. QED BY <1>2, <2>2, <2>3, <2>4, <2>5, <2>6, <2>7, <2>8 DEF IInv
  <1>4. CASE \E n \in Node, k \in Savers : Write(k, n)
    <2>1. PICK n \in Node, k \in Savers : Write(k, n)
      BY <1>4
    <2>2. BornInv' /\ PeerInv'
      BY <1>1, <2>1, SoundWrite
    <2>3. CallInv'
      BY <1>1, <2>1, CallThreads
    <2>4. OffsetInv'
      BY <1>1, <2>1, OffsetWrite
    <2>5. DoomedInv'
      BY <1>1, <2>1, DoomedWrites
    <2>6. RevInv'
      BY <1>1, <2>1, RevWrite
    <2>7. DroppedInv'
      BY <1>1, <2>1, DroppedWrite
    <2>8. KeptUnlessDeleted'
      BY <1>1, <2>1, KeptWrite
    <2>9. QED BY <1>2, <2>2, <2>3, <2>4, <2>5, <2>6, <2>7, <2>8 DEF IInv
  <1>5. CASE \E n \in Node, k \in Savers : Reset(k, n)
    <2>1. PICK n \in Node, k \in Savers : Reset(k, n)
      BY <1>5
    <2>2. BornInv' /\ PeerInv'
      BY <1>1, <2>1, SoundThreads
    <2>3. CallInv'
      BY <1>1, <2>1, CallThreads
    <2>4. OffsetInv'
      BY <1>1, <2>1, OffsetReset
    <2>5. DoomedInv'
      BY <1>1, <2>1, DoomedWrites
    <2>6. RevInv'
      BY <1>1, <2>1, RevReset
    <2>7. DroppedInv'
      BY <1>1, <2>1, DroppedReset
    <2>8. KeptUnlessDeleted'
      BY <1>1, <2>1, KeptSteps
    <2>9. QED BY <1>2, <2>2, <2>3, <2>4, <2>5, <2>6, <2>7, <2>8 DEF IInv
  <1>6. CASE \E n \in Node, k \in Threads : Push(k, n)
    <2>1. PICK n \in Node, k \in Threads : Push(k, n)
      BY <1>6
    <2>2. BornInv' /\ PeerInv'
      BY <1>1, <2>1, SoundPush
    <2>3. CallInv'
      BY <1>1, <2>1, CallPush
    <2>4. OffsetInv'
      BY <1>1, <2>1, OffsetPush
    <2>5. DoomedInv'
      BY <1>1, <2>1, DoomedPush
    <2>6. RevInv'
      BY <1>1, <2>1, RevPush
    <2>7. DroppedInv'
      BY <1>1, <2>1, DroppedPush
    <2>8. KeptUnlessDeleted'
      BY <1>1, <2>1, KeptSteps
    <2>9. QED BY <1>2, <2>2, <2>3, <2>4, <2>5, <2>6, <2>7, <2>8 DEF IInv
  <1>7. CASE World
    <2>1. BornInv' /\ PeerInv'
      BY <1>1, <1>7, SoundWorld
    <2>2. CallInv'
      BY <1>1, <1>7, CallWorld
    <2>3. OffsetInv'
      BY <1>1, <1>7, OffsetWorld
    <2>4. DoomedInv'
      BY <1>1, <1>7, DoomedWorld
    <2>5. RevInv'
      BY <1>1, <1>7, RevWorld
    <2>6. DroppedInv'
      BY <1>1, <1>7, DroppedWorld
    <2>7. KeptUnlessDeleted'
      BY <1>1, <1>7, KeptSteps
    <2>8. QED BY <1>2, <2>1, <2>2, <2>3, <2>4, <2>5, <2>6, <2>7 DEF IInv
  <1>8. QED BY <1>3, <1>4, <1>5, <1>6, <1>7, StepIs

\* The invariant holds in every state.
LEMMA Invariant ==
  ASSUME PlacesAssumption, VerAssumption
  PROVE  Spec => []IInv
  <1>1. Init => IInv
    BY InvInit
  <1>2. IInv /\ [Next]_vars => IInv'
    BY InvStep
  <1>3. QED BY <1>1, <1>2, PTL DEF Spec

----------------------------------------------------------------------------
(* The theorems. *)

\* Every machine, group and thread has its type in every state; a managed group lies only
\* on its home, and an own group carries no mark (backend.rs, state.rs, sync/mod.rs).
THEOREM TypeCorrect == Spec => []TypeOK
  <1>1. PlacesAssumption /\ VerAssumption
    BY PlacesAssumption, VerAssumption
  <1>2. Spec => []IInv
    BY <1>1, Invariant
  <1>3. IInv => TypeOK
    BY TypeOKIs DEF IInv
  <1>4. QED BY <1>2, <1>3, PTL

\* A verified offset is about the configured path, whatever the machines save, push and
\* crash: the save that moves a group resets the offset before it ends, and the exceptions
\* are those the model names (reset_changed_destination_offsets, backend.rs).
THEOREM OffsetsOfPath == Spec => []OffsetIsOfPath
  <1>1. PlacesAssumption /\ VerAssumption
    BY PlacesAssumption, VerAssumption
  <1>2. Spec => []IInv
    BY <1>1, Invariant
  <1>3. IInv => OffsetIsOfPath
    <2>1. IInv => OffsetInv
      BY DEF IInv
    <2>2. OffsetInv => OffsetIsOfPath
      BY DEF OffsetInv, OffsetIsOfPath
    <2>3. QED BY <2>1, <2>2
  <1>4. QED BY <1>2, <1>3, PTL

\* A group that no user set out to delete stays with its owner, whatever handlers remove
\* and lists replace, unless a save from an outdated copy of the file overwrites it
\* (save_config, remove_delegated_entry, apply_delegated_source_groups).
THEOREM NotLostByOthers == Spec => []KeptUnlessDeleted
  <1>1. PlacesAssumption /\ VerAssumption
    BY PlacesAssumption, VerAssumption
  <1>2. Spec => []IInv
    BY <1>1, Invariant
  <1>3. IInv => KeptUnlessDeleted
    BY DEF IInv
  <1>4. QED BY <1>2, <1>3, PTL

\* A group whose deletion was saved comes back neither where it was deleted nor on its
\* owner, unless a save from an outdated copy or an outdated list brings it: the owner has
\* dropped it before the local write, and the newest list of the owner does not name it
\* (notify_controllers_of_removed_entries, propagate_remote_source_groups).
THEOREM DeletedStays == Spec => []NotResurrected
  <1>1. PlacesAssumption /\ VerAssumption
    BY PlacesAssumption, VerAssumption
  <1>2. Spec => []IInv
    BY <1>1, Invariant
  <1>3. IInv => NotResurrected
    <2>1. IInv => DroppedInv
      BY DEF IInv
    <2>2. DroppedInv => NotResurrected
      BY DEF DroppedInv, NotResurrected, Dropped
    <2>3. QED BY <2>1, <2>2
  <1>4. QED BY <1>2, <1>3, PTL

=============================================================================
