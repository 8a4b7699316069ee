-------------------------- MODULE ActivitiesProofs --------------------------
(***************************************************************************)
(* Proofs about Activities, for every set of sources, destinations, paths, *)
(* pools and threads, and every bound.                                     *)
(***************************************************************************)
EXTENDS Activities, FiniteSetTheorems, TLAPS

USE DEF dbVars, lockVars, poolVars, history

-----------------------------------------------------------------------------
(* The locals of the threads, and what the steps do to them *)

PassFields ==
    {"pc", "ask", "prev", "todo", "src", "mode", "far", "left", "ready", "claim",
     "dst", "plan", "kind", "fresh", "prog", "blk", "late"}

IsPass(r) ==
    /\ DOMAIN r = PassFields
    /\ r.pc \in {"idle", "wait", "loop", "gate", "write", "sample", "standby"}
    /\ r.ask \in Kind \cup {None} /\ r.prev \in Kind \cup {None}
    /\ r.kind \in Kind \cup {None} /\ r.todo \subseteq Src \X Mode
    /\ r.src \in Src \cup {None} /\ r.mode \in Mode \cup {None}
    /\ r.left \subseteq Dst /\ r.ready \subseteq Dst /\ r.claim \subseteq Dst
    /\ r.dst \in Dst \cup {None} /\ r.plan \subseteq Path

PassType == pass = [t \in Thread |-> pass[t]] /\ \A t \in Thread : IsPass(pass[t])

\* Only the locals of t change, and of those only the fields fs
Only(t) == pass' = [u \in Thread |-> pass'[u]] /\ \A u \in Thread \ {t} : pass'[u] = pass[u]
But(t, fs) ==
    DOMAIN pass'[t] = PassFields /\ \A f \in PassFields \ fs : pass'[t][f] = pass[t][f]

\* A thread at rest has the fields of a pass.
LEMMA RestingIsPass == IsPass(Resting)
  BY DEF IsPass, Resting, PassFields

\* A thread that waits for sync_gate has them too, and keeps nothing of an earlier pass.
LEMMA WaitingIsPass ==
  ASSUME NEW k \in Kind
  PROVE  /\ IsPass(Waiting(k)) /\ Waiting(k).pc = "wait" /\ Waiting(k).ask = k
         /\ \A f \in PassFields \ {"pc", "ask"} : Waiting(k)[f] = Resting[f]
  BY DEF IsPass, Resting, PassFields, Waiting

\* A superseded pass loses the destination, and nothing else.
LEMMA WithoutEffect ==
  ASSUME NEW r, DOMAIN r = PassFields, NEW d
  PROVE  /\ DOMAIN Without(r, d) = PassFields
         /\ Without(r, d).left = r.left \ {d} /\ Without(r, d).claim = r.claim \ {d}
         /\ \A f \in PassFields \ {"left", "claim"} : Without(r, d)[f] = r[f]
  BY DEF Without, PassFields

\* A target that is superseded takes only the destination's place in left and claim.
LEMMA WithoutKeeps ==
  ASSUME NEW r, DOMAIN r = PassFields, NEW d
  PROVE  /\ Without(r, d).pc = r.pc /\ Without(r, d).src = r.src /\ Without(r, d).dst = r.dst
         /\ Without(r, d).ready = r.ready /\ Without(r, d).mode = r.mode
         /\ Without(r, d).far = r.far /\ Without(r, d).plan = r.plan
         /\ Without(r, d).late = r.late
  BY WithoutEffect DEF PassFields

\* It leaves a well-typed pass well typed.
LEMMA WithoutIsPass ==
  ASSUME NEW r, IsPass(r), NEW d
  PROVE  IsPass(Without(r, d))
  BY WithoutEffect DEF IsPass, PassFields

\* What a change of the source does to the passes.
LEMMA EditEffect ==
  ASSUME PassType, NEW s \in Src, NEW ps \in SUBSET Path, Edit(s, ps)
  PROVE  /\ pass' = [u \in Thread |-> pass'[u]]
         /\ \A u \in Thread : But(u, {"plan"})
         /\ \A u \in Thread :
              pass'[u].plan = IF pass[u].src = s THEN pass[u].plan \ ps ELSE pass[u].plan
  <1>1. pass' = [t \in Thread |->
                   IF pass[t].src = s THEN [pass[t] EXCEPT !.plan = @ \ ps] ELSE pass[t]]
    BY DEF Edit
  <1>2. SUFFICES ASSUME NEW u \in Thread
                 PROVE  /\ But(u, {"plan"})
                        /\ pass'[u].plan = IF pass[u].src = s THEN pass[u].plan \ ps
                                           ELSE pass[u].plan
    BY <1>1
  <1>3. DOMAIN pass[u] = PassFields
    BY DEF PassType, IsPass
  <1>4. CASE pass[u].src = s
    <2>1. pass'[u] = [pass[u] EXCEPT !.plan = @ \ ps]
      BY <1>1, <1>4
    <2>2. QED BY <2>1, <1>3, <1>4 DEF But, PassFields
  <1>5. CASE pass[u].src # s
    BY <1>1, <1>3, <1>5 DEF But
  <1>6. QED BY <1>4, <1>5

\* What the armed watcher does to the passes.
LEMMA ArmedEffect ==
  ASSUME PassType, Armed
  PROVE  pass' = [u \in Thread |-> pass'[u]] /\ \A u \in Thread : But(u, {"fresh"})
  <1>1. PICK raised \in SUBSET (Src \ notice) :
          pass' = [t \in Thread |->
            IF pass[t].src \in raised THEN [pass[t] EXCEPT !.fresh = FALSE] ELSE pass[t]]
    BY DEF Armed
  <1>2. SUFFICES ASSUME NEW u \in Thread PROVE But(u, {"fresh"})
    BY <1>1
  <1>3. DOMAIN pass[u] = PassFields
    BY DEF PassType, IsPass
  <1>4. CASE pass[u].src \in raised
    <2>1. pass'[u] = [pass[u] EXCEPT !.fresh = FALSE]
      BY <1>1, <1>4
    <2>2. QED BY <2>1, <1>3 DEF But, PassFields
  <1>5. CASE pass[u].src \notin raised
    BY <1>1, <1>3, <1>5 DEF But
  <1>6. QED BY <1>4, <1>5

\* What Request does to the passes, field by field.
LEMMA RequestEffect ==
  ASSUME PassType, NEW d \in Dst, NEW t \in Manual, NEW m \in {"manual", "full"},
         Request(t, d, m)
  PROVE  /\ t \in Thread /\ pass' = [u \in Thread |-> pass'[u]]
         /\ \A u \in Thread \ {t} : pass'[u] = Without(pass[u], d)
         /\ \E k \in Kind : pass'[t] = Waiting(k)
  <1> DEFINE k == IF m = "full" THEN "full" ELSE "incremental"
  <1>1. pass' = Spawned(t, k, Superseded(d))
    BY DEF Request
  <1>2. k \in Kind
    BY DEF Kind
  <1> HIDE DEF k
  <1>3. QED BY <1>1, <1>2 DEF Spawned, Superseded, Thread

\* What RepairTarget does to the passes, field by field.
LEMMA RepairTargetEffect ==
  ASSUME PassType, RepairTarget
  PROVE  /\ pass' = [u \in Thread |-> pass'[u]]
         /\ \A u \in Thread : pass'[u] = Without(pass[u], repair.dst)
  BY DEF RepairTarget, Superseded

\* What RepairEnd does to the passes, field by field.
LEMMA RepairEndEffect ==
  ASSUME PassType, NEW t \in Manual, RepairEnd(t)
  PROVE  /\ t \in Thread /\ Only(t)
         /\ pass'[t] = Waiting("repair_scan")
  BY DEF RepairEnd, Spawned, Thread, PassType, Only

\* What SchedTick does to the passes, field by field.
LEMMA SchedTickEffect ==
  ASSUME PassType, SchedTick
  PROVE  "sched" \in Thread /\ Only("sched") /\ But("sched", {"pc"}) /\ pass'["sched"].pc = "wait"
  BY DEF SchedTick, PassType, IsPass, Thread, Only, But, PassFields

\* What StandbySample does to the passes, field by field.
LEMMA StandbySampleEffect ==
  ASSUME PassType, StandbySample
  PROVE  /\ "sched" \in Thread /\ Only("sched") /\ But("sched", {"pc"})
         /\ pass'["sched"].pc = "standby"
  BY DEF StandbySample, PassType, IsPass, Thread, Only, But, PassFields

\* What StandbyStep does to the passes, field by field.
LEMMA StandbyStepEffect ==
  ASSUME PassType, StandbyStep
  PROVE  "sched" \in Thread /\ Only("sched") /\ pass'["sched"] = Resting
  BY DEF StandbyStep, PassType, Thread, Only

\* What PassLock does to the passes, field by field.
LEMMA PassLockEffect ==
  ASSUME PassType, NEW t \in Thread, PassLock(t)
  PROVE  /\ Only(t) /\ But(t, {"pc", "prev", "todo", "late"})
         /\ pass'[t].pc = "loop" /\ pass'[t].prev = kind /\ pass'[t].todo = Src \X Mode
         /\ pass'[t].late = Sampled
  BY DEF PassLock, PassType, IsPass, Only, But, PassFields

\* What CycleStart does to the passes, field by field.
LEMMA CycleStartEffect ==
  ASSUME PassType, NEW t \in Thread, NEW s \in Src, NEW m \in Mode, CycleStart(t, s, m)
  PROVE  /\ Only(t)
         /\ But(t, {"pc", "todo", "src", "mode", "far", "left", "claim", "kind", "fresh"})
         /\ pass'[t].pc = "gate" /\ pass'[t].todo = pass[t].todo \ {<<s, m>>}
         /\ pass'[t].src = s /\ pass'[t].mode = m /\ pass'[t].far = ByTransfer(s, m)
         /\ pass'[t].left = Targeted(s, m) /\ pass'[t].claim = Targeted(s, m)
         /\ pass'[t].kind = kind
  <1>1. pass' = [pass EXCEPT ![t] = [pass[t] EXCEPT
           !.pc = "gate", !.todo = @ \ {<<s, m>>}, !.src = s, !.mode = m,
           !.far = ByTransfer(s, m), !.left = Targeted(s, m), !.claim = Targeted(s, m),
           !.kind = kind, !.fresh = TRUE]]
    BY DEF CycleStart
  <1>2. Only(t)
    BY <1>1 DEF PassType, Only
  <1>3. pass'[t] = [pass[t] EXCEPT
           !.pc = "gate", !.todo = @ \ {<<s, m>>}, !.src = s, !.mode = m,
           !.far = ByTransfer(s, m), !.left = Targeted(s, m), !.claim = Targeted(s, m),
           !.kind = kind, !.fresh = TRUE]
    BY <1>1 DEF PassType
  <1>4. DOMAIN pass[t] = PassFields
    BY DEF PassType, IsPass
  <1>5. But(t, {"pc", "todo", "src", "mode", "far", "left", "claim", "kind", "fresh"})
    BY <1>3, <1>4 DEF But, PassFields
  <1>6. pass'[t].pc = "gate" /\ pass'[t].src = s /\ pass'[t].mode = m /\ pass'[t].kind = kind
    BY <1>3, <1>4 DEF PassFields
  <1>7. pass'[t].left = Targeted(s, m) /\ pass'[t].claim = Targeted(s, m)
    BY <1>3, <1>4 DEF PassFields
  <1>8. pass'[t].far = ByTransfer(s, m)
    BY <1>3, <1>4 DEF PassFields
  <1>9. pass'[t].todo = pass[t].todo \ {<<s, m>>}
    BY <1>3, <1>4 DEF PassFields
  <1>10. QED BY <1>2, <1>5, <1>6, <1>7, <1>8, <1>9

\* What Gated does to the passes, field by field.
LEMMA GatedEffect ==
  ASSUME PassType, NEW t \in Thread, NEW d \in Dst, NEW blocked, NEW refused,
         NEW blind, Gated(t, d, blocked, refused, blind)
  PROVE  /\ Only(t) /\ But(t, {"left", "blk", "ready"})
         /\ pass'[t].left = pass[t].left \ {d}
         /\ pass'[t].ready = IF blocked \/ refused THEN pass[t].ready
                             ELSE pass[t].ready \cup {d}
  <1>1. pass' = [pass EXCEPT ![t].left = @ \ {d}, ![t].blk = @ \/ blocked,
                   ![t].ready = IF blocked \/ refused THEN @ ELSE @ \cup {d}]
    BY DEF Gated
  <1>2. Only(t)
    BY <1>1 DEF PassType, Only
  <1>3. But(t, {"left", "blk", "ready"})
    BY <1>1 DEF PassType, IsPass, But, PassFields
  <1>4. pass'[t].left = pass[t].left \ {d}
    BY <1>1 DEF PassType, IsPass, PassFields
  <1>5. pass'[t].ready = IF blocked \/ refused THEN pass[t].ready ELSE pass[t].ready \cup {d}
    BY <1>1 DEF PassType, IsPass, PassFields
  <1>6. QED BY <1>2, <1>3, <1>4, <1>5

\* What WriteStart does to the passes, field by field.
LEMMA WriteStartEffect ==
  ASSUME PassType, NEW t \in Thread, NEW d \in Dst, WriteStart(t, d)
  PROVE  /\ Only(t) /\ But(t, {"pc", "ready", "dst", "plan"})
         /\ pass'[t].pc = "write" /\ pass'[t].ready = pass[t].ready \ {d}
         /\ pass'[t].dst = d
         /\ pass'[t].plan = IF pass[t].mode = "full" THEN Path ELSE known[d]
  BY DEF WriteStart, PassType, IsPass, Only, But, PassFields

\* What WriteDone does to the passes, field by field.
LEMMA WriteDoneEffect ==
  ASSUME PassType, NEW t \in Thread, WriteDone(t)
  PROVE  /\ Only(t) /\ But(t, {"pc", "dst", "plan", "prog"})
         /\ pass'[t].pc = "gate" /\ pass'[t].dst = None /\ pass'[t].plan = {}
  BY DEF WriteDone, PassType, IsPass, Only, But, PassFields

\* What WriteFails does to the passes, field by field.
LEMMA WriteFailsEffect ==
  ASSUME PassType, NEW t \in Thread, WriteFails(t)
  PROVE  /\ Only(t) /\ But(t, {"pc", "dst", "plan"})
         /\ pass'[t].pc = "gate" /\ pass'[t].dst = None /\ pass'[t].plan = {}
  BY DEF WriteFails, PassType, IsPass, Only, But, PassFields

\* What CycleEnd does to the passes, field by field.
LEMMA CycleEndEffect ==
  ASSUME PassType, NEW t \in Thread, CycleEnd(t)
  PROVE  /\ Only(t) /\ DOMAIN pass'[t] = PassFields
         /\ \A f \in {"ask", "prev", "todo", "late"} : pass'[t][f] = pass[t][f]
         /\ \A f \in {"src", "mode", "left", "ready", "claim", "dst", "plan", "kind"} :
              pass'[t][f] = Resting[f]
         /\ pass'[t].pc = "loop"
  <1>1. pass' = [pass EXCEPT ![t] = [Resting EXCEPT
           !.pc = "loop", !.ask = pass[t].ask, !.prev = pass[t].prev, !.todo = pass[t].todo,
           !.prog = pass[t].prog, !.blk = pass[t].blk, !.late = pass[t].late]]
    BY DEF CycleEnd
  <1>2. Only(t)
    BY <1>1 DEF PassType, Only
  <1>3. pass'[t] = [Resting EXCEPT
           !.pc = "loop", !.ask = pass[t].ask, !.prev = pass[t].prev, !.todo = pass[t].todo,
           !.prog = pass[t].prog, !.blk = pass[t].blk, !.late = pass[t].late]
    BY <1>1 DEF PassType
  <1>4. DOMAIN pass'[t] = PassFields /\ pass'[t].pc = "loop"
    BY <1>3 DEF PassFields, Resting
  <1>5. \A f \in {"ask", "prev", "todo", "late"} : pass'[t][f] = pass[t][f]
    BY <1>3 DEF Resting
  <1>6. \A f \in {"src", "mode", "left", "ready", "claim", "dst", "plan", "kind"} :
           pass'[t][f] = Resting[f]
    BY <1>3 DEF Resting
  <1>7. QED BY <1>2, <1>4, <1>5, <1>6

\* What PassAgain does to the passes, field by field.
LEMMA PassAgainEffect ==
  ASSUME PassType, NEW t \in Thread, PassAgain(t)
  PROVE  Only(t) /\ But(t, {"todo", "prog", "blk"}) /\ pass'[t].todo = Src \X Mode
  BY DEF PassAgain, PassType, IsPass, Only, But, PassFields

\* What PassEnd does to the passes, field by field.
LEMMA PassEndEffect ==
  ASSUME PassType, NEW t \in Thread, PassEnd(t)
  PROVE  Only(t) /\ pass'[t] = [Resting EXCEPT !.pc = IF t = "sched" THEN "sample" ELSE "idle"]
  BY DEF PassEnd, PassType, Only

\* The steps that touch the locals of the pass threads.
PassMoves ==
    \/ \E s \in Src, ps \in SUBSET Path : Edit(s, ps)
    \/ Crash \/ Armed \/ RepairTarget \/ SchedTick \/ StandbySample \/ StandbyStep
    \/ \E d \in Dst, t \in Manual, m \in {"manual", "full"} : Request(t, d, m)
    \/ \E t \in Manual : RepairEnd(t)
    \/ \E t \in Thread : PassStep(t)

\* Which steps move a pass: every other step of the process leaves all of them alone.
LEMMA PassFrame == ASSUME [Next]_vars PROVE PassMoves \/ UNCHANGED pass
  <1>1. ASSUME NEW k, NEW d, Cancel(k, d) PROVE UNCHANGED pass
    BY <1>1 DEF Cancel
  <1>2. ASSUME NEW s, Dismiss(s) PROVE UNCHANGED pass
    BY <1>2 DEF Dismiss
  <1>3. ASSUME NEW t, NEW d, CompareStart(t, d) PROVE UNCHANGED pass
    BY <1>3 DEF CompareStart
  <1>4. ASSUME NEW d, NEW ps, Tamper(d, ps) PROVE UNCHANGED pass
    BY <1>4 DEF Tamper
  <1>5. ASSUME NEW d, RepairRead(d) PROVE UNCHANGED pass
    BY <1>5 DEF RepairRead
  <1>6. ASSUME NEW p, Grace(p) \/ Window(p) \/ Mount(p) PROVE UNCHANGED pass
    BY <1>6 DEF Grace, Window, Mount
  <1>7. ASSUME Boot \/ RepairInject PROVE UNCHANGED pass
    BY <1>7 DEF Boot, RepairInject
  <1>8. ASSUME NEW t \in Scanner, CompareStep(t) PROVE UNCHANGED pass
    <2>1. ASSUME NEW p, CompareRead(t, p) PROVE UNCHANGED pass
      BY <2>1 DEF CompareRead
    <2>2. CASE CompareCheck(t)
      BY <2>2 DEF CompareCheck
    <2>3. CASE CompareRegister(t)
      BY <2>3 DEF CompareRegister
    <2>4. CASE CompareBreak(t)
      BY <2>4 DEF CompareBreak
    <2>5. CASE CompareDone(t)
      BY <2>5 DEF CompareDone
    <2>6. QED BY <1>8, <2>1, <2>2, <2>3, <2>4, <2>5 DEF CompareStep
  <1>9. CASE UNCHANGED vars
    BY <1>9 DEF vars
  <1>10. QED
    BY <1>1, <1>2, <1>3, <1>4, <1>5, <1>6, <1>7, <1>8, <1>9
       DEF Next, EnvStep, SchedStep, RepairStep, PassMoves

\* Every step keeps the locals of the pass threads well typed.
LEMMA PassTypeStep ==
  ASSUME PassType, kind \in Kind \cup {None}, known \in [Dst -> SUBSET Path],
         SourceOf \in [Dst -> Src], [Next]_vars
  PROVE  PassType'
  <1>1. ASSUME NEW s \in Src, NEW ps \in SUBSET Path, Edit(s, ps) PROVE PassType'
    <2>1. ASSUME NEW u \in Thread PROVE IsPass(pass'[u])
      <3>1. IsPass(pass[u])
        BY DEF PassType
      <3>2. But(u, {"plan"}) /\ pass'[u].plan \in {pass[u].plan, pass[u].plan \ ps}
        BY <1>1, EditEffect
      <3>3. QED BY <3>1, <3>2 DEF IsPass, But, PassFields
    <2>2. QED BY <1>1, <2>1, EditEffect DEF PassType
  <1>2. CASE Crash
    BY <1>2, RestingIsPass DEF PassType, Crash
  <1>3. CASE Armed
    BY <1>3, ArmedEffect DEF PassType, IsPass, But, PassFields
  <1>4. ASSUME NEW d \in Dst, NEW t \in Manual, NEW m \in {"manual", "full"}, Request(t, d, m)
        PROVE  PassType'
    <2>1. IsPass(pass'[t])
      <3>1. PICK k \in Kind : pass'[t] = Waiting(k)
        BY <1>4, RequestEffect
      <3>2. QED BY <3>1, WaitingIsPass
    <2>2. ASSUME NEW u \in Thread \ {t} PROVE IsPass(pass'[u])
      <3>1. IsPass(pass[u]) /\ pass'[u] = Without(pass[u], d)
        BY <1>4, RequestEffect DEF PassType
      <3>2. QED BY <3>1, WithoutIsPass
    <2>3. QED BY <1>4, <2>1, <2>2, RequestEffect DEF PassType
  <1>5. CASE RepairTarget
    <2>1. ASSUME NEW u \in Thread PROVE IsPass(pass'[u])
      <3>1. IsPass(pass[u]) /\ pass'[u] = Without(pass[u], repair.dst)
        BY <1>5, RepairTargetEffect DEF PassType
      <3>2. QED BY <3>1, WithoutIsPass
    <2>2. QED BY <1>5, <2>1, RepairTargetEffect DEF PassType
  <1>6. ASSUME NEW t \in Manual, RepairEnd(t) PROVE PassType'
    <2>1. IsPass(pass'[t])
      BY <1>6, RepairEndEffect, WaitingIsPass DEF Kind
    <2>2. QED BY <1>6, <2>1, RepairEndEffect DEF PassType, Only
  <1>7. CASE SchedTick
    <2>1. IsPass(pass["sched"]) /\ But("sched", {"pc"}) /\ pass'["sched"].pc \in {"wait", "standby"}
      BY <1>7, SchedTickEffect DEF PassType
    <2>2. IsPass(pass'["sched"])
      BY <2>1 DEF IsPass, But, PassFields
    <2>3. QED BY <1>7, <2>2, SchedTickEffect DEF PassType, Only
  <1>8. CASE StandbySample
    <2>1. IsPass(pass["sched"]) /\ But("sched", {"pc"}) /\ pass'["sched"].pc \in {"wait", "standby"}
      BY <1>8, StandbySampleEffect DEF PassType
    <2>2. IsPass(pass'["sched"])
      BY <2>1 DEF IsPass, But, PassFields
    <2>3. QED BY <1>8, <2>2, StandbySampleEffect DEF PassType, Only
  <1>9. CASE StandbyStep
    BY <1>9, StandbyStepEffect, RestingIsPass DEF PassType, Only
  <1>10. ASSUME NEW t \in Thread, PassLock(t) PROVE PassType'
    BY <1>10, PassLockEffect DEF PassType, IsPass, Only, But, PassFields
  <1>11. ASSUME NEW t \in Thread, NEW s \in Src, NEW m \in Mode, CycleStart(t, s, m)
         PROVE  PassType'
    <2>1. Targeted(s, m) \subseteq Dst
      BY DEF Targeted, Of
    <2>2. IsPass(pass[t])
      BY DEF PassType
    <2>3. IsPass(pass'[t])
      BY <1>11, <2>1, <2>2, CycleStartEffect DEF IsPass, But, PassFields
    <2>4. QED BY <1>11, <2>3, CycleStartEffect DEF PassType, Only
  <1>12. ASSUME NEW t \in Thread, NEW d \in Dst, GateOne(t, d) \/ GateFails(t, d) \/ GateFar(t, d)
         PROVE  PassType'
    <2>1. PICK blocked, refused, blind : Gated(t, d, blocked, refused, blind)
      BY <1>12 DEF GateOne, GateFails, GateFar
    <2>2. IsPass(pass[t]) /\ But(t, {"left", "blk", "ready"})
          /\ pass'[t].left = pass[t].left \ {d}
          /\ pass'[t].ready \in {pass[t].ready, pass[t].ready \cup {d}}
      BY <2>1, GatedEffect DEF PassType
    <2>3. IsPass(pass'[t])
      BY <2>2 DEF IsPass, But, PassFields
    <2>4. QED BY <2>1, <2>3, GatedEffect DEF PassType, Only
  <1>13. ASSUME NEW t \in Thread, NEW d \in Dst, WriteStart(t, d) PROVE PassType'
    BY <1>13, WriteStartEffect DEF PassType, IsPass, Only, But, PassFields
  <1>14. ASSUME NEW t \in Thread, WriteDone(t) PROVE PassType'
    BY <1>14, WriteDoneEffect DEF PassType, IsPass, Only, But, PassFields
  <1>15. ASSUME NEW t \in Thread, WriteFails(t) PROVE PassType'
    BY <1>15, WriteFailsEffect DEF PassType, IsPass, Only, But, PassFields
  <1>16. ASSUME NEW t \in Thread, CycleEnd(t) PROVE PassType'
    BY <1>16, CycleEndEffect DEF PassType, IsPass, Only, PassFields, Resting
  <1>17. ASSUME NEW t \in Thread, PassAgain(t) PROVE PassType'
    BY <1>17, PassAgainEffect DEF PassType, IsPass, Only, But, PassFields
  <1>18. ASSUME NEW t \in Thread, PassEnd(t) PROVE PassType'
    <2>1. IsPass([Resting EXCEPT !.pc = "sample"])
      BY DEF IsPass, Resting, PassFields
    <2>2. IsPass([Resting EXCEPT !.pc = "idle"])
      BY DEF IsPass, Resting, PassFields
    <2>3. IsPass(pass'[t])
      BY <1>18, <2>1, <2>2, PassEndEffect
    <2>4. QED BY <1>18, <2>3, PassEndEffect DEF PassType, Only
  <1>19. CASE UNCHANGED pass
    BY <1>19 DEF PassType
  <1>20. QED
    BY <1>1, <1>2, <1>3, <1>4, <1>5, <1>6, <1>7, <1>8, <1>9, <1>10, <1>11, <1>12,
       <1>13, <1>14, <1>15, <1>16, <1>17, <1>18, <1>19, PassFrame DEF PassMoves, PassStep

-----------------------------------------------------------------------------
(* The same for the Compare threads *)

ScanFields == {"pc", "dst", "left", "found", "read", "prev", "fresh", "armed", "raced"}

IsScan(r) ==
    /\ DOMAIN r = ScanFields
    /\ r.pc \in {"idle", "check", "register", "read"} /\ r.dst \in Dst \cup {None}
    /\ r.left \subseteq Path /\ r.found \subseteq Path /\ r.read \subseteq Path
    /\ r.prev \in Kind \cup {None}

ScanType == scan = [t \in Scanner |-> scan[t]] /\ \A t \in Scanner : IsScan(scan[t])

OnlyScan(t) ==
    scan' = [u \in Scanner |-> scan'[u]] /\ \A u \in Scanner \ {t} : scan'[u] = scan[u]
ScanBut(t, fs) ==
    DOMAIN scan'[t] = ScanFields /\ \A f \in ScanFields \ fs : scan'[t][f] = scan[t][f]

\* A Compare thread that has returned has the fields of a Compare.
LEMMA NoScanIsScan == IsScan(NoScan)
  BY DEF IsScan, NoScan, ScanFields

\* A Compare at its start, field by field.
LEMMA ComparingEffect ==
  ASSUME NEW d
  PROVE  /\ DOMAIN Comparing(d) = ScanFields
         /\ Comparing(d).pc = "check" /\ Comparing(d).dst = d /\ Comparing(d).left = Path
         /\ Comparing(d).armed = WatcherArmed
         /\ \A f \in {"found", "read", "prev"} : Comparing(d)[f] = NoScan[f]
  BY DEF Comparing, ScanFields, NoScan

\* What a change of the source does to the Compares.
LEMMA EditScanEffect ==
  ASSUME ScanType, NEW s \in Src, NEW ps \in SUBSET Path, Edit(s, ps)
  PROVE  /\ scan' = [u \in Scanner |-> scan'[u]]
         /\ \A u \in Scanner : ScanBut(u, {"read"})
         /\ \A u \in Scanner :
              scan'[u].read = IF scan[u].dst \in Of(s) THEN scan[u].read \ ps ELSE scan[u].read
  <1>1. scan' = [t \in Scanner |->
           IF scan[t].dst \in Of(s) THEN [scan[t] EXCEPT !.read = @ \ ps] ELSE scan[t]]
    BY DEF Edit
  <1>2. SUFFICES ASSUME NEW u \in Scanner
                 PROVE  /\ ScanBut(u, {"read"})
                        /\ scan'[u].read = IF scan[u].dst \in Of(s) THEN scan[u].read \ ps
                                           ELSE scan[u].read
    BY <1>1
  <1>3. DOMAIN scan[u] = ScanFields
    BY DEF ScanType, IsScan
  <1>4. CASE scan[u].dst \in Of(s)
    <2>1. scan'[u] = [scan[u] EXCEPT !.read = @ \ ps]
      BY <1>1, <1>4
    <2>2. QED BY <2>1, <1>3, <1>4 DEF ScanBut, ScanFields
  <1>5. CASE scan[u].dst \notin Of(s)
    BY <1>1, <1>3, <1>5 DEF ScanBut
  <1>6. QED BY <1>4, <1>5

\* What the armed watcher does to the Compares.
LEMMA ArmedScanEffect ==
  ASSUME ScanType, Armed
  PROVE  scan' = [u \in Scanner |-> scan'[u]] /\ \A u \in Scanner : ScanBut(u, {"fresh"})
  <1>1. PICK raised \in SUBSET (Src \ notice) :
          scan' = [t \in Scanner |->
            IF scan[t].dst \in Dst /\ SourceOf[scan[t].dst] \in raised
            THEN [scan[t] EXCEPT !.fresh = FALSE] ELSE scan[t]]
    BY DEF Armed
  <1>2. SUFFICES ASSUME NEW u \in Scanner PROVE ScanBut(u, {"fresh"})
    BY <1>1
  <1>3. DOMAIN scan[u] = ScanFields
    BY DEF ScanType, IsScan
  <1>4. CASE scan[u].dst \in Dst /\ SourceOf[scan[u].dst] \in raised
    <2>1. scan'[u] = [scan[u] EXCEPT !.fresh = FALSE]
      BY <1>1, <1>4
    <2>2. QED BY <2>1, <1>3 DEF ScanBut, ScanFields
  <1>5. CASE ~(scan[u].dst \in Dst /\ SourceOf[scan[u].dst] \in raised)
    BY <1>1, <1>3, <1>5 DEF ScanBut
  <1>6. QED BY <1>4, <1>5

\* What CompareStart does to the Compares, field by field.
LEMMA CompareStartEffect ==
  ASSUME ScanType, NEW t \in Scanner, NEW d \in Dst, CompareStart(t, d)
  PROVE  \/ UNCHANGED <<scan, scanGate>>
         \/ /\ scanGate = None /\ scanGate' = t
            /\ OnlyScan(t) /\ scan'[t] = Comparing(d)
  BY DEF CompareStart, ScanType, OnlyScan

\* What CompareLeaves does to the Compares, field by field.
LEMMA CompareLeavesEffect ==
  ASSUME ScanType, NEW t \in Scanner, CompareLeaves(t)
  PROVE  OnlyScan(t) /\ scan'[t] = NoScan
  BY DEF CompareLeaves, ScanType, OnlyScan

\* What CompareCheck does to the Compares, field by field.
LEMMA CompareCheckEffect ==
  ASSUME ScanType, NEW t \in Scanner, CompareCheck(t)
  PROVE  \/ CompareFails(t)
         \/ /\ UNCHANGED <<scanGate, kind, ops, report>> /\ ~Active("sync", scan[t].dst)
            /\ OnlyScan(t) /\ ScanBut(t, {"pc"}) /\ scan'[t].pc = "register"
  <1>1. CASE Active("sync", scan[t].dst)
    BY <1>1 DEF CompareCheck
  <1>2. CASE ~Active("sync", scan[t].dst)
    <2>1. scan' = [scan EXCEPT ![t].pc = "register"]
      BY <1>2 DEF CompareCheck
    <2>2. DOMAIN scan[t] = ScanFields
      BY DEF ScanType, IsScan
    <2>3. OnlyScan(t) /\ ScanBut(t, {"pc"}) /\ scan'[t].pc = "register"
      BY <2>1, <2>2 DEF ScanType, OnlyScan, ScanBut, ScanFields
    <2>4. QED BY <1>2, <2>3 DEF CompareCheck
  <1>3. QED BY <1>1, <1>2

\* What CompareRegister does to the Compares, field by field.
LEMMA CompareRegisterEffect ==
  ASSUME ScanType, NEW t \in Scanner, CompareRegister(t)
  PROVE  /\ OnlyScan(t) /\ ScanBut(t, {"pc", "prev", "raced"})
         /\ scan'[t].pc = "read" /\ scan'[t].prev = kind
         /\ scan'[t].raced = Active("sync", scan[t].dst)
  BY DEF CompareRegister, ScanType, IsScan, OnlyScan, ScanBut, ScanFields

\* What CompareRead does to the Compares, field by field.
LEMMA CompareReadEffect ==
  ASSUME ScanType, NEW t \in Scanner, NEW p \in Path, CompareRead(t, p)
  PROVE  /\ OnlyScan(t) /\ ScanBut(t, {"left", "read", "found"})
         /\ scan'[t].left = scan[t].left \ {p}
         /\ scan'[t].read = scan[t].read \cup {p}
         /\ scan'[t].found \subseteq scan[t].found \cup {p}
  <1>1. scan' = [scan EXCEPT
           ![t].left = @ \ {p}, ![t].read = @ \cup {p},
           ![t].found = @ \cup ({p} \cap diff[scan[t].dst])]
    BY DEF CompareRead
  <1>2. DOMAIN scan[t] = ScanFields
    BY DEF ScanType, IsScan
  <1>3. OnlyScan(t)
    BY <1>1 DEF ScanType, OnlyScan
  <1>4. ScanBut(t, {"left", "read", "found"})
    BY <1>1, <1>2 DEF ScanType, ScanBut, ScanFields
  <1>5. scan'[t].left = scan[t].left \ {p} /\ scan'[t].read = scan[t].read \cup {p}
    BY <1>1, <1>2 DEF ScanType, ScanFields
  <1>6. scan'[t].found \subseteq scan[t].found \cup {p}
    BY <1>1, <1>2 DEF ScanType, ScanFields
  <1>7. QED BY <1>3, <1>4, <1>5, <1>6

-----------------------------------------------------------------------------
(* What the steps of one kind leave alone *)

\* What no step of a pass touches.
LEMMA PassStepFrame ==
  ASSUME NEW t, PassStep(t)
  PROVE  UNCHANGED <<phase, scanGate, scan, report, repair, open, mounted, awake, idle,
                    syncing>>
  <1>1. CASE PassLock(t)
    BY <1>1 DEF PassLock
  <1>2. CASE WriteDone(t)
    BY <1>2 DEF WriteDone
  <1>3. CASE WriteFails(t)
    BY <1>3 DEF WriteFails
  <1>4. CASE CycleEnd(t)
    BY <1>4 DEF CycleEnd
  <1>5. CASE PassAgain(t)
    BY <1>5 DEF PassAgain
  <1>6. CASE PassEnd(t)
    BY <1>6 DEF PassEnd
  <1>7. ASSUME NEW s, NEW m, CycleStart(t, s, m)
        PROVE  UNCHANGED <<phase, scanGate, scan, report, repair, open, mounted, awake, idle,
                           syncing>>
    BY <1>7 DEF CycleStart
  <1>8. ASSUME NEW d, GateOne(t, d) \/ GateFails(t, d) \/ GateFar(t, d) \/ WriteStart(t, d)
        PROVE  UNCHANGED <<phase, scanGate, scan, report, repair, open, mounted, awake, idle,
                           syncing>>
    BY <1>8 DEF GateOne, GateFails, GateFar, Gated, WriteStart
  <1>9. QED BY <1>1, <1>2, <1>3, <1>4, <1>5, <1>6, <1>7, <1>8 DEF PassStep

\* What no step of a Compare touches.
LEMMA CompareStepFrame ==
  ASSUME NEW t, CompareStep(t)
  PROVE  UNCHANGED <<phase, diff, known, pend, gate, pass, repair, open, mounted, awake, idle,
                     syncing, owed, lapsed, unsure>>
  <1>1. CASE CompareCheck(t)
    BY <1>1 DEF CompareCheck
  <1>2. CASE CompareRegister(t)
    BY <1>2 DEF CompareRegister
  <1>3. CASE CompareBreak(t)
    BY <1>3 DEF CompareBreak
  <1>4. CASE CompareDone(t)
    BY <1>4 DEF CompareDone
  <1>5. ASSUME NEW p, CompareRead(t, p)
        PROVE  UNCHANGED <<phase, diff, known, pend, gate, pass, repair, open, mounted, awake,
                           idle, syncing, owed, lapsed, unsure>>
    BY <1>5 DEF CompareRead
  <1>6. QED BY <1>1, <1>2, <1>3, <1>4, <1>5 DEF CompareStep

\* A pass changes sync_gate and the kind in force only where it starts and ends.
LEMMA PassStepGate ==
  ASSUME NEW t, PassStep(t)
  PROVE  \/ PassLock(t) \/ PassEnd(t)
         \/ UNCHANGED <<gate, kind>>
  <1>1. CASE WriteDone(t)
    BY <1>1 DEF WriteDone
  <1>2. CASE WriteFails(t)
    BY <1>2 DEF WriteFails
  <1>3. CASE CycleEnd(t)
    BY <1>3 DEF CycleEnd
  <1>4. CASE PassAgain(t)
    BY <1>4 DEF PassAgain
  <1>5. ASSUME NEW s, NEW m, CycleStart(t, s, m) PROVE UNCHANGED <<gate, kind>>
    BY <1>5 DEF CycleStart
  <1>6. ASSUME NEW d, GateOne(t, d) \/ GateFails(t, d) \/ GateFar(t, d) \/ WriteStart(t, d)
        PROVE  UNCHANGED <<gate, kind>>
    BY <1>6 DEF GateOne, GateFails, GateFar, Gated, WriteStart
  <1>7. QED BY <1>1, <1>2, <1>3, <1>4, <1>5, <1>6 DEF PassStep

\* A Compare changes scan_gate, the kind and the registry only where it registers and leaves.
LEMMA CompareStepGate ==
  ASSUME ScanType, NEW t \in Scanner, CompareStep(t)
  PROVE  \/ CompareFails(t) \/ CompareRegister(t) \/ CompareDone(t)
         \/ UNCHANGED <<scanGate, kind, ops>>
  <1>1. CASE CompareCheck(t)
    BY <1>1, CompareCheckEffect
  <1>2. CASE CompareBreak(t)
    BY <1>2 DEF CompareBreak
  <1>3. ASSUME NEW p, CompareRead(t, p) PROVE UNCHANGED <<scanGate, kind, ops>>
    BY <1>3 DEF CompareRead
  <1>4. QED BY <1>1, <1>2, <1>3 DEF CompareStep

\* What no step of a repair request touches.
LEMMA RepairStepFrame ==
  ASSUME RepairStep \/ \E d \in Dst : RepairRead(d)
  PROVE  UNCHANGED <<phase, diff, notice, gate, scanGate, kind, ops, scan, open, mounted, awake,
                     idle, syncing, unread, vague, unsure>>
  BY DEF RepairStep, RepairRead, RepairInject, RepairTarget, RepairEnd

\* What no step of the scheduler outside a pass touches.
LEMMA SchedStepFrame ==
  ASSUME SchedStep
  PROVE  UNCHANGED <<phase, diff, known, report, notice, gate, scanGate, kind, ops, scan, repair,
                     open, mounted, unread, owed, lapsed, vague, unsure>>
  BY DEF SchedStep, SchedTick, StandbySample, StandbyStep

\* What time and mounts do not touch.
LEMMA PoolStepFrame ==
  ASSUME NEW p, Grace(p) \/ Window(p) \/ Mount(p)
  PROVE  UNCHANGED <<phase, diff, known, pend, report, notice, gate, scanGate, kind, ops, pass,
                     scan, repair, awake, syncing, unread, owed, lapsed, vague>>
  BY DEF Grace, Window, Mount

\* The steps by kind.
LEMMA Steps ==
  ASSUME [Next]_vars
  PROVE  \/ \E s \in Src, ps \in SUBSET Path : Edit(s, ps)
         \/ \E d \in Dst, ps \in SUBSET Path : Tamper(d, ps)
         \/ \E k \in {"sync", "compare", None}, d \in Dst \cup {None} : Cancel(k, d)
         \/ \E s \in Src : Dismiss(s)
         \/ \E d \in Dst, t \in Scanner : CompareStart(t, d)
         \/ \E d \in Dst, t \in Manual, m \in {"manual", "full"} : Request(t, d, m)
         \/ Crash \/ Boot \/ Armed \/ SchedStep
         \/ RepairStep \/ \E d \in Dst : RepairRead(d)
         \/ \E p \in Pool : Grace(p) \/ Window(p) \/ Mount(p)
         \/ \E t \in Thread : PassStep(t)
         \/ \E t \in Scanner : CompareStep(t)
         \/ UNCHANGED vars
  BY DEF Next, EnvStep

-----------------------------------------------------------------------------
(* Type correctness *)

\* Every step keeps the locals of the Compare threads well typed.
LEMMA ScanTypeStep ==
  ASSUME ScanType, kind \in Kind \cup {None}, [Next]_vars
  PROVE  ScanType'
  <1>1. ASSUME NEW s \in Src, NEW ps \in SUBSET Path, Edit(s, ps) PROVE ScanType'
    <2>1. ASSUME NEW u \in Scanner PROVE IsScan(scan'[u])
      <3>1. IsScan(scan[u])
        BY DEF ScanType
      <3>2. ScanBut(u, {"read"}) /\ scan'[u].read \in {scan[u].read, scan[u].read \ ps}
        BY <1>1, EditScanEffect
      <3>3. QED BY <3>1, <3>2 DEF IsScan, ScanBut, ScanFields
    <2>2. QED BY <1>1, <2>1, EditScanEffect DEF ScanType
  <1>2. CASE Crash
    BY <1>2, NoScanIsScan DEF ScanType, Crash
  <1>3. CASE Armed
    <2>1. ASSUME NEW u \in Scanner PROVE IsScan(scan'[u])
      <3>1. IsScan(scan[u]) /\ ScanBut(u, {"fresh"})
        BY <1>3, ArmedScanEffect DEF ScanType
      <3>2. QED BY <3>1 DEF IsScan, ScanBut, ScanFields
    <2>2. QED BY <1>3, <2>1, ArmedScanEffect DEF ScanType
  <1>4. ASSUME NEW d \in Dst, NEW t \in Scanner, CompareStart(t, d) PROVE ScanType'
    <2>1. IsScan(Comparing(d))
      BY ComparingEffect DEF IsScan, NoScan, ScanFields
    <2>2. QED BY <1>4, <2>1, CompareStartEffect DEF ScanType, OnlyScan
  <1>5. ASSUME NEW t \in Scanner, CompareLeaves(t) PROVE ScanType'
    BY <1>5, CompareLeavesEffect, NoScanIsScan DEF ScanType, OnlyScan
  <1>6. ASSUME NEW t \in Scanner, CompareStep(t) PROVE ScanType'
    <2> USE DEF OnlyScan
    <2>1. IsScan(scan[t])
      BY DEF ScanType
    <2>2. CASE CompareCheck(t)
      <3>1. CASE CompareFails(t)
        BY <3>1, <1>5 DEF CompareFails
      <3>2. CASE OnlyScan(t) /\ ScanBut(t, {"pc"}) /\ scan'[t].pc = "register"
        <4>1. IsScan(scan'[t])
          BY <2>1, <3>2 DEF IsScan, ScanBut, ScanFields
        <4>2. QED BY <3>2, <4>1 DEF ScanType
      <3>3. QED BY <2>2, <3>1, <3>2, CompareCheckEffect
    <2>3. CASE CompareRegister(t)
      <3>1. IsScan(scan'[t])
        BY <2>1, <2>3, CompareRegisterEffect DEF IsScan, ScanBut, ScanFields
      <3>2. QED BY <2>3, <3>1, CompareRegisterEffect DEF ScanType
    <2>4. ASSUME NEW p \in Path, CompareRead(t, p) PROVE ScanType'
      <3>1. IsScan(scan'[t])
        BY <2>1, <2>4, CompareReadEffect DEF IsScan, ScanBut, ScanFields
      <3>2. QED BY <2>4, <3>1, CompareReadEffect DEF ScanType
    <2>5. CASE CompareBreak(t)
      BY <2>5, <1>5 DEF CompareBreak, CompareFails
    <2>6. CASE CompareDone(t)
      BY <2>6, <1>5 DEF CompareDone
    <2>7. QED BY <1>6, <2>2, <2>3, <2>4, <2>5, <2>6 DEF CompareStep
  <1>7. CASE UNCHANGED scan
    BY <1>7 DEF ScanType
  <1>8. ASSUME NEW k, NEW d, Cancel(k, d) PROVE UNCHANGED scan
    BY <1>8 DEF Cancel
  <1>9. ASSUME NEW s, Dismiss(s) PROVE UNCHANGED scan
    BY <1>9 DEF Dismiss
  <1>10. ASSUME NEW t, NEW d, NEW m, Request(t, d, m) PROVE UNCHANGED scan
    BY <1>10 DEF Request
  <1>11. ASSUME NEW d, NEW ps, Tamper(d, ps) PROVE UNCHANGED scan
    BY <1>11 DEF Tamper
  <1>12. CASE Boot \/ UNCHANGED vars
    BY <1>7, <1>12 DEF Boot, vars
  <1>13. QED
    BY <1>1, <1>2, <1>3, <1>4, <1>6, <1>7, <1>8, <1>9, <1>10, <1>11, <1>12, Steps,
       PassStepFrame, RepairStepFrame, SchedStepFrame, PoolStepFrame

\* The locks and the kind of the running sync
LockType ==
    /\ phase \in {"down", "arming", "up"}
    /\ gate \in Thread \cup {None} /\ scanGate \in Scanner \cup {None}
    /\ kind \in Kind \cup {None}

\* Every step keeps the locks and the kind well typed.
LEMMA LockTypeStep ==
  ASSUME LockType, PassType, ScanType, [Next]_vars
  PROVE  LockType'
  <1> USE DEF LockType
  <1>1. ASSUME NEW s, NEW ps, Edit(s, ps) PROVE LockType'
    BY <1>1 DEF Edit
  <1>2. ASSUME NEW d, NEW ps, Tamper(d, ps) PROVE LockType'
    BY <1>2 DEF Tamper
  <1>3. ASSUME NEW k, NEW d, Cancel(k, d) PROVE LockType'
    BY <1>3 DEF Cancel
  <1>4. ASSUME NEW s, Dismiss(s) PROVE LockType'
    BY <1>4 DEF Dismiss
  <1>5. ASSUME NEW d \in Dst, NEW t \in Scanner, CompareStart(t, d) PROVE LockType'
    BY <1>5, CompareStartEffect DEF CompareStart
  <1>6. ASSUME NEW d, NEW t, NEW m, Request(t, d, m) PROVE LockType'
    BY <1>6 DEF Request
  <1>7. CASE Crash
    BY <1>7 DEF Crash
  <1>8. CASE Boot
    BY <1>8 DEF Boot
  <1>9. CASE Armed
    BY <1>9 DEF Armed
  <1>10. CASE SchedStep
    BY <1>10, SchedStepFrame
  <1>11. CASE RepairStep \/ \E d \in Dst : RepairRead(d)
    BY <1>11, RepairStepFrame
  <1>12. ASSUME NEW p, Grace(p) \/ Window(p) \/ Mount(p) PROVE LockType'
    BY <1>12, PoolStepFrame
  <1>13. ASSUME NEW t \in Thread, PassStep(t) PROVE LockType'
    <2>1. IsPass(pass[t])
      BY DEF PassType
    <2>2. gate' \in Thread \cup {None} /\ kind' \in Kind \cup {None}
      <3>1. CASE PassLock(t)
        BY <2>1, <3>1 DEF PassLock, IsPass, Kind
      <3>2. CASE PassEnd(t)
        BY <2>1, <3>2 DEF PassEnd, IsPass
      <3>3. CASE UNCHANGED <<gate, kind>>
        BY <3>3
      <3>4. QED BY <1>13, <3>1, <3>2, <3>3, PassStepGate
    <2>3. QED BY <1>13, <2>2, PassStepFrame
  <1>14. ASSUME NEW t \in Scanner, CompareStep(t) PROVE LockType'
    <2>1. IsScan(scan[t])
      BY DEF ScanType
    <2>2. scanGate' \in Scanner \cup {None} /\ kind' \in Kind \cup {None}
      <3>1. CASE CompareFails(t)
        BY <2>1, <3>1 DEF CompareFails, CompareLeaves, IsScan
      <3>2. CASE CompareRegister(t)
        BY <3>2 DEF CompareRegister, Kind
      <3>3. CASE CompareDone(t)
        BY <2>1, <3>3 DEF CompareDone, CompareLeaves, IsScan
      <3>4. CASE UNCHANGED <<scanGate, kind>>
        BY <3>4
      <3>5. QED BY <1>14, <3>1, <3>2, <3>3, <3>4, CompareStepGate
    <2>3. QED BY <1>14, <2>2, CompareStepFrame
  <1>15. CASE UNCHANGED vars
    BY <1>15 DEF vars
  <1>16. QED
    BY <1>1, <1>2, <1>3, <1>4, <1>5, <1>6, <1>7, <1>8, <1>9, <1>10, <1>11, <1>12, <1>13,
       <1>14, <1>15, Steps

\* A stored report names some of what it counted
IsReport(r) ==
    DOMAIN r = {"ok", "sample", "all"} /\ r.sample \subseteq r.all /\ r.all \subseteq Path

ReportType ==
    /\ report = [d \in Dst |-> report[d]]
    /\ \A d \in Dst : report[d] = None \/ IsReport(report[d])
    /\ DOMAIN repair = {"pc", "dst", "rep"}
    /\ repair.pc \in {"idle", "inject", "target", "delete"}
    /\ repair.pc # "idle" => repair.dst \in Dst /\ IsReport(repair.rep)

\* A failed Compare writes the report of its own destination only.
LEMMA CompareFailsReport ==
  ASSUME ReportType, NEW t \in Scanner, CompareFails(t)
  PROVE  /\ report' = [d \in Dst |-> report'[d]]
         /\ \A d \in Dst : report'[d] = report[d] \/ IsReport(report'[d])
  BY DEF CompareFails, ReportType, IsReport

\* So does one that succeeded.
LEMMA CompareDoneReport ==
  ASSUME ReportType, ScanType, NEW t \in Scanner, CompareDone(t)
  PROVE  /\ report' = [d \in Dst |-> report'[d]]
         /\ \A d \in Dst : report'[d] = report[d] \/ IsReport(report'[d])
  <1>1. scan[t].found \subseteq Path
    BY DEF ScanType, IsScan
  <1>2. PICK x \in Samples(scan[t].found) :
          report' = [report EXCEPT ![scan[t].dst] =
                       [ok |-> TRUE, sample |-> x, all |-> scan[t].found]]
    BY DEF CompareDone
  <1>3. x \subseteq scan[t].found
    BY DEF Samples
  <1>4. QED BY <1>1, <1>2, <1>3 DEF ReportType, IsReport

\* Every step keeps the reports and the repair well typed.
LEMMA ReportTypeStep ==
  ASSUME ReportType, ScanType, [Next]_vars
  PROVE  ReportType'
  <1>1. CASE UNCHANGED <<report, repair>>
    BY <1>1 DEF ReportType, IsReport
  <1>2. ASSUME NEW d \in Dst, RepairRead(d) PROVE ReportType'
    BY <1>2 DEF RepairRead, ReportType, IsReport
  <1>3. CASE RepairInject
    BY <1>3 DEF RepairInject, ReportType, IsReport
  <1>4. CASE RepairTarget
    BY <1>4 DEF RepairTarget, ReportType, IsReport
  <1>5. ASSUME NEW t \in Manual, RepairEnd(t) PROVE ReportType'
    BY <1>5 DEF RepairEnd, NoRepair, ReportType, IsReport
  <1>6. CASE Crash
    BY <1>6 DEF Crash, NoRepair, ReportType, IsReport
  <1>7. ASSUME NEW t \in Scanner, CompareStep(t) PROVE ReportType'
    <2>1. ASSUME NEW p, CompareRead(t, p) PROVE UNCHANGED <<report, repair>>
      BY <2>1 DEF CompareRead
    <2>2. CASE CompareRegister(t)
      BY <1>1, <2>2 DEF CompareRegister
    <2>3. CASE CompareCheck(t) \/ CompareBreak(t) \/ CompareDone(t)
      <3>1. UNCHANGED repair
        BY <1>7, CompareStepFrame
      <3>2. CompareFails(t) \/ CompareDone(t) \/ UNCHANGED report
        BY <2>3, CompareCheckEffect DEF CompareBreak
      <3>3. CASE UNCHANGED report
        BY <1>1, <3>1, <3>3
      <3>4. CASE CompareFails(t) \/ CompareDone(t)
        <4>1. /\ report' = [d \in Dst |-> report'[d]]
              /\ \A d \in Dst : report'[d] = report[d] \/ IsReport(report'[d])
          BY <3>4, CompareFailsReport, CompareDoneReport
        <4>2. QED BY <3>1, <4>1 DEF ReportType
      <3>5. QED BY <3>2, <3>3, <3>4
    <2>4. QED BY <1>1, <1>7, <2>1, <2>2, <2>3 DEF CompareStep
  <1>8. ASSUME NEW s, NEW ps, Edit(s, ps) PROVE UNCHANGED <<report, repair>>
    BY <1>8 DEF Edit
  <1>9. ASSUME NEW d, NEW ps, Tamper(d, ps) PROVE UNCHANGED <<report, repair>>
    BY <1>9 DEF Tamper
  <1>10. ASSUME NEW k, NEW d, Cancel(k, d) PROVE UNCHANGED <<report, repair>>
    BY <1>10 DEF Cancel
  <1>11. ASSUME NEW s, Dismiss(s) PROVE UNCHANGED <<report, repair>>
    BY <1>11 DEF Dismiss
  <1>12. ASSUME NEW d, NEW t, CompareStart(t, d) PROVE UNCHANGED <<report, repair>>
    BY <1>12 DEF CompareStart
  <1>13. ASSUME NEW d, NEW t, NEW m, Request(t, d, m) PROVE UNCHANGED <<report, repair>>
    BY <1>13 DEF Request
  <1>14. CASE Boot \/ Armed \/ UNCHANGED vars
    BY <1>1, <1>14 DEF Boot, Armed, vars
  <1>15. CASE RepairStep
    BY <1>3, <1>4, <1>5, <1>15 DEF RepairStep
  <1>16. QED
    BY <1>1, <1>2, <1>6, <1>7, <1>8, <1>9, <1>10, <1>11, <1>12, <1>13, <1>14, <1>15, Steps,
       SchedStepFrame, PoolStepFrame, PassStepFrame

\* A registered operation, and what it is registered for
IsOp(o) ==
    /\ DOMAIN o = {"by", "kind", "scope", "hit"}
    /\ o.by \in Thread \cup Scanner /\ o.scope \subseteq Dst
    /\ o.kind = IF o.by \in Scanner THEN "compare" ELSE "sync"

OpsType == \A o \in ops : IsOp(o)

\* A signal changes nothing but the flag of the token.
LEMMA MarkedEffect ==
  ASSUME NEW o, IsOp(o), NEW k, NEW d
  PROVE  /\ IsOp(Marked(o, k, d)) /\ Marked(o, k, d).by = o.by
         /\ Marked(o, k, d).kind = o.kind /\ Marked(o, k, d).scope = o.scope
  BY DEF Marked, IsOp

\* The steps that take or leave sync_gate.
LEMMA GateFrame ==
  ASSUME [Next]_vars
  PROVE  Crash \/ (\E t \in Thread : PassLock(t) \/ PassEnd(t)) \/ UNCHANGED gate
  <1>1. ASSUME NEW s, NEW ps, Edit(s, ps) PROVE UNCHANGED gate
    BY <1>1 DEF Edit
  <1>2. ASSUME NEW d, NEW ps, Tamper(d, ps) PROVE UNCHANGED gate
    BY <1>2 DEF Tamper
  <1>3. ASSUME NEW k, NEW d, Cancel(k, d) PROVE UNCHANGED gate
    BY <1>3 DEF Cancel
  <1>4. ASSUME NEW s, Dismiss(s) PROVE UNCHANGED gate
    BY <1>4 DEF Dismiss
  <1>5. ASSUME NEW d, NEW t, CompareStart(t, d) PROVE UNCHANGED gate
    BY <1>5 DEF CompareStart
  <1>6. ASSUME NEW d, NEW t, NEW m, Request(t, d, m) PROVE UNCHANGED gate
    BY <1>6 DEF Request
  <1>7. CASE Boot \/ Armed \/ UNCHANGED vars
    BY <1>7 DEF Boot, Armed, vars
  <1>8. QED
    BY <1>1, <1>2, <1>3, <1>4, <1>5, <1>6, <1>7, Steps, PassStepGate, CompareStepFrame,
       RepairStepFrame, SchedStepFrame, PoolStepFrame

\* The steps that touch the cancel registry.
LEMMA OpsFrame ==
  ASSUME ScanType, [Next]_vars
  PROVE  \/ \E k \in {"sync", "compare", None}, d \in Dst \cup {None} : Cancel(k, d)
         \/ Crash
         \/ \E t \in Thread : \/ PassLock(t) \/ PassEnd(t) \/ CycleEnd(t)
                              \/ \E s \in Src, m \in Mode : CycleStart(t, s, m)
         \/ \E t \in Scanner : CompareRegister(t)
         \/ \E t \in Scanner : CompareStep(t) /\ (CompareFails(t) \/ CompareDone(t))
         \/ UNCHANGED ops
  <1>1. ASSUME NEW s, NEW ps, Edit(s, ps) PROVE UNCHANGED ops
    BY <1>1 DEF Edit
  <1>2. ASSUME NEW d, NEW ps, Tamper(d, ps) PROVE UNCHANGED ops
    BY <1>2 DEF Tamper
  <1>3. ASSUME NEW s, Dismiss(s) PROVE UNCHANGED ops
    BY <1>3 DEF Dismiss
  <1>4. ASSUME NEW d, NEW t, CompareStart(t, d) PROVE UNCHANGED ops
    BY <1>4 DEF CompareStart
  <1>5. ASSUME NEW d, NEW t, NEW m, Request(t, d, m) PROVE UNCHANGED ops
    BY <1>5 DEF Request
  <1>6. CASE Boot \/ Armed \/ UNCHANGED vars
    BY <1>6 DEF Boot, Armed, vars
  <1>7. ASSUME NEW t \in Thread, PassStep(t)
        PROVE  \/ PassLock(t) \/ PassEnd(t) \/ CycleEnd(t)
               \/ \E s \in Src, m \in Mode : CycleStart(t, s, m)
               \/ UNCHANGED ops
    <2>1. CASE WriteDone(t) \/ WriteFails(t) \/ PassAgain(t)
      BY <2>1 DEF WriteDone, WriteFails, PassAgain
    <2>2. ASSUME NEW d, GateOne(t, d) \/ GateFails(t, d) \/ GateFar(t, d) \/ WriteStart(t, d) PROVE UNCHANGED ops
      BY <2>2 DEF GateOne, GateFails, GateFar, Gated, WriteStart
    <2>3. QED BY <1>7, <2>1, <2>2 DEF PassStep
  <1>8. QED
    BY <1>1, <1>2, <1>3, <1>4, <1>5, <1>6, <1>7, Steps, CompareStepGate, RepairStepFrame,
       SchedStepFrame, PoolStepFrame

\* Every step keeps the registered operations well typed.
LEMMA OpsTypeStep ==
  ASSUME ActivitiesAssumption, OpsType, ScanType,
         \A t \in Scanner : scan[t].pc # "idle" => scan[t].dst \in Dst, [Next]_vars
  PROVE  OpsType'
  <1>1. ASSUME NEW k, NEW d, Cancel(k, d) PROVE OpsType'
    BY <1>1, MarkedEffect DEF Cancel, Signalled, OpsType
  <1>2. CASE Crash
    BY <1>2 DEF Crash, OpsType
  <1>3. ASSUME NEW t \in Thread, PassLock(t) PROVE OpsType'
    BY <1>3 DEF PassLock, OpsType, IsOp, Op, Thread, ActivitiesAssumption
  <1>4. ASSUME NEW t \in Thread, NEW s, NEW m, CycleStart(t, s, m) PROVE OpsType'
    BY <1>4 DEF CycleStart, OpsType, IsOp, Op, Of, Thread, ActivitiesAssumption
  <1>5. ASSUME NEW t, PassEnd(t) \/ CycleEnd(t) PROVE OpsType'
    BY <1>5 DEF PassEnd, CycleEnd, Dropped, OpsType
  <1>6. ASSUME NEW t \in Scanner, CompareRegister(t) PROVE OpsType'
    BY <1>6 DEF CompareRegister, OpsType, IsOp, Op
  <1>7. ASSUME NEW t, CompareFails(t) \/ CompareDone(t) PROVE OpsType'
    BY <1>7 DEF CompareFails, CompareDone, CompareLeaves, Dropped, OpsType
  <1>8. CASE UNCHANGED ops
    BY <1>8 DEF OpsType
  <1>9. QED BY <1>1, <1>2, <1>3, <1>4, <1>5, <1>6, <1>7, <1>8, OpsFrame

-----------------------------------------------------------------------------
(* What the locals of a thread say about each other *)

Working == {"gate", "write"}

AtWork(t, r) ==
    /\ r.pc \notin Working => r.src = None /\ r.left = {} /\ r.ready = {} /\ r.dst = None
    /\ r.pc \in Working => /\ r.src \in Src /\ r.mode \in Mode
                           /\ r.left \subseteq Of(r.src) /\ r.ready \subseteq Of(r.src)
                           /\ r.dst \in Of(r.src) \cup {None}
    /\ r.pc = "write" => r.dst # None /\ r.left = {} /\ r.dst \notin r.ready
    /\ r.pc # "write" => r.dst = None
    /\ r.pc \in {"sample", "standby"} => t = "sched"

Locals == \A t \in Thread : AtWork(t, pass[t])

\* A thread at rest is consistent.
LEMMA RestingAtWork == ASSUME NEW t PROVE AtWork(t, Resting)
  BY DEF AtWork, Resting, Working

\* A thread that waits for sync_gate is consistent.
LEMMA WaitingAtWork == ASSUME NEW t, NEW k \in Kind PROVE AtWork(t, Waiting(k))
  BY WaitingIsPass DEF AtWork, Working, PassFields, Resting

\* A superseded target leaves the pass that held it consistent.
LEMMA WithoutAtWork ==
  ASSUME NEW t, NEW r, IsPass(r), AtWork(t, r), NEW d PROVE AtWork(t, Without(r, d))
  BY WithoutEffect DEF IsPass, AtWork, PassFields

\* Every step keeps the locals of the pass threads consistent.
LEMMA LocalsStep ==
  ASSUME ActivitiesAssumption, PassType, Locals, [Next]_vars
  PROVE  Locals'
  <1>0. \A t \in Thread : IsPass(pass[t]) /\ AtWork(t, pass[t])
    BY DEF PassType, Locals
  <1>1. ASSUME NEW s \in Src, NEW ps \in SUBSET Path, Edit(s, ps) PROVE Locals'
    BY <1>0, <1>1, EditEffect DEF Locals, AtWork, But, PassFields
  <1>2. CASE Crash
    BY <1>2, RestingAtWork DEF Locals, Crash
  <1>3. CASE Armed
    BY <1>0, <1>3, ArmedEffect DEF Locals, AtWork, But, PassFields
  <1>4. ASSUME NEW d \in Dst, NEW t \in Manual, NEW m \in {"manual", "full"}, Request(t, d, m)
        PROVE  Locals'
    <2>1. PICK k \in Kind : pass'[t] = Waiting(k)
      BY <1>4, RequestEffect
    <2>2. AtWork(t, pass'[t])
      BY <2>1, WaitingAtWork
    <2>3. QED BY <1>0, <1>4, <2>2, RequestEffect, WithoutAtWork DEF Locals
  <1>5. CASE RepairTarget
    BY <1>0, <1>5, RepairTargetEffect, WithoutAtWork DEF Locals
  <1>6. ASSUME NEW t \in Manual, RepairEnd(t) PROVE Locals'
    BY <1>0, <1>6, RepairEndEffect, WaitingAtWork DEF Locals, Only, Kind
  <1>7. CASE SchedTick
    <2>1. AtWork("sched", pass'["sched"])
      BY <1>0, <1>7, SchedTickEffect DEF SchedTick, AtWork, But, PassFields, Working
    <2>2. QED BY <1>0, <1>7, <2>1, SchedTickEffect DEF Locals, Only
  <1>8. CASE StandbySample
    <2>1. AtWork("sched", pass'["sched"])
      BY <1>0, <1>8, StandbySampleEffect DEF StandbySample, AtWork, But, PassFields, Working
    <2>2. QED BY <1>0, <1>8, <2>1, StandbySampleEffect DEF Locals, Only
  <1>9. CASE StandbyStep
    BY <1>0, <1>9, StandbyStepEffect, RestingAtWork DEF Locals, Only
  <1>10. ASSUME NEW t \in Thread, PassStep(t) PROVE Locals'
    <2>1. SUFFICES Only(t) /\ AtWork(t, pass'[t])
      BY <1>0 DEF Locals, Only
    <2>2. IsPass(pass[t]) /\ AtWork(t, pass[t])
      BY <1>0
    <2> USE DEF AtWork, Working, PassFields
    <2>3. CASE PassLock(t)
      BY <2>2, <2>3, PassLockEffect DEF PassLock, But
    <2>4. ASSUME NEW s \in Src, NEW m \in Mode, CycleStart(t, s, m)
          PROVE  Only(t) /\ AtWork(t, pass'[t])
      <3>1. pass[t].pc = "loop"
        BY <2>4 DEF CycleStart
      <3>2. pass[t].dst = None /\ pass[t].ready = {} /\ Targeted(s, m) \subseteq Of(s)
        BY <2>2, <3>1 DEF Targeted
      <3>3. pass'[t].dst = None /\ pass'[t].ready = {}
        BY <2>4, <3>2, CycleStartEffect DEF But
      <3>4. QED BY <2>4, <3>2, <3>3, CycleStartEffect
    <2>5. ASSUME NEW d \in Dst, GateOne(t, d) \/ GateFails(t, d) \/ GateFar(t, d)
          PROVE  Only(t) /\ AtWork(t, pass'[t])
      <3>1. PICK blocked, refused, blind : Gated(t, d, blocked, refused, blind)
        BY <2>5 DEF GateOne, GateFails, GateFar
      <3>2. pass[t].pc = "gate" /\ d \in pass[t].left
        BY <3>1 DEF Gated
      <3>3. /\ Only(t) /\ But(t, {"left", "blk", "ready"})
            /\ pass'[t].left = pass[t].left \ {d}
            /\ pass'[t].ready \in {pass[t].ready, pass[t].ready \cup {d}}
        BY <3>1, GatedEffect
      <3>4. QED BY <2>2, <3>2, <3>3 DEF But
    <2>6. ASSUME NEW d \in Dst, WriteStart(t, d) PROVE Only(t) /\ AtWork(t, pass'[t])
      <3>1. pass[t].pc = "gate" /\ pass[t].left = {} /\ d \in pass[t].ready /\ d # None
        BY <2>6 DEF WriteStart, ActivitiesAssumption
      <3>2. /\ Only(t) /\ pass'[t].src = pass[t].src /\ pass'[t].mode = pass[t].mode
            /\ pass'[t].left = {} /\ pass'[t].ready = pass[t].ready \ {d}
            /\ pass'[t].dst = d /\ pass'[t].pc = "write"
        BY <2>6, <3>1, WriteStartEffect DEF But
      <3>3. QED BY <2>2, <3>1, <3>2
    <2>7. CASE WriteDone(t) \/ WriteFails(t)
      <3>1. pass[t].pc = "write"
        BY <2>7 DEF WriteDone, WriteFails
      <3>2. /\ Only(t) /\ pass'[t].src = pass[t].src /\ pass'[t].mode = pass[t].mode
            /\ pass'[t].left = pass[t].left /\ pass'[t].ready = pass[t].ready
            /\ pass'[t].dst = None /\ pass'[t].pc = "gate"
        BY <2>7, WriteDoneEffect, WriteFailsEffect DEF But
      <3>3. QED BY <2>2, <3>1, <3>2
    <2>9. CASE CycleEnd(t)
      BY <2>2, <2>9, CycleEndEffect DEF Resting
    <2>10. CASE PassAgain(t)
      BY <2>2, <2>10, PassAgainEffect DEF But
    <2>11. CASE PassEnd(t)
      <3>1. pass'[t] = [Resting EXCEPT !.pc = IF t = "sched" THEN "sample" ELSE "idle"]
        BY <2>11, PassEndEffect
      <3>2. /\ pass'[t].pc = IF t = "sched" THEN "sample" ELSE "idle"
            /\ pass'[t].src = None /\ pass'[t].left = {} /\ pass'[t].ready = {}
            /\ pass'[t].dst = None
        BY <3>1 DEF Resting
      <3>3. QED BY <2>11, <3>2, PassEndEffect
    <2>12. QED
      BY <1>10, <2>3, <2>4, <2>5, <2>6, <2>7, <2>9, <2>10, <2>11 DEF PassStep
  <1>11. CASE UNCHANGED pass
    BY <1>11 DEF Locals
  <1>12. QED
    BY <1>1, <1>2, <1>3, <1>4, <1>5, <1>6, <1>7, <1>8, <1>9, <1>10, <1>11, PassFrame
       DEF PassMoves

-----------------------------------------------------------------------------
(* The locks: a thread inside a pass or a Compare holds its gate *)

Inside == {"loop", "gate", "write"}

PassGate == \A t \in Thread : pass[t].pc \in Inside <=> gate = t

ScanGate ==
    \A t \in Scanner : /\ scan[t].pc # "idle" <=> scanGate = t
                       /\ scan[t].pc # "idle" => scan[t].dst \in Dst
                       /\ scan[t].pc = "idle" => scan[t].dst = None

\* Every step keeps the holder of sync_gate the one thread inside a pass.
LEMMA PassGateStep ==
  ASSUME ActivitiesAssumption, PassType, Locals, PassGate, [Next]_vars
  PROVE  PassGate'
  <1>0. DEFINE Same(u) == pass'[u].pc \in Inside <=> pass[u].pc \in Inside
  <1> USE DEF PassGate, Inside
  <1>1. ASSUME NEW s \in Src, NEW ps \in SUBSET Path, Edit(s, ps) PROVE \A u \in Thread : Same(u)
    BY <1>1, EditEffect DEF But, PassFields
  <1>2. CASE Crash
    BY <1>2 DEF Crash, Resting, Thread, ActivitiesAssumption
  <1>3. ASSUME Armed PROVE \A u \in Thread : Same(u)
    BY <1>3, ArmedEffect DEF But, PassFields
  <1>4. ASSUME NEW d \in Dst, NEW t \in Manual, NEW m \in {"manual", "full"}, Request(t, d, m)
        PROVE  \A u \in Thread : Same(u)
    <2>1. pass[t].pc = "idle"
      BY <1>4 DEF Request
    <2>2. pass'[t].pc = "wait"
      BY <1>4, RequestEffect, WaitingIsPass
    <2>3. ASSUME NEW u \in Thread \ {t} PROVE pass'[u].pc = pass[u].pc
      <3>1. DOMAIN pass[u] = PassFields /\ pass'[u] = Without(pass[u], d)
        BY <1>4, RequestEffect DEF PassType, IsPass
      <3>2. QED BY <3>1, WithoutKeeps
    <2>4. QED BY <2>1, <2>2, <2>3
  <1>5. ASSUME RepairTarget, NEW u \in Thread PROVE Same(u)
    <2>1. DOMAIN pass[u] = PassFields /\ pass'[u] = Without(pass[u], repair.dst)
      BY <1>5, RepairTargetEffect DEF PassType, IsPass
    <2>2. QED BY <2>1, WithoutKeeps
  <1>6. ASSUME NEW t \in Manual, RepairEnd(t) PROVE \A u \in Thread : Same(u)
    BY <1>6, RepairEndEffect, WaitingIsPass DEF RepairEnd, Only, Kind
  <1>7. CASE SchedTick
    BY <1>7, SchedTickEffect DEF SchedTick, Only
  <1>8. CASE StandbySample
    BY <1>8, StandbySampleEffect DEF StandbySample, Only
  <1>9. CASE StandbyStep
    BY <1>9, StandbyStepEffect DEF StandbyStep, Only, Resting
  <1>10. ASSUME NEW t \in Thread, PassLock(t) PROVE PassGate'
    <2>1. gate = None /\ gate' = t /\ t # None
      BY <1>10 DEF PassLock, Thread, ActivitiesAssumption
    <2>2. QED BY <1>10, <2>1, PassLockEffect DEF Only, Thread, ActivitiesAssumption
  <1>11. ASSUME NEW t \in Thread, PassEnd(t) PROVE PassGate'
    <2>1. gate = t /\ gate' = None
      BY <1>11 DEF PassEnd
    <2>2. pass'[t].pc \in {"sample", "idle"}
      <3>1. pass'[t] = [Resting EXCEPT !.pc = IF t = "sched" THEN "sample" ELSE "idle"]
        BY <1>11, PassEndEffect
      <3>2. QED BY <3>1 DEF Resting
    <2>3. QED BY <1>11, <2>1, <2>2, PassEndEffect DEF Only, Thread, ActivitiesAssumption
  <1>12. ASSUME NEW t \in Thread, PassStep(t), ~PassLock(t), ~PassEnd(t)
         PROVE  \A u \in Thread : Same(u)
    <2>1. SUFFICES Only(t) /\ Same(t)
      BY DEF Only
    <2>2. ASSUME NEW s \in Src, NEW m \in Mode, CycleStart(t, s, m) PROVE Only(t) /\ Same(t)
      BY <2>2, CycleStartEffect DEF CycleStart
    <2>3. ASSUME NEW d \in Dst, GateOne(t, d) \/ GateFails(t, d) \/ GateFar(t, d) PROVE Only(t) /\ Same(t)
      <3>1. PICK blocked, refused, blind : Gated(t, d, blocked, refused, blind)
        BY <2>3 DEF GateOne, GateFails, GateFar
      <3>2. Only(t) /\ But(t, {"left", "blk", "ready"})
        BY <3>1, GatedEffect
      <3>3. QED BY <3>2 DEF But, PassFields
    <2>4. ASSUME NEW d \in Dst, WriteStart(t, d) PROVE Only(t) /\ Same(t)
      BY <2>4, WriteStartEffect DEF WriteStart
    <2>5. CASE WriteDone(t)
      BY <2>5, WriteDoneEffect DEF WriteDone
    <2>6. CASE WriteFails(t)
      BY <2>6, WriteFailsEffect DEF WriteFails
    <2>7. CASE CycleEnd(t)
      BY <2>7, CycleEndEffect DEF CycleEnd
    <2>8. CASE PassAgain(t)
      BY <2>8, PassAgainEffect DEF But, PassFields
    <2>9. QED BY <1>12, <2>2, <2>3, <2>4, <2>5, <2>6, <2>7, <2>8 DEF PassStep
  <1>13. ASSUME UNCHANGED pass PROVE \A u \in Thread : Same(u)
    BY <1>13
  <1>14. CASE (\A u \in Thread : Same(u)) /\ UNCHANGED gate
    BY <1>14
  <1> HIDE DEF Same
  <1>15. (\A u \in Thread : Same(u)) \/ PassGate'
    BY <1>1, <1>2, <1>3, <1>4, <1>5, <1>6, <1>7, <1>8, <1>9, <1>10, <1>11, <1>12, <1>13,
       PassFrame DEF PassMoves
  <1>16. UNCHANGED gate \/ PassGate'
    BY <1>2, <1>10, <1>11, GateFrame
  <1>17. QED BY <1>14, <1>15, <1>16

\* The steps that touch the locals of the Compare threads.
LEMMA ScanFrame ==
  ASSUME [Next]_vars
  PROVE  \/ \E s \in Src, ps \in SUBSET Path : Edit(s, ps)
         \/ Crash \/ Armed
         \/ \E d \in Dst, t \in Scanner : CompareStart(t, d)
         \/ \E t \in Scanner : CompareStep(t)
         \/ UNCHANGED <<scan, scanGate>>
  <1>1. ASSUME NEW d, NEW ps, Tamper(d, ps) PROVE UNCHANGED <<scan, scanGate>>
    BY <1>1 DEF Tamper
  <1>2. ASSUME NEW k, NEW d, Cancel(k, d) PROVE UNCHANGED <<scan, scanGate>>
    BY <1>2 DEF Cancel
  <1>3. ASSUME NEW s, Dismiss(s) PROVE UNCHANGED <<scan, scanGate>>
    BY <1>3 DEF Dismiss
  <1>4. ASSUME NEW d, NEW t, NEW m, Request(t, d, m) PROVE UNCHANGED <<scan, scanGate>>
    BY <1>4 DEF Request
  <1>5. CASE Boot \/ UNCHANGED vars
    BY <1>5 DEF Boot, vars
  <1>6. QED
    BY <1>1, <1>2, <1>3, <1>4, <1>5, Steps, PassStepFrame, RepairStepFrame, SchedStepFrame,
       PoolStepFrame

\* Every step keeps the holder of scan_gate the one thread inside a Compare.
LEMMA ScanGateStep ==
  ASSUME ActivitiesAssumption, ScanType, ScanGate, [Next]_vars
  PROVE  ScanGate'
  <1>1. ASSUME NEW s \in Src, NEW ps \in SUBSET Path, Edit(s, ps) PROVE ScanGate'
    <2>1. \A u \in Scanner : scan'[u].pc = scan[u].pc /\ scan'[u].dst = scan[u].dst
      BY <1>1, EditScanEffect DEF ScanBut, ScanFields
    <2>2. UNCHANGED scanGate
      BY <1>1 DEF Edit
    <2>3. QED BY <2>1, <2>2 DEF ScanGate
  <1>2. CASE Crash
    BY <1>2 DEF Crash, ScanGate, NoScan, ActivitiesAssumption
  <1>3. CASE Armed
    <2>1. \A u \in Scanner : scan'[u].pc = scan[u].pc /\ scan'[u].dst = scan[u].dst
      BY <1>3, ArmedScanEffect DEF ScanBut, ScanFields
    <2>2. UNCHANGED scanGate
      BY <1>3 DEF Armed
    <2>3. QED BY <2>1, <2>2 DEF ScanGate
  <1>4. ASSUME NEW d \in Dst, NEW t \in Scanner, CompareStart(t, d) PROVE ScanGate'
    <2>1. Comparing(d).pc = "check" /\ Comparing(d).dst = d
      BY ComparingEffect
    <2>2. QED BY <1>4, <2>1, CompareStartEffect DEF ScanGate, OnlyScan, ActivitiesAssumption
  <1>5. ASSUME NEW t \in Scanner, CompareLeaves(t), scan[t].pc # "idle" PROVE ScanGate'
    <2>1. scanGate = t /\ scanGate' = None
      BY <1>5 DEF CompareLeaves, ScanGate
    <2>2. QED
      BY <1>5, <2>1, CompareLeavesEffect DEF ScanGate, OnlyScan, NoScan, ActivitiesAssumption
  <1>6. ASSUME NEW t \in Scanner, OnlyScan(t), scan[t].pc # "idle", scan'[t].pc # "idle",
               scan'[t].dst = scan[t].dst, UNCHANGED scanGate
        PROVE  ScanGate'
    BY <1>6 DEF ScanGate, OnlyScan
  <1>7. ASSUME NEW t \in Scanner, CompareStep(t) PROVE ScanGate'
    <2>1. CASE CompareCheck(t)
      <3>1. scan[t].pc = "check"
        BY <2>1 DEF CompareCheck
      <3>2. CASE CompareFails(t)
        BY <1>5, <3>1, <3>2 DEF CompareFails
      <3>3. CASE UNCHANGED scanGate /\ OnlyScan(t) /\ ScanBut(t, {"pc"}) /\ scan'[t].pc = "register"
        BY <1>6, <3>1, <3>3 DEF ScanBut, ScanFields
      <3>4. QED BY <2>1, <3>2, <3>3, CompareCheckEffect
    <2>2. CASE CompareRegister(t)
      <3>1. scan[t].pc = "register" /\ UNCHANGED scanGate
        BY <2>2 DEF CompareRegister
      <3>2. QED BY <1>6, <2>2, <3>1, CompareRegisterEffect DEF ScanBut, ScanFields
    <2>3. ASSUME NEW p \in Path, CompareRead(t, p) PROVE ScanGate'
      <3>1. scan[t].pc = "read" /\ UNCHANGED scanGate
        BY <2>3 DEF CompareRead
      <3>2. QED BY <1>6, <2>3, <3>1, CompareReadEffect DEF ScanBut, ScanFields
    <2>4. CASE CompareBreak(t)
      BY <1>5, <2>4 DEF CompareBreak, CompareFails
    <2>5. CASE CompareDone(t)
      BY <1>5, <2>5 DEF CompareDone
    <2>6. QED BY <1>7, <2>1, <2>2, <2>3, <2>4, <2>5 DEF CompareStep
  <1>8. CASE UNCHANGED <<scan, scanGate>>
    BY <1>8 DEF ScanGate
  <1>9. QED BY <1>1, <1>2, <1>3, <1>4, <1>7, <1>8, ScanFrame

-----------------------------------------------------------------------------
(* The differences, the targets and the pools *)

DataType ==
    /\ diff \in [Dst -> SUBSET Path] /\ known \in [Dst -> SUBSET Path]
    /\ owed \in [Dst -> SUBSET Path] /\ unread \in [Src -> SUBSET Path]
    /\ lapsed \in [Dst -> SUBSET Path]
    /\ pend \in [Dst -> Mode \cup {"none"}] /\ notice \subseteq Src

PoolType ==
    /\ open \subseteq Pool /\ mounted \subseteq Pool
    /\ awake \in [Pool -> {"unknown", "yes", "no"}] /\ idle \in [Pool -> 0..2]

\* The steps that touch the differences and the targets.
LEMMA PassStepData ==
  ASSUME NEW t, PassStep(t)
  PROVE  WriteDone(t) \/ WriteFails(t) \/ UNCHANGED <<diff, known, pend, owed, lapsed, unread>>
  <1>1. CASE PassLock(t) \/ PassAgain(t) \/ PassEnd(t)
    BY <1>1 DEF PassLock, PassAgain, PassEnd
  <1>2. CASE CycleEnd(t)
    BY <1>2 DEF CycleEnd
  <1>3. ASSUME NEW s, NEW m, CycleStart(t, s, m)
        PROVE  UNCHANGED <<diff, known, pend, owed, lapsed, unread>>
    BY <1>3 DEF CycleStart
  <1>4. ASSUME NEW d, GateOne(t, d) \/ GateFails(t, d) \/ GateFar(t, d) \/ WriteStart(t, d)
        PROVE  UNCHANGED <<diff, known, pend, owed, lapsed, unread>>
    BY <1>4 DEF GateOne, GateFails, GateFar, Gated, WriteStart
  <1>5. QED BY <1>1, <1>2, <1>3, <1>4 DEF PassStep

\* Only the end of a successful Compare changes a notice.
LEMMA CompareStepData ==
  ASSUME NEW t \in Scanner, CompareStep(t)
  PROVE  CompareDone(t) \/ UNCHANGED <<notice, unread, vague>>
  <1>1. CASE CompareCheck(t)
    BY <1>1 DEF CompareCheck
  <1>2. CASE CompareRegister(t) \/ CompareBreak(t)
    BY <1>2 DEF CompareRegister, CompareBreak
  <1>3. ASSUME NEW p, CompareRead(t, p) PROVE UNCHANGED <<notice, unread, vague>>
    BY <1>3 DEF CompareRead
  <1>4. QED BY <1>1, <1>2, <1>3 DEF CompareStep

\* Only the end of a cycle changes a notice on behalf of a pass.
LEMMA PassStepNotice ==
  ASSUME NEW t, PassStep(t)
  PROVE  CycleEnd(t) \/ UNCHANGED <<notice, vague>>
  <1>1. CASE PassLock(t) \/ PassAgain(t) \/ PassEnd(t)
    BY <1>1 DEF PassLock, PassAgain, PassEnd
  <1>2. CASE WriteDone(t) \/ WriteFails(t)
    BY <1>2 DEF WriteDone, WriteFails
  <1>3. ASSUME NEW s, NEW m, CycleStart(t, s, m) PROVE UNCHANGED <<notice, vague>>
    BY <1>3 DEF CycleStart
  <1>4. ASSUME NEW d, GateOne(t, d) \/ GateFails(t, d) \/ GateFar(t, d) \/ WriteStart(t, d)
        PROVE  UNCHANGED <<notice, vague>>
    BY <1>4 DEF GateOne, GateFails, GateFar, Gated, WriteStart
  <1>5. QED BY <1>1, <1>2, <1>3, <1>4 DEF PassStep

\* Every step keeps the differences, targets and notices well typed.
LEMMA DataTypeStep ==
  ASSUME ActivitiesAssumption, DataType, PassType, ScanType, ReportType, Locals, [Next]_vars
  PROVE  DataType'
  <1> USE DEF DataType
  <1>1. ASSUME NEW s \in Src, NEW ps \in SUBSET Path, Edit(s, ps) PROVE DataType'
    BY <1>1 DEF Edit
  <1>2. ASSUME NEW d, NEW ps \in SUBSET Path, Tamper(d, ps) PROVE DataType'
    BY <1>2 DEF Tamper
  <1>3. ASSUME NEW k, NEW d, Cancel(k, d) PROVE DataType'
    BY <1>3 DEF Cancel
  <1>4. ASSUME NEW s, Dismiss(s) PROVE DataType'
    BY <1>4 DEF Dismiss
  <1>5. ASSUME NEW d, NEW t, CompareStart(t, d) PROVE DataType'
    BY <1>5 DEF CompareStart
  <1>6. ASSUME NEW d \in Dst, NEW t, NEW m \in {"manual", "full"}, Request(t, d, m) PROVE DataType'
    <2>1. Overruled(d, m) \subseteq Path
      BY DEF Overruled
    <2>2. lapsed' \in [Dst -> SUBSET Path]
      BY <1>6, <2>1 DEF Request
    <2>3. QED BY <1>6, <2>2 DEF Request, Mode
  <1>7. CASE Crash
    BY <1>7 DEF Crash
  <1>8. CASE Boot
    BY <1>8 DEF Boot
  <1>9. CASE Armed
    BY <1>9 DEF Armed
  <1>10. CASE SchedTick
    BY <1>10 DEF SchedTick, Mode
  <1>11. CASE StandbySample \/ StandbyStep
    BY <1>11 DEF StandbySample, StandbyStep
  <1>12. ASSUME NEW d, RepairRead(d) PROVE DataType'
    BY <1>12 DEF RepairRead
  <1>13. CASE RepairInject
    <2>1. repair.rep.sample \subseteq Path /\ Found \subseteq Path
      BY <1>13 DEF RepairInject, ReportType, IsReport, Found
    <2>2. QED BY <1>13, <2>1 DEF RepairInject
  <1>14. CASE RepairTarget
    <2>1. Found \subseteq Path
      BY <1>14 DEF RepairTarget, ReportType, IsReport, Found
    <2>2. pend' \in [Dst -> Mode \cup {"none"}]
      BY <1>14 DEF RepairTarget, Mode
    <2>3. owed' \in [Dst -> SUBSET Path]
      BY <1>14, <2>1 DEF RepairTarget
    <2>4. Overruled(repair.dst, "manual") \subseteq Path
      BY <1>14 DEF RepairTarget, ReportType, Overruled
    <2>5. lapsed' \in [Dst -> SUBSET Path]
      BY <1>14, <2>4 DEF RepairTarget
    <2>6. QED BY <1>14, <2>2, <2>3, <2>5 DEF RepairTarget
  <1>15. ASSUME NEW t, RepairEnd(t) PROVE DataType'
    BY <1>15 DEF RepairEnd
  <1>16. ASSUME NEW p, Grace(p) \/ Window(p) \/ Mount(p) PROVE DataType'
    BY <1>16, PoolStepFrame
  <1>17. ASSUME NEW t \in Thread, PassStep(t) PROVE DataType'
    <2>1. notice' \subseteq Src
      <3>1. CASE CycleEnd(t)
        BY <3>1 DEF CycleEnd, NoticeAfter
      <3>2. QED BY <1>17, <3>1, PassStepNotice
    <2>2. CASE WriteDone(t)
      <3>1. diff' \in [Dst -> SUBSET Path] /\ known' \in [Dst -> SUBSET Path]
            /\ owed' \in [Dst -> SUBSET Path] /\ lapsed' \in [Dst -> SUBSET Path]
        BY <2>2 DEF WriteDone
      <3>2. pend' \in [Dst -> Mode \cup {"none"}]
        BY <2>2 DEF WriteDone
      <3>3. unread' \in [Src -> SUBSET Path]
        BY <2>2 DEF WriteDone
      <3>4. QED BY <2>1, <3>1, <3>2, <3>3
    <2>3. CASE WriteFails(t)
      <3>1. CASE Hit(t, TRUE)
        <4>1. pend' \in [Dst -> Mode \cup {"none"}]
          BY <2>3, <3>1 DEF WriteFails
        <4>2. lapsed' = [lapsed EXCEPT ![pass[t].dst] = @ \cup Overruled(pass[t].dst, "none")]
          BY <2>3, <3>1 DEF WriteFails
        <4>3. pass[t].dst \in Dst => Overruled(pass[t].dst, "none") \subseteq Path
          BY DEF Overruled
        <4>4. lapsed' \in [Dst -> SUBSET Path]
          BY <4>2, <4>3
        <4>5. QED BY <2>1, <2>3, <4>1, <4>4 DEF WriteFails
      <3>2. CASE ~Hit(t, TRUE)
        <4>1. UNCHANGED <<pend, lapsed>>
          BY <2>3, <3>2 DEF WriteFails
        <4>2. QED BY <2>1, <2>3, <4>1 DEF WriteFails
      <3>3. QED BY <3>1, <3>2
    <2>4. QED BY <1>17, <2>1, <2>2, <2>3, PassStepData
  <1>18. ASSUME NEW t \in Scanner, CompareStep(t) PROVE DataType'
    <2>1. notice' \subseteq Src /\ unread' \in [Src -> SUBSET Path]
      <3>1. CASE CompareDone(t)
        BY <3>1 DEF CompareDone, NoticeAfter
      <3>2. QED BY <1>18, <3>1, CompareStepData
    <2>2. QED BY <1>18, <2>1, CompareStepFrame
  <1>19. CASE UNCHANGED vars
    BY <1>19 DEF vars
  <1>20. QED
    BY <1>1, <1>2, <1>3, <1>4, <1>5, <1>6, <1>7, <1>8, <1>9, <1>10, <1>11, <1>12, <1>13,
       <1>14, <1>15, <1>16, <1>17, <1>18, <1>19, Steps DEF SchedStep, RepairStep

\* Every step keeps the pools well typed.
LEMMA PoolTypeStep ==
  ASSUME PoolType, [Next]_vars
  PROVE  PoolType'
  <1> USE DEF PoolType
  <1>1. ASSUME NEW s, NEW ps, Edit(s, ps) PROVE PoolType'
    BY <1>1 DEF Edit
  <1>2. ASSUME NEW d, NEW ps, Tamper(d, ps) PROVE PoolType'
    BY <1>2 DEF Tamper
  <1>3. ASSUME NEW k, NEW d, Cancel(k, d) PROVE PoolType'
    BY <1>3 DEF Cancel
  <1>4. ASSUME NEW s, Dismiss(s) PROVE PoolType'
    BY <1>4 DEF Dismiss
  <1>5. ASSUME NEW d, NEW t, CompareStart(t, d) PROVE PoolType'
    BY <1>5 DEF CompareStart
  <1>6. ASSUME NEW d, NEW t, NEW m, Request(t, d, m) PROVE PoolType'
    BY <1>6 DEF Request
  <1>7. CASE Crash
    BY <1>7 DEF Crash
  <1>8. CASE Boot
    BY <1>8 DEF Boot
  <1>9. CASE Armed
    BY <1>9 DEF Armed
  <1>10. CASE SchedTick \/ StandbySample
    BY <1>10 DEF SchedTick, StandbySample
  <1>11. CASE StandbyStep
    <2>1. awake' \in [Pool -> {"unknown", "yes", "no"}]
      BY <1>11 DEF StandbyStep
    <2>2. idle' \in [Pool -> 0..2]
      BY <1>11 DEF StandbyStep
    <2>3. QED BY <1>11, <2>1, <2>2 DEF StandbyStep
  <1>12. CASE RepairStep \/ \E d \in Dst : RepairRead(d)
    BY <1>12, RepairStepFrame
  <1>13. ASSUME NEW p \in Pool, Grace(p) PROVE PoolType'
    BY <1>13 DEF Grace
  <1>14. ASSUME NEW p \in Pool, Window(p) \/ Mount(p) PROVE PoolType'
    BY <1>14 DEF Window, Mount
  <1>15. ASSUME NEW t, PassStep(t) PROVE PoolType'
    BY <1>15, PassStepFrame
  <1>16. ASSUME NEW t, CompareStep(t) PROVE PoolType'
    BY <1>16, CompareStepFrame
  <1>17. CASE UNCHANGED vars
    BY <1>17 DEF vars
  <1>18. QED
    BY <1>1, <1>2, <1>3, <1>4, <1>5, <1>6, <1>7, <1>8, <1>9, <1>10, <1>11, <1>12, <1>13,
       <1>14, <1>15, <1>16, <1>17, Steps DEF SchedStep

-----------------------------------------------------------------------------
(* The cancel registry *)

\* An operation is of the one thread inside a Compare or a pass
OpsLive ==
    \A o \in ops : \/ o.by \in Scanner /\ scan[o.by].pc = "read"
                   \/ o.by = gate /\ (o.scope # {} => pass[o.by].pc \in Working)

\* A Compare that reads and a pass in a cycle are registered
Registered ==
    /\ \A t \in Scanner : scan[t].pc = "read" =>
          \E o \in ops : o.kind = "compare" /\ scan[t].dst \in o.scope
    /\ \A t \in Thread : pass[t].pc \in Working =>
          \E o \in ops : o.kind = "sync" /\ o.scope = Of(pass[t].src)

\* The pass threads in a cycle after a step were in one before, of the same
\* source, or enter it now.
LEMMA WorkingFrom ==
  ASSUME PassType, [Next]_vars, NEW t \in Thread, pass'[t].pc \in Working
  PROVE  \/ pass[t].pc \in Working /\ pass'[t].src = pass[t].src
         \/ \E s \in Src, m \in Mode : CycleStart(t, s, m) /\ pass'[t].src = s
  <1> USE DEF Working
  <1>0. \A u \in Thread : DOMAIN pass[u] = PassFields
    BY DEF PassType, IsPass
  <1>1. ASSUME NEW s \in Src, NEW ps \in SUBSET Path, Edit(s, ps)
        PROVE  pass'[t].pc = pass[t].pc /\ pass'[t].src = pass[t].src
    BY <1>1, EditEffect DEF But, PassFields
  <1>2. CASE Crash
    BY <1>2 DEF Crash, Resting
  <1>3. ASSUME Armed PROVE pass'[t].pc = pass[t].pc /\ pass'[t].src = pass[t].src
    BY <1>3, ArmedEffect DEF But, PassFields
  <1>4. ASSUME NEW d \in Dst, NEW u \in Manual, NEW m \in {"manual", "full"}, Request(u, d, m)
        PROVE  pass'[t].pc = pass[t].pc /\ pass'[t].src = pass[t].src
    <2>1. t # u
      BY <1>4, RequestEffect, WaitingIsPass
    <2>2. pass'[t] = Without(pass[t], d)
      BY <1>4, <2>1, RequestEffect
    <2>3. QED BY <1>0, <2>2, WithoutKeeps
  <1>5. ASSUME RepairTarget PROVE pass'[t].pc = pass[t].pc /\ pass'[t].src = pass[t].src
    BY <1>0, <1>5, RepairTargetEffect, WithoutKeeps
  <1>6. ASSUME NEW u \in Manual, RepairEnd(u)
        PROVE  pass'[t].pc = pass[t].pc /\ pass'[t].src = pass[t].src
    BY <1>6, RepairEndEffect, WaitingIsPass DEF Only, Kind
  <1>7. ASSUME SchedTick \/ StandbySample
        PROVE  pass'[t].pc = pass[t].pc /\ pass'[t].src = pass[t].src
    BY <1>7, SchedTickEffect, StandbySampleEffect DEF Only
  <1>8. ASSUME StandbyStep PROVE pass'[t].pc = pass[t].pc /\ pass'[t].src = pass[t].src
    BY <1>8, StandbyStepEffect DEF Only, Resting
  <1>9. ASSUME NEW u \in Thread, PassStep(u)
        PROVE  \/ pass[t].pc \in Working /\ pass'[t].src = pass[t].src
               \/ \E s \in Src, m \in Mode : CycleStart(t, s, m) /\ pass'[t].src = s
    <2>1. CASE PassLock(u)
      BY <2>1, PassLockEffect DEF Only
    <2>2. ASSUME NEW s \in Src, NEW m \in Mode, CycleStart(u, s, m)
          PROVE  \/ pass[t].pc \in Working /\ pass'[t].src = pass[t].src
                 \/ \E x \in Src, n \in Mode : CycleStart(t, x, n) /\ pass'[t].src = x
      BY <2>2, CycleStartEffect DEF Only
    <2>3. ASSUME NEW d \in Dst, GateOne(u, d) \/ GateFails(u, d) \/ GateFar(u, d)
          PROVE  pass'[t].pc = pass[t].pc /\ pass'[t].src = pass[t].src
      <3>1. PICK blocked, refused, blind : Gated(u, d, blocked, refused, blind)
        BY <2>3 DEF GateOne, GateFails, GateFar
      <3>2. Only(u) /\ But(u, {"left", "blk", "ready"})
        BY <3>1, GatedEffect
      <3>3. QED BY <3>2 DEF Only, But, PassFields
    <2>4. ASSUME NEW d \in Dst, WriteStart(u, d)
          PROVE  pass[t].pc \in Working /\ pass'[t].src = pass[t].src
      <3>1. pass[u].pc = "gate"
        BY <2>4 DEF WriteStart
      <3>2. QED BY <2>4, <3>1, WriteStartEffect DEF Only, But, PassFields
    <2>5. ASSUME WriteDone(u) \/ WriteFails(u)
          PROVE  pass[t].pc \in Working /\ pass'[t].src = pass[t].src
      <3>1. pass[u].pc = "write"
        BY <2>5 DEF WriteDone, WriteFails
      <3>2. Only(u) /\ But(u, {"pc", "dst", "plan", "prog"})
        BY <2>5, WriteDoneEffect, WriteFailsEffect DEF But
      <3>3. QED BY <3>1, <3>2 DEF Only, But, PassFields
    <2>6. CASE CycleEnd(u)
      BY <2>6, CycleEndEffect DEF Only
    <2>7. ASSUME PassAgain(u) PROVE pass'[t].pc = pass[t].pc /\ pass'[t].src = pass[t].src
      BY <2>7, PassAgainEffect DEF Only, But, PassFields
    <2>8. CASE PassEnd(u)
      <3>1. pass'[u].pc \in {"sample", "idle"}
        <4>1. pass'[u] = [Resting EXCEPT !.pc = IF u = "sched" THEN "sample" ELSE "idle"]
          BY <2>8, PassEndEffect
        <4>2. QED BY <4>1 DEF Resting
      <3>2. QED BY <2>8, <3>1, PassEndEffect DEF Only
    <2>9. QED BY <1>9, <2>1, <2>2, <2>3, <2>4, <2>5, <2>6, <2>7, <2>8 DEF PassStep
  <1>10. QED
    BY <1>1, <1>2, <1>3, <1>4, <1>5, <1>6, <1>7, <1>8, <1>9, PassFrame DEF PassMoves

\* A Compare thread that reads after a step read before, or registers now.
LEMMA ReadingFrom ==
  ASSUME ScanType, [Next]_vars, NEW t \in Scanner, scan'[t].pc = "read"
  PROVE  \/ scan[t].pc = "read" /\ scan'[t].dst = scan[t].dst /\ scan'[t].raced = scan[t].raced
         \/ CompareRegister(t)
  <1>1. ASSUME NEW s \in Src, NEW ps \in SUBSET Path, Edit(s, ps)
        PROVE  /\ scan'[t].pc = scan[t].pc /\ scan'[t].dst = scan[t].dst
               /\ scan'[t].raced = scan[t].raced
    BY <1>1, EditScanEffect DEF ScanBut, ScanFields
  <1>2. CASE Crash
    BY <1>2 DEF Crash, NoScan
  <1>3. ASSUME Armed
        PROVE  /\ scan'[t].pc = scan[t].pc /\ scan'[t].dst = scan[t].dst
               /\ scan'[t].raced = scan[t].raced
    BY <1>3, ArmedScanEffect DEF ScanBut, ScanFields
  <1>4. ASSUME NEW d \in Dst, NEW u \in Scanner, CompareStart(u, d)
        PROVE  scan'[t] = scan[t]
    BY <1>4, CompareStartEffect, ComparingEffect DEF OnlyScan
  <1>5. ASSUME NEW u \in Scanner, CompareLeaves(u) PROVE scan'[t] = scan[t]
    BY <1>5, CompareLeavesEffect DEF OnlyScan, NoScan
  <1>6. ASSUME NEW u \in Scanner, CompareStep(u)
        PROVE  \/ /\ scan[t].pc = "read" /\ scan'[t].dst = scan[t].dst
                  /\ scan'[t].raced = scan[t].raced
               \/ CompareRegister(t)
    <2>1. CASE CompareCheck(u)
      <3>1. CASE CompareFails(u)
        BY <1>5, <3>1 DEF CompareFails
      <3>2. QED BY <2>1, <3>1, CompareCheckEffect DEF OnlyScan
    <2>2. CASE CompareRegister(u)
      BY <2>2, CompareRegisterEffect DEF OnlyScan
    <2>3. ASSUME NEW p \in Path, CompareRead(u, p)
          PROVE  /\ scan[t].pc = "read" /\ scan'[t].dst = scan[t].dst
                 /\ scan'[t].raced = scan[t].raced
      BY <2>3, CompareReadEffect DEF OnlyScan, ScanBut, ScanFields
    <2>4. CASE CompareBreak(u)
      BY <1>5, <2>4 DEF CompareBreak, CompareFails
    <2>5. CASE CompareDone(u)
      BY <1>5, <2>5 DEF CompareDone
    <2>6. QED BY <1>6, <2>1, <2>2, <2>3, <2>4, <2>5 DEF CompareStep
  <1>7. CASE UNCHANGED scan
    BY <1>7
  <1>8. QED BY <1>1, <1>2, <1>3, <1>4, <1>6, <1>7, ScanFrame

\* A thread stays at its work until it ends it, or the process dies.
LEMMA WorkingTo ==
  ASSUME PassType, [Next]_vars, NEW t \in Thread, pass[t].pc \in Working
  PROVE  pass'[t].pc \in Working \/ CycleEnd(t) \/ Crash
  <1> USE DEF Working
  <1>0. \A u \in Thread : DOMAIN pass[u] = PassFields
    BY DEF PassType, IsPass
  <1>1. ASSUME NEW s \in Src, NEW ps \in SUBSET Path, Edit(s, ps) PROVE pass'[t].pc = pass[t].pc
    BY <1>1, EditEffect DEF But, PassFields
  <1>2. ASSUME Armed PROVE pass'[t].pc = pass[t].pc
    BY <1>2, ArmedEffect DEF But, PassFields
  <1>3. ASSUME NEW d \in Dst, NEW u \in Manual, NEW m \in {"manual", "full"}, Request(u, d, m)
        PROVE  pass'[t].pc = pass[t].pc
    <2>1. t # u
      BY <1>3 DEF Request
    <2>2. pass'[t] = Without(pass[t], d)
      BY <1>3, <2>1, RequestEffect
    <2>3. QED BY <1>0, <2>2, WithoutKeeps
  <1>4. ASSUME RepairTarget PROVE pass'[t].pc = pass[t].pc
    BY <1>0, <1>4, RepairTargetEffect, WithoutKeeps
  <1>5. ASSUME NEW u \in Manual, RepairEnd(u) PROVE pass'[t].pc = pass[t].pc
    BY <1>5, RepairEndEffect DEF RepairEnd, Only
  <1>6. ASSUME SchedTick \/ StandbySample PROVE pass'[t].pc = pass[t].pc
    BY <1>6, SchedTickEffect, StandbySampleEffect DEF SchedTick, StandbySample, Only
  <1>7. ASSUME StandbyStep PROVE pass'[t].pc = pass[t].pc
    BY <1>7, StandbyStepEffect DEF StandbyStep, Only
  <1>8. ASSUME NEW u \in Thread, PassStep(u)
        PROVE  pass'[t].pc \in Working \/ CycleEnd(t)
    <2>1. CASE PassLock(u) \/ PassAgain(u) \/ PassEnd(u)
      <3>1. pass[u].pc \notin Working /\ Only(u)
        BY <2>1, PassLockEffect, PassAgainEffect, PassEndEffect DEF PassLock, PassAgain, PassEnd
      <3>2. QED BY <3>1 DEF Only
    <2>2. ASSUME NEW s \in Src, NEW m \in Mode, CycleStart(u, s, m) PROVE pass'[t].pc \in Working
      BY <2>2, CycleStartEffect DEF Only
    <2>3. ASSUME NEW d \in Dst, GateOne(u, d) \/ GateFails(u, d) \/ GateFar(u, d) PROVE pass'[t].pc \in Working
      <3>1. PICK blocked, refused, blind : Gated(u, d, blocked, refused, blind)
        BY <2>3 DEF GateOne, GateFails, GateFar
      <3>2. Only(u) /\ But(u, {"left", "blk", "ready"})
        BY <3>1, GatedEffect
      <3>3. QED BY <3>2 DEF Only, But, PassFields
    <2>4. ASSUME NEW d \in Dst, WriteStart(u, d) PROVE pass'[t].pc \in Working
      BY <2>4, WriteStartEffect DEF Only
    <2>5. CASE WriteDone(u) \/ WriteFails(u)
      BY <2>5, WriteDoneEffect, WriteFailsEffect DEF Only
    <2>6. CASE CycleEnd(u)
      BY <2>6, CycleEndEffect DEF Only
    <2>7. QED BY <1>8, <2>1, <2>2, <2>3, <2>4, <2>5, <2>6 DEF PassStep
  <1>9. CASE UNCHANGED pass
    BY <1>9
  <1>10. QED
    BY <1>1, <1>2, <1>3, <1>4, <1>5, <1>6, <1>7, <1>8, <1>9, PassFrame DEF PassMoves

\* A Compare that reads goes on reading, or returns, or dies with the process.
LEMMA ReadingTo ==
  ASSUME ScanType, ScanGate, [Next]_vars, NEW t \in Scanner, scan[t].pc = "read"
  PROVE  \/ scan'[t].pc = "read" \/ Crash
         \/ CompareStep(t) /\ (CompareFails(t) \/ CompareDone(t))
  <1>1. ASSUME NEW s \in Src, NEW ps \in SUBSET Path, Edit(s, ps) PROVE scan'[t].pc = scan[t].pc
    BY <1>1, EditScanEffect DEF ScanBut, ScanFields
  <1>2. ASSUME Armed PROVE scan'[t].pc = scan[t].pc
    BY <1>2, ArmedScanEffect DEF ScanBut, ScanFields
  <1>3. ASSUME NEW d \in Dst, NEW u \in Scanner, CompareStart(u, d)
        PROVE  scan'[t].pc = scan[t].pc
    <2>1. scan[u].pc = "idle"
      BY <1>3 DEF CompareStart
    <2>2. QED BY <1>3, <2>1, CompareStartEffect DEF OnlyScan
  <1>4. ASSUME NEW u \in Scanner, CompareFails(u) \/ CompareDone(u)
        PROVE  scan'[t].pc = scan[t].pc \/ (t = u /\ (CompareFails(t) \/ CompareDone(t)))
    <2>1. CompareLeaves(u)
      BY <1>4 DEF CompareFails, CompareDone
    <2>2. OnlyScan(u)
      BY <2>1, CompareLeavesEffect
    <2>3. QED BY <1>4, <2>2 DEF OnlyScan
  <1>5. ASSUME NEW u \in Scanner, CompareStep(u)
        PROVE  scan'[t].pc = "read" \/ (CompareStep(t) /\ (CompareFails(t) \/ CompareDone(t)))
    <2>1. CASE CompareCheck(u)
      <3>1. scan[u].pc = "check"
        BY <2>1 DEF CompareCheck
      <3>2. QED BY <1>4, <1>5, <2>1, <3>1, CompareCheckEffect DEF OnlyScan
    <2>2. CASE CompareRegister(u)
      BY <2>2, CompareRegisterEffect DEF OnlyScan
    <2>3. ASSUME NEW p \in Path, CompareRead(u, p) PROVE scan'[t].pc = "read"
      BY <2>3, CompareReadEffect DEF OnlyScan, ScanBut, ScanFields
    <2>4. CASE CompareBreak(u) \/ CompareDone(u)
      BY <1>4, <1>5, <2>4 DEF CompareBreak
    <2>5. QED BY <1>5, <2>1, <2>2, <2>3, <2>4 DEF CompareStep
  <1>6. CASE UNCHANGED scan
    BY <1>6
  <1>7. QED BY <1>1, <1>2, <1>3, <1>5, <1>6, ScanFrame

\* Every step keeps every operation that of a thread at its work.
LEMMA OpsLiveStep ==
  ASSUME ActivitiesAssumption, PassType, Locals, PassGate, ScanType, ScanGate, OpsType,
         LockType, OpsLive, [Next]_vars
  PROVE  OpsLive'
  <1>0. None \notin Thread \cup Scanner /\ Thread \cap Scanner = {}
    BY DEF ActivitiesAssumption, Thread
  <1>1. ASSUME NEW k, NEW d, Cancel(k, d) PROVE OpsLive'
    <2>1. UNCHANGED <<gate, pass, scan>> /\ ops' = Signalled(k, d)
      BY <1>1 DEF Cancel
    <2>2. QED BY <2>1, MarkedEffect DEF Signalled, OpsLive, OpsType
  <1>2. CASE Crash
    BY <1>2 DEF Crash, OpsLive
  <1>3. ASSUME NEW t \in Thread, PassLock(t) PROVE OpsLive'
    <2>1. gate = None /\ gate' = t /\ ops' = ops \cup {Op(t, "sync", {})} /\ UNCHANGED scan
      BY <1>3 DEF PassLock
    <2>2. \A o \in ops : o.by \in Scanner /\ scan[o.by].pc = "read"
      BY <1>0, <2>1 DEF OpsLive, OpsType, IsOp
    <2>3. QED BY <2>1, <2>2 DEF OpsLive, Op
  <1>4. ASSUME NEW t \in Thread, PassEnd(t) PROVE OpsLive'
    <2>1. gate = t /\ ops' = Dropped(t) /\ UNCHANGED scan
      BY <1>4 DEF PassEnd, PassGate, Inside
    <2>2. QED BY <2>1 DEF OpsLive, Dropped
  <1>5. ASSUME NEW t \in Thread, CycleEnd(t) PROVE OpsLive'
    <2>1. gate = t /\ ops' = {o \in ops : o.by # t \/ o.scope = {}} /\ UNCHANGED <<gate, scan>>
      BY <1>5 DEF CycleEnd, PassGate, Inside
    <2>2. QED BY <2>1 DEF OpsLive
  <1>6. ASSUME NEW t \in Thread, NEW s \in Src, NEW m \in Mode, CycleStart(t, s, m) PROVE OpsLive'
    <2>1. gate = t /\ ops' = ops \cup {Op(t, "sync", Of(s))} /\ UNCHANGED <<gate, scan>>
      BY <1>6 DEF CycleStart, PassGate, Inside
    <2>2. pass'[t].pc \in Working
      BY <1>6, CycleStartEffect DEF Working
    <2>3. QED BY <2>1, <2>2 DEF OpsLive, Op
  <1>7. ASSUME NEW t \in Scanner, CompareRegister(t) PROVE OpsLive'
    <2>1. ops' = ops \cup {Op(t, "compare", {scan[t].dst})} /\ UNCHANGED <<gate, pass>>
      BY <1>7 DEF CompareRegister
    <2>2. QED BY <1>7, <2>1, CompareRegisterEffect DEF OpsLive, OnlyScan, Op
  <1>8. ASSUME NEW t \in Scanner, CompareStep(t), CompareFails(t) \/ CompareDone(t)
        PROVE  OpsLive'
    <2>1. ops' = Dropped(t) /\ OnlyScan(t) /\ UNCHANGED <<gate, pass>>
      BY <1>8, CompareLeavesEffect, CompareStepFrame
         DEF CompareFails, CompareDone, CompareLeaves
    <2>2. QED BY <1>8, <2>1 DEF OpsLive, OnlyScan, Dropped
  <1>9. ASSUME UNCHANGED <<ops, gate>>, ~Crash, \A t \in Thread : ~CycleEnd(t),
               \A t \in Scanner : ~(CompareStep(t) /\ (CompareFails(t) \/ CompareDone(t)))
        PROVE  OpsLive'
    <2>1. SUFFICES ASSUME NEW o \in ops
                   PROVE  \/ o.by \in Scanner /\ scan'[o.by].pc = "read"
                          \/ o.by = gate /\ (o.scope # {} => pass'[o.by].pc \in Working)
      BY <1>9 DEF OpsLive
    <2>2. CASE o.by \in Scanner /\ scan[o.by].pc = "read"
      BY <1>9, <2>2, ReadingTo
    <2>3. CASE o.by = gate /\ (o.scope # {} => pass[o.by].pc \in Working)
      <3>1. o.by \in Thread
        BY <1>0, <2>3 DEF OpsType, IsOp, LockType
      <3>2. QED BY <1>9, <2>3, <3>1, WorkingTo
    <2>4. QED BY <2>2, <2>3 DEF OpsLive
  <1>10. QED
    BY <1>1, <1>2, <1>3, <1>4, <1>5, <1>6, <1>7, <1>8, <1>9, OpsFrame, GateFrame

\* Every step keeps a Compare that reads and a pass in a cycle registered.
LEMMA RegisteredStep ==
  ASSUME ActivitiesAssumption, PassType, PassGate, ScanType, ScanGate, OpsType, Registered,
         [Next]_vars
  PROVE  Registered'
  <1>0. Thread \cap Scanner = {}
    BY DEF ActivitiesAssumption, Thread
  <1>1. ASSUME NEW t \in Scanner, scan'[t].pc = "read"
        PROVE  \E o \in ops' : o.kind = "compare" /\ scan'[t].dst \in o.scope
    <2>1. CASE CompareRegister(t)
      <3>1. Op(t, "compare", {scan[t].dst}) \in ops' /\ scan'[t].dst = scan[t].dst
        BY <2>1, CompareRegisterEffect DEF CompareRegister, ScanBut, ScanFields
      <3>2. QED BY <3>1 DEF Op
    <2>2. CASE scan[t].pc = "read" /\ scan'[t].dst = scan[t].dst
      <3>1. PICK o \in ops : o.kind = "compare" /\ scan[t].dst \in o.scope
        BY <2>2 DEF Registered
      <3>2. o.by \in Scanner
        BY <3>1 DEF OpsType, IsOp
      <3>3. ASSUME NEW k, NEW d, Cancel(k, d)
            PROVE  \E x \in ops' : x.kind = "compare" /\ scan[t].dst \in x.scope
        <4>1. Marked(o, k, d) \in ops'
          BY <3>3 DEF Cancel, Signalled
        <4>2. QED BY <3>1, <4>1, MarkedEffect DEF OpsType
      <3>4. CASE Crash
        BY <1>1, <3>4 DEF Crash, NoScan
      <3>5. ASSUME NEW u \in Thread,
                   \/ PassLock(u) \/ PassEnd(u) \/ CycleEnd(u)
                   \/ \E s \in Src, m \in Mode : CycleStart(u, s, m)
            PROVE  o \in ops'
        <4>1. o.by # u
          BY <1>0, <3>2
        <4>2. QED BY <3>5, <4>1 DEF PassLock, PassEnd, CycleEnd, CycleStart, Dropped
      <3>6. ASSUME NEW u \in Scanner, CompareRegister(u) PROVE o \in ops'
        BY <3>6 DEF CompareRegister
      <3>7. ASSUME NEW u \in Scanner, CompareStep(u), CompareFails(u) \/ CompareDone(u)
            PROVE  scanGate' = None
        BY <3>7 DEF CompareFails, CompareDone, CompareLeaves
      <3>8. ScanGate'
        BY ScanGateStep
      <3>9. scanGate' # None
        BY <1>1, <3>8 DEF ScanGate, ActivitiesAssumption
      <3>10. o \in ops' \/ \E x \in ops' : x.kind = "compare" /\ scan[t].dst \in x.scope
        BY <3>3, <3>4, <3>5, <3>6, <3>7, <3>9, OpsFrame, <1>1 DEF Crash
      <3>11. QED BY <2>2, <3>1, <3>10
    <2>3. QED BY <1>1, <2>1, <2>2, ReadingFrom
  <1>2. ASSUME NEW t \in Thread, pass'[t].pc \in Working
        PROVE  \E o \in ops' : o.kind = "sync" /\ o.scope = Of(pass'[t].src)
    <2>1. ASSUME NEW s \in Src, NEW m \in Mode, CycleStart(t, s, m), pass'[t].src = s
          PROVE  \E o \in ops' : o.kind = "sync" /\ o.scope = Of(pass'[t].src)
      <3>1. Op(t, "sync", Of(s)) \in ops'
        BY <2>1 DEF CycleStart
      <3>2. QED BY <2>1, <3>1 DEF Op
    <2>2. CASE pass[t].pc \in Working /\ pass'[t].src = pass[t].src
      <3>1. PICK o \in ops : o.kind = "sync" /\ o.scope = Of(pass[t].src)
        BY <2>2 DEF Registered
      <3>2. o.by \notin Scanner /\ gate = t
        BY <2>2, <3>1 DEF OpsType, IsOp, PassGate, Working, Inside
      <3>3. ASSUME NEW k, NEW d, Cancel(k, d)
            PROVE  \E x \in ops' : x.kind = "sync" /\ x.scope = Of(pass[t].src)
        <4>1. Marked(o, k, d) \in ops'
          BY <3>3 DEF Cancel, Signalled
        <4>2. QED BY <3>1, <4>1, MarkedEffect DEF OpsType
      <3>4. ~Crash
        BY <1>2 DEF Crash, Resting, Working
      <3>5. ASSUME NEW u \in Thread, PassEnd(u) \/ CycleEnd(u) PROVE FALSE
        <4>1. u = t
          BY <3>2, <3>5 DEF PassEnd, CycleEnd, PassGate, Inside
        <4>2. QED BY <1>2, <2>2, <3>5, <4>1, CycleEndEffect DEF PassEnd, Working
      <3>6. ASSUME NEW u \in Thread,
                   PassLock(u) \/ \E s \in Src, m \in Mode : CycleStart(u, s, m)
            PROVE  o \in ops'
        BY <3>6 DEF PassLock, CycleStart
      <3>7. ASSUME NEW u \in Scanner, CompareRegister(u) PROVE o \in ops'
        BY <3>7 DEF CompareRegister
      <3>8. ASSUME NEW u \in Scanner, CompareFails(u) \/ CompareDone(u) PROVE o \in ops'
        BY <3>2, <3>8 DEF CompareFails, CompareDone, CompareLeaves, Dropped
      <3>9. o \in ops' \/ \E x \in ops' : x.kind = "sync" /\ x.scope = Of(pass[t].src)
        BY <3>3, <3>4, <3>5, <3>6, <3>7, <3>8, OpsFrame
      <3>10. QED BY <2>2, <3>1, <3>9
    <2>3. QED BY <1>2, <2>1, <2>2, WorkingFrom
  <1>3. QED BY <1>1, <1>2 DEF Registered

-----------------------------------------------------------------------------
(* What a pass has ready, and what it still wants to serve *)

Held(t, d)   == d \in pass[t].ready \/ pass[t].dst = d
Wanted(t, d) == d \in pass[t].left \/ Held(t, d)

\* Of t neither the cycle changes nor does its work gain anything
NoGain(t) ==
    /\ pass'[t].mode = pass[t].mode /\ pass'[t].far = pass[t].far
    /\ pass'[t].left \subseteq pass[t].left /\ pass'[t].claim \subseteq pass[t].claim
    /\ pass'[t].ready \subseteq pass[t].ready /\ pass'[t].dst = pass[t].dst

\* The work of t is over
NoWork(t) == pass'[t].left = {} /\ pass'[t].ready = {} /\ pass'[t].dst = None

\* What a step does to the work of a pass thread.
LEMMA WorkStep ==
  ASSUME PassType, [Next]_vars, NEW t \in Thread
  PROVE  \/ NoGain(t) \/ NoWork(t)
         \/ \E s \in Src, m \in Mode : CycleStart(t, s, m)
         \/ \E d \in Dst : GateOne(t, d) \/ GateFails(t, d) \/ GateFar(t, d) \/ WriteStart(t, d)
         \/ WriteDone(t) \/ WriteFails(t)
  <1>0. \A u \in Thread : DOMAIN pass[u] = PassFields
    BY DEF PassType, IsPass
  <1>1. ASSUME NEW s \in Src, NEW ps \in SUBSET Path, Edit(s, ps) PROVE NoGain(t)
    BY <1>1, EditEffect DEF NoGain, But, PassFields
  <1>2. CASE Crash
    BY <1>2 DEF NoWork, Crash, Resting
  <1>3. ASSUME Armed PROVE NoGain(t)
    BY <1>3, ArmedEffect DEF NoGain, But, PassFields
  <1>4. ASSUME NEW d, pass'[t] = Without(pass[t], d) PROVE NoGain(t)
    BY <1>0, <1>4, WithoutEffect, WithoutKeeps DEF NoGain
  <1>5. ASSUME NEW d \in Dst, NEW u \in Manual, NEW m \in {"manual", "full"}, Request(u, d, m)
        PROVE  NoGain(t) \/ NoWork(t)
    <2>1. CASE t = u
      BY <1>5, <2>1, RequestEffect, WaitingIsPass DEF NoWork, Resting, PassFields
    <2>2. CASE t # u
      BY <1>4, <1>5, <2>2, RequestEffect
    <2>3. QED BY <2>1, <2>2
  <1>6. ASSUME RepairTarget PROVE NoGain(t)
    BY <1>4, <1>6, RepairTargetEffect
  <1>7. ASSUME NEW u, Only(u), t # u PROVE NoGain(t)
    BY <1>7 DEF NoGain, Only
  <1>8. ASSUME NEW u \in Manual, RepairEnd(u) PROVE NoGain(t) \/ NoWork(t)
    BY <1>7, <1>8, RepairEndEffect, WaitingIsPass DEF NoWork, Resting, PassFields, Kind
  <1>9. ASSUME SchedTick \/ StandbySample PROVE NoGain(t)
    BY <1>7, <1>9, SchedTickEffect, StandbySampleEffect DEF NoGain, But, PassFields
  <1>10. ASSUME StandbyStep PROVE NoGain(t) \/ NoWork(t)
    BY <1>7, <1>10, StandbyStepEffect DEF NoWork, Resting
  <1>11. ASSUME NEW u \in Thread, PassStep(u), t # u PROVE NoGain(t)
    <2>1. Only(u)
      <3>1. ASSUME NEW d \in Dst, GateOne(u, d) \/ GateFails(u, d) \/ GateFar(u, d) PROVE Only(u)
        BY <3>1, GatedEffect DEF GateOne, GateFails, GateFar
      <3>2. QED
        BY <1>11, <3>1, PassLockEffect, CycleStartEffect, WriteStartEffect, WriteDoneEffect,
           WriteFailsEffect, CycleEndEffect, PassAgainEffect, PassEndEffect DEF PassStep
    <2>2. QED BY <1>7, <1>11, <2>1
  <1>12. ASSUME PassLock(t) PROVE NoGain(t)
    BY <1>12, PassLockEffect DEF NoGain, But, PassFields
  <1>13. CASE CycleEnd(t)
    BY <1>13, CycleEndEffect DEF NoWork, Resting
  <1>14. ASSUME PassAgain(t) PROVE NoGain(t)
    BY <1>14, PassAgainEffect DEF NoGain, But, PassFields
  <1>15. CASE PassEnd(t)
    <2>1. pass'[t] = [Resting EXCEPT !.pc = IF t = "sched" THEN "sample" ELSE "idle"]
      BY <1>15, PassEndEffect
    <2>2. QED BY <2>1 DEF NoWork, Resting
  <1>16. CASE UNCHANGED pass
    BY <1>16 DEF NoGain
  <1>17. QED
    BY <1>1, <1>2, <1>3, <1>5, <1>6, <1>8, <1>9, <1>10, <1>11, <1>12, <1>13, <1>14, <1>15,
       <1>16, PassFrame DEF PassMoves, PassStep

\* A destination is ready only when its readiness check let it through.
LEMMA GateOneReady ==
  ASSUME PassType, NEW t \in Thread, NEW d \in Dst, GateOne(t, d)
  PROVE  \/ pass'[t].ready = pass[t].ready
         \/ pass'[t].ready = pass[t].ready \cup {d} /\ ~Blocked(t, d) /\ ~Refused(d)
  <1>1. pass' = [pass EXCEPT ![t].left = @ \ {d}, ![t].blk = @ \/ Blocked(t, d),
                   ![t].ready = IF Blocked(t, d) \/ Refused(d) THEN @ ELSE @ \cup {d}]
    BY DEF GateOne, Gated
  <1>2. CASE Blocked(t, d) \/ Refused(d)
    <2>1. pass'[t].ready = pass[t].ready
      BY <1>1, <1>2 DEF PassType, IsPass, PassFields
    <2>2. QED BY <2>1
  <1>3. CASE ~Blocked(t, d) /\ ~Refused(d)
    <2>1. pass'[t].ready = pass[t].ready \cup {d}
      BY <1>1, <1>3 DEF PassType, IsPass, PassFields
    <2>2. QED BY <1>3, <2>1
  <1>4. QED BY <1>2, <1>3

\* The transfer engine finds a destination ready only when no Compare is registered for it.
LEMMA GateFarReady ==
  ASSUME PassType, NEW t \in Thread, NEW d \in Dst, GateFar(t, d)
  PROVE  \/ pass'[t].ready = pass[t].ready
         \/ pass'[t].ready = pass[t].ready \cup {d} /\ ~Active("compare", d)
  <1>1. pass' = [pass EXCEPT ![t].left = @ \ {d}, ![t].blk = @ \/ Active("compare", d),
                   ![t].ready = IF Active("compare", d) \/ FALSE THEN @ ELSE @ \cup {d}]
    BY DEF GateFar, Gated
  <1>2. CASE Active("compare", d)
    <2>1. pass'[t].ready = pass[t].ready
      BY <1>1, <1>2 DEF PassType, IsPass, PassFields
    <2>2. QED BY <2>1
  <1>3. CASE ~Active("compare", d)
    <2>1. pass'[t].ready = pass[t].ready \cup {d}
      BY <1>1, <1>3 DEF PassType, IsPass, PassFields
    <2>2. QED BY <1>3, <2>1
  <1>4. QED BY <1>2, <1>3

\* What a pass holds after a step it held before, or a readiness check let it
\* through now.
LEMMA HeldFrom ==
  ASSUME ActivitiesAssumption, PassType, Locals, [Next]_vars, NEW t \in Thread, NEW d \in Dst,
         d \in pass'[t].ready \/ pass'[t].dst = d
  PROVE  /\ pass'[t].mode = pass[t].mode /\ pass'[t].far = pass[t].far
         /\ \/ Held(t, d)
            \/ GateOne(t, d) /\ ~Blocked(t, d) /\ ~Refused(d)
            \/ GateFails(t, d) /\ ~Active("compare", d)
            \/ GateFar(t, d) /\ ~Active("compare", d)
  <1>0. d # None /\ AtWork(t, pass[t])
    BY DEF ActivitiesAssumption, Locals
  <1>1. CASE NoGain(t)
    BY <1>1 DEF NoGain, Held
  <1>2. CASE NoWork(t)
    BY <1>0, <1>2 DEF NoWork
  <1>3. ASSUME NEW s \in Src, NEW m \in Mode, CycleStart(t, s, m) PROVE FALSE
    <2>1. pass'[t].ready = pass[t].ready /\ pass'[t].dst = pass[t].dst
      BY <1>3, CycleStartEffect DEF But, PassFields
    <2>2. pass[t].pc = "loop"
      BY <1>3 DEF CycleStart
    <2>3. QED BY <1>0, <2>1, <2>2 DEF AtWork, Working
  <1>4. ASSUME NEW e \in Dst, GateOne(t, e) \/ GateFails(t, e) \/ GateFar(t, e)
        PROVE  /\ pass'[t].mode = pass[t].mode /\ pass'[t].far = pass[t].far
               /\ pass'[t].dst = pass[t].dst
    <2>1. PICK blocked, refused, blind : Gated(t, e, blocked, refused, blind)
      BY <1>4 DEF GateOne, GateFails, GateFar
    <2>2. QED BY <2>1, GatedEffect DEF But, PassFields
  <1>5. ASSUME NEW e \in Dst, GateOne(t, e)
        PROVE  Held(t, d) \/ (GateOne(t, d) /\ ~Blocked(t, d) /\ ~Refused(d))
    <2>1. \/ pass'[t].ready = pass[t].ready
          \/ pass'[t].ready = pass[t].ready \cup {e} /\ ~Blocked(t, e) /\ ~Refused(e)
      BY <1>5, GateOneReady
    <2>2. QED BY <1>4, <1>5, <2>1 DEF Held
  <1>6. ASSUME NEW e \in Dst, GateFar(t, e)
        PROVE  Held(t, d) \/ (GateFar(t, d) /\ ~Active("compare", d))
    <2>1. \/ pass'[t].ready = pass[t].ready
          \/ pass'[t].ready = pass[t].ready \cup {e} /\ ~Active("compare", e)
      BY <1>6, GateFarReady
    <2>2. QED BY <1>4, <1>6, <2>1 DEF Held
  <1>7. ASSUME NEW e \in Dst, WriteStart(t, e)
        PROVE  pass'[t].mode = pass[t].mode /\ pass'[t].far = pass[t].far /\ Held(t, d)
    <2>1. e \in pass[t].ready
      BY <1>7 DEF WriteStart
    <2>2. QED BY <1>7, <2>1, WriteStartEffect DEF Held, But, PassFields
  <1>8. ASSUME WriteDone(t) \/ WriteFails(t)
        PROVE  pass'[t].mode = pass[t].mode /\ pass'[t].far = pass[t].far /\ Held(t, d)
    BY <1>0, <1>8, WriteDoneEffect, WriteFailsEffect DEF Held, But, PassFields
  <1>9. ASSUME NEW e \in Dst, GateFails(t, e)
        PROVE  Held(t, d) \/ (GateFails(t, d) /\ ~Active("compare", d))
    <2>1. ~Active("compare", e) /\ Gated(t, e, FALSE, FALSE, TRUE)
      BY <1>9 DEF GateFails
    <2>2. pass'[t].ready = pass[t].ready \cup {e}
      BY <2>1, GatedEffect
    <2>3. QED BY <1>4, <1>9, <2>1, <2>2 DEF Held
  <1>10. QED BY <1>1, <1>2, <1>3, <1>4, <1>5, <1>6, <1>7, <1>8, <1>9, WorkStep

-----------------------------------------------------------------------------
(* A Compare and a pass of one destination *)

\* What CompareApart says of a write holds from the readiness check on
Apart ==
    \A t \in Thread, c \in Scanner, d \in Dst :
        Held(t, d) /\ scan[c].pc = "read" /\ scan[c].dst = d => scan[c].raced

\* A pass that holds a destination works on the cycle of its source.
LEMMA HeldIsWorking ==
  ASSUME ActivitiesAssumption, Locals, NEW t \in Thread, NEW d \in Dst, Held(t, d)
  PROVE  pass[t].pc \in Working /\ d \in Of(pass[t].src)
  BY DEF ActivitiesAssumption, Locals, AtWork, Held, Working

\* No step makes a pass and a Compare of one destination overlap, but through the window.
LEMMA ApartStep ==
  ASSUME ActivitiesAssumption, PassType, Locals, ScanType, Registered, Apart, [Next]_vars
  PROVE  Apart'
  <1>1. SUFFICES ASSUME NEW t \in Thread, NEW c \in Scanner, NEW d \in Dst,
                        d \in pass'[t].ready \/ pass'[t].dst = d,
                        scan'[c].pc = "read", scan'[c].dst = d
                 PROVE  scan'[c].raced
    BY DEF Apart, Held
  <1>2. CASE CompareRegister(c)
    <2>1. UNCHANGED pass /\ scan'[c].dst = scan[c].dst
      BY <1>2, CompareRegisterEffect DEF CompareRegister, ScanBut, ScanFields
    <2>2. Held(t, d)
      BY <1>1, <2>1 DEF Held
    <2>3. pass[t].pc \in Working /\ d \in Of(pass[t].src)
      BY <2>2, HeldIsWorking
    <2>4. Active("sync", d)
      BY <2>3 DEF Registered, Active
    <2>5. QED BY <1>1, <1>2, <2>1, <2>4, CompareRegisterEffect
  <1>3. CASE /\ scan[c].pc = "read" /\ scan'[c].dst = scan[c].dst
             /\ scan'[c].raced = scan[c].raced
    <2>1. Active("compare", d)
      BY <1>1, <1>3 DEF Registered, Active
    <2>2. ~Blocked(t, d) => ~Active("compare", d)
      BY DEF Blocked
    <2>3. Held(t, d)
      BY <1>1, <2>1, <2>2, HeldFrom
    <2>4. QED BY <1>1, <1>3, <2>3 DEF Apart
  <1>4. QED BY <1>1, <1>2, <1>3, ReadingFrom

-----------------------------------------------------------------------------
(* The pools under a pass *)

UnsureType == unsure \in [Thread -> SUBSET Dst]

\* What a pass does not know of the mounts it does not forget before its cycle ends.
LEMMA UnsureStep ==
  ASSUME PassType, UnsureType, [Next]_vars
  PROVE  /\ UnsureType'
         /\ \A t \in Thread : Crash \/ CycleEnd(t) \/ unsure[t] \subseteq unsure'[t]
  <1> USE DEF UnsureType
  <1> DEFINE Grows == unsure' \in [Thread -> SUBSET Dst]
                      /\ \A t \in Thread : unsure[t] \subseteq unsure'[t]
  <1>1. ASSUME UNCHANGED unsure PROVE Grows
    BY <1>1
  <1>2. ASSUME NEW s, NEW ps, Edit(s, ps) PROVE UNCHANGED unsure
    BY <1>2 DEF Edit
  <1>3. ASSUME NEW d, NEW ps, Tamper(d, ps) PROVE UNCHANGED unsure
    BY <1>3 DEF Tamper
  <1>4. ASSUME NEW k, NEW d, Cancel(k, d) PROVE UNCHANGED unsure
    BY <1>4 DEF Cancel
  <1>5. ASSUME NEW s, Dismiss(s) PROVE UNCHANGED unsure
    BY <1>5 DEF Dismiss
  <1>6. ASSUME NEW d, NEW t, CompareStart(t, d) PROVE UNCHANGED unsure
    BY <1>6 DEF CompareStart
  <1>7. ASSUME NEW d, NEW t, NEW m, Request(t, d, m) PROVE UNCHANGED unsure
    BY <1>7 DEF Request
  <1>8. CASE Boot \/ Armed \/ UNCHANGED vars
    BY <1>1, <1>8 DEF Boot, Armed, vars
  <1>9. ASSUME NEW p, Grace(p) \/ Window(p) PROVE UNCHANGED unsure
    BY <1>9 DEF Grace, Window
  <1>10. ASSUME NEW p, Mount(p) PROVE Grows
    <2>1. \A t \in Thread : Relying(t, p) \subseteq Dst
      BY DEF Relying, PassType, IsPass
    <2>2. unsure' = [t \in Thread |-> unsure[t] \cup Relying(t, p)]
      BY <1>10 DEF Mount
    <2>3. QED BY <2>1, <2>2
  <1>11. CASE Crash
    BY <1>11 DEF Crash
  <1>12. ASSUME NEW u \in Thread, CycleEnd(u)
         PROVE  /\ UnsureType'
                /\ \A t \in Thread : Crash \/ CycleEnd(t) \/ unsure[t] \subseteq unsure'[t]
    <2>1. unsure' = [unsure EXCEPT ![u] = {}]
      BY <1>12 DEF CycleEnd
    <2>2. QED BY <1>12, <2>1
  <1>13. ASSUME NEW u \in Thread, PassStep(u), ~CycleEnd(u) PROVE Grows
    <2>1. CASE PassLock(u) \/ PassAgain(u) \/ PassEnd(u) \/ WriteDone(u) \/ WriteFails(u)
      BY <1>1, <2>1 DEF PassLock, PassAgain, PassEnd, WriteDone, WriteFails
    <2>2. ASSUME NEW s, NEW m, CycleStart(u, s, m) PROVE UNCHANGED unsure
      BY <2>2 DEF CycleStart
    <2>3. ASSUME NEW d, WriteStart(u, d) PROVE UNCHANGED unsure
      BY <2>3 DEF WriteStart
    <2>4. ASSUME NEW d \in Dst, GateOne(u, d) \/ GateFails(u, d) \/ GateFar(u, d) PROVE Grows
      <3>1. PICK blocked, refused, blind : Gated(u, d, blocked, refused, blind)
        BY <2>4 DEF GateOne, GateFails, GateFar
      <3>2. unsure' = [unsure EXCEPT ![u] = @ \cup {d}] \/ UNCHANGED unsure
        BY <3>1 DEF Gated
      <3>3. QED BY <3>2
    <2>5. QED BY <1>1, <1>13, <2>1, <2>2, <2>3, <2>4 DEF PassStep
  <1>14. QED
    BY <1>1, <1>2, <1>3, <1>4, <1>5, <1>6, <1>7, <1>8, <1>9, <1>10, <1>11, <1>12, <1>13, Steps,
       CompareStepFrame, RepairStepFrame, SchedStepFrame

\* What a pass holds was mounted when it was checked, and is still, or the pass
\* cannot know.
Mounted ==
    \A t \in Thread, d \in Dst : Held(t, d) => Touched(d) \subseteq mounted \/ d \in unsure[t]

\* Only somebody's mount or export changes what is mounted.
LEMMA MountedFrame ==
  ASSUME [Next]_vars
  PROVE  UNCHANGED mounted \/ \E p \in Pool : Mount(p)
  <1>1. ASSUME NEW s, NEW ps, Edit(s, ps) PROVE UNCHANGED mounted
    BY <1>1 DEF Edit
  <1>2. ASSUME NEW d, NEW ps, Tamper(d, ps) PROVE UNCHANGED mounted
    BY <1>2 DEF Tamper
  <1>3. ASSUME NEW k, NEW d, Cancel(k, d) PROVE UNCHANGED mounted
    BY <1>3 DEF Cancel
  <1>4. ASSUME NEW s, Dismiss(s) PROVE UNCHANGED mounted
    BY <1>4 DEF Dismiss
  <1>5. ASSUME NEW d, NEW t, CompareStart(t, d) PROVE UNCHANGED mounted
    BY <1>5 DEF CompareStart
  <1>6. ASSUME NEW d, NEW t, NEW m, Request(t, d, m) PROVE UNCHANGED mounted
    BY <1>6 DEF Request
  <1>7. CASE Crash \/ Boot \/ Armed \/ UNCHANGED vars
    BY <1>7 DEF Crash, Boot, Armed, vars
  <1>8. ASSUME NEW p, Grace(p) \/ Window(p) PROVE UNCHANGED mounted
    BY <1>8 DEF Grace, Window
  <1>9. QED
    BY <1>1, <1>2, <1>3, <1>4, <1>5, <1>6, <1>7, <1>8, Steps, PassStepFrame,
       CompareStepFrame, RepairStepFrame, SchedStepFrame

\* Every step keeps the pools of what a pass holds mounted, or the pass unsure of them.
LEMMA MountedStep ==
  ASSUME ActivitiesAssumption, PassType, Locals, UnsureType, Mounted, [Next]_vars
  PROVE  Mounted'
  <1>1. SUFFICES ASSUME NEW t \in Thread, NEW d \in Dst,
                        d \in pass'[t].ready \/ pass'[t].dst = d
                 PROVE  Touched(d) \subseteq mounted' \/ d \in unsure'[t]
    BY DEF Mounted, Held, Touched
  <1>2. CASE Held(t, d)
    <2>1. ~Crash /\ ~CycleEnd(t)
      BY <1>1, CycleEndEffect DEF Crash, Resting, ActivitiesAssumption
    <2>2. unsure[t] \subseteq unsure'[t]
      BY <2>1, UnsureStep
    <2>3. CASE d \in unsure[t]
      BY <2>2, <2>3
    <2>4. CASE Touched(d) \subseteq mounted
      <3>1. ASSUME NEW p \in Pool, Mount(p), p \in Touched(d) PROVE d \in unsure'[t]
        <4>1. d \in Relying(t, p)
          BY <1>2, <3>1 DEF Relying, Held
        <4>2. QED BY <3>1, <4>1 DEF Mount
      <3>2. ASSUME NEW p \in Pool, Mount(p), p \notin Touched(d)
            PROVE  Touched(d) \subseteq mounted'
        <4>1. mounted \ {p} \subseteq mounted'
          BY <3>2 DEF Mount
        <4>2. QED BY <2>4, <3>2, <4>1
      <3>3. QED BY <2>4, <3>1, <3>2, MountedFrame
    <2>5. QED BY <1>2, <2>3, <2>4 DEF Mounted
  <1>3. ASSUME NEW blocked, NEW refused, Gated(t, d, blocked, refused, TRUE)
        PROVE  d \in unsure'[t]
    BY <1>3 DEF Gated, UnsureType
  <1>4. CASE GateOne(t, d) /\ ~Blocked(t, d) /\ ~Refused(d)
    <2>1. CASE GateForSync(d) = "asleep"
      <3>1. Gated(t, d, Blocked(t, d), Refused(d), TRUE)
        BY <1>4, <2>1 DEF GateOne
      <3>2. QED BY <1>3, <3>1
    <2>2. CASE GateForSync(d) # "asleep"
      <3>1. Touched(d) \subseteq mounted
        BY <1>4, <2>2 DEF Refused, GateForSync
      <3>2. UNCHANGED mounted
        BY <1>4 DEF GateOne, Gated
      <3>3. QED BY <3>1, <3>2
    <2>3. QED BY <2>1, <2>2
  <1>5. CASE GateFails(t, d) \/ GateFar(t, d)
    BY <1>3, <1>5 DEF GateFails, GateFar
  <1>6. QED BY <1>1, <1>2, <1>4, <1>5, HeldFrom

-----------------------------------------------------------------------------
(* The restart notice *)

\* A Compare that began with the watcher armed has read, or has still to read,
\* all that is unread; none is running before the watcher is armed.
ArmedReads ==
    \A t \in Scanner :
        /\ phase # "up" => scan[t].armed = FALSE
        /\ phase = "up" /\ scan[t].pc # "idle" /\ scan[t].armed # FALSE =>
              unread[SourceOf[scan[t].dst]] \subseteq scan[t].left \cup scan[t].read

\* Between steps outside Edit and Boot the unread changes of a source only shrink.
LEMMA UnreadFrame ==
  ASSUME DataType, [Next]_vars
  PROVE  \/ \E s \in Src, ps \in SUBSET Path : Edit(s, ps)
         \/ \A s \in Src : unread'[s] \subseteq unread[s]
  <1> DEFINE Shrinks == \A s \in Src : unread'[s] \subseteq unread[s]
  <1>1. ASSUME NEW d, NEW ps, Tamper(d, ps) PROVE Shrinks
    BY <1>1 DEF Tamper
  <1>2. ASSUME NEW k, NEW d, Cancel(k, d) PROVE Shrinks
    BY <1>2 DEF Cancel
  <1>3. ASSUME NEW s, Dismiss(s) PROVE Shrinks
    BY <1>3 DEF Dismiss, DataType
  <1>4. ASSUME NEW d, NEW t, CompareStart(t, d) PROVE Shrinks
    BY <1>4 DEF CompareStart
  <1>5. ASSUME NEW d, NEW t, NEW m, Request(t, d, m) PROVE Shrinks
    BY <1>5 DEF Request
  <1>6. CASE Crash \/ Boot \/ Armed \/ UNCHANGED vars
    BY <1>6 DEF Crash, Boot, Armed, vars
  <1>7. ASSUME NEW t \in Thread, PassStep(t) PROVE Shrinks
    <2>1. CASE WriteDone(t)
      BY <2>1 DEF WriteDone, DataType
    <2>2. CASE WriteFails(t)
      BY <2>2 DEF WriteFails
    <2>3. QED BY <1>7, <2>1, <2>2, PassStepData
  <1>8. ASSUME NEW t \in Scanner, CompareStep(t) PROVE Shrinks
    <2>1. CASE CompareDone(t)
      BY <2>1 DEF CompareDone, DataType
    <2>2. QED BY <1>8, <2>1, CompareStepData
  <1>9. QED
    BY <1>1, <1>2, <1>3, <1>4, <1>5, <1>6, <1>7, <1>8, Steps, RepairStepFrame,
       SchedStepFrame, PoolStepFrame

\* Only a crash, a start and the armed watcher change the phase of the process.
LEMMA PhaseFrame ==
  ASSUME [Next]_vars
  PROVE  Crash \/ Boot \/ Armed \/ UNCHANGED phase
  <1>1. ASSUME NEW s, NEW ps, Edit(s, ps) PROVE UNCHANGED phase
    BY <1>1 DEF Edit
  <1>2. ASSUME NEW d, NEW ps, Tamper(d, ps) PROVE UNCHANGED phase
    BY <1>2 DEF Tamper
  <1>3. ASSUME NEW k, NEW d, Cancel(k, d) PROVE UNCHANGED phase
    BY <1>3 DEF Cancel
  <1>4. ASSUME NEW s, Dismiss(s) PROVE UNCHANGED phase
    BY <1>4 DEF Dismiss
  <1>5. ASSUME NEW d, NEW t, CompareStart(t, d) PROVE UNCHANGED phase
    BY <1>5 DEF CompareStart
  <1>6. ASSUME NEW d, NEW t, NEW m, Request(t, d, m) PROVE UNCHANGED phase
    BY <1>6 DEF Request
  <1>7. QED
    BY <1>1, <1>2, <1>3, <1>4, <1>5, <1>6, Steps, PassStepFrame, CompareStepFrame,
       RepairStepFrame, SchedStepFrame, PoolStepFrame DEF vars

\* Every step keeps the reading of a Compare that began with the watcher armed complete.
LEMMA ArmedReadsStep ==
  ASSUME ActivitiesAssumption, ScanType, ScanGate, DataType, ArmedReads, [Next]_vars
  PROVE  ArmedReads'
  <1>0. SourceOf \in [Dst -> Src]
    BY DEF ActivitiesAssumption
  <1>1. SUFFICES ASSUME NEW t \in Scanner
                 PROVE  /\ phase' # "up" => scan'[t].armed = FALSE
                        /\ phase' = "up" /\ scan'[t].pc # "idle" /\ scan'[t].armed # FALSE =>
                             unread'[SourceOf[scan'[t].dst]] \subseteq
                                scan'[t].left \cup scan'[t].read
    BY DEF ArmedReads
  <1>2. CASE scan'[t].armed = FALSE
    BY <1>2
  <1>3. ASSUME NEW s \in Src, NEW ps \in SUBSET Path, Edit(s, ps), scan'[t].armed # FALSE
        PROVE  /\ phase' # "up" => scan'[t].armed = FALSE
               /\ phase' = "up" /\ scan'[t].pc # "idle" /\ scan'[t].armed # FALSE =>
                    unread'[SourceOf[scan'[t].dst]] \subseteq scan'[t].left \cup scan'[t].read
    <2>1. /\ scan'[t].pc = scan[t].pc /\ scan'[t].dst = scan[t].dst
          /\ scan'[t].left = scan[t].left /\ scan'[t].armed = scan[t].armed
          /\ scan'[t].read = IF scan[t].dst \in Of(s) THEN scan[t].read \ ps ELSE scan[t].read
      <3>1. ScanBut(t, {"read"})
        BY <1>3, EditScanEffect
      <3>2. scan'[t].read = IF scan[t].dst \in Of(s) THEN scan[t].read \ ps ELSE scan[t].read
        BY <1>3, EditScanEffect
      <3>3. QED BY <3>1, <3>2 DEF ScanBut, ScanFields
    <2>2. phase = "up" /\ phase' = "up"
      BY <1>1, <1>3, <2>1 DEF ArmedReads, Edit
    <2>3. unread' = [unread EXCEPT ![s] = @ \ ps]
      BY <1>3, <2>2 DEF Edit
    <2>4. ASSUME scan[t].pc # "idle"
          PROVE  unread'[SourceOf[scan[t].dst]] \subseteq scan[t].left \cup scan'[t].read
      <3>1. /\ scan[t].dst \in Dst
            /\ unread[SourceOf[scan[t].dst]] \subseteq scan[t].left \cup scan[t].read
        BY <1>3, <2>1, <2>2, <2>4 DEF ArmedReads, ScanGate
      <3>2. CASE SourceOf[scan[t].dst] = s
        <4>1. scan'[t].read = scan[t].read \ ps
          BY <2>1, <3>1, <3>2 DEF Of
        <4>2. unread'[s] = unread[s] \ ps
          BY <2>3 DEF DataType
        <4>3. QED BY <3>1, <3>2, <4>1, <4>2
      <3>3. CASE SourceOf[scan[t].dst] # s
        <4>1. scan'[t].read = scan[t].read
          BY <2>1, <3>3 DEF Of
        <4>2. unread'[SourceOf[scan[t].dst]] = unread[SourceOf[scan[t].dst]]
          BY <1>0, <2>3, <3>1, <3>3 DEF DataType
        <4>3. QED BY <3>1, <4>1, <4>2
      <3>4. QED BY <3>2, <3>3
    <2>5. QED BY <2>1, <2>2, <2>4
  <1>4. ASSUME Armed PROVE scan'[t].armed = FALSE
    <2>1. scan[t].armed = FALSE
      BY <1>4 DEF Armed, ArmedReads
    <2>2. QED BY <1>4, <2>1, ArmedScanEffect DEF ScanBut, ScanFields
  <1>5. ASSUME Crash PROVE scan'[t].armed = FALSE
    BY <1>5 DEF Crash, NoScan
  <1>6. ASSUME Boot PROVE scan'[t].armed = FALSE
    BY <1>6 DEF Boot, ArmedReads
  <1>7. ASSUME UNCHANGED phase, \A s \in Src : unread'[s] \subseteq unread[s],
               scan'[t].armed # FALSE
        PROVE  /\ phase' = "up"
               /\ scan'[t].pc # "idle" =>
                    unread'[SourceOf[scan'[t].dst]] \subseteq scan'[t].left \cup scan'[t].read
    <2> DEFINE Fine == phase' = "up" /\ (scan'[t].pc # "idle" =>
                    unread'[SourceOf[scan'[t].dst]] \subseteq scan'[t].left \cup scan'[t].read)
    <2>1. ASSUME scan'[t].dst = scan[t].dst, scan'[t].armed = scan[t].armed, scan[t].pc # "idle",
                 scan[t].left \cup scan[t].read \subseteq scan'[t].left \cup scan'[t].read
          PROVE  Fine
      BY <1>0, <1>7, <2>1 DEF ArmedReads, ScanGate
    <2>2. CASE scan'[t] = scan[t]
      BY <1>0, <1>7, <2>2 DEF ArmedReads, ScanGate
    <2>3. ASSUME NEW d \in Dst, NEW u \in Scanner, CompareStart(u, d) PROVE Fine
      <3>1. CASE t # u
        BY <2>2, <2>3, <3>1, CompareStartEffect DEF OnlyScan
      <3>2. CASE scan'[t] = Comparing(d)
        <4>1. scan'[t].left = Path /\ scan'[t].dst = d /\ scan'[t].armed = WatcherArmed
          BY <3>2, ComparingEffect
        <4>2. phase = "up"
          BY <1>7, <4>1 DEF WatcherArmed
        <4>3. unread'[SourceOf[d]] \subseteq Path
          BY <1>0, <1>7 DEF DataType
        <4>4. QED BY <1>7, <4>1, <4>2, <4>3
      <3>3. QED BY <2>2, <2>3, <3>1, <3>2, CompareStartEffect
    <2>4. ASSUME NEW u \in Scanner, CompareLeaves(u) PROVE Fine
      <3>1. NoScan.armed = FALSE
        BY DEF NoScan
      <3>2. t # u
        BY <1>7, <2>4, <3>1, CompareLeavesEffect
      <3>3. QED BY <2>2, <2>4, <3>2, CompareLeavesEffect DEF OnlyScan
    <2>5. ASSUME NEW u \in Scanner, OnlyScan(u), t # u PROVE Fine
      BY <2>2, <2>5 DEF OnlyScan
    <2>6. ASSUME NEW u \in Scanner, CompareStep(u) PROVE Fine
      <3>1. CASE CompareCheck(u)
        <4>1. CASE CompareFails(u)
          BY <2>4, <4>1 DEF CompareFails
        <4>2. CASE OnlyScan(u) /\ ScanBut(u, {"pc"})
          <5>1. scan[u].pc = "check"
            BY <3>1 DEF CompareCheck
          <5>2. CASE t = u
            BY <2>1, <4>2, <5>1, <5>2 DEF ScanBut, ScanFields
          <5>3. QED BY <2>5, <4>2, <5>2
        <4>3. QED BY <3>1, <4>1, <4>2, CompareCheckEffect
      <3>2. CASE CompareRegister(u)
        <4>1. scan[u].pc = "register" /\ OnlyScan(u) /\ ScanBut(u, {"pc", "prev", "raced"})
          BY <3>2, CompareRegisterEffect DEF CompareRegister
        <4>2. CASE t = u
          BY <2>1, <4>1, <4>2 DEF ScanBut, ScanFields
        <4>3. QED BY <2>5, <4>1, <4>2
      <3>3. ASSUME NEW p \in Path, CompareRead(u, p) PROVE Fine
        <4>1. /\ scan[u].pc = "read" /\ OnlyScan(u) /\ ScanBut(u, {"left", "read", "found"})
              /\ scan'[u].left = scan[u].left \ {p} /\ scan'[u].read = scan[u].read \cup {p}
          BY <3>3, CompareReadEffect DEF CompareRead
        <4>2. CASE t = u
          BY <2>1, <4>1, <4>2 DEF ScanBut, ScanFields
        <4>3. QED BY <2>5, <4>1, <4>2
      <3>4. CASE CompareBreak(u)
        BY <2>4, <3>4 DEF CompareBreak, CompareFails
      <3>5. CASE CompareDone(u)
        BY <2>4, <3>5 DEF CompareDone
      <3>6. QED BY <2>6, <3>1, <3>2, <3>3, <3>4, <3>5 DEF CompareStep
    <2>7. ASSUME Armed \/ Crash PROVE FALSE
      BY <1>4, <1>5, <1>7, <2>7
    <2>8. CASE UNCHANGED scan
      BY <2>2, <2>8
    <2>9. ASSUME NEW s \in Src, NEW ps \in SUBSET Path, Edit(s, ps) PROVE Fine
      BY <1>3, <1>7, <2>9
    <2>10. QED BY <2>3, <2>6, <2>7, <2>8, <2>9, ScanFrame
  <1>8. QED BY <1>2, <1>3, <1>4, <1>5, <1>6, <1>7, PhaseFrame, UnreadFrame

\* Every step keeps unread changes under a notice, or its source vague.
LEMMA GapStep ==
  ASSUME ActivitiesAssumption, ScanType, ScanGate, DataType, ArmedReads, GapIsNoticed, [Next]_vars
  PROVE  GapIsNoticed'
  <1>1. SUFFICES ASSUME phase' = "up", NEW s \in Src, unread'[s] # {}
                 PROVE  s \in notice' \cup vague'
    BY DEF GapIsNoticed
  <1>2. ASSUME UNCHANGED <<phase, notice, vague>>, unread'[s] \subseteq unread[s]
        PROVE  s \in notice' \cup vague'
    BY <1>1, <1>2 DEF GapIsNoticed
  <1>3. ASSUME NEW x \in Src, NEW ps \in SUBSET Path, Edit(x, ps) PROVE s \in notice' \cup vague'
    <2>1. UNCHANGED <<phase, notice, vague>> /\ phase = "up"
      BY <1>1, <1>3 DEF Edit
    <2>2. unread' = [unread EXCEPT ![x] = @ \ ps]
      BY <1>3, <2>1 DEF Edit
    <2>3. QED BY <1>2, <2>1, <2>2 DEF DataType
  <1>4. ASSUME Crash \/ Boot PROVE FALSE
    BY <1>1, <1>4 DEF Crash, Boot
  <1>5. CASE Armed
    BY <1>1, <1>5 DEF Armed
  <1>6. ASSUME NEW x \in Src, Dismiss(x) PROVE s \in notice' \cup vague'
    <2>1. /\ notice' = notice \ {x} /\ unread' = [unread EXCEPT ![x] = {}]
          /\ UNCHANGED <<phase, vague>>
      BY <1>6 DEF Dismiss
    <2>2. x # s /\ unread'[s] = unread[s]
      BY <1>1, <2>1 DEF DataType
    <2>3. QED BY <1>1, <2>1, <2>2 DEF GapIsNoticed
  <1>7. ASSUME NEW t \in Thread, CycleEnd(t) PROVE s \in notice' \cup vague'
    <2> DEFINE cleared == IF pass[t].kind = "full" THEN NoticeAfter(pass[t].src, pass[t].fresh)
                          ELSE notice
    <2>1. /\ notice' = cleared /\ UNCHANGED <<phase, unread>>
          /\ vague' = IF /\ pass[t].src \in notice \ cleared /\ unread[pass[t].src] # {}
                         /\ pass[t].fresh
                      THEN vague \cup {pass[t].src} ELSE vague
      BY <1>7 DEF CycleEnd
    <2>2. /\ notice \ {pass[t].src} \subseteq cleared
          /\ pass[t].src \in notice \ cleared => pass[t].fresh
      BY DEF NoticeAfter
    <2> HIDE DEF cleared
    <2>3. s \in notice \cup vague
      BY <1>1, <2>1 DEF GapIsNoticed
    <2>4. QED BY <1>1, <2>1, <2>2, <2>3
  <1>8. ASSUME NEW t \in Scanner, CompareDone(t) PROVE s \in notice' \cup vague'
    <2> DEFINE x == SourceOf[scan[t].dst]
    <2>1. /\ scan[t].pc = "read" /\ scan[t].left = {} /\ UNCHANGED phase
          /\ notice' = NoticeAfter(x, scan[t].fresh)
          /\ unread' = [unread EXCEPT ![x] = @ \ scan[t].read]
          /\ vague' = IF x \in notice \ notice' /\ unread'[x] # {} /\ scan[t].fresh /\ ~scan[t].armed
                      THEN vague \cup {x} ELSE vague
      BY <1>8 DEF CompareDone
    <2>2. notice \ {x} \subseteq notice' /\ (x \in notice \ notice' => scan[t].fresh)
      BY <2>1 DEF NoticeAfter
    <2>3. x \in Src
      BY <2>1 DEF ScanGate, ActivitiesAssumption
    <2>4. s \in notice \cup vague
      BY <1>1, <2>1, <2>3 DEF GapIsNoticed, DataType
    <2>5. CASE s # x \/ s \in vague
      BY <2>1, <2>2, <2>4, <2>5
    <2>6. CASE s = x /\ scan[t].armed # FALSE
      <3>1. unread[x] \subseteq scan[t].read
        BY <1>1, <2>1, <2>6 DEF ArmedReads
      <3>2. unread'[x] = unread[x] \ scan[t].read
        BY <2>1, <2>3 DEF DataType
      <3>3. QED BY <1>1, <2>6, <3>1, <3>2
    <2>7. CASE s = x /\ scan[t].armed = FALSE
      <3> HIDE DEF x
      <3>1. QED BY <1>1, <2>1, <2>2, <2>4, <2>7
    <2>8. QED BY <2>5, <2>6, <2>7
  <1>9. ASSUME NEW t \in Thread, PassStep(t), ~CycleEnd(t) PROVE UNCHANGED <<phase, notice, vague>>
    BY <1>9, PassStepNotice, PassStepFrame
  <1>10. ASSUME NEW t \in Scanner, CompareStep(t), ~CompareDone(t)
         PROVE  UNCHANGED <<phase, notice, vague>>
    BY <1>10, CompareStepData, CompareStepFrame
  <1>11. ASSUME NEW d, NEW ps, Tamper(d, ps) PROVE UNCHANGED <<phase, notice, vague>>
    BY <1>11 DEF Tamper
  <1>12. ASSUME NEW k, NEW d, Cancel(k, d) PROVE UNCHANGED <<phase, notice, vague>>
    BY <1>12 DEF Cancel
  <1>13. ASSUME NEW d, NEW t, CompareStart(t, d) PROVE UNCHANGED <<phase, notice, vague>>
    BY <1>13 DEF CompareStart
  <1>14. ASSUME NEW d, NEW t, NEW m, Request(t, d, m) PROVE UNCHANGED <<phase, notice, vague>>
    BY <1>14 DEF Request
  <1>15. CASE UNCHANGED vars
    BY <1>2, <1>15 DEF vars
  <1>16. QED
    BY <1>2, <1>3, <1>4, <1>5, <1>6, <1>7, <1>8, <1>9, <1>10, <1>11, <1>12, <1>13, <1>14,
       <1>15, Steps, UnreadFrame, RepairStepFrame, SchedStepFrame, PoolStepFrame

-----------------------------------------------------------------------------
(* The repair of a Compare *)

\* A cycle a pass has claimed for a destination still has it as its target.
Claimed ==
    \A t \in Thread, d \in Dst :
        d \in pass[t].claim /\ Wanted(t, d) => pend[d] = pass[t].mode

\* A Full of its own cycle leaves out only what events name again.
FullCovers ==
    \A t \in Thread, d \in Dst :
        pass[t].pc = "write" /\ pass[t].dst = d /\ pass[t].mode = "full" /\ d \in pass[t].claim
        => owed[d] \subseteq pass[t].plan \cup known[d] \cup lapsed[d]

\* What a repair took over is recorded, or under a Full, or its Full was undone.
Kept == \A d \in Dst : owed[d] \subseteq known[d] \cup lapsed[d] \/ pend[d] = "full"

\* What the invariant says of differences owed to a repair is the property of the run.
LEMMA KeptSuffices == ASSUME Kept PROVE RepairKept
  BY DEF Kept, RepairKept

\* A pass that still wants a destination works on the cycle of its source.
LEMMA WantedIsWorking ==
  ASSUME ActivitiesAssumption, Locals, NEW t \in Thread, NEW d \in Dst, Wanted(t, d)
  PROVE  pass[t].pc \in Working /\ pass[t].mode \in Mode /\ d \in Of(pass[t].src)
  BY DEF ActivitiesAssumption, Locals, AtWork, Held, Wanted, Working

\* What a pass wants of its own cycle it wanted before, or the cycle starts now;
\* a destination whose work ends is not wanted any more.
LEMMA WantedFrom ==
  ASSUME ActivitiesAssumption, PassType, Locals, [Next]_vars, NEW t \in Thread, NEW d \in Dst,
         d \in pass'[t].claim, d \in pass'[t].left \cup pass'[t].ready \/ pass'[t].dst = d
  PROVE  \/ /\ pass'[t].mode = pass[t].mode /\ d \in pass[t].claim /\ Wanted(t, d)
            /\ WriteDone(t) \/ WriteFails(t) => pass[t].dst # d
         \/ \E s \in Src, m \in Mode :
               CycleStart(t, s, m) /\ d \in Targeted(s, m) /\ pass'[t].mode = m
  <1>0. d # None /\ AtWork(t, pass[t])
    BY DEF ActivitiesAssumption, Locals
  <1>1. ASSUME WriteDone(t) \/ WriteFails(t)
        PROVE  /\ pass'[t].mode = pass[t].mode /\ d \in pass[t].claim /\ Wanted(t, d)
               /\ pass[t].dst # d
    <2>1. pass[t].pc = "write"
      BY <1>1 DEF WriteDone, WriteFails
    <2>2. /\ pass'[t].mode = pass[t].mode /\ pass'[t].left = pass[t].left
          /\ pass'[t].ready = pass[t].ready /\ pass'[t].claim = pass[t].claim
          /\ pass'[t].dst = None
      BY <1>1, WriteDoneEffect, WriteFailsEffect DEF But, PassFields
    <2>3. QED BY <1>0, <2>1, <2>2 DEF AtWork, Wanted, Held
  <1>2. CASE NoGain(t)
    BY <1>1, <1>2 DEF NoGain, Wanted, Held
  <1>3. CASE NoWork(t)
    BY <1>0, <1>3 DEF NoWork
  <1>4. ASSUME NEW s \in Src, NEW m \in Mode, CycleStart(t, s, m)
        PROVE  d \in Targeted(s, m) /\ pass'[t].mode = m
    BY <1>4, CycleStartEffect
  <1>5. ASSUME NEW e \in Dst, GateOne(t, e) \/ GateFails(t, e) \/ GateFar(t, e)
        PROVE  pass'[t].mode = pass[t].mode /\ d \in pass[t].claim /\ Wanted(t, d)
    <2>1. PICK blocked, refused, blind : Gated(t, e, blocked, refused, blind)
      BY <1>5 DEF GateOne, GateFails, GateFar
    <2>2. e \in pass[t].left
      BY <2>1 DEF Gated
    <2>3. /\ pass'[t].mode = pass[t].mode /\ pass'[t].claim = pass[t].claim
          /\ pass'[t].dst = pass[t].dst /\ pass'[t].left = pass[t].left \ {e}
          /\ pass'[t].ready \in {pass[t].ready, pass[t].ready \cup {e}}
      BY <2>1, GatedEffect DEF But, PassFields
    <2>4. QED BY <2>2, <2>3 DEF Wanted, Held
  <1>6. ASSUME NEW e \in Dst, WriteStart(t, e)
        PROVE  pass'[t].mode = pass[t].mode /\ d \in pass[t].claim /\ Wanted(t, d)
    <2>1. e \in pass[t].ready
      BY <1>6 DEF WriteStart
    <2>2. /\ pass'[t].mode = pass[t].mode /\ pass'[t].claim = pass[t].claim
          /\ pass'[t].left = pass[t].left
      BY <1>6, WriteStartEffect DEF But, PassFields
    <2>3. pass'[t].ready = pass[t].ready \ {e} /\ pass'[t].dst = e
      BY <1>6, WriteStartEffect
    <2>4. QED BY <2>1, <2>2, <2>3 DEF Wanted, Held
  <1>7. QED BY <1>1, <1>2, <1>3, <1>4, <1>5, <1>6, WorkStep

\* The steps that change a target or what is owed.
LEMMA PendFrame ==
  ASSUME [Next]_vars
  PROVE  \/ \E s \in Src, ps \in SUBSET Path : Edit(s, ps)
         \/ \E d \in Dst, t \in Manual, m \in {"manual", "full"} : Request(t, d, m)
         \/ RepairInject \/ RepairTarget \/ SchedTick
         \/ \E t \in Thread : WriteDone(t) \/ WriteFails(t)
         \/ UNCHANGED <<pend, owed, known, lapsed>>
  <1>1. ASSUME NEW d, NEW ps, Tamper(d, ps) PROVE UNCHANGED <<pend, owed, known, lapsed>>
    BY <1>1 DEF Tamper
  <1>2. ASSUME NEW k, NEW d, Cancel(k, d) PROVE UNCHANGED <<pend, owed, known, lapsed>>
    BY <1>2 DEF Cancel
  <1>3. ASSUME NEW s, Dismiss(s) PROVE UNCHANGED <<pend, owed, known, lapsed>>
    BY <1>3 DEF Dismiss
  <1>4. ASSUME NEW d, NEW t, CompareStart(t, d) PROVE UNCHANGED <<pend, owed, known, lapsed>>
    BY <1>4 DEF CompareStart
  <1>5. CASE Crash \/ Boot \/ Armed \/ UNCHANGED vars
    BY <1>5 DEF Crash, Boot, Armed, vars
  <1>6. ASSUME NEW d, RepairRead(d) PROVE UNCHANGED <<pend, owed, known, lapsed>>
    BY <1>6 DEF RepairRead
  <1>7. ASSUME NEW t, RepairEnd(t) PROVE UNCHANGED <<pend, owed, known, lapsed>>
    BY <1>7 DEF RepairEnd
  <1>8. ASSUME StandbySample \/ StandbyStep PROVE UNCHANGED <<pend, owed, known, lapsed>>
    BY <1>8 DEF StandbySample, StandbyStep
  <1>9. QED
    BY <1>1, <1>2, <1>3, <1>4, <1>5, <1>6, <1>7, <1>8, Steps, PassStepData, CompareStepFrame,
       PoolStepFrame DEF RepairStep, SchedStep

\* Every step keeps the destinations of a running cycle under its target.
LEMMA ClaimedStep ==
  ASSUME ActivitiesAssumption, PassType, Locals, PassGate, DataType, ReportType, Claimed,
         [Next]_vars
  PROVE  Claimed'
  <1>1. SUFFICES ASSUME NEW t \in Thread, NEW d \in Dst, d \in pass'[t].claim,
                        d \in pass'[t].left \cup pass'[t].ready \/ pass'[t].dst = d
                 PROVE  pend'[d] = pass'[t].mode
    BY DEF Claimed, Wanted, Held
  <1>2. ASSUME NEW s \in Src, NEW m \in Mode, CycleStart(t, s, m), d \in Targeted(s, m),
               pass'[t].mode = m
        PROVE  pend'[d] = pass'[t].mode
    BY <1>2 DEF CycleStart, Targeted
  <1>3. CASE /\ pass'[t].mode = pass[t].mode /\ d \in pass[t].claim /\ Wanted(t, d)
             /\ WriteDone(t) \/ WriteFails(t) => pass[t].dst # d
    <2>1. pend[d] = pass[t].mode /\ pend[d] # "none" /\ pass[t].pc \in Working /\ gate = t
      BY <1>3, WantedIsWorking DEF Claimed, Mode, PassGate, Working, Inside
    <2>2. SUFFICES pend'[d] = pend[d]
      BY <1>3, <2>1
    <2>3. ASSUME NEW s \in Src, NEW ps \in SUBSET Path, Edit(s, ps) PROVE pend' = pend
      BY <2>3 DEF Edit
    <2>4. ASSUME NEW e \in Dst, NEW u \in Manual, NEW m \in {"manual", "full"}, Request(u, e, m)
          PROVE  pend'[d] = pend[d]
      <3>1. t # u
        BY <2>1, <2>4 DEF Request, Working
      <3>2. pass'[t] = Without(pass[t], e)
        BY <2>4, <3>1, RequestEffect
      <3>3. DOMAIN pass[t] = PassFields
        BY DEF PassType, IsPass
      <3>4. d # e
        BY <1>1, <3>2, <3>3, WithoutEffect
      <3>5. QED BY <2>4, <3>4 DEF Request, DataType
    <2>5. CASE RepairTarget
      <3>1. pass'[t] = Without(pass[t], repair.dst)
        BY <2>5, RepairTargetEffect
      <3>2. DOMAIN pass[t] = PassFields
        BY DEF PassType, IsPass
      <3>3. d # repair.dst
        BY <1>1, <3>1, <3>2, WithoutEffect
      <3>4. QED BY <2>5, <3>3 DEF RepairTarget, DataType
    <2>6. CASE RepairInject
      BY <2>6 DEF RepairInject
    <2>7. CASE SchedTick
      BY <2>1, <2>7 DEF SchedTick
    <2>8. ASSUME NEW u \in Thread, WriteDone(u) \/ WriteFails(u) PROVE pend'[d] = pend[d]
      <3>1. u = t
        BY <2>1, <2>8 DEF WriteDone, WriteFails, PassGate, Inside
      <3>2. pass[t].dst # d
        BY <1>3, <2>8, <3>1
      <3>3. CASE WriteDone(t)
        BY <3>2, <3>3 DEF WriteDone, DataType
      <3>4. CASE WriteFails(t)
        BY <3>2, <3>4 DEF WriteFails, DataType
      <3>5. QED BY <2>8, <3>1, <3>3, <3>4
    <2>9. QED BY <2>3, <2>4, <2>5, <2>6, <2>7, <2>8, PendFrame
  <1>4. QED BY <1>1, <1>2, <1>3, WantedFrom

\* A complete report names all it counted.
LEMMA CompleteSample ==
  ASSUME ActivitiesAssumption, NEW r, IsReport(r), SampleIsComplete(r)
  PROVE  r.sample = r.all
  <1>1. IsFiniteSet(r.all)
    BY FS_Subset DEF ActivitiesAssumption, IsReport
  <1>2. Cardinality(r.sample) <= Cardinality(r.all)
        /\ (Cardinality(r.sample) = Cardinality(r.all) => r.sample = r.all)
    BY <1>1, FS_Subset DEF IsReport
  <1>3. Cardinality(r.sample) \in Nat /\ Cardinality(r.all) \in Nat
    BY <1>1, FS_Subset, FS_CardinalityType DEF IsReport
  <1>4. QED BY <1>2, <1>3 DEF SampleIsComplete

\* A repair whose report is complete records all that it takes over.
LEMMA InjectRecords ==
  ASSUME ActivitiesAssumption, DataType, ReportType, RepairInject, NEW d \in Dst
  PROVE  \/ \E ps : /\ owed'[d] = owed[d] \cup (ps \cap diff[d])
                     /\ known'[d] = known[d] \cup ps
                     /\ lapsed'[d] = lapsed[d] \ (ps \cap diff[d])
         \/ owed'[d] = owed[d] /\ known'[d] = known[d] /\ lapsed'[d] = lapsed[d]
  <1>1. CASE ~SampleIsComplete(repair.rep)
    BY <1>1 DEF RepairInject
  <1>2. CASE SampleIsComplete(repair.rep)
    <2>1. repair.rep.sample = repair.rep.all
      BY <1>2, CompleteSample DEF RepairInject, ReportType
    <2>2. /\ known' = [known EXCEPT ![repair.dst] = @ \cup repair.rep.sample]
          /\ owed' = [owed EXCEPT ![repair.dst] = @ \cup Found]
          /\ lapsed' = [lapsed EXCEPT ![repair.dst] = @ \ Found]
      BY <1>2 DEF RepairInject
    <2>3. CASE d = repair.dst
      BY <2>1, <2>2, <2>3 DEF Found, DataType
    <2>4. CASE d # repair.dst
      BY <2>2, <2>4 DEF DataType
    <2>5. QED BY <2>3, <2>4
  <1>3. QED BY <1>1, <1>2

\* What is done at the end of a write: all of it goes, of every record.
LEMMA WriteDoneData ==
  ASSUME DataType, NEW t \in Thread, WriteDone(t), NEW d \in Dst
  PROVE  \/ /\ d = pass[t].dst
            /\ known'[d] = known[d] \ pass[t].plan /\ owed'[d] = owed[d] \ pass[t].plan
            /\ lapsed'[d] = lapsed[d] \ pass[t].plan
            /\ d \in pass[t].claim \/ pend'[d] = pend[d]
         \/ /\ d # pass[t].dst
            /\ known'[d] = known[d] /\ owed'[d] = owed[d] /\ pend'[d] = pend[d]
            /\ lapsed'[d] = lapsed[d]
  <1>1. /\ known' = [known EXCEPT ![pass[t].dst] = @ \ pass[t].plan]
        /\ owed' = [owed EXCEPT ![pass[t].dst] = @ \ pass[t].plan]
        /\ lapsed' = [lapsed EXCEPT ![pass[t].dst] = @ \ pass[t].plan]
    BY DEF WriteDone
  <1>2. pend' = [pend EXCEPT ![pass[t].dst] = IF pass[t].dst \in pass[t].claim THEN "none" ELSE @]
    BY DEF WriteDone
  <1>3. d # pass[t].dst \/ d \notin pass[t].claim => pend'[d] = pend[d]
    BY <1>2 DEF DataType
  <1>4. QED BY <1>1, <1>3 DEF DataType

\* Every step keeps what a repair took over recorded, or under a Full.
LEMMA KeptStep ==
  ASSUME ActivitiesAssumption, PassType, Locals, DataType, ReportType, Claimed, FullCovers,
         Kept, [Next]_vars
  PROVE  Kept'
  <1>1. SUFFICES ASSUME NEW d \in Dst PROVE owed'[d] \subseteq known'[d] \cup lapsed'[d] \/ pend'[d] = "full"
    BY DEF Kept
  <1>2. owed[d] \subseteq known[d] \cup lapsed[d] \/ pend[d] = "full"
    BY DEF Kept
  <1> DEFINE Goal == owed'[d] \subseteq known'[d] \cup lapsed'[d] \/ pend'[d] = "full"
  <1>3. ASSUME NEW s \in Src, NEW ps \in SUBSET Path, Edit(s, ps) PROVE Goal
    <2>1. CASE phase = "up"
      BY <1>2, <1>3, <2>1 DEF Edit, DataType
    <2>2. CASE phase # "up"
      BY <1>2, <1>3, <2>2 DEF Edit, DataType
    <2>3. QED BY <2>1, <2>2
  <1>4. ASSUME NEW e \in Dst, NEW t \in Manual, NEW m \in {"manual", "full"}, Request(t, e, m)
        PROVE  Goal
    <2>1. CASE m = "full"
      BY <1>2, <1>4, <2>1 DEF Request, DataType
    <2>2. CASE m # "full"
      <3>1. /\ UNCHANGED <<known, owed>> /\ (d # e => pend'[d] = pend[d])
            /\ lapsed'[d] = IF d = e THEN lapsed[d] \cup Overruled(d, m) ELSE lapsed[d]
        BY <1>4 DEF Request, DataType
      <3>2. QED BY <1>2, <2>2, <3>1 DEF Overruled
    <2>3. QED BY <2>1, <2>2
  <1>5. CASE RepairInject
    <2>1. UNCHANGED pend
      BY <1>5 DEF RepairInject
    <2>2. QED BY <1>2, <1>5, <2>1, InjectRecords
  <1>6. CASE RepairTarget
    <2>1. UNCHANGED known
      BY <1>6 DEF RepairTarget
    <2>2. CASE d # repair.dst
      <3>1. owed'[d] = owed[d] /\ pend'[d] = pend[d] /\ lapsed'[d] = lapsed[d]
        BY <1>6, <2>2 DEF RepairTarget, DataType
      <3>2. QED BY <1>2, <2>1, <3>1
    <2>3. CASE d = repair.dst /\ SampleIsComplete(repair.rep)
      <3>1. /\ UNCHANGED owed
            /\ lapsed' = [lapsed EXCEPT ![repair.dst] = @ \cup Overruled(repair.dst, "manual")]
        BY <1>6, <2>3 DEF RepairTarget
      <3>2. lapsed'[d] = lapsed[d] \cup Overruled(d, "manual")
        BY <2>3, <3>1 DEF DataType
      <3>3. QED BY <1>2, <2>1, <3>1, <3>2 DEF Overruled
    <2>4. CASE d = repair.dst /\ ~SampleIsComplete(repair.rep)
      <3>1. pend' = [pend EXCEPT ![repair.dst] = "full"]
        BY <1>6, <2>4 DEF RepairTarget
      <3>2. QED BY <2>4, <3>1 DEF DataType
    <2>5. QED BY <2>2, <2>3, <2>4
  <1>7. CASE SchedTick
    BY <1>2, <1>7 DEF SchedTick
  <1>8. ASSUME NEW t \in Thread, WriteDone(t) PROVE Goal
    <2>1. CASE d # pass[t].dst
      BY <1>2, <1>8, <2>1, WriteDoneData
    <2>2. CASE d = pass[t].dst /\ d \notin pass[t].claim
      BY <1>2, <1>8, <2>2, WriteDoneData
    <2>3. CASE d = pass[t].dst /\ d \in pass[t].claim
      <3>1. pass[t].pc = "write" /\ pend[d] = pass[t].mode
        BY <1>8, <2>3 DEF WriteDone, Claimed, Wanted, Held
      <3>2. owed[d] \subseteq pass[t].plan \cup known[d] \cup lapsed[d]
        BY <1>2, <2>3, <3>1 DEF FullCovers
      <3>3. /\ known'[d] = known[d] \ pass[t].plan /\ owed'[d] = owed[d] \ pass[t].plan
            /\ lapsed'[d] = lapsed[d] \ pass[t].plan
        BY <1>8, <2>3, WriteDoneData
      <3>4. QED BY <3>2, <3>3
    <2>4. QED BY <2>1, <2>2, <2>3
  <1>9. ASSUME NEW t \in Thread, WriteFails(t) PROVE Goal
    <2>1. UNCHANGED <<known, owed>>
      BY <1>9 DEF WriteFails
    <2>2. CASE Hit(t, TRUE)
      <3>1. /\ pend' = [pend EXCEPT ![pass[t].dst] = "none"]
            /\ lapsed' = [lapsed EXCEPT ![pass[t].dst] = @ \cup Overruled(pass[t].dst, "none")]
        BY <1>9, <2>2 DEF WriteFails
      <3>2. CASE d = pass[t].dst
        BY <1>2, <2>1, <3>1, <3>2 DEF DataType, Overruled
      <3>3. CASE d # pass[t].dst
        BY <1>2, <2>1, <3>1, <3>3 DEF DataType
      <3>4. QED BY <3>2, <3>3
    <2>3. CASE ~Hit(t, TRUE)
      <3>1. UNCHANGED <<pend, lapsed>>
        BY <1>9, <2>3 DEF WriteFails
      <3>2. QED BY <1>2, <2>1, <3>1
    <2>4. QED BY <2>2, <2>3
  <1>10. CASE UNCHANGED <<pend, owed, known, lapsed>>
    BY <1>2, <1>10
  <1>11. QED BY <1>3, <1>4, <1>5, <1>6, <1>7, <1>8, <1>9, <1>10, PendFrame

\* The plan of a running write changes with the source only.
LEMMA PlanStep ==
  ASSUME PassType, [Next]_vars, NEW t \in Thread, pass[t].pc = "write", pass'[t].pc = "write"
  PROVE  pass'[t].plan = pass[t].plan \/ \E s \in Src, ps \in SUBSET Path : Edit(s, ps)
  <1>0. \A u \in Thread : DOMAIN pass[u] = PassFields
    BY DEF PassType, IsPass
  <1>1. CASE Crash
    BY <1>1 DEF Crash, Resting
  <1>2. ASSUME Armed PROVE pass'[t].plan = pass[t].plan
    BY <1>2, ArmedEffect DEF But, PassFields
  <1>3. ASSUME NEW d \in Dst, NEW u \in Manual, NEW m \in {"manual", "full"}, Request(u, d, m)
        PROVE  pass'[t].plan = pass[t].plan
    <2>1. t # u
      BY <1>3 DEF Request
    <2>2. pass'[t] = Without(pass[t], d)
      BY <1>3, <2>1, RequestEffect
    <2>3. QED BY <1>0, <2>2, WithoutKeeps
  <1>4. ASSUME RepairTarget PROVE pass'[t].plan = pass[t].plan
    BY <1>0, <1>4, RepairTargetEffect, WithoutKeeps
  <1>5. ASSUME NEW u \in Manual, RepairEnd(u) PROVE pass'[t].plan = pass[t].plan
    BY <1>5, RepairEndEffect DEF RepairEnd, Only
  <1>6. ASSUME SchedTick \/ StandbySample \/ StandbyStep PROVE pass'[t].plan = pass[t].plan
    BY <1>6, SchedTickEffect, StandbySampleEffect, StandbyStepEffect
       DEF SchedTick, StandbySample, StandbyStep, Only
  <1>7. ASSUME NEW u \in Thread, PassStep(u) PROVE pass'[t].plan = pass[t].plan
    <2>1. ASSUME NEW d \in Dst, GateOne(u, d) \/ GateFails(u, d) \/ GateFar(u, d)
          PROVE  Only(u) /\ pass[u].pc # "write"
      <3>1. PICK blocked, refused, blind : Gated(u, d, blocked, refused, blind)
        BY <2>1 DEF GateOne, GateFails, GateFar
      <3>2. QED BY <3>1, GatedEffect DEF Gated
    <2>2. ASSUME NEW s \in Src, NEW m \in Mode, CycleStart(u, s, m)
          PROVE  Only(u) /\ pass[u].pc # "write"
      BY <2>2, CycleStartEffect DEF CycleStart
    <2>3. ASSUME NEW d \in Dst, WriteStart(u, d) PROVE Only(u) /\ pass[u].pc # "write"
      BY <2>3, WriteStartEffect DEF WriteStart
    <2>4. CASE WriteDone(u) \/ WriteFails(u)
      <3>1. Only(u) /\ pass'[u].pc # "write"
        BY <2>4, WriteDoneEffect, WriteFailsEffect
      <3>2. QED BY <3>1 DEF Only
    <2>5. ASSUME PassLock(u) \/ CycleEnd(u) \/ PassAgain(u) \/ PassEnd(u)
          PROVE  Only(u) /\ pass[u].pc # "write"
      BY <2>5, PassLockEffect, CycleEndEffect, PassAgainEffect, PassEndEffect
         DEF PassLock, CycleEnd, PassAgain, PassEnd
    <2>6. (Only(u) /\ pass[u].pc # "write") \/ pass'[t].plan = pass[t].plan
      BY <1>7, <2>1, <2>2, <2>3, <2>4, <2>5 DEF PassStep
    <2>7. QED BY <2>6 DEF Only
  <1>8. CASE UNCHANGED pass
    BY <1>8
  <1>9. QED
    BY <1>1, <1>2, <1>3, <1>4, <1>5, <1>6, <1>7, <1>8, PassFrame DEF PassMoves

\* Every step keeps what a Full of its own cycle leaves out recorded.
LEMMA FullCoversStep ==
  ASSUME ActivitiesAssumption, PassType, Locals, PassGate, DataType, ReportType, Claimed,
         FullCovers, [Next]_vars
  PROVE  FullCovers'
  <1>1. SUFFICES ASSUME NEW t \in Thread, NEW d \in Dst, pass'[t].pc = "write",
                        pass'[t].dst = d, pass'[t].mode = "full", d \in pass'[t].claim
                 PROVE  owed'[d] \subseteq pass'[t].plan \cup known'[d] \cup lapsed'[d]
    BY DEF FullCovers
  <1>2. AtWork(t, pass[t]) /\ d # None
    BY DEF Locals, ActivitiesAssumption
  <1>3. ASSUME NEW e \in Dst, WriteStart(t, e) PROVE owed'[d] \subseteq pass'[t].plan \cup known'[d] \cup lapsed'[d]
    <2>1. pass[t].mode = "full" /\ pass'[t].plan = Path
      BY <1>1, <1>3, WriteStartEffect DEF But, PassFields
    <2>2. owed' = owed
      BY <1>3 DEF WriteStart
    <2>3. QED BY <2>1, <2>2 DEF DataType
  <1>4. CASE WriteDone(t) \/ WriteFails(t)
    BY <1>1, <1>4, WriteDoneEffect, WriteFailsEffect
  <1>5. ASSUME NEW e \in Dst, GateOne(t, e) \/ GateFails(t, e) \/ GateFar(t, e) PROVE FALSE
    <2>1. PICK blocked, refused, blind : Gated(t, e, blocked, refused, blind)
      BY <1>5 DEF GateOne, GateFails, GateFar
    <2>2. But(t, {"left", "blk", "ready"})
      BY <2>1, GatedEffect
    <2>3. pass[t].pc = "gate" /\ pass'[t].pc = pass[t].pc
      BY <2>1, <2>2 DEF Gated, But, PassFields
    <2>4. QED BY <1>1, <2>3
  <1>6. ASSUME NEW s \in Src, NEW m \in Mode, CycleStart(t, s, m) PROVE FALSE
    BY <1>1, <1>6, CycleStartEffect
  <1>7. CASE NoWork(t)
    BY <1>1, <1>2, <1>7 DEF NoWork
  <1>8. CASE NoGain(t) /\ ~WriteDone(t) /\ ~WriteFails(t)
    <2>1. /\ pass[t].pc = "write" /\ pass[t].dst = d /\ pass[t].mode = "full"
          /\ d \in pass[t].claim
      BY <1>1, <1>2, <1>8 DEF NoGain, AtWork
    <2>2. owed[d] \subseteq pass[t].plan \cup known[d] \cup lapsed[d] /\ gate = t
      BY <2>1 DEF FullCovers, PassGate, Inside
    <2>3. ASSUME NEW s \in Src, NEW ps \in SUBSET Path, Edit(s, ps)
          PROVE  owed'[d] \subseteq pass'[t].plan \cup known'[d] \cup lapsed'[d]
      <3>1. pass'[t].plan = IF d \in Of(s) THEN pass[t].plan \ ps ELSE pass[t].plan
        <4>1. pass'[t].plan = IF pass[t].src = s THEN pass[t].plan \ ps ELSE pass[t].plan
          BY <2>3, EditEffect
        <4>2. d \in Of(s) <=> pass[t].src = s
          BY <1>2, <2>1 DEF AtWork, Working, Of
        <4>3. QED BY <4>1, <4>2
      <3>2. CASE phase = "up"
        <4>1. known'[d] = known[d] \cup IF d \in Of(s) THEN ps ELSE {}
          BY <2>3, <3>2 DEF Edit
        <4>2. owed' = owed /\ lapsed'[d] = lapsed[d] \ IF d \in Of(s) THEN ps ELSE {}
          BY <2>3, <3>2 DEF Edit
        <4>3. QED BY <2>2, <3>1, <4>1, <4>2
      <3>3. CASE phase # "up"
        <4>1. owed'[d] = owed[d] \ IF d \in Of(s) THEN ps ELSE {}
          BY <2>3, <3>3 DEF Edit
        <4>2. known' = known /\ lapsed'[d] = lapsed[d] \ IF d \in Of(s) THEN ps ELSE {}
          BY <2>3, <3>3 DEF Edit
        <4>3. QED BY <2>2, <3>1, <4>1, <4>2
      <3>4. QED BY <3>2, <3>3
    <2>4. CASE \A s \in Src, ps \in SUBSET Path : ~Edit(s, ps)
      <3>1. pass'[t].plan = pass[t].plan
        BY <1>1, <2>1, <2>4, PlanStep
      <3>2. ASSUME NEW e \in Dst, NEW u \in Manual, NEW m \in {"manual", "full"}, Request(u, e, m)
            PROVE  UNCHANGED <<owed, known>> /\ lapsed[d] \subseteq lapsed'[d]
        BY <3>2 DEF Request, DataType
      <3>3. CASE RepairTarget
        <4>1. pass'[t] = Without(pass[t], repair.dst) /\ DOMAIN pass[t] = PassFields
          BY <3>3, RepairTargetEffect DEF PassType, IsPass
        <4>2. d # repair.dst
          BY <1>1, <4>1, WithoutEffect
        <4>3. owed'[d] = owed[d] /\ known' = known /\ lapsed'[d] = lapsed[d]
          BY <3>3, <4>2 DEF RepairTarget, DataType
        <4>4. QED BY <2>2, <3>1, <4>3
      <3>4. CASE RepairInject
        BY <2>2, <3>1, <3>4, InjectRecords
      <3>5. CASE SchedTick
        BY <2>2, <3>1, <3>5 DEF SchedTick
      <3>6. ASSUME NEW u \in Thread, WriteDone(u) \/ WriteFails(u) PROVE FALSE
        <4>1. pass[u].pc = "write"
          BY <3>6 DEF WriteDone, WriteFails
        <4>2. u = t
          BY <2>2, <4>1 DEF PassGate, Inside
        <4>3. QED BY <1>8, <3>6, <4>2
      <3>7. CASE UNCHANGED <<pend, owed, known, lapsed>>
        BY <2>2, <3>1, <3>7
      <3>8. QED BY <2>2, <2>4, <3>1, <3>2, <3>3, <3>4, <3>5, <3>6, <3>7, PendFrame
    <2>5. QED BY <2>3, <2>4
  <1>9. QED BY <1>3, <1>4, <1>5, <1>6, <1>7, <1>8, WorkStep

-----------------------------------------------------------------------------
(* Parking a pool *)

\* While the pools are driven, the scheduler has seen the running pass, or the
\* pass took sync_gate after it looked.
Seen ==
    \A t \in Thread : pass["sched"].pc = "standby" /\ gate = t => syncing \/ pass[t].late

\* Only the standby tick of the scheduler changes the sample of sync_is_running.
LEMMA SyncingFrame ==
  ASSUME [Next]_vars
  PROVE  Crash \/ StandbySample \/ StandbyStep \/ UNCHANGED syncing
  <1>1. ASSUME NEW s, NEW ps, Edit(s, ps) PROVE UNCHANGED syncing
    BY <1>1 DEF Edit
  <1>2. ASSUME NEW d, NEW ps, Tamper(d, ps) PROVE UNCHANGED syncing
    BY <1>2 DEF Tamper
  <1>3. ASSUME NEW k, NEW d, Cancel(k, d) PROVE UNCHANGED syncing
    BY <1>3 DEF Cancel
  <1>4. ASSUME NEW s, Dismiss(s) PROVE UNCHANGED syncing
    BY <1>4 DEF Dismiss
  <1>5. ASSUME NEW d, NEW t, CompareStart(t, d) PROVE UNCHANGED syncing
    BY <1>5 DEF CompareStart
  <1>6. ASSUME NEW d, NEW t, NEW m, Request(t, d, m) PROVE UNCHANGED syncing
    BY <1>6 DEF Request
  <1>7. CASE Boot \/ Armed \/ SchedTick \/ UNCHANGED vars
    BY <1>7 DEF Boot, Armed, SchedTick, vars
  <1>8. QED
    BY <1>1, <1>2, <1>3, <1>4, <1>5, <1>6, <1>7, Steps, PassStepFrame, CompareStepFrame,
       RepairStepFrame, PoolStepFrame DEF SchedStep

\* The scheduler gets to drive the pools only by its own sample.
LEMMA StandbyFrom ==
  ASSUME PassType, [Next]_vars, pass'["sched"].pc = "standby"
  PROVE  pass["sched"].pc = "standby" \/ StandbySample
  <1> DEFINE t == "sched"
  <1>0. t \in Thread /\ DOMAIN pass[t] = PassFields
    BY DEF PassType, IsPass, Thread
  <1>1. ASSUME NEW s \in Src, NEW ps \in SUBSET Path, Edit(s, ps) PROVE pass'[t].pc = pass[t].pc
    BY <1>0, <1>1, EditEffect DEF But, PassFields
  <1>2. CASE Crash
    BY <1>0, <1>2 DEF Crash, Resting
  <1>3. ASSUME Armed PROVE pass'[t].pc = pass[t].pc
    BY <1>0, <1>3, ArmedEffect DEF But, PassFields
  <1>4. ASSUME NEW d \in Dst, NEW u \in Manual, NEW m \in {"manual", "full"}, Request(u, d, m)
        PROVE  pass'[t].pc = pass[t].pc
    <2>1. t # u
      BY <1>0, <1>4, RequestEffect, WaitingIsPass
    <2>2. pass'[t] = Without(pass[t], d)
      BY <1>0, <1>4, <2>1, RequestEffect
    <2>3. QED BY <1>0, <2>2, WithoutKeeps
  <1>5. ASSUME RepairTarget PROVE pass'[t].pc = pass[t].pc
    BY <1>0, <1>5, RepairTargetEffect, WithoutKeeps
  <1>6. ASSUME NEW u \in Manual, RepairEnd(u) PROVE pass'[t].pc = pass[t].pc
    BY <1>0, <1>6, RepairEndEffect, WaitingIsPass DEF Only, Kind
  <1>7. ASSUME SchedTick \/ StandbyStep PROVE FALSE
    BY <1>7, SchedTickEffect, StandbyStepEffect DEF Resting
  <1>8. ASSUME NEW u \in Thread, PassStep(u) PROVE pass'[t].pc = pass[t].pc
    <2>1. ASSUME Only(u), pass'[u].pc # "standby" PROVE pass'[t].pc = pass[t].pc
      BY <1>0, <2>1 DEF Only
    <2>2. ASSUME NEW d \in Dst, GateOne(u, d) \/ GateFails(u, d) \/ GateFar(u, d) PROVE pass'[t].pc = pass[t].pc
      <3>1. PICK blocked, refused, blind : Gated(u, d, blocked, refused, blind)
        BY <2>2 DEF GateOne, GateFails, GateFar
      <3>2. Only(u) /\ But(u, {"left", "blk", "ready"})
        BY <3>1, GatedEffect
      <3>3. QED BY <1>0, <3>2 DEF Only, But, PassFields
    <2>3. ASSUME PassAgain(u) PROVE pass'[t].pc = pass[t].pc
      BY <1>0, <2>3, PassAgainEffect DEF Only, But, PassFields
    <2>4. ASSUME PassEnd(u) PROVE pass'[t].pc = pass[t].pc
      <3>1. pass'[u] = [Resting EXCEPT !.pc = IF u = "sched" THEN "sample" ELSE "idle"]
        BY <2>4, PassEndEffect
      <3>2. pass'[u].pc # "standby"
        BY <3>1 DEF Resting
      <3>3. QED BY <2>1, <2>4, <3>2, PassEndEffect
    <2>5. QED
      BY <1>8, <2>1, <2>2, <2>3, <2>4, PassLockEffect, CycleStartEffect, WriteStartEffect,
         WriteDoneEffect, WriteFailsEffect, CycleEndEffect DEF PassStep
  <1>9. CASE UNCHANGED pass
    BY <1>9
  <1>10. QED
    BY <1>1, <1>2, <1>3, <1>4, <1>5, <1>6, <1>7, <1>8, <1>9, PassFrame DEF PassMoves

\* A pass remembers how it took sync_gate for as long as it holds it.
LEMMA LateStep ==
  ASSUME ActivitiesAssumption, PassType, PassGate, [Next]_vars, NEW t \in Thread,
         gate = t, gate' = t
  PROVE  pass'[t].late = pass[t].late
  <1>0. /\ \A u \in Thread : DOMAIN pass[u] = PassFields
        /\ pass[t].pc \in Inside /\ gate' # None
    BY DEF PassType, IsPass, PassGate, ActivitiesAssumption, Thread
  <1>1. ASSUME NEW s \in Src, NEW ps \in SUBSET Path, Edit(s, ps)
        PROVE  pass'[t].late = pass[t].late
    BY <1>1, EditEffect DEF But, PassFields
  <1>2. ASSUME Armed PROVE pass'[t].late = pass[t].late
    BY <1>2, ArmedEffect DEF But, PassFields
  <1>3. ASSUME NEW d \in Dst, NEW u \in Manual, NEW m \in {"manual", "full"}, Request(u, d, m)
        PROVE  pass'[t].late = pass[t].late
    <2>1. t # u
      BY <1>0, <1>3 DEF Request, Inside
    <2>2. pass'[t] = Without(pass[t], d)
      BY <1>3, <2>1, RequestEffect
    <2>3. QED BY <1>0, <2>2, WithoutKeeps
  <1>4. ASSUME RepairTarget PROVE pass'[t].late = pass[t].late
    BY <1>0, <1>4, RepairTargetEffect, WithoutKeeps
  <1>5. ASSUME NEW u \in Manual, RepairEnd(u) PROVE pass'[t].late = pass[t].late
    BY <1>0, <1>5, RepairEndEffect DEF RepairEnd, Only, Inside
  <1>6. ASSUME SchedTick \/ StandbySample \/ StandbyStep PROVE pass'[t].late = pass[t].late
    BY <1>0, <1>6, SchedTickEffect, StandbySampleEffect, StandbyStepEffect
       DEF SchedTick, StandbySample, StandbyStep, Only, Inside
  <1>7. ASSUME NEW u \in Thread, PassStep(u) PROVE pass'[t].late = pass[t].late
    <2>1. ASSUME Only(u), pass'[u].late = pass[u].late PROVE pass'[t].late = pass[t].late
      BY <2>1 DEF Only
    <2>2. ASSUME NEW d \in Dst, GateOne(u, d) \/ GateFails(u, d) \/ GateFar(u, d)
          PROVE  Only(u) /\ pass'[u].late = pass[u].late
      <3>1. PICK blocked, refused, blind : Gated(u, d, blocked, refused, blind)
        BY <2>2 DEF GateOne, GateFails, GateFar
      <3>2. QED BY <3>1, GatedEffect DEF But, PassFields
    <2>3. CASE PassLock(u)
      <3>1. gate = None /\ u # t
        BY <1>0, <2>3 DEF PassLock, Inside
      <3>2. QED BY <2>3, <3>1, PassLockEffect DEF Only
    <2>4. CASE PassEnd(u)
      BY <1>0, <2>4 DEF PassEnd
    <2>5. CASE CycleEnd(u)
      BY <2>1, <2>5, CycleEndEffect
    <2>6. ASSUME NEW s \in Src, NEW m \in Mode, CycleStart(u, s, m)
          PROVE  Only(u) /\ pass'[u].late = pass[u].late
      BY <2>6, CycleStartEffect DEF But, PassFields
    <2>7. ASSUME NEW d \in Dst, WriteStart(u, d) PROVE Only(u) /\ pass'[u].late = pass[u].late
      BY <2>7, WriteStartEffect DEF But, PassFields
    <2>8. ASSUME WriteDone(u) \/ WriteFails(u) PROVE Only(u) /\ pass'[u].late = pass[u].late
      BY <2>8, WriteDoneEffect, WriteFailsEffect DEF But, PassFields
    <2>9. ASSUME PassAgain(u) PROVE Only(u) /\ pass'[u].late = pass[u].late
      BY <2>9, PassAgainEffect DEF But, PassFields
    <2>10. QED
      BY <1>7, <2>1, <2>2, <2>3, <2>4, <2>5, <2>6, <2>7, <2>8, <2>9 DEF PassStep
  <1>8. ~Crash
    BY <1>0 DEF Crash
  <1>9. CASE UNCHANGED pass
    BY <1>9
  <1>10. QED
    BY <1>1, <1>2, <1>3, <1>4, <1>5, <1>6, <1>7, <1>8, <1>9, PassFrame DEF PassMoves

\* Every step keeps the sample true of every pass that took the gate before it.
LEMMA SeenStep ==
  ASSUME ActivitiesAssumption, PassType, PassGate, Seen, [Next]_vars
  PROVE  Seen'
  <1>1. SUFFICES ASSUME NEW t \in Thread, pass'["sched"].pc = "standby", gate' = t
                 PROVE  syncing' \/ pass'[t].late
    BY DEF Seen
  <1>2. gate' # None /\ "sched" \in Thread
    BY <1>1 DEF ActivitiesAssumption, Thread
  <1>3. CASE StandbySample
    <2>1. UNCHANGED gate
      BY <1>3, SchedStepFrame DEF SchedStep
    <2>2. syncing' = (gate # None)
      BY <1>3 DEF StandbySample
    <2>3. QED BY <1>2, <2>1, <2>2
  <1>4. CASE pass["sched"].pc = "standby"
    <2>1. ~Crash
      BY <1>2 DEF Crash
    <2>2. ASSUME NEW u \in Thread, PassEnd(u) PROVE FALSE
      BY <1>2, <2>2 DEF PassEnd
    <2>3. ASSUME NEW u \in Thread, PassLock(u) PROVE pass'[t].late
      <3>1. u = t
        BY <1>1, <2>3 DEF PassLock
      <3>2. Sampled
        BY <1>4 DEF Sampled
      <3>3. QED BY <2>3, <3>1, <3>2, PassLockEffect
    <2>4. ASSUME UNCHANGED gate PROVE syncing' \/ pass'[t].late
      <3>1. ~StandbySample /\ ~StandbyStep
        BY <1>1, <1>4, StandbyStepEffect DEF StandbySample, Resting
      <3>2. UNCHANGED syncing
        BY <2>1, <3>1, SyncingFrame
      <3>3. syncing \/ pass[t].late
        BY <1>1, <1>4, <2>4 DEF Seen
      <3>4. pass'[t].late = pass[t].late
        BY <1>1, <2>4, LateStep
      <3>5. QED BY <3>2, <3>3, <3>4
    <2>5. QED BY <2>1, <2>2, <2>3, <2>4, GateFrame
  <1>5. QED BY <1>1, <1>3, <1>4, StandbyFrom

\* Only the scheduler parks a pool.
LEMMA AwakeFrame ==
  ASSUME [Next]_vars
  PROVE  Crash \/ StandbyStep \/ UNCHANGED awake
  <1>1. ASSUME NEW s, NEW ps, Edit(s, ps) PROVE UNCHANGED awake
    BY <1>1 DEF Edit
  <1>2. ASSUME NEW d, NEW ps, Tamper(d, ps) PROVE UNCHANGED awake
    BY <1>2 DEF Tamper
  <1>3. ASSUME NEW k, NEW d, Cancel(k, d) PROVE UNCHANGED awake
    BY <1>3 DEF Cancel
  <1>4. ASSUME NEW s, Dismiss(s) PROVE UNCHANGED awake
    BY <1>4 DEF Dismiss
  <1>5. ASSUME NEW d, NEW t, CompareStart(t, d) PROVE UNCHANGED awake
    BY <1>5 DEF CompareStart
  <1>6. ASSUME NEW d, NEW t, NEW m, Request(t, d, m) PROVE UNCHANGED awake
    BY <1>6 DEF Request
  <1>7. CASE Boot \/ Armed \/ SchedTick \/ StandbySample \/ UNCHANGED vars
    BY <1>7 DEF Boot, Armed, SchedTick, StandbySample, vars
  <1>8. QED
    BY <1>1, <1>2, <1>3, <1>4, <1>5, <1>6, <1>7, Steps, PassStepFrame, CompareStepFrame,
       RepairStepFrame, PoolStepFrame DEF SchedStep

\* What ParkSparesWriters says of one step
ParkSpares ==
    \A p \in Pool, t \in Thread, d \in Dst :
        awake[p] # "no" /\ awake'[p] = "no" /\ Writing(t, d) /\ p \in Touched(d) => pass[t].late

\* A step parks no pool under a write the sample could have shown.
LEMMA ParkStep ==
  ASSUME PassGate, Seen, [Next]_vars
  PROVE  ParkSpares
  <1>1. SUFFICES ASSUME NEW p \in Pool, NEW t \in Thread, NEW d \in Dst,
                        awake[p] # "no", awake'[p] = "no", Writing(t, d)
                 PROVE  pass[t].late
    BY DEF ParkSpares
  <1>2. gate = t
    BY <1>1 DEF Writing, PassGate, Inside
  <1>3. StandbyStep
    <2>1. Crash => awake'[p] = "unknown"
      BY DEF Crash
    <2>2. QED BY <1>1, <2>1, AwakeFrame
  <1>4. pass["sched"].pc = "standby"
    BY <1>3 DEF StandbyStep
  <1>5. ~Busy(p)
    BY <1>1, <1>3 DEF StandbyStep
  <1>6. QED BY <1>2, <1>4, <1>5 DEF Busy, Seen

-----------------------------------------------------------------------------
(* The theorems *)

TypeInv ==
    /\ PassType /\ ScanType /\ LockType /\ ReportType /\ OpsType /\ DataType /\ PoolType
    /\ UnsureType /\ Locals /\ PassGate /\ ScanGate

IInv ==
    /\ TypeInv
    /\ OpsLive /\ Registered                \* the cancel registry
    /\ Apart /\ Mounted                     \* what a pass holds
    /\ ArmedReads /\ GapIsNoticed           \* the restart notice
    /\ Claimed /\ FullCovers /\ Kept        \* the repair of a Compare
    /\ Seen                                 \* parking a pool

\* The initial states satisfy the invariant.
LEMMA InitInv == Init => IInv
  <1>1. SUFFICES ASSUME Init PROVE IInv
    OBVIOUS
  <1>2. ActivitiesAssumption
    BY ActivitiesAssumption
  <1>3. /\ pass = [t \in Thread |-> Resting] /\ scan = [t \in Scanner |-> NoScan]
        /\ gate = None /\ scanGate = None /\ ops = {}
    BY <1>1 DEF Init
  <1>4. PassType /\ ScanType
    BY <1>3, RestingIsPass, NoScanIsScan DEF PassType, ScanType
  <1>5. LockType /\ OpsType /\ PoolType /\ UnsureType
    BY <1>1 DEF Init, LockType, OpsType, PoolType, UnsureType
  <1>6. ReportType
    BY <1>1 DEF Init, ReportType, NoRepair
  <1>7. DataType
    BY <1>1 DEF Init, DataType
  <1>8. Locals
    BY <1>3, RestingAtWork DEF Locals
  <1>9. \A t \in Thread : /\ pass[t].pc = "idle" /\ pass[t].ready = {} /\ pass[t].dst = None
                          /\ pass[t].claim = {}
    BY <1>3 DEF Resting
  <1>10. \A t \in Scanner : scan[t].pc = "idle" /\ scan[t].dst = None /\ scan[t].armed = FALSE
    BY <1>3 DEF NoScan
  <1>11. PassGate /\ ScanGate
    BY <1>2, <1>3, <1>9, <1>10 DEF PassGate, ScanGate, Inside, ActivitiesAssumption, Thread
  <1>12. OpsLive /\ Registered
    BY <1>3, <1>9, <1>10 DEF OpsLive, Registered, Working
  <1>13. Apart /\ Claimed
    BY <1>9, <1>10 DEF Apart, Claimed
  <1>14. Mounted
    BY <1>2, <1>9 DEF Mounted, Held, ActivitiesAssumption
  <1>15. ArmedReads /\ GapIsNoticed
    BY <1>1, <1>10 DEF Init, ArmedReads, GapIsNoticed
  <1>16. FullCovers /\ Seen
    BY <1>3, <1>2, <1>9 DEF FullCovers, Seen, ActivitiesAssumption, Thread
  <1>17. Kept
    BY <1>1 DEF Init, Kept
  <1>18. QED
    BY <1>4, <1>5, <1>6, <1>7, <1>8, <1>11, <1>12, <1>13, <1>14, <1>15, <1>16, <1>17
       DEF IInv, TypeInv

\* Every step keeps the types.
LEMMA TypeInvStep == TypeInv /\ [Next]_vars => TypeInv'
  <1>1. SUFFICES ASSUME TypeInv, [Next]_vars PROVE TypeInv'
    OBVIOUS
  <1>2. ActivitiesAssumption /\ SourceOf \in [Dst -> Src]
    BY ActivitiesAssumption DEF ActivitiesAssumption
  <1>3. /\ PassType /\ ScanType /\ LockType /\ ReportType /\ OpsType /\ DataType /\ PoolType
        /\ UnsureType /\ Locals /\ PassGate /\ ScanGate
    BY <1>1 DEF TypeInv
  <1>4. kind \in Kind \cup {None} /\ known \in [Dst -> SUBSET Path]
    BY <1>3 DEF LockType, DataType
  <1>5. PassType' /\ ScanType'
    BY <1>1, <1>2, <1>3, <1>4, PassTypeStep, ScanTypeStep
  <1>6. LockType' /\ ReportType' /\ PoolType'
    BY <1>1, <1>3, LockTypeStep, ReportTypeStep, PoolTypeStep
  <1>7. OpsType'
    BY <1>1, <1>2, <1>3, OpsTypeStep DEF ScanGate
  <1>8. DataType' /\ Locals'
    BY <1>1, <1>2, <1>3, DataTypeStep, LocalsStep
  <1>9. PassGate' /\ ScanGate'
    BY <1>1, <1>2, <1>3, PassGateStep, ScanGateStep
  <1>10. UnsureType'
    BY <1>1, <1>3, UnsureStep
  <1>11. QED BY <1>5, <1>6, <1>7, <1>8, <1>9, <1>10 DEF TypeInv

\* Every step keeps the invariant.
LEMMA InvStep == IInv /\ [Next]_vars => IInv'
  <1>1. SUFFICES ASSUME IInv, [Next]_vars PROVE IInv'
    OBVIOUS
  <1>2. ActivitiesAssumption
    BY ActivitiesAssumption
  <1>3. /\ PassType /\ ScanType /\ LockType /\ ReportType /\ OpsType /\ DataType /\ PoolType
        /\ UnsureType /\ Locals /\ PassGate /\ ScanGate
        /\ OpsLive /\ Registered /\ Apart /\ Mounted /\ ArmedReads /\ GapIsNoticed
        /\ Claimed /\ FullCovers /\ Kept /\ Seen
    BY <1>1 DEF IInv, TypeInv
  <1>4. TypeInv'
    BY <1>1, TypeInvStep DEF IInv
  <1>5. OpsLive' /\ Registered'
    BY <1>1, <1>2, <1>3, OpsLiveStep, RegisteredStep
  <1>6. Apart' /\ Mounted'
    BY <1>1, <1>2, <1>3, ApartStep, MountedStep
  <1>7. ArmedReads' /\ GapIsNoticed'
    BY <1>1, <1>2, <1>3, ArmedReadsStep, GapStep
  <1>8. Claimed' /\ FullCovers' /\ Kept'
    BY <1>1, <1>2, <1>3, ClaimedStep, FullCoversStep, KeptStep
  <1>9. Seen'
    BY <1>1, <1>2, <1>3, SeenStep
  <1>10. QED BY <1>4, <1>5, <1>6, <1>7, <1>8, <1>9 DEF IInv

\* The inductive invariant: the registry, the locks and the locals of every pass and
\* Compare agree with each other, whatever requests, cancels, faults and crashes do.
THEOREM Invariance == Spec => []IInv
  BY InitInv, InvStep, PTL DEF Spec

\* The state of the process has its types: the locks are held by threads, a
\* pass writes to a destination of the source of its cycle, and a Compare
\* registers as a Compare.
THEOREM TypeCorrect == Spec => []TypeOK
  <1>1. IInv => TypeOK
    <2>1. SUFFICES ASSUME IInv PROVE TypeOK
      OBVIOUS
    <2>2. LockType /\ DataType /\ PoolType /\ UnsureType
      BY <2>1 DEF IInv, TypeInv
    <2>3. \A o \in ops : /\ o.by \in Thread \cup Scanner /\ o.scope \subseteq Dst
                         /\ o.kind = IF o.by \in Scanner THEN "compare" ELSE "sync"
      BY <2>1 DEF IInv, TypeInv, OpsType, IsOp
    <2>4. \A t \in Thread : pass[t].dst \in Of(pass[t].src) \cup {None}
      <3>1. SUFFICES ASSUME NEW t \in Thread PROVE pass[t].dst \in Of(pass[t].src) \cup {None}
        OBVIOUS
      <3>2. AtWork(t, pass[t])
        BY <2>1 DEF IInv, TypeInv, Locals
      <3>3. QED BY <3>2 DEF AtWork
    <2>5. \A t \in Scanner : scan[t].dst \in Dst \cup {None}
      BY <2>1 DEF IInv, TypeInv, ScanType, IsScan
    <2>6. QED BY <2>2, <2>3, <2>4, <2>5 
         DEF TypeOK, LockType, DataType, PoolType, UnsureType
  <1>2. QED BY <1>1, Invariance, PTL

\* The cancel registry (begin_target, the drop of its guard): whatever
\* kind_target_active finds is of the one thread that holds the gate of that
\* work, and is at it.
THEOREM RegistryLive == Spec => []RegistryIsLive
  <1>1. IInv => RegistryIsLive
    <2>1. SUFFICES ASSUME IInv, NEW o \in ops
                   PROVE  \/ o.by \in Scanner /\ scan[o.by].pc = "read" /\ scanGate = o.by
                          \/ o.by = gate /\ (o.scope # {} => pass[o.by].src # None)
      BY DEF RegistryIsLive
    <2>2. CASE o.by \in Scanner /\ scan[o.by].pc = "read"
      BY <2>1, <2>2 DEF IInv, TypeInv, ScanGate
    <2>3. CASE ~(o.by \in Scanner /\ scan[o.by].pc = "read")
      <3>1. o.by = gate /\ (o.scope # {} => pass[o.by].pc \in Working)
        BY <2>1, <2>3 DEF IInv, OpsLive
      <3>2. o.by \in Thread
        BY <2>1, <3>1, ActivitiesAssumption
           DEF IInv, TypeInv, LockType, OpsType, IsOp, ActivitiesAssumption
      <3>3. AtWork(o.by, pass[o.by])
        BY <2>1, <3>2 DEF IInv, TypeInv, Locals
      <3>4. pass[o.by].pc \in Working => pass[o.by].src # None
        BY <3>3, ActivitiesAssumption DEF AtWork, ActivitiesAssumption
      <3>5. QED BY <3>1, <3>4
    <2>4. QED BY <2>2, <2>3
  <1>2. QED BY <1>1, Invariance, PTL

\* scan_destination_now and the readiness checks: a pass never writes to a
\* destination while a Compare reads it, unless the pass was registered between
\* the Compare's look at the registry and the Compare's own entry.
THEOREM ComparesApart == Spec => []CompareApart
  <1>1. IInv => CompareApart
    BY DEF IInv, Apart, CompareApart, Writing, Held
  <1>2. QED BY <1>1, Invariance, PTL

\* clear_restart_notice_if_covered: what changed while nobody watched stays
\* under a notice, through every interleaving of restarts, Compares and passes,
\* but for the two exceptions the property names.
THEOREM GapsNoticed == Spec => []GapIsNoticed
  <1>1. IInv => GapIsNoticed
    BY DEF IInv
  <1>2. QED BY <1>1, Invariance, PTL

\* queue_scan_repair: what a consumed report found and is still different is in
\* the event log or under a pending Full, whatever passes, faults and crashes
\* come between the statements of the repair, unless an incremental request
\* took that Full over or a cancel dropped it.
THEOREM RepairsKept == Spec => []RepairKept
  <1>1. IInv => RepairKept
    BY KeptSuffices DEF IInv
  <1>2. QED BY <1>1, Invariance, PTL

\* gate_for_sync: a pass writes with every pool it touches mounted, unless its
\* readiness check did not look at the mounts (a request that overrides a parked
\* pool, a gate that failed, the transfer engine) or a pool was exported or
\* imported after the check.
THEOREM WritesAreMounted == Spec => []WritesMounted
  <1>1. IInv => WritesMounted
    BY DEF IInv, Mounted, WritesMounted, Writing, Held
  <1>2. QED BY <1>1, Invariance, PTL

\* StandbyManager::step: a pool is parked under a write only when the pass took
\* sync_gate after run_scheduler had sampled it.
THEOREM ParkingSparesWriters == Spec => ParkSparesWriters
  <1>1. IInv /\ [Next]_vars => [ParkSpares]_vars
    BY ParkStep DEF IInv, TypeInv
  <1>2. QED BY <1>1, Invariance, PTL DEF Spec, ParkSparesWriters, ParkSpares

=============================================================================
