------------------------- MODULE ZfsBaselineProofs -------------------------
(***************************************************************************)
(* Proofs about ZfsBaseline, for every tree, set of destinations, number of *)
(* cycles and budget: the snapshots that the rows of the state database     *)
(* name are there and of its generation; trees stay trees; a green          *)
(* destination is current; and the diffs of both sides against their bases  *)
(* name every path that differs.                                            *)
(*                                                                          *)
(* What paths and trees are comes first, then what a change, a pass and     *)
(* zfs diff make of a tree, then the three parts of the inductive           *)
(* invariant, each with a lemma per action: BaseInv for rows and snapshots, *)
(* ViewInv for trees, snapshots and what is green, DiffInv for the diffs.   *)
(***************************************************************************)
EXTENDS ZfsBaseline, FiniteSetTheorems, TLAPS

----------------------------------------------------------------------------
(* Paths. *)

\* A set with the parent of everything in it, and that of p.
Closed(P, p) == \A q \in P \cup {p} : Parent[q] \in P \cup {Root}

\* What is above a path is the least closed set.
LEMMA AboveIs ==
  ASSUME NEW p \in Path
  PROVE  /\ Above[p] \subseteq Path /\ Closed(Above[p], p)
         /\ \A P \in SUBSET Path : Closed(P, p) => Above[p] \subseteq P
  <1>1. Above[p] = {a \in Path : \A P \in SUBSET Path : Closed(P, p) => a \in P}
    BY DEF Above, Closed
  <1>2. Closed(Path, p)
    BY ZfsAssumption DEF Closed
  <1>3. Closed(Above[p], p)
    <2>1. ASSUME NEW q \in Above[p] \cup {p}, Parent[q] # Root
          PROVE  Parent[q] \in Above[p]
      <3>1. q \in Path /\ Parent[q] \in Path
        BY <1>1, <2>1, ZfsAssumption
      <3>2. ASSUME NEW P \in SUBSET Path, Closed(P, p)
            PROVE  Parent[q] \in P
        <4>1. q \in P \cup {p}
          BY <1>1, <3>2
        <4>2. QED BY <2>1, <3>2, <4>1 DEF Closed
      <3>3. QED BY <1>1, <3>1, <3>2
    <2>2. QED BY <2>1 DEF Closed
  <1>4. QED BY <1>1, <1>3

\* A set of paths in which every path has its parent is empty.
LEMMA Topped ==
  ASSUME NEW S \in SUBSET Path, \A q \in S : Parent[q] \in S
  PROVE  S = {}
  <1> DEFINE P == Path \ S
  <1>1. ASSUME NEW p \in Path, Parent[p] \in P \cup {Root}
        PROVE  p \in P
    <2>1. Root \notin S
      BY ZfsAssumption
    <2>2. QED BY <1>1, <2>1
  <1>2. P = Path
    BY <1>1, TreeAssumption
  <1>3. QED BY <1>2

\* A path and what it is in.
Up(p) == {p} \cup Above[p]

\* What a path is in, it has in common with its parent.
LEMMA UpIs ==
  ASSUME NEW p \in Path
  PROVE  /\ p \in Up(p) /\ Up(p) \subseteq Path
         /\ \A a \in Up(p) : Parent[a] # Root => Parent[a] \in Up(p) /\ Parent[a] \in Dir
         /\ \A a \in Up(p) : Up(a) \subseteq Up(p)
         /\ Parent[p] # Root => Above[p] = Up(Parent[p]) /\ Parent[p] \in Path
         /\ Parent[p] = Root => Above[p] = {}
         /\ \A a \in Above[p] : a \in Dir
  <1>1. Above[p] \subseteq Path /\ Closed(Above[p], p)
    BY AboveIs
  <1>2. \A a \in Up(p) : Parent[a] # Root => Parent[a] \in Above[p] /\ Parent[a] \in Dir
    <2>1. \A a \in Up(p) : a \in Path /\ Parent[a] \in Above[p] \cup {Root}
      BY <1>1 DEF Closed, Up
    <2>2. QED BY <2>1, ZfsAssumption
  <1>3. ASSUME NEW a \in Above[p]
        PROVE  Above[a] \subseteq Above[p]
    <2>1. Closed(Above[p], a)
      BY <1>1, <1>3 DEF Closed
    <2>2. QED BY <1>1, <1>3, <2>1, AboveIs
  <1>4. ASSUME Parent[p] # Root
        PROVE  Above[p] = Up(Parent[p]) /\ Parent[p] \in Path
    <2> DEFINE q == Parent[p]
    <2>1. q \in Above[p] /\ q \in Path
      BY <1>1, <1>2, <1>4 DEF Up
    <2>2. Above[q] \subseteq Path /\ Closed(Above[q], q)
      BY <2>1, AboveIs
    <2>3. Closed(Up(q), p)
      BY <2>2 DEF Closed, Up
    <2>4. Up(q) \in SUBSET Path
      BY <2>1, <2>2 DEF Up
    <2>5. Above[p] \subseteq Up(q)
      BY <2>3, <2>4, AboveIs
    <2>6. QED BY <1>3, <2>1, <2>5 DEF Up
  <1>5. ASSUME Parent[p] = Root
        PROVE  Above[p] = {}
    <2>1. Closed({}, p)
      BY <1>5 DEF Closed
    <2>2. QED BY <2>1, AboveIs
  <1>6. Above[p] \subseteq Dir
    <2>1. Closed(Above[p] \cap Dir, p)
      <3>1. ASSUME NEW q \in (Above[p] \cap Dir) \cup {p}
            PROVE  Parent[q] \in (Above[p] \cap Dir) \cup {Root}
        BY <1>2 DEF Up
      <3>2. QED BY <3>1 DEF Closed
    <2>2. QED BY <1>1, <2>1, AboveIs
  <1>7. QED BY <1>1, <1>2, <1>3, <1>4, <1>5, <1>6 DEF Up

\* No path is in itself.
LEMMA Acyclic ==
  ASSUME NEW p \in Path
  PROVE  p \notin Above[p]
  <1> DEFINE S == {q \in Path : q \in Above[q]}
  <1>1. ASSUME NEW q \in S
        PROVE  Parent[q] \in S
    <2>1. Parent[q] # Root /\ Above[q] = Up(Parent[q]) /\ Parent[q] \in Path
      BY UpIs
    <2>2. q = Parent[q] \/ q \in Above[Parent[q]]
      BY <2>1 DEF Up
    <2>3. Parent[q] \in Above[q]
      BY <2>1 DEF Up
    <2>4. q \in Above[Parent[q]] => Above[q] \subseteq Above[Parent[q]]
      BY <2>1, UpIs DEF Up
    <2>5. QED BY <2>1, <2>2, <2>3, <2>4
  <1>2. S = {}
    BY <1>1, Topped
  <1>3. QED BY <1>2

\* What is below a path: it and every path whose directory is.
LEMMA BelowIs ==
  ASSUME NEW p \in Path
  PROVE  /\ p \in Below[p] /\ Below[p] \subseteq Path
         /\ \A q \in Path : q \in Below[p] <=> p \in Up(q)
         /\ \A q \in Path : Parent[q] \in Below[p] => q \in Below[p] /\ q # p
         /\ \A q \in Below[p] : q # p => Parent[q] \in Below[p] /\ Parent[q] # Root
         /\ Parent[p] \notin Below[p]
         /\ \A q \in Below[p] : Below[q] \subseteq Below[p]
         /\ p \notin Dir => Below[p] = {p}
  <1>1. Below[p] = {q \in Path : p \in Up(q)}
    BY DEF Below, Up
  <1>2. ASSUME NEW q \in Path, Parent[q] \in Below[p]
        PROVE  q \in Below[p] /\ q # p
    <2>1. Parent[q] # Root /\ Above[q] = Up(Parent[q]) /\ p \in Up(Parent[q])
      BY <1>1, <1>2, UpIs, ZfsAssumption
    <2>2. QED BY <1>1, <2>1, Acyclic DEF Up
  <1>3. ASSUME NEW q \in Below[p], q # p
        PROVE  Parent[q] \in Below[p] /\ Parent[q] # Root
    <2>1. q \in Path /\ p \in Above[q]
      BY <1>1, <1>3 DEF Up
    <2>2. Parent[q] # Root /\ Above[q] = Up(Parent[q]) /\ Parent[q] \in Path
      BY <2>1, UpIs
    <2>3. QED BY <1>1, <2>1, <2>2
  <1>4. ASSUME NEW q \in Below[p], NEW r \in Below[q]
        PROVE  r \in Below[p]
    <2>1. q \in Path /\ p \in Up(q)
      BY <1>1, <1>4
    <2>2. r \in Path /\ q \in Up(r)
      BY <2>1, <1>4 DEF Below, Up
    <2>3. QED BY <1>1, <2>1, <2>2, UpIs
  <1>5. p \in Below[p]
    BY <1>1 DEF Up
  <1>6. p \notin Dir => Below[p] = {p}
    BY <1>1, <1>5, UpIs DEF Up
  <1>7. QED BY <1>1, <1>2, <1>3, <1>4, <1>5, <1>6
----------------------------------------------------------------------------
(* Trees. *)

\* A place of a tree is empty or has a node, whose content is not that of an empty one.
LEMMA TreeNode ==
  ASSUME NEW t, Tree(t), NEW p \in Path
  PROVE  /\ Exists(t, p) => t[p] \in Node /\ t[p].id \in Path \X Nat \X Nat /\ t[p].born \in Nat
                             /\ t[p].c \in Content \cup {1} /\ t[p].c # 0
         /\ ~Exists(t, p) => t[p] = NoNode
         /\ Exists(t, p) /\ Parent[p] # Root => Parent[p] \in Path /\ Parent[p] \in Dir /\ Exists(t, Parent[p])
         /\ Exists(t, p) /\ p \in Dir => t[p].c = 1
         /\ t = [q \in Path |-> t[q]]
  <1>1. t \in [Path -> Node \cup {NoNode}]
    BY DEF Tree
  <1>2. Exists(t, p) => t[p] \in Node
    BY <1>1 DEF Exists
  <1>3. t[p] \in Node => t[p].id \in Path \X Nat \X Nat /\ t[p].born \in Nat /\ t[p].c \in Content \cup {1}
    BY DEF Node
  <1>4. \A c \in Content \cup {1} : c # 0
    BY ZfsAssumption
  <1>5. Exists(t, p) /\ Parent[p] # Root => Parent[p] \in Path /\ Parent[p] \in Dir /\ Exists(t, Parent[p])
    BY ZfsAssumption DEF Tree, HasParent
  <1>6. QED BY <1>1, <1>2, <1>3, <1>4, <1>5 DEF Exists, Tree

\* An empty place has no object, no age and no content.
LEMMA NoNodeIs ==
  /\ NoNode.id = <<>> /\ NoNode.born = 0 /\ NoNode.c = 0
  /\ NoNode \notin Node
  /\ \A i \in Path \X Nat \X Nat : i # <<>>
  <1>1. NoNode.id = <<>> /\ NoNode.born = 0 /\ NoNode.c = 0
    BY DEF NoNode
  <1>2. \A n \in Node : n.c \in Content \cup {1}
    BY DEF Node
  <1>3. 0 \notin Content \cup {1}
    BY ZfsAssumption
  <1>4. \A i \in Path \X Nat \X Nat : i # <<>>
    OBVIOUS
  <1>5. QED BY <1>1, <1>2, <1>3, <1>4

\* What is there can be told from its object or its content.
LEMMA ThereIs ==
  ASSUME NEW t, Tree(t), NEW p \in Path
  PROVE  /\ Exists(t, p) <=> t[p].id # <<>>
         /\ Exists(t, p) <=> t[p].c # 0
  BY TreeNode, NoNodeIs

\* What is there has all it is in there as well.
LEMMA TreeUp ==
  ASSUME NEW t, Tree(t), NEW p \in Path, Exists(t, p), NEW a \in Up(p)
  PROVE  Exists(t, a)
  <1> DEFINE E == {q \in Above[p] : Exists(t, q)}
  <1>1. E \in SUBSET Path
    BY UpIs DEF Up
  <1>2. Closed(E, p)
    <2>1. ASSUME NEW q \in E \cup {p}, Parent[q] # Root
          PROVE  Parent[q] \in E
      <3>1. q \in Path /\ Exists(t, q) /\ q \in Up(p)
        BY <1>1 DEF Up
      <3>2. Exists(t, Parent[q])
        BY <2>1, <3>1, TreeNode
      <3>3. Parent[q] \in Up(p) /\ Parent[q] \in Path
        BY <2>1, <3>1, UpIs
      <3>4. Parent[q] \in Above[p]
        BY <2>1, AboveIs DEF Closed
      <3>5. QED BY <3>2, <3>4
    <2>2. QED BY <2>1 DEF Closed
  <1>3. Above[p] \subseteq E
    BY <1>1, <1>2, AboveIs
  <1>4. QED BY <1>3 DEF Up

\* What lies below something that is not there is not there.
LEMMA TreeDown ==
  ASSUME NEW t, Tree(t), NEW p \in Path, ~Exists(t, p), NEW q \in Below[p]
  PROVE  ~Exists(t, q)
  <1>1. q \in Path /\ p \in Up(q)
    BY BelowIs
  <1>2. QED BY <1>1, TreeUp

\* Where an object was made.
\* Where an object was made, from its name.
First(id) == id[1]

\* There is always a new object to make.
LEMMA FreshIs ==
  ASSUME NEW t, NEW p \in Path, NEW txg \in Nat
  PROVE  /\ Fresh(t, p, txg) \in Path \X Nat \X Nat
         /\ First(Fresh(t, p, txg)) = p /\ Time(Fresh(t, p, txg)) = txg
         /\ \A q \in Path : t[q].id # Fresh(t, p, txg)
  <1> DEFINE N == Cardinality(Path)
             F(n) == \A q \in Path : t[q].id # <<p, txg, n>>
             m == CHOOSE n \in 0..N : F(n)
  <1>1. N \in Nat /\ IsFiniteSet(Path)
    BY TreeAssumption, FS_CardinalityType
  <1>2. \E n \in 0..N : F(n)
    <2>1. SUFFICES ASSUME \A n \in 0..N : \E q \in Path : t[q].id = <<p, txg, n>>
                   PROVE  FALSE
      OBVIOUS
    <2> DEFINE f == [n \in 0..N |-> CHOOSE q \in Path : t[q].id = <<p, txg, n>>]
    <2>2. \A n \in 0..N : f[n] \in Path /\ t[f[n]].id = <<p, txg, n>>
      BY <2>1
    <2>3. f \in [0..N -> Path]
      BY <2>2
    <2>4. IsInjective(f)
      <3>1. \A a, b \in 0..N : f[a] = f[b] => a = b
        <4>1. ASSUME NEW a \in 0..N, NEW b \in 0..N, f[a] = f[b]
              PROVE  a = b
          <5>1. <<p, txg, a>> = <<p, txg, b>>
            BY <2>2, <4>1
          <5>2. QED BY <5>1
        <4>2. QED BY <4>1
      <3>2. QED BY <2>3, <3>1 DEF IsInjective
    <2>5. f \in Injection(0..N, Path)
      BY <2>3, <2>4 DEF Injection
    <2>6. Cardinality(0..N) <= N
      BY <1>1, <2>5, FS_Injection
    <2>7. Cardinality(0..N) = N + 1
      BY <1>1, FS_Interval
    <2>8. QED BY <1>1, <2>6, <2>7
  <1>3. m \in 0..N /\ F(m)
    BY <1>2
  <1>4. Fresh(t, p, txg) = <<p, txg, m>>
    BY DEF Fresh
  <1> HIDE DEF m
  <1>5. m \in Nat
    BY <1>1, <1>3
  <1>6. <<p, txg, m>> \in Path \X Nat \X Nat /\ First(<<p, txg, m>>) = p /\ Time(<<p, txg, m>>) = txg
    BY <1>5 DEF Time, First
  <1>7. QED BY <1>3, <1>4, <1>6

----------------------------------------------------------------------------
(* Changes of a tree. *)

\* Every node of the new tree is one of the old, or was made or written since the last
\* snapshot.
Stems(new, t, txg) ==
    /\ Tree(new)
    /\ \A p \in Path :
          \/ new[p] = NoNode
          \/ \E q \in Path : new[p] = t[q]
          \/ new[p].born = txg /\ (Time(new[p].id) = txg \/ \E q \in Path : Exists(t, q) /\ new[p].id = t[q].id)

\* A tree in which one place is given a node stays one if its directory is there and
\* nothing else has the object.
LEMMA PutNode ==
  ASSUME NEW t, Tree(t), NEW p \in Path, HasParent(t, p), NEW n \in Node,
         p \in Dir => n.c = 1, \A q \in Path \ {p} : t[q].id # n.id
  PROVE  Tree([q \in Path |-> IF q = p THEN n ELSE t[q]])
  <1> DEFINE u == [q \in Path |-> IF q = p THEN n ELSE t[q]]
  <1>1. u \in [Path -> Node \cup {NoNode}]
    BY DEF Tree
  <1>2. u[p] = n /\ n # NoNode /\ Exists(u, p) /\ \A q \in Path \ {p} : u[q] = t[q]
    BY NoNodeIs DEF Exists
  <1>3. \A q \in Path : Exists(t, q) => Exists(u, q)
    BY <1>2 DEF Exists
  <1>4. ASSUME NEW q \in Path, Exists(u, q)
        PROVE  HasParent(u, q) /\ (q \in Dir => u[q].c = 1)
    <2>1. HasParent(t, q) /\ (q \in Dir => u[q].c = 1)
      BY <1>2, <1>4 DEF Exists, Tree
    <2>2. Parent[q] # Root => Parent[q] \in Path
      BY ZfsAssumption
    <2>3. QED BY <1>3, <2>1, <2>2 DEF HasParent
  <1>5. \A q, r \in Path : Exists(u, q) /\ u[q].id = u[r].id => q = r
    BY <1>2 DEF Exists, Tree
  <1>6. QED BY <1>1, <1>4, <1>5 DEF Tree

\* A new file or directory.
LEMMA MadeIs ==
  ASSUME NEW t, Tree(t), NEW p \in Path, ~Exists(t, p), HasParent(t, p), NEW txg \in Nat,
         NEW c \in Content \cup {1}, p \in Dir => c = 1
  PROVE  /\ Stems(Made(t, p, c, txg), t, txg)
         /\ \A q \in Path \ {p} : Made(t, p, c, txg)[q] = t[q]
         /\ Made(t, p, c, txg)[p].born = txg /\ Time(Made(t, p, c, txg)[p].id) = txg
  <1>b. (\A q \in Path : t[q].id # Fresh(t, p, txg)) /\ Time(Fresh(t, p, txg)) = txg
    BY FreshIs
  <1> DEFINE n == [id |-> Fresh(t, p, txg), born |-> txg, c |-> c]
             u == [q \in Path |-> IF q = p THEN n ELSE t[q]]
  <1>1. n \in Node /\ n.id = Fresh(t, p, txg) /\ n.born = txg /\ n.c = c
    BY FreshIs DEF Node
  <1>2. Made(t, p, c, txg) = u
    BY TreeNode DEF Made
  <1> HIDE DEF n
  <1>a. (\A q \in Path : t[q].id # n.id) /\ Time(n.id) = txg
    BY <1>1, <1>b
  <1>3. Tree(u)
    BY <1>1, <1>a, PutNode
  <1>4. \A q \in Path \ {p} : u[q] = t[q]
    OBVIOUS
  <1>5. u[p] = n
    OBVIOUS
  <1>6. u[p].born = txg /\ Time(u[p].id) = txg
    BY <1>1, <1>a, <1>5
  <1> HIDE DEF n, u
  <1>7. QED BY <1>2, <1>3, <1>4, <1>6 DEF Stems

\* A file written in place.
LEMMA RewrittenIs ==
  ASSUME NEW t, Tree(t), NEW p \in Path, Exists(t, p), NEW txg \in Nat,
         NEW c \in Content, p \notin Dir
  PROVE  /\ Stems(Rewritten(t, p, c, txg), t, txg)
         /\ \A q \in Path \ {p} : Rewritten(t, p, c, txg)[q] = t[q]
         /\ Rewritten(t, p, c, txg)[p].born = txg
  <1> DEFINE n == [id |-> t[p].id, born |-> txg, c |-> c]
             u == [q \in Path |-> IF q = p THEN n ELSE t[q]]
  <1>0. t[p] \in Node /\ t[p].id \in Path \X Nat \X Nat
    BY TreeNode
  <1>1. n \in Node /\ n.id = t[p].id /\ n.born = txg
    BY <1>0 DEF Node
  <1>2. Rewritten(t, p, c, txg) = u
    BY TreeNode DEF Rewritten
  <1>3. Tree(u)
    <2>1. HasParent(t, p) /\ \A q \in Path \ {p} : t[q].id # n.id
      BY <1>1 DEF Tree
    <2>2. QED BY <1>1, <2>1, PutNode
  <1>4. \A q \in Path \ {p} : u[q] = t[q]
    OBVIOUS
  <1>5. u[p] = n
    OBVIOUS
  <1>6. u[p].born = txg /\ u[p].id = t[p].id
    BY <1>1, <1>5
  <1> HIDE DEF n, u
  <1>7. QED BY <1>2, <1>3, <1>4, <1>6 DEF Stems

\* Removal of some paths with what is below them.
LEMMA WithoutIs ==
  ASSUME NEW t, Tree(t), NEW P \in SUBSET Path, NEW txg
  PROVE  /\ Stems(Without(t, P), t, txg)
         /\ \A q \in Path : IF \E p \in P : q \in Below[p] THEN Without(t, P)[q] = NoNode
                                                          ELSE Without(t, P)[q] = t[q]
  <1> DEFINE u == [q \in Path |-> IF \E p \in P : q \in Below[p] THEN NoNode ELSE t[q]]
  <1>1. Without(t, P) = u
    BY DEF Without
  <1>2. u \in [Path -> Node \cup {NoNode}]
    BY DEF Tree
  <1>3. \A q \in Path : IF \E p \in P : q \in Below[p] THEN u[q] = NoNode ELSE u[q] = t[q]
    OBVIOUS
  <1> HIDE DEF u
  <1>4. ASSUME NEW q \in Path, Exists(u, q)
        PROVE  HasParent(u, q) /\ (q \in Dir => u[q].c = 1)
    <2>1. u[q] = t[q] /\ Exists(t, q) /\ ~\E p \in P : q \in Below[p]
      BY <1>3, <1>4 DEF Exists
    <2>2. HasParent(t, q) /\ (q \in Dir => t[q].c = 1)
      BY <2>1 DEF Tree
    <2>3. CASE Parent[q] = Root
      BY <2>1, <2>2, <2>3 DEF HasParent
    <2>4. CASE Parent[q] # Root
      <3>1. Parent[q] \in Path /\ ~\E p \in P : Parent[q] \in Below[p]
        BY <2>1, <2>4, BelowIs, ZfsAssumption
      <3>2. u[Parent[q]] = t[Parent[q]]
        BY <1>3, <3>1
      <3>3. QED BY <2>1, <2>2, <2>4, <3>2 DEF HasParent, Exists
    <2>5. QED BY <2>3, <2>4
  <1>5. \A q, r \in Path : Exists(u, q) /\ u[q].id = u[r].id => q = r
    <2>1. ASSUME NEW q \in Path, NEW r \in Path, Exists(u, q), u[q].id = u[r].id
          PROVE  q = r
      <3>1. u[q] = t[q] /\ Exists(t, q) /\ t[q].id # <<>>
        BY <1>3, <2>1, ThereIs DEF Exists
      <3>2. u[r] = t[r]
        BY <1>3, <2>1, <3>1, NoNodeIs
      <3>3. QED BY <2>1, <3>1, <3>2 DEF Tree
    <2>2. QED BY <2>1
  <1>6. Tree(u)
    BY <1>2, <1>4, <1>5 DEF Tree
  <1>7. QED BY <1>1, <1>3, <1>6 DEF Stems

\* A directory renamed to a place beside it.
LEMMA MovedIs ==
  ASSUME NEW t, Tree(t), NEW d \in Dir, NEW e \in Dir, Parent[d] = Parent[e],
         Exists(t, d), ~Exists(t, e), Twins(e, d) # {}, NEW txg
  PROVE  /\ Stems(Moved(t, d, e), t, txg)
         /\ \A q \in Path : q \notin Below[d] \cup Below[e] => Moved(t, d, e)[q] = t[q]
  <1> DEFINE f == CHOOSE f \in Twins(e, d) : TRUE
             u == [q \in Path |-> IF q \in Below[d] THEN NoNode ELSE IF q \in Below[e] THEN t[f[q]] ELSE t[q]]
  <1>1. d \in Path /\ e \in Path
    BY ZfsAssumption
  <1>2. Moved(t, d, e) = u
    BY DEF Moved
  <1>3. f \in Twins(e, d)
    OBVIOUS
  <1> HIDE DEF f
  <1>4. /\ f \in [Below[e] -> Below[d]] /\ IsInjective(f) /\ f[e] = d
        /\ \A q \in Below[e] \ {e} : Parent[f[q]] = f[Parent[q]] /\ (f[q] \in Dir <=> q \in Dir)
    BY <1>3 DEF Twins, Bijection, Injection
  <1>5. \A q \in Below[e] : f[q] \in Below[d] /\ f[q] \in Path
    BY <1>1, <1>4, BelowIs
  <1>6. \A q, r \in Below[e] : f[q] = f[r] => q = r
    BY <1>4 DEF IsInjective
  <1>7. /\ \A q \in Path : q \in Below[d] => u[q] = NoNode
        /\ \A q \in Path : q \notin Below[d] /\ q \in Below[e] => u[q] = t[f[q]]
        /\ \A q \in Path : q \notin Below[d] /\ q \notin Below[e] => u[q] = t[q]
    OBVIOUS
  <1>8. u \in [Path -> Node \cup {NoNode}]
    BY <1>5 DEF Tree
  <1> HIDE DEF u
  <1>9. Below[d] \subseteq Path /\ Below[e] \subseteq Path /\ e \in Below[e] /\ d \in Below[d]
    BY <1>1, BelowIs
  <1>10. ASSUME NEW q \in Path, Exists(u, q)
         PROVE  HasParent(u, q) /\ (q \in Dir => u[q].c = 1)
    <2>1. q \notin Below[d]
      BY <1>7, <1>10 DEF Exists
    <2>2. Parent[q] \notin Below[d]
      BY <1>1, <2>1, BelowIs
    <2>3. CASE q \in Below[e] /\ q # e
      <3>1. u[q] = t[f[q]] /\ f[q] \in Path /\ Exists(t, f[q])
        BY <1>5, <1>7, <1>10, <2>1, <2>3 DEF Exists
      <3>2. Parent[q] \in Below[e] /\ Parent[q] # Root /\ Parent[q] \in Path
        BY <1>1, <1>9, <2>3, BelowIs
      <3>3. Parent[f[q]] = f[Parent[q]] /\ f[Parent[q]] \in Path /\ f[Parent[q]] # Root
        BY <1>4, <1>5, <2>3, <3>2, ZfsAssumption
      <3>4. Exists(t, f[Parent[q]])
        BY <3>1, <3>3, TreeNode
      <3>5. Exists(u, Parent[q])
        BY <1>7, <2>2, <3>2, <3>4 DEF Exists
      <3>6. q \in Dir => u[q].c = 1
        BY <1>4, <2>3, <3>1, TreeNode
      <3>7. QED BY <3>5, <3>6 DEF HasParent
    <2>4. CASE q = e
      <3>1. u[q] = t[d]
        BY <1>4, <1>7, <1>9, <2>1, <2>4
      <3>2. Parent[e] \notin Below[e] /\ Parent[d] \notin Below[d]
        BY <1>1, BelowIs
      <3>3. t[d].c = 1 /\ (Parent[d] # Root => Parent[d] \in Path /\ Exists(t, Parent[d]))
        BY <1>1, TreeNode
      <3>4. Parent[d] # Root => u[Parent[d]] = t[Parent[d]]
        BY <1>7, <3>2, <3>3
      <3>5. QED BY <2>4, <3>1, <3>3, <3>4 DEF HasParent, Exists
    <2>5. CASE q \notin Below[e]
      <3>1. u[q] = t[q] /\ Exists(t, q)
        BY <1>7, <1>10, <2>1, <2>5 DEF Exists
      <3>2. Parent[q] \notin Below[e]
        BY <1>1, <2>5, BelowIs
      <3>3. Parent[q] # Root => Parent[q] \in Path /\ Exists(t, Parent[q])
        BY <3>1, TreeNode
      <3>4. Parent[q] # Root => u[Parent[q]] = t[Parent[q]]
        BY <1>7, <2>2, <3>2, <3>3
      <3>5. q \in Dir => t[q].c = 1
        BY <3>1, TreeNode
      <3>6. QED BY <3>1, <3>3, <3>4, <3>5 DEF HasParent, Exists
    <2>6. QED BY <1>9, <2>3, <2>4, <2>5
  <1>11. ASSUME NEW q \in Path, NEW r \in Path, Exists(u, q), u[q].id = u[r].id
         PROVE  q = r
    <2> DEFINE from(x) == IF x \in Below[e] THEN f[x] ELSE x
    <2>1. \A x \in Path : x \notin Below[d] => u[x] = t[from(x)] /\ from(x) \in Path
      BY <1>5, <1>7
    <2>2. q \notin Below[d]
      BY <1>7, <1>11 DEF Exists
    <2>3. u[q] = t[from(q)] /\ from(q) \in Path /\ Exists(t, from(q)) /\ u[q].id # <<>>
      <3>1. u[q] = t[from(q)] /\ from(q) \in Path /\ u[q] # NoNode
        BY <1>11, <2>1, <2>2 DEF Exists
      <3> HIDE DEF from
      <3>2. Exists(t, from(q))
        BY <3>1 DEF Exists
      <3>3. QED BY <3>1, <3>2, ThereIs
    <2>4. r \notin Below[d]
      BY <1>7, <1>11, <2>3, NoNodeIs
    <2>5. u[r] = t[from(r)] /\ from(r) \in Path
      BY <2>1, <2>4
    <2>6. from(q) = from(r)
      <3> HIDE DEF from
      <3>1. QED BY <1>11, <2>3, <2>5 DEF Tree
    <2>7. QED BY <1>5, <1>6, <2>2, <2>4, <2>6
  <1>12. Tree(u)
    BY <1>8, <1>10, <1>11 DEF Tree
  <1>13. \A q \in Path : u[q] = NoNode \/ \E r \in Path : u[q] = t[r]
    BY <1>5, <1>7
  <1>14. \A q \in Path : q \notin Below[d] \cup Below[e] => u[q] = t[q]
    BY <1>7
  <1>15. QED BY <1>2, <1>12, <1>13, <1>14 DEF Stems

\* What a change of a tree leaves: a tree of the old nodes and new ones, the same where
\* nothing was hit; and what was hit is a file written or removed, a directory, or the
\* whole of a subtree.
Change(ch, t, txg) ==
    /\ Stems(ch.tree, t, txg)
    /\ ch.at \subseteq Path /\ ch.hit \subseteq UNION {Below[p] : p \in ch.at}
    /\ ch.hit \subseteq Path /\ ch.dirs \subseteq ch.hit /\ ch.hit \cap Dir \subseteq ch.dirs
    /\ \A q \in Path \ ch.hit : ch.tree[q] = t[q]
    /\ \A q \in ch.hit \ ch.dirs : ch.tree[q] = NoNode \/ ch.tree[q].born = txg
    /\ \A q \in ch.hit : Below[q] \subseteq ch.hit \/ Time(ch.tree[q].id) = txg

\* Every change is such.
LEMMA ChangesAre ==
  ASSUME NEW t, Tree(t), NEW txg \in Nat, NEW ch \in Changes(t, txg)
  PROVE  Change(ch, t, txg)
  <1>1. \/ \E p \in Path \ Dir, c \in Content :
              /\ HasParent(t, p)
              /\ ch = [at |-> {p}, hit |-> {p}, dirs |-> {},
                       tree |-> IF Exists(t, p) THEN Rewritten(t, p, c, txg) ELSE Made(t, p, c, txg)]
        \/ \E p \in Dir :
              /\ ~Exists(t, p) /\ HasParent(t, p)
              /\ ch = [at |-> {p}, hit |-> {p}, dirs |-> {p}, tree |-> Made(t, p, 1, txg)]
        \/ \E p \in Path :
              ch = [at |-> {p}, hit |-> Below[p], dirs |-> Dir \cap Below[p], tree |-> Without(t, {p})]
        \/ \E d \in Dir, e \in Dir :
              /\ Parent[d] = Parent[e] /\ Twins(e, d) # {} /\ Exists(t, d) /\ ~Exists(t, e)
              /\ ch = [at |-> {d, e}, hit |-> Below[d] \cup Below[e], dirs |-> Below[d] \cup Below[e],
                       tree |-> Moved(t, d, e)]
    BY DEF Changes, Present
  <1>2. ASSUME NEW p \in Path \ Dir, NEW c \in Content, HasParent(t, p)
        PROVE  LET u == IF Exists(t, p) THEN Rewritten(t, p, c, txg) ELSE Made(t, p, c, txg)
               IN  Stems(u, t, txg) /\ (\A q \in Path \ {p} : u[q] = t[q]) /\ u[p].born = txg
    <2>1. CASE Exists(t, p)
      BY <1>2, <2>1, RewrittenIs
    <2>2. CASE ~Exists(t, p)
      BY <1>2, <2>2, MadeIs
    <2>3. QED BY <2>1, <2>2
  <1>3. ASSUME NEW p \in Path \ Dir, NEW c \in Content, HasParent(t, p),
               ch = [at |-> {p}, hit |-> {p}, dirs |-> {},
                     tree |-> IF Exists(t, p) THEN Rewritten(t, p, c, txg) ELSE Made(t, p, c, txg)]
        PROVE  Change(ch, t, txg)
    <2> DEFINE u == IF Exists(t, p) THEN Rewritten(t, p, c, txg) ELSE Made(t, p, c, txg)
    <2>1. Stems(u, t, txg) /\ (\A q \in Path \ {p} : u[q] = t[q]) /\ u[p].born = txg
      BY <1>2, <1>3
    <2>2. ch.at = {p} /\ ch.hit = {p} /\ ch.dirs = {} /\ ch.tree = u
      BY <1>3
    <2>3. Below[p] = {p}
      BY BelowIs
    <2> HIDE DEF u
    <2>4. QED BY <2>1, <2>2, <2>3 DEF Change
  <1>4. ASSUME NEW p \in Dir, ~Exists(t, p), HasParent(t, p),
               ch = [at |-> {p}, hit |-> {p}, dirs |-> {p}, tree |-> Made(t, p, 1, txg)]
        PROVE  Change(ch, t, txg)
    <2> DEFINE u == Made(t, p, 1, txg)
    <2>1. p \in Path
      BY ZfsAssumption
    <2>2. Stems(u, t, txg) /\ (\A q \in Path \ {p} : u[q] = t[q]) /\ Time(u[p].id) = txg
      BY <1>4, <2>1, MadeIs
    <2>3. ch.at = {p} /\ ch.hit = {p} /\ ch.dirs = {p} /\ ch.tree = u
      BY <1>4
    <2>4. p \in Below[p]
      BY <2>1, BelowIs
    <2> HIDE DEF u
    <2>5. QED BY <2>1, <2>2, <2>3, <2>4 DEF Change
  <1>5. ASSUME NEW p \in Path,
               ch = [at |-> {p}, hit |-> Below[p], dirs |-> Dir \cap Below[p], tree |-> Without(t, {p})]
        PROVE  Change(ch, t, txg)
    <2> DEFINE u == Without(t, {p})
    <2>1. Stems(u, t, txg) /\ (\A q \in Path : IF q \in Below[p] THEN u[q] = NoNode ELSE u[q] = t[q])
      BY WithoutIs
    <2>2. ch.at = {p} /\ ch.hit = Below[p] /\ ch.dirs = Dir \cap Below[p] /\ ch.tree = u
      BY <1>5
    <2>3. Below[p] \subseteq Path /\ \A q \in Below[p] : Below[q] \subseteq Below[p]
      BY BelowIs
    <2> HIDE DEF u
    <2>4. QED BY <2>1, <2>2, <2>3 DEF Change
  <1>6. ASSUME NEW d \in Dir, NEW e \in Dir,
               Parent[d] = Parent[e], Twins(e, d) # {}, Exists(t, d), ~Exists(t, e),
               ch = [at |-> {d, e}, hit |-> Below[d] \cup Below[e], dirs |-> Below[d] \cup Below[e],
                     tree |-> Moved(t, d, e)]
        PROVE  Change(ch, t, txg)
    <2> DEFINE u == Moved(t, d, e)
               H == Below[d] \cup Below[e]
    <2>1. Stems(u, t, txg) /\ \A q \in Path : q \notin H => u[q] = t[q]
      BY <1>6, MovedIs
    <2>2. ch.at = {d, e} /\ ch.hit = H /\ ch.dirs = H /\ ch.tree = u
      BY <1>6
    <2>3. d \in Path /\ e \in Path
      BY ZfsAssumption
    <2>4. H \subseteq Path /\ \A q \in H : Below[q] \subseteq H
      BY <2>3, BelowIs
    <2>5. H \subseteq UNION {Below[p] : p \in {d, e}}
      OBVIOUS
    <2> HIDE DEF u, H
    <2>6. QED BY <2>1, <2>2, <2>3, <2>4, <2>5 DEF Change
  <1>7. QED BY <1>1, <1>3, <1>4, <1>5, <1>6

\* Every node is an old one or made now.
Renewed(u, t, txg) ==
    \A p \in Path : u[p] = t[p] \/ u[p] = NoNode \/ Time(u[p].id) = txg
\* Equal to the view on the paths P, and where it differs from it as it was before.
Matches(u, t, view, P) ==
    \A p \in Path : ~Same(view[p], u[p]) => p \notin P /\ u[p] = t[p]

\* What a pass makes of a destination: a tree of the old nodes and new ones, equal to the
\* view on the paths looked at, and where it differs from the view as it was before.
LEMMA AppliedIs ==
  ASSUME NEW t, Tree(t), NEW view, Tree(view), NEW P \in SUBSET Path, NEW txg \in Nat,
         NEW u, u = Applied(t, view, P, txg)
  PROVE  Stems(u, t, txg) /\ Renewed(u, t, txg) /\ Matches(u, t, view, P)
  <1> DEFINE gone == {p \in P : Exists(t, p) /\ ~Exists(view, p)}
             kept == Without(t, gone)
             Made1(p) == p \in Dir /\ ~Exists(kept, p) /\ \E q \in P : p \in Above[q] /\ Exists(view, q)
             new(p, c) == [id |-> Fresh(t, p, txg), born |-> txg, c |-> c]
  <1>1. u = [p \in Path |->
               IF p \in P /\ Exists(view, p)
               THEN IF Same(t[p], view[p]) THEN t[p] ELSE new(p, view[p].c)
               ELSE IF Made1(p) THEN new(p, 1) ELSE kept[p]]
    BY DEF Applied
  <1>2. /\ Tree(kept)
        /\ \A q \in Path : IF \E p \in gone : q \in Below[p] THEN kept[q] = NoNode ELSE kept[q] = t[q]
    <2>1. gone \in SUBSET Path
      OBVIOUS
    <2> HIDE DEF gone
    <2>2. QED BY <2>1, WithoutIs DEF Stems
  <1>3. \A p \in Path, c \in Content \cup {1} :
           /\ new(p, c) \in Node /\ new(p, c).id = Fresh(t, p, txg)
           /\ new(p, c).born = txg /\ new(p, c).c = c
    BY FreshIs DEF Node
  <1>4. \A p \in Path : Exists(view, p) => view[p].c \in Content \cup {1} /\ view[p].c # 0
    BY TreeNode
  <1> HIDE DEF kept, gone, new
  <1>5. \A p \in Path :
          \/ p \in P /\ Exists(view, p) /\ Same(t[p], view[p]) /\ u[p] = t[p]
          \/ p \in P /\ Exists(view, p) /\ ~Same(t[p], view[p]) /\ u[p] = new(p, view[p].c)
          \/ ~(p \in P /\ Exists(view, p)) /\ Made1(p) /\ u[p] = new(p, 1)
          \/ ~(p \in P /\ Exists(view, p)) /\ ~Made1(p) /\ u[p] = kept[p]
    BY <1>1
  <1>6. \A p \in Path : p \in gone \/ (\E q \in gone : p \in Below[q]) => ~Exists(view, p) /\ ~Exists(kept, p)
    <2>1. ASSUME NEW p \in Path, NEW q \in gone, p \in Below[q]
          PROVE  ~Exists(view, p) /\ ~Exists(kept, p)
      <3>1. q \in Path /\ ~Exists(view, q)
        BY DEF gone
      <3>2. QED BY <1>2, <2>1, <3>1, TreeDown DEF Exists
    <2>2. \A p \in gone : p \in Below[p] /\ p \in Path
      BY BelowIs DEF gone
    <2>3. QED BY <2>1, <2>2
  <1>7. \A p \in Path : Exists(kept, p) => kept[p] = t[p]
    BY <1>2 DEF Exists
  \* Something that is in the view and was looked at is there, with all it is in.
  <1>8. \A p \in Path : p \in P /\ Exists(view, p) => Exists(u, p)
    <2>1. ASSUME NEW p \in Path, p \in P, Exists(view, p)
          PROVE  Exists(u, p)
      <3>1. CASE Same(t[p], view[p]) /\ u[p] = t[p]
        <4>1. t[p].c # 0
          BY <1>4, <2>1, <3>1 DEF Same
        <4>2. QED BY <3>1, <4>1, NoNodeIs DEF Exists
      <3>2. CASE u[p] = new(p, view[p].c)
        BY <1>3, <1>4, <2>1, <3>2, NoNodeIs DEF Exists
      <3>3. QED BY <1>5, <2>1, <3>1, <3>2
    <2>2. QED BY <2>1
  <1>9. \A p \in Path : Made1(p) => Exists(u, p)
    <2>1. ASSUME NEW p \in Path, Made1(p), ~(p \in P /\ Exists(view, p))
          PROVE  Exists(u, p)
      BY <1>3, <1>5, <2>1, NoNodeIs DEF Exists
    <2>2. QED BY <1>8, <2>1
  <1>10. \A p \in Path : Exists(kept, p) => Exists(u, p)
    <2>1. ASSUME NEW p \in Path, Exists(kept, p), ~(p \in P /\ Exists(view, p))
          PROVE  Exists(u, p)
      BY <1>5, <2>1 DEF Exists
    <2>2. QED BY <1>8, <2>1
  <1>11. \A q \in P : \A p \in Above[q] : Exists(view, q) => p \in Path /\ Exists(u, p)
    <2>1. ASSUME NEW q \in P, NEW p \in Above[q], Exists(view, q)
          PROVE  p \in Path /\ Exists(u, p)
      <3>1. p \in Path /\ p \in Dir
        BY UpIs DEF Up
      <3>2. QED BY <1>9, <1>10, <2>1, <3>1
    <2>2. QED BY <2>1
  <1>12. ASSUME NEW p \in Path, Exists(u, p)
         PROVE  HasParent(u, p) /\ (p \in Dir => u[p].c = 1)
    <2>1. Parent[p] # Root => Parent[p] \in Path /\ Parent[p] \in Above[p]
      <3>1. Closed(Above[p], p) /\ Above[p] \subseteq Path
        BY AboveIs
      <3>2. QED BY <3>1 DEF Closed
    <2>2. CASE p \in P /\ Exists(view, p)
      <3>1. HasParent(u, p)
        BY <1>11, <2>1, <2>2 DEF HasParent
      <3>2. p \in Dir => view[p].c = 1
        BY <2>2, TreeNode
      <3>3. CASE u[p] = t[p] /\ Same(t[p], view[p])
        BY <3>1, <3>2, <3>3 DEF Same
      <3>4. CASE u[p] = new(p, view[p].c)
        BY <1>3, <1>4, <2>2, <3>1, <3>2, <3>4
      <3>5. QED BY <1>5, <2>2, <3>3, <3>4
    <2>3. CASE ~(p \in P /\ Exists(view, p)) /\ Made1(p)
      <3>1. PICK q \in P : p \in Above[q] /\ Exists(view, q)
        BY <2>3
      <3>2. Parent[p] # Root => Parent[p] \in Above[q]
        BY <3>1, AboveIs DEF Closed
      <3>3. HasParent(u, p)
        BY <1>11, <3>1, <3>2 DEF HasParent
      <3>4. u[p] = new(p, 1)
        BY <1>5, <2>3
      <3>5. QED BY <1>3, <3>3, <3>4
    <2>4. CASE ~(p \in P /\ Exists(view, p)) /\ ~Made1(p)
      <3>1. u[p] = kept[p]
        BY <1>5, <2>4
      <3>2. Exists(kept, p)
        BY <1>12, <3>1 DEF Exists
      <3>3. Parent[p] # Root => Exists(kept, Parent[p])
        BY <1>2, <3>2, TreeNode
      <3>4. p \in Dir => kept[p].c = 1
        BY <1>2, <3>2, TreeNode
      <3>5. QED BY <1>10, <2>1, <3>1, <3>3, <3>4 DEF HasParent
    <2>5. QED BY <2>2, <2>3, <2>4
  <1>13. \A p \in Path : u[p] = NoNode \/ u[p] = t[p] \/ (\E c \in Content \cup {1} : u[p] = new(p, c))
    BY <1>2, <1>4, <1>5
  <1>14. u \in [Path -> Node \cup {NoNode}]
    <2>1. \A p \in Path : u[p] \in Node \cup {NoNode}
      <3>1. \A p \in Path : t[p] \in Node \cup {NoNode}
        BY DEF Tree
      <3>2. QED BY <1>3, <1>13, <3>1
    <2>2. u = [p \in Path |-> u[p]]
      BY <1>1
    <2>3. QED BY <2>1, <2>2
  <1>15. ASSUME NEW p \in Path, NEW q \in Path, Exists(u, p), u[p].id = u[q].id
         PROVE  p = q
    <2>1. u[p] \in Node /\ u[p].id # <<>>
      <3>1. u[p] \in Node
        BY <1>12, <1>14, <1>15 DEF Exists
      <3>2. u[p].id \in Path \X Nat \X Nat
        BY <3>1 DEF Node
      <3>3. QED BY <3>1, <3>2, NoNodeIs
    <2>2. u[q] # NoNode
      BY <1>15, <2>1, NoNodeIs
    <2>3. \A r \in Path : Fresh(t, r, txg) # t[p].id /\ Fresh(t, r, txg) # t[q].id /\ First(Fresh(t, r, txg)) = r
      BY FreshIs
    <2>4. CASE u[p] = t[p] /\ u[q] = t[q]
      BY <1>15, <2>4 DEF Tree, Exists
    <2>5. CASE (\E c \in Content \cup {1} : u[p] = new(p, c)) /\ (\E c \in Content \cup {1} : u[q] = new(q, c))
      <3>1. u[p].id = Fresh(t, p, txg) /\ u[q].id = Fresh(t, q, txg)
        BY <1>3, <2>5
      <3>2. QED BY <1>15, <2>3, <3>1
    <2>6. CASE (\E c \in Content \cup {1} : u[p] = new(p, c)) /\ u[q] = t[q]
      <3>1. u[p].id = Fresh(t, p, txg)
        BY <1>3, <2>6
      <3>2. QED BY <1>15, <2>3, <2>6, <3>1
    <2>7. CASE u[p] = t[p] /\ (\E c \in Content \cup {1} : u[q] = new(q, c))
      <3>1. u[q].id = Fresh(t, q, txg)
        BY <1>3, <2>7
      <3>2. QED BY <1>15, <2>3, <2>7, <3>1
    <2>8. u[p] # NoNode
      BY <1>15 DEF Exists
    <2>9. QED BY <1>13, <2>2, <2>4, <2>5, <2>6, <2>7, <2>8
  <1>16. Tree(u)
    BY <1>12, <1>14, <1>15 DEF Tree
  <1>17. \A p \in Path, c \in Content \cup {1} : new(p, c).born = txg /\ Time(new(p, c).id) = txg
    <2>1. \A p \in Path : Time(Fresh(t, p, txg)) = txg
      BY FreshIs
    <2>2. QED BY <1>3, <2>1
  <1>18. Stems(u, t, txg)
    BY <1>13, <1>16, <1>17 DEF Stems
  <1>19. \A p \in Path : u[p] = t[p] \/ u[p] = NoNode \/ Time(u[p].id) = txg
    BY <1>13, <1>17
  <1>20. ASSUME NEW p \in Path, ~Same(view[p], u[p])
         PROVE  p \notin P /\ u[p] = t[p]
    <2>1. ~(p \in P /\ Exists(view, p))
      <3>1. ASSUME p \in P, Exists(view, p) PROVE FALSE
        <4>1. new(p, view[p].c).c = view[p].c
          BY <1>3, <1>4, <3>1
        <4>2. QED BY <1>5, <1>20, <3>1, <4>1 DEF Same
      <3>2. QED BY <3>1
    <2>2. ~Made1(p)
      <3>1. ASSUME Made1(p) PROVE FALSE
        <4>1. PICK q \in P : p \in Above[q] /\ Exists(view, q)
          BY <3>1
        <4>2. Exists(view, p) /\ p \in Dir
          BY <3>1, <4>1, TreeUp DEF Up
        <4>3. view[p].c = 1
          BY <4>2, TreeNode
        <4>4. new(p, 1).c = 1
          BY <1>3
        <4>5. u[p] = new(p, 1)
          BY <1>5, <2>1, <3>1
        <4>6. QED BY <1>20, <4>3, <4>4, <4>5 DEF Same
      <3>2. QED BY <3>1
    <2>3. u[p] = kept[p]
      BY <1>5, <2>1, <2>2
    <2>4. ~\E q \in gone : p \in Below[q]
      <3>1. ASSUME NEW q \in gone, p \in Below[q] PROVE FALSE
        <4>1. ~Exists(view, p) /\ ~Exists(kept, p)
          BY <1>6, <3>1
        <4>2. QED BY <1>20, <2>3, <4>1 DEF Exists, Same
      <3>2. QED BY <3>1
    <2>5. u[p] = t[p]
      BY <1>2, <2>3, <2>4
    <2>6. p \notin P
      <3>1. ASSUME p \in P PROVE FALSE
        <4>1. ~Exists(view, p)
          BY <2>1, <3>1
        <4>2. Exists(t, p)
          BY <1>20, <2>5, <4>1 DEF Exists, Same
        <4>3. p \in gone
          BY <3>1, <4>1, <4>2 DEF gone
        <4>4. QED BY <2>4, <4>3, BelowIs
      <3>2. QED BY <3>1
    <2>7. QED BY <2>5, <2>6
  <1>21. QED BY <1>18, <1>19, <1>20 DEF Renewed, Matches

----------------------------------------------------------------------------
(* What diffs tell. *)

\* An object of two trees that neither moved nor lies below one that did is in one place.
LEMMA MovedSeen ==
  ASSUME NEW t, Tree(t), NEW u, Tree(u), NEW p \in Path, NEW q \in Path,
         Exists(t, p), t[p].id = u[q].id,
         \A a \in Up(p) : a \notin Renamed(t, u)
  PROVE  p = q
  <1> DEFINE S == {x \in Up(p) : \E y \in Path : y # x /\ Exists(t, x) /\ t[x].id = u[y].id}
  <1>1. Up(p) \subseteq Path
    BY UpIs
  <1>2. ASSUME NEW x \in S
        PROVE  Parent[x] \in S
    <2>1. PICK y \in Path : y # x /\ Exists(t, x) /\ t[x].id = u[y].id
      OBVIOUS
    <2>2. x \in Path /\ x \in Up(p)
      BY <1>1
    <2>3. Exists(u, y)
      BY <2>1, <2>2, ThereIs
    <2>4. Place(t, x) = Place(u, y)
      <3>1. SUFFICES ASSUME Place(t, x) # Place(u, y) PROVE FALSE
        OBVIOUS
      <3>2. <<x, y>> \in MovedPairs(t, u)
        BY <2>1, <2>2, <2>3, <3>1 DEF MovedPairs, Present
      <3>3. x \in Renamed(t, u)
        BY <3>2 DEF Renamed
      <3>4. QED BY <2>2, <3>3
    <2>5. /\ (IF Parent[x] = Root THEN <<>> ELSE t[Parent[x]].id) = (IF Parent[y] = Root THEN <<>> ELSE u[Parent[y]].id)
          /\ Name[x] = Name[y]
      BY <2>4 DEF Place
    <2>6. Parent[x] # Parent[y]
      BY <2>1, <2>2, <2>5, TreeAssumption
    <2>7. Parent[x] # Root => Parent[x] \in Path /\ Exists(t, Parent[x]) /\ t[Parent[x]].id # <<>>
      BY <2>1, <2>2, TreeNode, ThereIs
    <2>8. Parent[y] # Root => Parent[y] \in Path /\ Exists(u, Parent[y]) /\ u[Parent[y]].id # <<>>
      BY <2>3, TreeNode, ThereIs
    <2>9. Parent[x] # Root /\ Parent[y] # Root
      BY <2>5, <2>6, <2>7, <2>8
    <2>10. t[Parent[x]].id = u[Parent[y]].id
      BY <2>5, <2>9
    <2>11. Parent[x] \in Up(p)
      BY <2>2, <2>9, UpIs
    <2>12. QED BY <2>6, <2>7, <2>8, <2>9, <2>10, <2>11
  <1>3. S = {}
    BY <1>1, <1>2, Topped
  <1>4. p \in Up(p)
    BY UpIs
  <1>5. QED BY <1>3, <1>4

\* What moved from one tree to the other moved back the other way.
LEMMA RenamedBack ==
  ASSUME NEW t, NEW u
  PROVE  Renamed(u, t) = Renamed(t, u)
  <1>1. \A v, w : Renamed(v, w) \subseteq Renamed(w, v)
    <2>1. ASSUME NEW v, NEW w, NEW x \in Renamed(v, w)
          PROVE  x \in Renamed(w, v)
      <3>1. PICK r \in MovedPairs(v, w) : x = r[1] \/ x = r[2]
        BY <2>1 DEF Renamed
      <3>2. /\ r[1] \in Present(v) /\ r[2] \in Present(w) /\ v[r[1]].id = w[r[2]].id
            /\ Place(v, r[1]) # Place(w, r[2])
        BY <3>1 DEF MovedPairs
      <3>3. <<r[2], r[1]>> \in MovedPairs(w, v)
        BY <3>2 DEF MovedPairs
      <3>4. x \in {<<r[2], r[1]>>[1], <<r[2], r[1]>>[2]}
        BY <3>1
      <3>5. QED BY <3>3, <3>4 DEF Renamed
    <2>2. QED BY <2>1
  <1>2. QED BY <1>1

\* A path that has no row, and lies below nothing that moved, has the same object, as old.
LEMMA SameObject ==
  ASSUME NEW t, Tree(t), NEW u, Tree(u), NEW p \in Path,
         p \notin DiffPaths(t, u).rel, \A a \in Up(p) : a \notin Renamed(t, u)
  PROVE  t[p].id = u[p].id /\ t[p].born = u[p].born /\ (Exists(t, p) <=> Exists(u, p))
  <1>1. p \notin Gone(t, u) /\ p \notin Gone(u, t) /\ p \notin Modified(t, u)
    BY DEF DiffPaths
  <1>2. CASE Exists(t, p)
    <2>1. PICK q \in Path : Exists(u, q) /\ t[p].id = u[q].id
      BY <1>1, <1>2 DEF Gone, Present
    <2>2. q = p
      BY <1>2, <2>1, MovedSeen
    <2>3. t[p].born = u[p].born
      BY <1>1, <1>2, <2>1, <2>2 DEF Modified, Present
    <2>4. QED BY <1>2, <2>1, <2>2, <2>3
  <1>3. CASE ~Exists(t, p) /\ Exists(u, p)
    <2>1. PICK q \in Path : Exists(t, q) /\ u[p].id = t[q].id
      BY <1>1, <1>3 DEF Gone, Present
    <2>2. q = p
      BY <1>3, <2>1, MovedSeen, RenamedBack
    <2>3. QED BY <1>3, <2>1, <2>2
  <1>4. CASE ~Exists(t, p) /\ ~Exists(u, p)
    BY <1>4, TreeNode
  <1>5. QED BY <1>2, <1>3, <1>4

\* The same object, written at the same time, has the same content.
Follows(t, u) ==
    \A p, q \in Path : Exists(t, p) /\ t[p].id = u[q].id /\ t[p].born = u[q].born => t[p].c = u[q].c

\* Everything in what a path is in has the object it had, and the path is as old.
Unmoved(t, u, p) == t[p].born = u[p].born /\ \A a \in Up(p) : t[a].id = u[a].id

\* The paths a diff stands for.
LEMMA CoveredIs ==
  ASSUME NEW diff, diff.rel \subseteq Path, diff.recursive \subseteq Path
  PROVE  /\ Covered(diff) \subseteq Path
         /\ \A p \in Path : p \in Covered(diff) <=> p \in diff.rel \/ \E a \in Up(p) : a \in diff.recursive
  <1>1. \A a \in Path : Below[a] \subseteq Path /\ \A p \in Path : p \in Below[a] <=> a \in Up(p)
    BY BelowIs
  <1>2. \A p \in Path : Up(p) \subseteq Path
    BY UpIs
  <1>3. Covered(diff) = diff.rel \cup UNION {Below[p] : p \in diff.recursive}
    BY DEF Covered
  <1>4. QED BY <1>1, <1>2, <1>3

\* The rows of a diff are of paths.
LEMMA DiffPathsAre ==
  ASSUME NEW t, NEW u
  PROVE  /\ DiffPaths(t, u).rel \subseteq Path /\ DiffPaths(t, u).recursive \subseteq Path
         /\ DiffPaths(t, u).rel = Gone(t, u) \cup Gone(u, t) \cup Renamed(t, u) \cup Modified(t, u)
         /\ DiffPaths(t, u).recursive = Gone(t, u) \cup Gone(u, t) \cup Renamed(t, u)
  <1>1. Gone(t, u) \subseteq Path /\ Gone(u, t) \subseteq Path /\ Modified(t, u) \subseteq Path
    BY DEF Gone, Modified, Present
  <1>2. Renamed(t, u) \subseteq Path
    <2>1. \A r \in MovedPairs(t, u) : r[1] \in Path /\ r[2] \in Path
      BY DEF MovedPairs, Present
    <2>2. QED BY <2>1 DEF Renamed
  <1>3. QED BY <1>1, <1>2 DEF DiffPaths

\* A diff stands for a path unless nothing on the way to it changed.
LEMMA CoveredUnless ==
  ASSUME NEW t, Tree(t), NEW u, Tree(u), NEW p \in Path
  PROVE  p \notin Covered(DiffPaths(t, u)) <=> Unmoved(t, u, p)
  <1> DEFINE diff == DiffPaths(t, u)
  <1>1. p \in Covered(diff) <=> p \in diff.rel \/ \E a \in Up(p) : a \in diff.recursive
    BY DiffPathsAre, CoveredIs
  <1>2. diff.rel = Gone(t, u) \cup Gone(u, t) \cup Renamed(t, u) \cup Modified(t, u)
        /\ diff.recursive = Gone(t, u) \cup Gone(u, t) \cup Renamed(t, u)
    BY DiffPathsAre
  <1>3. Up(p) \subseteq Path /\ p \in Up(p) /\ \A a \in Up(p) : Up(a) \subseteq Up(p)
    BY UpIs
  <1>4. ASSUME p \notin Covered(diff)
        PROVE  Unmoved(t, u, p)
    <2>1. ASSUME NEW a \in Up(p)
          PROVE  t[a].id = u[a].id
      <3>1. a \notin Gone(t, u) /\ a \notin Gone(u, t) /\ \A b \in Up(p) : b \notin Renamed(t, u)
        BY <1>1, <1>2, <1>4
      <3>2. a \in Path /\ \A b \in Up(a) : b \notin Renamed(t, u)
        BY <1>3, <3>1
      <3>3. CASE Exists(t, a)
        <4>1. PICK q \in Path : Exists(u, q) /\ t[a].id = u[q].id
          BY <3>1, <3>2, <3>3 DEF Gone, Present
        <4>2. QED BY <3>2, <3>3, <4>1, MovedSeen
      <3>4. CASE ~Exists(t, a) /\ Exists(u, a)
        <4>1. PICK q \in Path : Exists(t, q) /\ u[a].id = t[q].id
          BY <3>1, <3>2, <3>4 DEF Gone, Present
        <4>2. QED BY <3>2, <3>4, <4>1, MovedSeen, RenamedBack
      <3>5. CASE ~Exists(t, a) /\ ~Exists(u, a)
        BY <3>2, <3>5, TreeNode
      <3>6. QED BY <3>3, <3>4, <3>5
    <2>2. p \notin diff.rel /\ \A a \in Up(p) : a \notin Renamed(t, u)
      BY <1>1, <1>2, <1>4
    <2>3. t[p].born = u[p].born
      BY <2>2, SameObject
    <2>4. QED BY <2>1, <2>3 DEF Unmoved
  <1>5. ASSUME Unmoved(t, u, p), NEW a \in Up(p)
        PROVE  a \notin diff.recursive
    <2>1. a \in Path /\ t[a].id = u[a].id
      BY <1>3, <1>5 DEF Unmoved
    <2>2. Exists(t, a) <=> Exists(u, a)
      BY <2>1, ThereIs
    <2>3. a \notin Gone(t, u) /\ a \notin Gone(u, t)
      BY <2>1, <2>2 DEF Gone, Present
    <2>4. Place(t, a) = Place(u, a)
      <3>1. Parent[a] # Root => Parent[a] \in Up(p)
        BY <1>5, UpIs
      <3>2. Parent[a] # Root => t[Parent[a]].id = u[Parent[a]].id
        BY <1>5, <3>1 DEF Unmoved
      <3>3. QED BY <3>2 DEF Place
    <2>5. a \notin Renamed(t, u)
      <3>1. ASSUME a \in Renamed(t, u) PROVE FALSE
        <4>1. PICK r \in MovedPairs(t, u) : a = r[1] \/ a = r[2]
          BY <3>1 DEF Renamed
        <4>2. /\ r[1] \in Path /\ r[2] \in Path /\ Exists(t, r[1]) /\ Exists(u, r[2])
              /\ t[r[1]].id = u[r[2]].id /\ Place(t, r[1]) # Place(u, r[2])
          BY DEF MovedPairs, Present
        <4>3. r[1] = r[2]
          <5>1. CASE a = r[1]
            BY <2>1, <4>2, <5>1 DEF Tree
          <5>2. CASE a = r[2]
            BY <2>1, <4>2, <5>2 DEF Tree
          <5>3. QED BY <4>1, <5>1, <5>2
        <4>4. QED BY <2>4, <4>1, <4>2, <4>3
      <3>2. QED BY <3>1
    <2>6. QED BY <1>2, <2>3, <2>5
  <1>6. ASSUME Unmoved(t, u, p)
        PROVE  p \notin Covered(diff)
    <2>1. p \notin Modified(t, u)
      <3>1. ASSUME NEW q \in Path, Exists(t, q), t[q].id = u[p].id, t[q].born # u[p].born
            PROVE  FALSE
        <4>1. t[p].id = u[p].id /\ t[p].born = u[p].born
          BY <1>3, <1>6 DEF Unmoved
        <4>2. q = p
          BY <3>1, <4>1 DEF Tree
        <4>3. QED BY <3>1, <4>1, <4>2
      <3>2. QED BY <3>1 DEF Modified, Present
    <2>2. QED BY <1>1, <1>2, <1>3, <1>5, <1>6, <2>1
  <1>7. QED BY <1>4, <1>6

\* What no row of a diff stands for is the same on both sides.
LEMMA DiffSees ==
  ASSUME NEW t, Tree(t), NEW u, Tree(u), Follows(t, u),
         NEW p \in Path, p \notin Covered(DiffPaths(t, u))
  PROVE  Same(t[p], u[p])
  <1>1. t[p].id = u[p].id /\ t[p].born = u[p].born
    BY CoveredUnless, UpIs DEF Unmoved
  <1>2. CASE Exists(t, p)
    BY <1>1, <1>2 DEF Follows, Same
  <1>3. CASE ~Exists(t, p)
    <2>1. ~Exists(u, p)
      BY <1>1, <1>3, ThereIs
    <2>2. QED BY <1>3, <2>1 DEF Exists, Same
  <1>4. QED BY <1>2, <1>3

----------------------------------------------------------------------------
\* A snapshot of this state database.
Current(snaps, c) == c \in DOMAIN snaps /\ snaps[c].gen = gen

\* The rows of the destinations.
RowTypes ==
    /\ srcBase = [d \in Dst |-> srcBase[d]] /\ dstBase = [d \in Dst |-> dstBase[d]]
    /\ dstSnap = [d \in Dst |-> dstSnap[d]]
    /\ verified = [d \in Dst |-> verified[d]]
    /\ \A d \in Dst : verified[d] \in Nat /\ dstBase[d] \in Nat

\* The engine's record.
EngType ==
    /\ DOMAIN eng = {"at", "cycle", "todo", "d", "zfs", "byEvent", "mixed", "ok", "how", "known",
                     "touched", "seen", "name"}
    /\ eng.at \in {"idle", "next", "base", "snap", "row"}
    /\ eng.at # "idle" => eng.cycle \in Cycle /\ eng.todo \subseteq Dst
    /\ eng.at \in {"base", "snap", "row"} => eng.d \in Dst

\* The destination the engine records a baseline for.
AtWork == eng.at \in {"base", "snap", "row"}

\* A destination has no baseline of a cycle it is not verified for, so the snapshot a
\* refused refresh takes away is no row's.
Behind ==
    /\ \A d \in Dst : dstBase[d] # None => dstBase[d] <= verified[d]
    /\ eng.at # "idle" => \A d \in eng.todo : (AtWork /\ d = eng.d) \/ verified[d] < eng.cycle
    /\ AtWork => verified[eng.d] = eng.cycle
    /\ eng.at \in {"base", "snap"} => dstBase[eng.d] # eng.cycle

\* What the engine is about to write into a row exists.
Held ==
    /\ eng.at # "idle" /\ eng.zfs => Current(srcSnap, eng.cycle)
    /\ eng.name # None =>
          eng.at = "row" /\ eng.name = eng.cycle /\ Current(dstSnap[eng.d], eng.name)

\* Rows and snapshots.
BaseInv == RowTypes /\ EngType /\ Behind /\ Held /\ BaseKept

----------------------------------------------------------------------------
(* The engine's record and the sets of snapshots. *)

\* An idle engine holds no cycle and no name of a snapshot.
LEMMA IdleIs ==
  /\ DOMAIN Idle = {"at", "cycle", "todo", "d", "zfs", "byEvent", "mixed", "ok", "how", "known",
                    "touched", "seen", "name"}
  /\ Idle.at = "idle" /\ Idle.name = None
  BY DEF Idle

\* A snapshot that is there is used again only if it is of this state database; no
\* other is touched.
LEMMA EnsureIs ==
  ASSUME NEW snaps, NEW c, NEW live, NEW txg, NEW old \in BOOLEAN
  PROVE  /\ Current(EnsureSnapshot(snaps, c, live, txg, old), c)
         /\ \A k : Current(snaps, k) => Current(EnsureSnapshot(snaps, c, live, txg, old), k)
  <1> DEFINE new == [x \in DOMAIN snaps \cup {c} |->
                        IF x = c THEN [tree |-> live, txg |-> txg, gen |-> gen] ELSE snaps[x]]
  <1>1. (EnsureSnapshot(snaps, c, live, txg, old) = snaps /\ Current(snaps, c))
        \/ EnsureSnapshot(snaps, c, live, txg, old) = new
    BY DEF EnsureSnapshot, Put, Current
  <1>2. Current(new, c) /\ \A k : Current(snaps, k) => Current(new, k)
    BY DEF Current
  <1>3. QED BY <1>1, <1>2

\* Once it has read a destination's cycle the engine is done with that destination.
LEMMA OnwardIs ==
  ASSUME EngType
  PROVE  /\ DOMAIN Onward = DOMAIN eng /\ Onward.at = "next" /\ Onward.todo = eng.todo \ {eng.d}
         /\ Onward.name = None /\ Onward.cycle = eng.cycle /\ Onward.zfs = eng.zfs
         /\ Onward.byEvent = eng.byEvent
  BY DEF Onward, EngType

\* A compared destination is the one whose baselines are next.
LEMMA ComparedIs ==
  ASSUME EngType, NEW d, NEW how, NEW diff, NEW wrote
  PROVE  /\ DOMAIN Compared(d, how, diff, wrote) = DOMAIN eng
         /\ Compared(d, how, diff, wrote).at = "base" /\ Compared(d, how, diff, wrote).d = d
         /\ Compared(d, how, diff, wrote).todo = eng.todo /\ Compared(d, how, diff, wrote).name = eng.name
         /\ Compared(d, how, diff, wrote).cycle = eng.cycle /\ Compared(d, how, diff, wrote).zfs = eng.zfs
         /\ Compared(d, how, diff, wrote).byEvent = eng.byEvent
         /\ Compared(d, how, diff, wrote).how = how /\ Compared(d, how, diff, wrote).seen = Covered(diff)
  <1> DEFINE known == how = "dual" \/ (how = "walk" /\ ~eng.mixed)
             seen == Covered(diff)
             touched == IF how = "dual" THEN diff.rel ELSE IF how = "walk" /\ ~eng.mixed THEN wrote ELSE {}
  <1>1. Compared(d, how, diff, wrote) =
          [eng EXCEPT !.at = "base", !.d = d, !.how = how, !.seen = seen, !.known = known, !.touched = touched]
    BY Zenon DEF Compared
  <1>2. seen = Covered(diff)
    OBVIOUS
  <1> HIDE DEF known, seen, touched
  <1>3. QED BY <1>1, <1>2 DEF EngType

----------------------------------------------------------------------------
(* The steps. *)

\* A pass starts with the snapshot of its cycle, for destinations not verified for it.
LEMMA BeginKeeps ==
  ASSUME ZfsAssumption, BaseInv, NEW c \in Cycle, Begin(c)
  PROVE  BaseInv'
  <1>1. PICK zfs, byEvent, mixed :
           /\ zfs \in BOOLEAN
           /\ eng' = [Idle EXCEPT !.at = "next", !.cycle = c, !.todo = {d \in Dst : target[d] = c /\ verified[d] < c},
                                  !.zfs = zfs, !.byEvent = byEvent, !.mixed = mixed]
           /\ srcSnap' = IF zfs THEN EnsureSnapshot(srcSnap, c, src, srcTxg, FALSE) ELSE srcSnap
    BY DEF Begin
  <1>2. UNCHANGED <<dstSnap, srcBase, dstBase, verified, gen>>
    BY DEF Begin, rows, log
  <1>3. /\ DOMAIN eng' = DOMAIN Idle /\ eng'.at = "next" /\ eng'.cycle = c /\ eng'.zfs = zfs /\ eng'.name = None
        /\ eng'.todo = {d \in Dst : target[d] = c /\ verified[d] < c}
    BY <1>1, IdleIs
  <1> DEFINE new == EnsureSnapshot(srcSnap, c, src, srcTxg, FALSE)
  <1>a. Current(new, c) /\ \A k : Current(srcSnap, k) => Current(new, k)
    BY EnsureIs
  <1>b. srcSnap' = IF zfs THEN new ELSE srcSnap
    BY <1>1
  <1> HIDE DEF new
  <1>4. /\ \A k : Current(srcSnap, k) => k \in DOMAIN srcSnap' /\ srcSnap'[k].gen = gen'
        /\ zfs => c \in DOMAIN srcSnap' /\ srcSnap'[c].gen = gen'
    BY <1>a, <1>b, <1>2 DEF Current
  <1>5. RowTypes'
    BY <1>2 DEF BaseInv, RowTypes
  <1>6. EngType'
    BY <1>3, IdleIs DEF EngType
  <1>7. Behind'
    BY <1>2, <1>3 DEF BaseInv, Behind, AtWork
  <1>8. Held'
    BY <1>3, <1>4 DEF Held, Current
  <1>9. BaseKept'
    BY <1>2, <1>4 DEF BaseInv, BaseKept, Current
  <1>10. QED BY <1>5, <1>6, <1>7, <1>8, <1>9 DEF BaseInv

\* A destination that is brought up to date is verified before its baselines are set.
LEMMA SyncOneKeeps ==
  ASSUME ZfsAssumption, BaseInv, NEW d \in Dst, SyncOne(d)
  PROVE  BaseInv'
  <1>1. /\ eng.at = "next" /\ d \in eng.todo /\ verified' = [verified EXCEPT ![d] = eng.cycle]
        /\ UNCHANGED <<srcSnap, dstSnap, srcBase, dstBase, gen>>
    BY DEF SyncOne, store, log
  <1>2. \/ eng' = [eng EXCEPT !.todo = eng.todo \ {d}]
        \/ \E how, diff, wrote : eng' = Compared(d, how, diff, wrote)
    <2>1. PICK w, fails :
            LET how == IF fails THEN "walk" ELSE w.how
                diff == IF fails THEN Everything ELSE w.diff
                new == Applied(dst[d], View, Covered(diff), dstTxg[d])
            IN  eng' = IF how = "event" THEN [eng EXCEPT !.todo = eng.todo \ {d}]
                       ELSE Compared(d, how, diff, Wrote(dst[d], new))
      BY DEF SyncOne
    <2>2. QED BY <2>1
  <1>3. /\ DOMAIN eng' = DOMAIN eng /\ eng'.cycle = eng.cycle /\ eng'.zfs = eng.zfs /\ eng'.name = None
        /\ \/ eng'.at = "next" /\ eng'.todo = eng.todo \ {d}
           \/ eng'.at = "base" /\ eng'.todo = eng.todo /\ eng'.d = d
    BY <1>1, <1>2, ComparedIs DEF BaseInv, EngType, Held
  <1>4. eng.cycle \in Nat /\ verified[d] < eng.cycle /\ verified[d] \in Nat
    BY <1>1 DEF BaseInv, EngType, RowTypes, Behind, AtWork, Cycle, ZfsAssumption
  <1>5. verified'[d] = eng.cycle /\ \A e \in Dst \ {d} : verified'[e] = verified[e]
    BY <1>1 DEF BaseInv, RowTypes
  <1>6. RowTypes'
    BY <1>1, <1>4 DEF BaseInv, RowTypes
  <1>7. EngType'
    BY <1>1, <1>3 DEF BaseInv, EngType
  <1>8. dstBase[d] # None => dstBase[d] <= verified[d]
    BY DEF BaseInv, Behind
  <1>9. dstBase[d] # eng.cycle /\ (dstBase[d] # None => dstBase[d] <= eng.cycle)
    BY <1>4, <1>8 DEF None, BaseInv, RowTypes
  <1>10. \A e \in eng.todo \ {d} : verified'[e] < eng.cycle
    BY <1>1, <1>5 DEF BaseInv, EngType, Behind, AtWork
  <1>11. Behind'
    BY <1>1, <1>3, <1>5, <1>9, <1>10 DEF BaseInv, Behind, AtWork
  <1>12. Held'
    BY <1>1, <1>3 DEF BaseInv, Held, Current
  <1>13. BaseKept'
    BY <1>1 DEF BaseInv, BaseKept
  <1>14. QED BY <1>6, <1>7, <1>11, <1>12, <1>13 DEF BaseInv

\* A destination that failed leaves the list.
LEMMA FailOneKeeps ==
  ASSUME ZfsAssumption, BaseInv, NEW d \in Dst, FailOne(d)
  PROVE  BaseInv'
  <1>1. /\ eng.at = "next" /\ eng' = [eng EXCEPT !.todo = eng.todo \ {d}, !.ok = FALSE]
        /\ UNCHANGED <<srcSnap, dstSnap, srcBase, dstBase, verified, gen>>
    BY DEF FailOne, store, rows, log
  <1>2. /\ DOMAIN eng' = DOMAIN eng /\ eng'.cycle = eng.cycle /\ eng'.zfs = eng.zfs /\ eng'.name = eng.name
        /\ eng'.at = "next" /\ eng'.todo = eng.todo \ {d}
    BY <1>1 DEF BaseInv, EngType
  <1>3. RowTypes' /\ EngType'
    BY <1>1, <1>2 DEF BaseInv, RowTypes, EngType
  <1>4. Behind' /\ Held'
    BY <1>1, <1>2 DEF BaseInv, Behind, AtWork, Held, Current
  <1>5. BaseKept'
    BY <1>1 DEF BaseInv, BaseKept
  <1>6. QED BY <1>3, <1>4, <1>5 DEF BaseInv

\* The source's base is the snapshot the pass read from.
LEMMA SetSrcBaseKeeps ==
  ASSUME ZfsAssumption, BaseInv, SetSrcBase
  PROVE  BaseInv'
  <1>1. /\ eng.at = "base" /\ srcBase' = [srcBase EXCEPT ![eng.d] = IF eng.zfs THEN eng.cycle ELSE None]
        /\ eng' \in {Onward, [eng EXCEPT !.at = "row"], [eng EXCEPT !.at = "snap"]}
        /\ UNCHANGED <<srcSnap, dstSnap, dstBase, verified, gen>>
    BY DEF SetSrcBase, store, log
  <1>2. eng.d \in Dst /\ eng.name = None /\ EngType
    BY <1>1 DEF BaseInv, EngType, Held
  <1>3. /\ DOMAIN eng' = DOMAIN eng /\ eng'.cycle = eng.cycle /\ eng'.zfs = eng.zfs /\ eng'.name = None
        /\ \/ eng'.at = "next" /\ eng'.todo = eng.todo \ {eng.d}
           \/ eng'.at \in {"row", "snap"} /\ eng'.todo = eng.todo /\ eng'.d = eng.d
    BY <1>1, <1>2, OnwardIs DEF EngType
  <1>4. RowTypes' /\ EngType'
    BY <1>1, <1>2, <1>3 DEF BaseInv, RowTypes, EngType
  <1>5. Behind'
    BY <1>1, <1>2, <1>3 DEF BaseInv, Behind, AtWork
  <1>6. Held'
    BY <1>1, <1>2, <1>3 DEF BaseInv, Held, Current
  <1>7. eng.zfs => eng.cycle \in DOMAIN srcSnap /\ srcSnap[eng.cycle].gen = gen
    BY <1>1 DEF BaseInv, Held, Current
  <1>8. BaseKept'
    BY <1>1, <1>2, <1>7 DEF BaseInv, BaseKept, RowTypes
  <1>9. QED BY <1>4, <1>5, <1>6, <1>8 DEF BaseInv

\* A new baseline replaces no row's, and one that is refused is none.
LEMMA SnapDstKeeps ==
  ASSUME ZfsAssumption, BaseInv, SnapDst
  PROVE  BaseInv'
  <1> DEFINE d == eng.d
  <1>1. eng.at = "snap" /\ UNCHANGED <<srcSnap, srcBase, dstBase, verified, gen>>
    BY DEF SnapDst, rows, log
  <1>2. d \in Dst /\ eng.name = None /\ EngType /\ dstBase[d] # eng.cycle
    BY <1>1 DEF BaseInv, EngType, Held, Behind
  <1>a. PICK old \in BOOLEAN :
          LET snaps == EnsureSnapshot(dstSnap[d], eng.cycle, dst[d], dstTxg[d], old)
          IN  \/ eng' = [eng EXCEPT !.at = "row"] /\ dstSnap' = dstSnap
              \/ eng' = Onward /\ dstSnap' = [dstSnap EXCEPT ![d] = Restrict(snaps, DOMAIN snaps \ {eng.cycle})]
              \/ eng' = [eng EXCEPT !.at = "row", !.name = eng.cycle] /\ dstSnap' = [dstSnap EXCEPT ![d] = snaps]
    BY Zenon DEF SnapDst
  <1> DEFINE snaps == EnsureSnapshot(dstSnap[d], eng.cycle, dst[d], dstTxg[d], old)
  <1>3. \/ eng' = [eng EXCEPT !.at = "row"] /\ dstSnap' = dstSnap
        \/ eng' = Onward /\ dstSnap' = [dstSnap EXCEPT ![d] = Restrict(snaps, DOMAIN snaps \ {eng.cycle})]
        \/ eng' = [eng EXCEPT !.at = "row", !.name = eng.cycle] /\ dstSnap' = [dstSnap EXCEPT ![d] = snaps]
    BY <1>a
  <1>4. Current(snaps, eng.cycle) /\ \A k : Current(dstSnap[d], k) => Current(snaps, k)
    BY EnsureIs
  <1> HIDE DEF snaps
  <1>5. /\ DOMAIN eng' = DOMAIN eng /\ eng'.cycle = eng.cycle /\ eng'.zfs = eng.zfs
        /\ \/ eng'.at = "next" /\ eng'.todo = eng.todo \ {d} /\ eng'.name = None
           \/ eng'.at = "row" /\ eng'.todo = eng.todo /\ eng'.d = d /\ eng'.name = None
           \/ /\ eng'.at = "row" /\ eng'.todo = eng.todo /\ eng'.d = d /\ eng'.name = eng.cycle
              /\ dstSnap' = [dstSnap EXCEPT ![d] = snaps]
    BY <1>2, <1>3, OnwardIs DEF EngType
  <1>6. RowTypes'
    BY <1>1, <1>3 DEF BaseInv, RowTypes
  <1>7. \A e \in Dst \ {d} : dstSnap'[e] = dstSnap[e]
    BY <1>3 DEF BaseInv, RowTypes
  <1>8. \A k : Current(dstSnap[d], k) /\ k # eng.cycle => k \in DOMAIN dstSnap'[d] /\ dstSnap'[d][k].gen = gen
    <2>1. CASE dstSnap' = dstSnap
      BY <2>1 DEF Current
    <2>2. CASE dstSnap' = [dstSnap EXCEPT ![d] = Restrict(snaps, DOMAIN snaps \ {eng.cycle})]
      <3>1. dstSnap'[d] = [x \in DOMAIN snaps \ {eng.cycle} |-> snaps[x]]
        BY <1>2, <2>2 DEF BaseInv, RowTypes, Restrict
      <3>2. QED BY <1>4, <3>1 DEF Current
    <2>3. CASE dstSnap' = [dstSnap EXCEPT ![d] = snaps]
      <3>1. dstSnap'[d] = snaps
        BY <1>2, <2>3 DEF BaseInv, RowTypes
      <3>2. QED BY <1>4, <3>1 DEF Current
    <2>4. QED BY <1>3, <2>1, <2>2, <2>3
  <1>9. EngType'
    BY <1>1, <1>2, <1>5 DEF EngType
  <1>10. Behind'
    BY <1>1, <1>2, <1>5 DEF BaseInv, Behind, AtWork
  <1>11. Held'
    <2>1. eng'.name # None => eng.cycle \in DOMAIN dstSnap'[d] /\ dstSnap'[d][eng.cycle].gen = gen
      <3>1. SUFFICES ASSUME eng'.name # None PROVE eng.cycle \in DOMAIN dstSnap'[d] /\ dstSnap'[d][eng.cycle].gen = gen
        OBVIOUS
      <3>2. dstSnap'[d] = snaps
        BY <1>2, <1>5, <3>1 DEF BaseInv, RowTypes
      <3>3. QED BY <1>4, <3>2 DEF Current
    <2>2. QED BY <1>1, <1>2, <1>5, <2>1 DEF BaseInv, Held, Current
  <1>12. BaseKept'
    BY <1>1, <1>2, <1>7, <1>8 DEF BaseInv, BaseKept, Current
  <1>13. QED BY <1>6, <1>9, <1>10, <1>11, <1>12 DEF BaseInv

\* The sweep of a pair's baselines leaves the one the row names.
LEMMA SetDstBaseKeeps ==
  ASSUME ZfsAssumption, BaseInv, SetDstBase
  PROVE  BaseInv'
  <1> DEFINE d == eng.d
  <1>1. /\ eng.at = "row" /\ dstBase' = [dstBase EXCEPT ![d] = eng.name] /\ eng' = Onward
        /\ dstSnap' = [dstSnap EXCEPT ![d] = IF eng.name = None /\ dstBase[d] = None THEN dstSnap[d]
                                             ELSE Restrict(dstSnap[d], DOMAIN dstSnap[d] \cap {eng.name})]
        /\ UNCHANGED <<srcSnap, srcBase, verified, gen>>
    BY DEF SetDstBase, log
  <1>2. d \in Dst /\ EngType /\ verified[d] = eng.cycle /\ eng.cycle \in Nat
    BY <1>1 DEF BaseInv, EngType, Behind, AtWork, Cycle, ZfsAssumption
  <1>3. /\ DOMAIN eng' = DOMAIN eng /\ eng'.cycle = eng.cycle /\ eng'.zfs = eng.zfs
        /\ eng'.at = "next" /\ eng'.todo = eng.todo \ {d} /\ eng'.name = None
    BY <1>1, <1>2, OnwardIs
  <1>4. eng.name # None => eng.name = eng.cycle /\ eng.name \in DOMAIN dstSnap[d] /\ dstSnap[d][eng.name].gen = gen
    BY DEF BaseInv, Held, Current
  <1>5. RowTypes'
    <2>1. eng.name \in Nat
      BY <1>2, <1>4 DEF None
    <2>2. QED BY <1>1, <1>2, <2>1 DEF BaseInv, RowTypes
  <1>a. EngType'
    BY <1>1, <1>2, <1>3 DEF EngType
  <1>6. dstBase'[d] = eng.name /\ \A e \in Dst \ {d} : dstBase'[e] = dstBase[e] /\ dstSnap'[e] = dstSnap[e]
    BY <1>1, <1>2 DEF BaseInv, RowTypes
  <1>7. eng.name # None => eng.name \in DOMAIN dstSnap'[d] /\ dstSnap'[d][eng.name].gen = gen
    <2>1. SUFFICES ASSUME eng.name # None PROVE eng.name \in DOMAIN dstSnap'[d] /\ dstSnap'[d][eng.name].gen = gen
      OBVIOUS
    <2>2. dstSnap'[d] = [x \in DOMAIN dstSnap[d] \cap {eng.name} |-> dstSnap[d][x]]
      BY <1>1, <1>2, <2>1 DEF BaseInv, RowTypes, Restrict
    <2>3. QED BY <1>4, <2>1, <2>2
  <1>8. Behind'
    BY <1>1, <1>2, <1>3, <1>4, <1>6 DEF BaseInv, Behind, AtWork
  <1>9. Held'
    BY <1>1, <1>3 DEF BaseInv, Held, Current
  <1>10. BaseKept'
    BY <1>1, <1>2, <1>6, <1>7 DEF BaseInv, BaseKept
  <1>11. QED BY <1>5, <1>a, <1>8, <1>9, <1>10 DEF BaseInv

\* cleanup_zfs_snapshots keeps what a destination's next diff starts from.
LEMMA FinishKeeps ==
  ASSUME ZfsAssumption, BaseInv, Finish
  PROVE  BaseInv'
  <1>1. /\ eng.at = "next" /\ eng' = Idle
        /\ srcSnap' = IF eng.zfs /\ eng.ok THEN Cleanup(srcSnap, eng.cycle) ELSE srcSnap
        /\ UNCHANGED <<dstSnap, srcBase, dstBase, verified, gen>>
    BY DEF Finish, rows, log
  <1>2. \A d \in Dst : srcBase[d] \in DOMAIN srcSnap =>
          srcBase[d] \in DOMAIN srcSnap' /\ srcSnap'[srcBase[d]] = srcSnap[srcBase[d]]
    BY <1>1 DEF Cleanup, Restrict
  <1>3. RowTypes' /\ EngType' /\ Behind' /\ Held'
    BY <1>1, IdleIs DEF BaseInv, RowTypes, EngType, Behind, AtWork, Held
  <1>4. BaseKept'
    BY <1>1, <1>2 DEF BaseInv, BaseKept
  <1>5. QED BY <1>3, <1>4 DEF BaseInv

----------------------------------------------------------------------------
(* The theorem. *)

\* The invariant at the start.
LEMMA BaseInit ==
  ASSUME ZfsAssumption, Init
  PROVE  BaseInv
  <1>1. RowTypes
    BY DEF Init, RowTypes, None
  <1>2. EngType /\ Behind /\ Held
    BY IdleIs DEF Init, EngType, Behind, AtWork, Held
  <1>3. BaseKept
    BY DEF Init, BaseKept, Entry, None
  <1>4. QED BY <1>1, <1>2, <1>3 DEF BaseInv

\* Every step keeps it: edits, drift and targets touch none of it, a crash leaves the
\* rows and the snapshots, and a lost database names no snapshot.
LEMMA BaseStep ==
  ASSUME ZfsAssumption, BaseInv, [Next]_vars
  PROVE  BaseInv'
  <1>1. ASSUME UNCHANGED <<srcSnap, dstSnap, srcBase, dstBase, verified, gen>>, eng' = eng PROVE BaseInv'
    BY <1>1 DEF BaseInv, RowTypes, EngType, Behind, AtWork, Held, Current, BaseKept
  <1>2. CASE Edit \/ (\E d \in Dst : Drift(d)) \/ (\E D \in Due, manual \in BOOLEAN : Target(D, manual))
             \/ UNCHANGED vars
    BY <1>1, <1>2 DEF Edit, Drift, Target, vars, store, rows, log
  <1>3. CASE Crash
    <2>1. eng' = Idle /\ UNCHANGED <<srcSnap, dstSnap, srcBase, dstBase, verified, gen>>
      BY <1>3 DEF Crash, store, rows, log
    <2>2. QED BY <2>1, IdleIs DEF BaseInv, RowTypes, EngType, Behind, AtWork, Held, BaseKept
  <1>4. CASE Reset
    <2>1. /\ eng.at = "idle" /\ eng' = eng /\ dstSnap' = dstSnap /\ verified' = [d \in Dst |-> None]
          /\ srcBase' = [d \in Dst |-> None] /\ dstBase' = [d \in Dst |-> None]
      BY <1>4 DEF Reset, store
    <2>2. RowTypes' /\ EngType'
      BY <2>1 DEF BaseInv, RowTypes, EngType, None
    <2>3. Behind' /\ Held' /\ BaseKept'
      BY <2>1 DEF BaseInv, Behind, AtWork, Held, BaseKept
    <2>4. QED BY <2>2, <2>3 DEF BaseInv
  <1>5. QED
    BY <1>2, <1>3, <1>4, BeginKeeps, SyncOneKeeps, FailOneKeeps, SetSrcBaseKeeps, SnapDstKeeps,
       SetDstBaseKeeps, FinishKeeps DEF Next

\* Neither the sweep of the source's snapshots nor that of a pair's baselines takes away
\* what a row names, and after the state database was lost no row names a snapshot of
\* the old one, however passes fail, crash and are repeated.
THEOREM BasesKept ==
  ASSUME ZfsAssumption
  PROVE  Spec => []BaseKept
  <1>1. Init => BaseInv
    BY BaseInit
  <1>2. BaseInv /\ [Next]_vars => BaseInv'
    BY BaseStep
  <1>3. BaseInv => BaseKept
    BY DEF BaseInv
  <1>4. QED BY <1>1, <1>2, <1>3, PTL DEF Spec

----------------------------------------------------------------------------
(* What is green, and what snapshots show. *)

\* Every node of a tree was made and last written before snapshot n.
Before(t, n) ==
    \A p \in Path : Exists(t, p) => t[p].born < n /\ Time(t[p].id) \in Nat /\ Time(t[p].id) < n

\* The snapshots of a dataset are states it was in.
History(live, txg, snaps) ==
    /\ txg \in Nat /\ Tree(live) /\ Before(live, txg + 1)
    /\ \A c \in DOMAIN snaps :
          Tree(snaps[c].tree) /\ Before(snaps[c].tree, txg) /\ Follows(snaps[c].tree, live)
    /\ \A b, c \in DOMAIN snaps : Follows(snaps[b].tree, snaps[c].tree)

\* So it is with every dataset.
SnapInv ==
    /\ History(src, srcTxg, srcSnap)
    /\ \A d \in Dst : History(dst[d], dstTxg[d], dstSnap[d])
    /\ dst = [d \in Dst |-> dst[d]] /\ dstTxg = [d \in Dst |-> dstTxg[d]]

\* Cycles before the open one have the snapshots; those of an older database are older.
NameInv ==
    /\ gen \in Nat /\ open \in Cycle
    /\ target = [d \in Dst |-> target[d]]
    /\ \A d \in Dst : verified[d] < open /\ target[d] \in Nat /\ target[d] < open
    /\ eng.at # "idle" => eng.cycle < open
    /\ \A c \in DOMAIN srcSnap : c \in Cycle /\ srcSnap[c].gen \in Nat /\ srcSnap[c].gen <= gen
    /\ \A d \in Dst : \A c \in DOMAIN dstSnap[d] :
          c \in Cycle /\ dstSnap[d][c].gen \in Nat /\ dstSnap[d][c].gen <= gen
    /\ \A c : Current(srcSnap, c) => c < open
    /\ \A d \in Dst : \A c : Current(dstSnap[d], c) =>
          c <= verified[d] /\ (eng.at \in {"base", "snap"} /\ d = eng.d => c # eng.cycle)
    /\ \A d \in Remote : dstBase[d] = None
    /\ eng.at = "snap" \/ (eng.at = "row" /\ eng.name # None) =>
          eng.zfs /\ eng.d \notin Remote /\ srcBase[eng.d] = eng.cycle

\* The events of a cycle name its edits, and what is not edited since a cycle was closed is
\* as in its snapshot.
LogInv ==
    /\ edits = [c \in Cycle |-> edits[c]] /\ events = [c \in Cycle |-> events[c]]
    /\ \A c \in Cycle : edits[c] \subseteq Path /\ events[c] \subseteq Path \cup {Rescan}
    /\ \A c \in Cycle : Rescan \notin events[c] => edits[c] \subseteq UNION {Below[p] : p \in events[c]}
    /\ \A c : Current(srcSnap, c) => Differs(srcSnap[c].tree, src) \subseteq EditsAfter(c)
    /\ eng.at # "idle" /\ eng.byEvent =>
          /\ eng.at = "next" /\ ~eng.zfs
          /\ \A d \in eng.todo : verified[d] # None /\ Rescan \notin Backlog(d, eng.cycle)

\* The history.
GhostTypes ==
    /\ drifted = [d \in Dst |-> drifted[d]] /\ ahead = [d \in Dst |-> ahead[d]]
    /\ window = [d \in Dst |-> window[d]] /\ blind = [d \in Dst |-> blind[d]]
    /\ \A d \in Dst : /\ window[d] \in [files : SUBSET Path, dirs : SUBSET Path]
                      /\ DOMAIN blind[d] = {"base", "next"}

\* Where a destination differs from the base of its next diff, it drifted or is ahead.
Reached ==
    \A d \in Dst : srcBase[d] # None =>
        Differs(srcSnap[srcBase[d]].tree, dst[d]) \subseteq drifted[d] \cup ahead[d]

\* What will be left of drifted and ahead once the pass has set the base.
Rest(d) == (drifted[d] \ (eng.seen \ window[d].files)) \cup (ahead[d] \ eng.seen)
\* A pass that looked at a path leaves it as in its view.
WorkInv ==
    eng.at = "base" =>
        /\ Differs(src, dst[eng.d]) \subseteq Rest(eng.d) \cup EditsAfter(eng.cycle)
        /\ eng.zfs => Differs(srcSnap[eng.cycle].tree, dst[eng.d]) \subseteq Rest(eng.d)

\* Trees, snapshots and what is green.
ViewInv == SnapInv /\ NameInv /\ LogInv /\ GhostTypes /\ Reached /\ WorkInv /\ GreenIsCurrent

\* A tree follows itself, and one follows another both ways.
LEMMA FollowsSelf ==
  ASSUME NEW t, Tree(t)
  PROVE  Follows(t, t)
  BY DEF Tree, Follows

LEMMA FollowsBack ==
  ASSUME NEW t, Tree(t), NEW u, Tree(u), Follows(t, u)
  PROVE  Follows(u, t)
  <1>1. ASSUME NEW p \in Path, NEW q \in Path, Exists(u, p), u[p].id = t[q].id, u[p].born = t[q].born
        PROVE  u[p].c = t[q].c
    <2>1. Exists(t, q)
      BY <1>1, ThereIs
    <2>2. QED BY <1>1, <2>1 DEF Follows
  <1>2. QED BY <1>1 DEF Follows

\* A change of the live tree is no change of what its snapshots are.
LEMMA HistoryStems ==
  ASSUME NEW live, NEW txg, NEW snaps, History(live, txg, snaps), NEW new, Stems(new, live, txg)
  PROVE  History(new, txg, snaps)
  <1>1. txg \in Nat /\ Tree(live) /\ Before(live, txg + 1) /\ Tree(new)
    BY DEF History, Stems
  <1>2. ASSUME NEW p \in Path, Exists(new, p)
        PROVE  new[p].born < txg + 1 /\ Time(new[p].id) \in Nat /\ Time(new[p].id) < txg + 1
    <2>1. \/ \E q \in Path : new[p] = live[q] /\ Exists(live, q)
          \/ new[p].born = txg /\ (Time(new[p].id) = txg \/ \E q \in Path : Exists(live, q) /\ new[p].id = live[q].id)
      BY <1>2 DEF Stems, Exists
    <2>2. \A q \in Path : Exists(live, q) =>
             live[q].born < txg + 1 /\ Time(live[q].id) \in Nat /\ Time(live[q].id) < txg + 1
      BY <1>1 DEF Before
    <2>3. QED BY <1>1, <2>1, <2>2
  <1>3. ASSUME NEW c \in DOMAIN snaps
        PROVE  Follows(snaps[c].tree, new)
    <2> DEFINE t == snaps[c].tree
    <2>1. Tree(t) /\ Before(t, txg) /\ Follows(t, live)
      BY <1>3 DEF History
    <2> HIDE DEF t
    <2>2. ASSUME NEW p \in Path, NEW q \in Path, Exists(t, p), t[p].id = new[q].id, t[p].born = new[q].born
          PROVE  t[p].c = new[q].c
      <3>1. t[p].born < txg /\ t[p].born \in Nat
        BY <2>1, <2>2, TreeNode DEF Before
      <3>2. Exists(new, q)
        BY <1>1, <2>1, <2>2, ThereIs
      <3>3. PICK r \in Path : new[q] = live[r]
        BY <1>1, <2>2, <3>1, <3>2 DEF Stems, Exists
      <3>4. QED BY <2>1, <2>2, <3>3 DEF Follows
    <2>3. Follows(t, new)
      BY <2>2 DEF Follows
    <2>4. QED BY <2>3 DEF t
  <1>4. QED BY <1>1, <1>2, <1>3 DEF History, Before

\* A new snapshot.
LEMMA HistoryTaken ==
  ASSUME NEW live, NEW txg, NEW snaps, History(live, txg, snaps), NEW c, NEW g
  PROVE  History(live, txg + 1, Put(snaps, c, [tree |-> live, txg |-> txg, gen |-> g]))
  <1> DEFINE s == [tree |-> live, txg |-> txg, gen |-> g]
             new == Put(snaps, c, s)
  <1>1. DOMAIN new = DOMAIN snaps \cup {c} /\ \A k \in DOMAIN new : new[k].tree = IF k = c THEN live ELSE snaps[k].tree
    BY DEF Put
  <1>2. txg \in Nat /\ txg + 1 \in Nat /\ Tree(live) /\ Before(live, txg + 1) /\ Follows(live, live)
    BY FollowsSelf DEF History
  <1>3. \A t, n : n \in Nat /\ Tree(t) /\ Before(t, n) => Before(t, n + 1)
    <2>1. ASSUME NEW t, NEW n \in Nat, Tree(t), Before(t, n), NEW p \in Path, Exists(t, p)
          PROVE  t[p].born < n + 1 /\ Time(t[p].id) \in Nat /\ Time(t[p].id) < n + 1
      <3>1. t[p].born < n /\ Time(t[p].id) \in Nat /\ Time(t[p].id) < n /\ t[p].born \in Nat
        BY <2>1, TreeNode DEF Before
      <3>2. QED BY <3>1
    <2>2. QED BY <2>1 DEF Before
  <1>4. \A k \in DOMAIN snaps : Tree(snaps[k].tree) /\ Before(snaps[k].tree, txg) /\ Follows(snaps[k].tree, live)
    BY DEF History
  <1> HIDE DEF new, s
  <1>5. ASSUME NEW k \in DOMAIN new
        PROVE  Tree(new[k].tree) /\ Before(new[k].tree, txg + 1) /\ Follows(new[k].tree, live) /\ Follows(live, new[k].tree)
    <2>1. CASE k = c
      BY <1>1, <1>2, <1>5, <2>1
    <2>2. CASE k # c
      <3>1. k \in DOMAIN snaps /\ new[k].tree = snaps[k].tree
        BY <1>1, <1>5, <2>2
      <3>2. QED BY <1>2, <1>3, <1>4, <3>1, FollowsBack
    <2>3. QED BY <2>1, <2>2
  <1>6. ASSUME NEW a \in DOMAIN new, NEW b \in DOMAIN new
        PROVE  Follows(new[a].tree, new[b].tree)
    <2>1. CASE a = c \/ b = c
      BY <1>1, <1>5, <1>6, <2>1
    <2>2. CASE a # c /\ b # c
      <3>1. a \in DOMAIN snaps /\ b \in DOMAIN snaps /\ new[a].tree = snaps[a].tree /\ new[b].tree = snaps[b].tree
        BY <1>1, <1>6, <2>2
      <3>2. QED BY <3>1 DEF History
    <2>3. QED BY <2>1, <2>2
  <1>7. Before(live, txg + 1 + 1)
    BY <1>2, <1>3
  <1>8. History(live, txg + 1, new)
    BY <1>2, <1>5, <1>6, <1>7 DEF History
  <1>9. QED BY <1>8 DEF new, s

\* Snapshots that are destroyed.
LEMMA HistoryLess ==
  ASSUME NEW live, NEW txg, NEW snaps, History(live, txg, snaps), NEW D \in SUBSET DOMAIN snaps
  PROVE  History(live, txg, Restrict(snaps, D))
  <1>1. DOMAIN Restrict(snaps, D) = D /\ \A c \in D : Restrict(snaps, D)[c] = snaps[c]
    BY DEF Restrict
  <1>2. QED BY <1>1 DEF History

\* A snapshot is found or taken of the live tree.
LEMMA EnsureKeeps ==
  ASSUME NEW live, NEW txg, NEW snaps, History(live, txg, snaps), NEW c, NEW old \in BOOLEAN,
         NEW new, new = EnsureSnapshot(snaps, c, live, txg, old)
  PROVE  /\ History(live, IF new # snaps THEN txg + 1 ELSE txg, new)
         /\ \A k \in DOMAIN snaps : k # c \/ (Current(snaps, c) /\ ~old) => k \in DOMAIN new /\ new[k] = snaps[k]
         /\ ~Current(snaps, c) => new[c].tree = live /\ new[c].gen = gen
         /\ \A k \in DOMAIN new : (k \in DOMAIN snaps /\ new[k] = snaps[k]) \/ (k = c /\ new[k].gen = gen)
  <1> DEFINE s == [tree |-> live, txg |-> txg, gen |-> gen]
             put == Put(snaps, c, s)
  <1>1. CASE Current(snaps, c) /\ ~old
    <2>1. new = snaps
      BY <1>1 DEF EnsureSnapshot, Current
    <2>2. QED BY <1>1, <2>1
  <1>2. CASE ~(Current(snaps, c) /\ ~old)
    <2>1. new = put
      BY <1>2 DEF EnsureSnapshot, Current
    <2>2. DOMAIN put = DOMAIN snaps \cup {c} /\ put[c].tree = live /\ put[c].gen = gen
          /\ \A k \in DOMAIN snaps : k # c => put[k] = snaps[k]
      BY DEF Put
    <2>3. History(live, txg + 1, put)
      BY HistoryTaken
    <2> HIDE DEF put
    <2>4. History(live, IF new # snaps THEN txg + 1 ELSE txg, new)
      BY <2>1, <2>3
    <2>5. \A k \in DOMAIN new : (k \in DOMAIN snaps /\ new[k] = snaps[k]) \/ (k = c /\ new[k].gen = gen)
      BY <2>1, <2>2
    <2>6. QED BY <1>2, <2>1, <2>2, <2>4, <2>5
  <1>3. QED BY <1>1, <1>2

----------------------------------------------------------------------------
(* The steps again: trees, snapshots and what is green. *)

\* The edits of later cycles are among those after an earlier one.
LEMMA EditsIs ==
  ASSUME NEW k
  PROVE  \A p : p \in EditsAfter(k) <=> \E c \in Cycle : c > k /\ p \in edits[c]
  BY DEF EditsAfter

\* A user's edit is in the open cycle, after all that is verified.
LEMMA EditView ==
  ASSUME BaseInv, ViewInv, Edit
  PROVE  ViewInv'
  <1> DEFINE After(k) == UNION {edits'[c] : c \in {c \in Cycle : c > k}}
  <1>1. PICK ch \in Changes(src, srcTxg), lost \in BOOLEAN :
          /\ src' = ch.tree
          /\ edits' = [edits EXCEPT ![open] = edits[open] \cup ch.hit]
          /\ events' = [events EXCEPT ![open] = events[open] \cup IF lost THEN {Rescan} ELSE ch.at]
    BY DEF Edit
  <1>2. /\ UNCHANGED <<dst, dstSnap, srcSnap, srcTxg, dstTxg, srcBase, dstBase, verified, target>>
        /\ UNCHANGED <<open, gen, eng, drifted, window, blind, ahead>>
    BY DEF Edit, store, rows, ghosts
  <1>3. /\ srcTxg \in Nat /\ Tree(src) /\ History(src, srcTxg, srcSnap)
        /\ \A d \in Dst : History(dst[d], dstTxg[d], dstSnap[d])
    BY DEF ViewInv, SnapInv, History
  <1>4. Change(ch, src, srcTxg)
    BY <1>3, ChangesAre
  <1>5. /\ Stems(src', src, srcTxg) /\ ch.hit \subseteq Path /\ ch.at \subseteq Path
        /\ ch.hit \subseteq UNION {Below[p] : p \in ch.at}
        /\ \A q \in Path \ ch.hit : src'[q] = src[q]
    BY <1>1, <1>4 DEF Change
  <1>6. SnapInv'
    BY <1>2, <1>3, <1>5, HistoryStems DEF ViewInv, SnapInv
  <1>7. NameInv'
    BY <1>2 DEF ViewInv, NameInv, Current
  <1>8. \A t : Differs(t, src') \subseteq Differs(t, src) \cup ch.hit /\ Differs(src', t) \subseteq Differs(src, t) \cup ch.hit
    BY <1>5 DEF Differs, Same
  <1>9. open \in Cycle /\ open \in Nat
    BY ZfsAssumption DEF ViewInv, NameInv, Cycle
  <1>10. /\ edits' = [c \in Cycle |-> edits'[c]] /\ events' = [c \in Cycle |-> events'[c]]
         /\ \A c \in Cycle : c # open => edits'[c] = edits[c] /\ events'[c] = events[c]
         /\ edits'[open] = edits[open] \cup ch.hit
         /\ events'[open] = events[open] \cup IF lost THEN {Rescan} ELSE ch.at
    BY <1>1, <1>9 DEF ViewInv, LogInv
  <1>11. \A k : EditsAfter(k) \subseteq After(k) /\ (k < open => ch.hit \subseteq After(k))
    <2>2. \A k, p : p \in After(k) <=> \E c \in Cycle : c > k /\ p \in edits'[c]
      OBVIOUS
    <2>3. \A k : open > k <=> k < open
      OBVIOUS
    <2>4. QED BY <1>9, <1>10, <2>2, <2>3, EditsIs
  <1>a. \A k : EditsAfter(k)' = After(k)
    BY DEF EditsAfter
  <1> HIDE DEF After
  <1>12. LogInv'
    <2>1. ASSUME NEW c \in Cycle
          PROVE  edits'[c] \subseteq Path /\ events'[c] \subseteq Path \cup {Rescan}
      BY <1>5, <1>9, <1>10 DEF ViewInv, LogInv
    <2>2. ASSUME NEW c \in Cycle, Rescan \notin events'[c]
          PROVE  edits'[c] \subseteq UNION {Below[p] : p \in events'[c]}
      <3>1. CASE c # open
        BY <1>10, <2>2, <3>1 DEF ViewInv, LogInv
      <3>2. CASE c = open
        <4>1. ~lost /\ Rescan \notin events[open] /\ events'[open] = events[open] \cup ch.at
          BY <1>10, <2>2, <3>2
        <4>2. edits[open] \subseteq UNION {Below[p] : p \in events[open]}
          BY <1>9, <4>1 DEF ViewInv, LogInv
        <4>3. QED BY <1>5, <1>10, <3>2, <4>1, <4>2
      <3>3. QED BY <3>1, <3>2
    <2>3. ASSUME NEW c, Current(srcSnap, c)
          PROVE  Differs(srcSnap[c].tree, src') \subseteq After(c)
      <3>1. c < open /\ Differs(srcSnap[c].tree, src) \subseteq EditsAfter(c)
        BY <2>3 DEF ViewInv, NameInv, LogInv
      <3>2. QED BY <1>8, <1>11, <3>1
    <2>4. ASSUME eng.at # "idle", eng.byEvent
          PROVE  /\ eng.at = "next" /\ ~eng.zfs
                 /\ \A d \in eng.todo : verified[d] # None /\ Rescan \notin Backlog(d, eng.cycle)'
      <3>1. /\ eng.at = "next" /\ ~eng.zfs
            /\ \A d \in eng.todo : verified[d] # None /\ Rescan \notin Backlog(d, eng.cycle)
        BY <2>4 DEF ViewInv, LogInv
      <3>2. eng.cycle < open /\ eng.cycle \in Nat
        BY <2>4 DEF ViewInv, NameInv, BaseInv, EngType, Cycle
      <3>3. \A k \in Cycle : k <= eng.cycle => events'[k] = events[k]
        BY <1>9, <1>10, <3>2 DEF Cycle
      <3>4. \A d : Backlog(d, eng.cycle)' = Backlog(d, eng.cycle)
        BY <1>2, <3>3 DEF Backlog
      <3>5. QED BY <3>1, <3>4
    <2>5. \A c : Current(srcSnap, c)' <=> Current(srcSnap, c)
      BY <1>2 DEF Current
    <2>6. QED BY <1>2, <1>a, <1>10, <2>1, <2>2, <2>3, <2>4, <2>5 DEF LogInv
  <1>13. GhostTypes' /\ Reached'
    BY <1>2 DEF ViewInv, GhostTypes, Reached
  <1>14. WorkInv'
    <2>1. ASSUME eng.at = "base"
          PROVE  Differs(src', dst[eng.d]) \subseteq Rest(eng.d) \cup After(eng.cycle)
      <3>1. Differs(src, dst[eng.d]) \subseteq Rest(eng.d) \cup EditsAfter(eng.cycle)
        BY <2>1 DEF ViewInv, WorkInv
      <3>2. eng.cycle < open
        BY <2>1 DEF ViewInv, NameInv
      <3>3. Differs(src', dst[eng.d]) \subseteq Differs(src, dst[eng.d]) \cup ch.hit
        BY <1>8
      <3>4. EditsAfter(eng.cycle) \subseteq After(eng.cycle) /\ ch.hit \subseteq After(eng.cycle)
        BY <1>11, <3>2
      <3>5. QED BY <3>1, <3>3, <3>4
    <2>2. Rest(eng.d)' = Rest(eng.d)
      BY <1>2 DEF Rest
    <2>3. QED BY <1>2, <1>a, <2>1, <2>2 DEF ViewInv, WorkInv
  <1>15. GreenIsCurrent'
    <2>1. ASSUME NEW d \in Dst, verified[d] # None
          PROVE  Differs(src', dst[d]) \subseteq drifted[d] \cup ahead[d] \cup After(verified[d])
      <3>1. Differs(src, dst[d]) \subseteq drifted[d] \cup ahead[d] \cup EditsAfter(verified[d])
        BY <2>1 DEF ViewInv, GreenIsCurrent
      <3>2. verified[d] < open
        BY DEF ViewInv, NameInv
      <3>3. Differs(src', dst[d]) \subseteq Differs(src, dst[d]) \cup ch.hit
        BY <1>8
      <3>4. EditsAfter(verified[d]) \subseteq After(verified[d]) /\ ch.hit \subseteq After(verified[d])
        BY <1>11, <3>2
      <3>5. QED BY <3>1, <3>3, <3>4
    <2>2. QED BY <1>2, <1>a, <2>1 DEF GreenIsCurrent
  <1>16. QED BY <1>6, <1>7, <1>12, <1>13, <1>14, <1>15 DEF ViewInv

\* What changes nothing of the log and the source leaves what was said about them.
LEMMA LogSame ==
  ASSUME LogInv, UNCHANGED <<edits, events, src, srcSnap, gen, verified, eng>>
  PROVE  LogInv' /\ \A k : EditsAfter(k)' = EditsAfter(k)
  BY DEF LogInv, Current, EditsAfter, Backlog

\* A foreign writer's change of a destination is drift.
LEMMA DriftView ==
  ASSUME BaseInv, ViewInv, NEW d \in Dst, Drift(d)
  PROVE  ViewInv'
  <1>1. PICK ch \in Changes(dst[d], dstTxg[d]) :
          /\ dst' = [dst EXCEPT ![d] = ch.tree]
          /\ drifted' = [drifted EXCEPT ![d] = drifted[d] \cup ch.hit]
          /\ window' = [window EXCEPT ![d] = IF eng.at \in {"base", "snap"} /\ eng.d = d
                                             THEN [files |-> window[d].files \cup ch.hit, dirs |-> window[d].dirs \cup ch.dirs]
                                             ELSE window[d]]
    BY DEF Drift
  <1>2. /\ UNCHANGED <<src, dstSnap, srcSnap, srcTxg, dstTxg, srcBase, dstBase, verified, target>>
        /\ UNCHANGED <<open, events, edits, gen, eng, blind, ahead>>
    BY DEF Drift, store, rows, log
  <1>3. Tree(dst[d]) /\ dstTxg[d] \in Nat /\ \A e \in Dst : History(dst[e], dstTxg[e], dstSnap[e])
    BY DEF ViewInv, SnapInv, History
  <1>4. Change(ch, dst[d], dstTxg[d])
    BY <1>3, ChangesAre
  <1>5. /\ dst'[d] = ch.tree /\ drifted'[d] = drifted[d] \cup ch.hit
        /\ dst' = [e \in Dst |-> dst'[e]] /\ drifted' = [e \in Dst |-> drifted'[e]]
        /\ \A e \in Dst : e # d => dst'[e] = dst[e] /\ drifted'[e] = drifted[e] /\ window'[e] = window[e]
    BY <1>1 DEF ViewInv, SnapInv, GhostTypes
  <1>6. /\ window' = [e \in Dst |-> window'[e]] /\ window'[d] \in [files : SUBSET Path, dirs : SUBSET Path]
        /\ window'[d].files = IF eng.at \in {"base", "snap"} /\ eng.d = d THEN window[d].files \cup ch.hit ELSE window[d].files
    <2>1. window = [e \in Dst |-> window[e]] /\ window[d] \in [files : SUBSET Path, dirs : SUBSET Path]
      BY DEF ViewInv, GhostTypes
    <2>2. ch.hit \subseteq Path /\ ch.dirs \subseteq Path
      BY <1>4 DEF Change
    <2>3. QED BY <1>1, <2>1, <2>2
  <1>7. SnapInv'
    <2>1. History(dst'[d], dstTxg[d], dstSnap[d])
      BY <1>3, <1>4, <1>5, HistoryStems DEF Change
    <2>2. QED BY <1>2, <1>3, <1>5, <2>1 DEF ViewInv, SnapInv
  <1>8. NameInv'
    BY <1>2 DEF ViewInv, NameInv, Current
  <1>9. LogInv' /\ \A k : EditsAfter(k)' = EditsAfter(k)
    BY <1>2, LogSame DEF ViewInv
  <1>10. GhostTypes'
    BY <1>2, <1>5, <1>6 DEF ViewInv, GhostTypes
  <1>11. \A t : Differs(t, dst'[d]) \subseteq Differs(t, dst[d]) \cup ch.hit
    BY <1>4, <1>5 DEF Differs, Same, Change
  <1>12. Reached'
    BY <1>2, <1>5, <1>11 DEF ViewInv, Reached
  <1>13. GreenIsCurrent'
    BY <1>2, <1>5, <1>9, <1>11 DEF ViewInv, GreenIsCurrent
  <1>14. WorkInv'
    <2>1. SUFFICES ASSUME eng.at = "base" PROVE WorkInv'
      BY <1>2 DEF WorkInv
    <2>2. CASE eng.d = d
      <3>1. Rest(d) \cup ch.hit \subseteq Rest(d)'
        BY <1>2, <1>5, <1>6, <2>1, <2>2 DEF Rest
      <3>2. QED BY <1>2, <1>9, <1>11, <2>1, <2>2, <3>1 DEF ViewInv, WorkInv
    <2>3. CASE eng.d # d
      <3>1. eng.d \in Dst
        BY <2>1 DEF BaseInv, EngType
      <3>2. Rest(eng.d)' = Rest(eng.d)
        BY <1>2, <1>5, <2>3, <3>1 DEF Rest
      <3>3. QED BY <1>2, <1>5, <1>9, <2>1, <2>3, <3>1, <3>2 DEF ViewInv, WorkInv
    <2>4. QED BY <2>2, <2>3
  <1>15. QED BY <1>7, <1>8, <1>9, <1>10, <1>12, <1>13, <1>14 DEF ViewInv

\* A cycle that is closed is older than the one that is open then.
LEMMA TargetView ==
  ASSUME BaseInv, ViewInv, NEW D \in Due, NEW manual \in BOOLEAN, Target(D, manual)
  PROVE  ViewInv'
  <1>1. /\ open < MaxCycle /\ open' = open + 1
        /\ target' = [d \in Dst |-> IF d \in D THEN open ELSE target[d]]
        /\ UNCHANGED <<src, dst, srcSnap, dstSnap, srcTxg, dstTxg, srcBase, dstBase, verified>>
        /\ UNCHANGED <<events, edits, gen, eng, drifted, window, blind, ahead>>
    BY DEF Target, store, ghosts
  <1>2. open \in Nat /\ open' \in Cycle /\ open < open' /\ MaxCycle \in Nat
    BY <1>1, ZfsAssumption DEF ViewInv, NameInv, Cycle
  <1>3. \A n \in Nat : n < open => n < open'
    BY <1>1, <1>2
  <1>4. SnapInv' /\ GhostTypes' /\ Reached'
    BY <1>1 DEF ViewInv, SnapInv, GhostTypes, Reached
  <1>5. LogInv' /\ \A k : EditsAfter(k)' = EditsAfter(k)
    BY <1>1, LogSame DEF ViewInv
  <1>6. WorkInv' /\ GreenIsCurrent'
    <2>1. Rest(eng.d)' = Rest(eng.d)
      BY <1>1 DEF Rest
    <2>2. QED BY <1>1, <1>5, <2>1 DEF ViewInv, WorkInv, GreenIsCurrent
  <1>7. NameInv'
    <2>1. \A d \in Dst : verified[d] \in Nat
      BY DEF BaseInv, RowTypes
    <2>2. \A d \in Dst : target'[d] \in Nat /\ target'[d] < open'
      BY <1>1, <1>2, <1>3 DEF ViewInv, NameInv
    <2>3. \A d \in Dst : verified[d] < open'
      BY <1>3, <2>1 DEF ViewInv, NameInv
    <2>4. eng.at # "idle" => eng.cycle < open'
      BY <1>3 DEF ViewInv, NameInv, BaseInv, EngType, Cycle
    <2>5. \A c : Current(srcSnap, c) => c < open'
      <3>1. \A c : Current(srcSnap, c) => c \in Nat /\ c < open
        BY DEF Current, ViewInv, NameInv, Cycle
      <3>2. QED BY <1>3, <3>1
    <2>6. (\A c : Current(srcSnap, c)' <=> Current(srcSnap, c))
          /\ \A d, c : Current(dstSnap[d], c)' <=> Current(dstSnap[d], c)
      BY <1>1 DEF Current
    <2>7. target' = [d \in Dst |-> target'[d]]
      BY <1>1
    <2>8. QED BY <1>1, <1>2, <2>2, <2>3, <2>4, <2>5, <2>6, <2>7 DEF ViewInv, NameInv
  <1>8. QED BY <1>4, <1>5, <1>6, <1>7 DEF ViewInv

\* A pass starts from a snapshot of its cycle that no edit of a later one is in.
LEMMA BeginView ==
  ASSUME BaseInv, ViewInv, NEW c \in Cycle, Begin(c)
  PROVE  ViewInv'
  <1> DEFINE D == {d \in Dst : target[d] = c /\ verified[d] < c}
             new == EnsureSnapshot(srcSnap, c, src, srcTxg, FALSE)
  <1>1. /\ eng'.at = "next" /\ eng'.cycle = c /\ eng'.name = None /\ eng'.todo = D
        /\ eng'.zfs \in BOOLEAN /\ (eng'.byEvent => ~eng'.zfs /\ EventPlan(c, D))
        /\ srcSnap' = IF eng'.zfs THEN new ELSE srcSnap
        /\ srcTxg' = IF srcSnap' # srcSnap THEN srcTxg + 1 ELSE srcTxg
        /\ D # {}
    <2>1. D # {}
      BY DEF Begin
    <2>2. PICK byEvent \in {EventPlan(c, D)}, fails \in BOOLEAN :
            LET zfs == ~byEvent /\ ~fails
                now == IF zfs THEN EnsureSnapshot(srcSnap, c, src, srcTxg, FALSE) ELSE srcSnap
            IN  /\ srcSnap' = now
                /\ srcTxg' = IF now # srcSnap THEN srcTxg + 1 ELSE srcTxg
                /\ eng' = [Idle EXCEPT !.at = "next", !.cycle = c, !.todo = D, !.zfs = zfs, !.byEvent = byEvent,
                                       !.mixed = \E d \in Remote : target[d] = c]
      BY DEF Begin
    <2> DEFINE z == ~byEvent /\ ~fails
               m == \E d \in Remote : target[d] = c
    <2>3. /\ srcSnap' = IF z THEN new ELSE srcSnap
          /\ eng' = [Idle EXCEPT !.at = "next", !.cycle = c, !.todo = D, !.zfs = z, !.byEvent = byEvent, !.mixed = m]
      BY <2>2
    <2>4. srcTxg' = IF srcSnap' # srcSnap THEN srcTxg + 1 ELSE srcTxg
      BY <2>2
    <2>5. z \in BOOLEAN /\ byEvent = EventPlan(c, D) /\ (byEvent => ~z)
      BY <2>2
    <2> HIDE DEF z, m, new, D
    <2>6. /\ eng'.at = "next" /\ eng'.cycle = c /\ eng'.zfs = z /\ eng'.name = None
          /\ eng'.todo = D /\ eng'.byEvent = byEvent
      BY <2>3, IdleIs
    <2>7. QED BY <2>1, <2>3, <2>4, <2>5, <2>6
  <1>2. /\ UNCHANGED <<src, dst, dstSnap, dstTxg, srcBase, dstBase, verified, target>>
        /\ UNCHANGED <<open, events, edits, gen, drifted, window, blind, ahead>>
    BY DEF Begin, rows, log, ghosts
  <1>4. PICK e \in Dst : target[e] = c
    BY <1>1
  <1>5. c < open
    BY <1>4 DEF ViewInv, NameInv
  <1>6. History(src, srcTxg, srcSnap)
    BY DEF ViewInv, SnapInv
  <1>7. /\ History(src, IF new # srcSnap THEN srcTxg + 1 ELSE srcTxg, new)
        /\ \A k \in DOMAIN srcSnap : k # c \/ Current(srcSnap, c) => k \in DOMAIN new /\ new[k] = srcSnap[k]
        /\ ~Current(srcSnap, c) => new[c].tree = src
        /\ \A k \in DOMAIN new : (k \in DOMAIN srcSnap /\ new[k] = srcSnap[k]) \/ (k = c /\ new[k].gen = gen)
    <2>1. PICK old \in BOOLEAN : ~old /\ new = EnsureSnapshot(srcSnap, c, src, srcTxg, old)
      <3>1. FALSE \in BOOLEAN /\ ~FALSE /\ new = EnsureSnapshot(srcSnap, c, src, srcTxg, FALSE)
        OBVIOUS
      <3> HIDE DEF new
      <3>2. QED BY <3>1
    <2> HIDE DEF new
    <2>2. History(src, IF new # srcSnap THEN srcTxg + 1 ELSE srcTxg, new)
      BY <1>6, <2>1, EnsureKeeps
    <2>3. \A k \in DOMAIN srcSnap : k # c \/ Current(srcSnap, c) => k \in DOMAIN new /\ new[k] = srcSnap[k]
      BY <1>6, <2>1, EnsureKeeps
    <2>4. ~Current(srcSnap, c) => new[c].tree = src
      BY <1>6, <2>1, EnsureKeeps
    <2>5. \A k \in DOMAIN new : (k \in DOMAIN srcSnap /\ new[k] = srcSnap[k]) \/ (k = c /\ new[k].gen = gen)
      BY <1>6, <2>1, EnsureKeeps
    <2>6. QED BY <2>2, <2>3, <2>4, <2>5
  <1> HIDE DEF new, D
  <1>8. SnapInv'
    <2>1. History(src, srcTxg', srcSnap')
      BY <1>1, <1>6, <1>7
    <2>2. QED BY <1>2, <2>1 DEF ViewInv, SnapInv
  <1>9. /\ \A k \in DOMAIN srcSnap : k # c \/ Current(srcSnap, c) => k \in DOMAIN srcSnap' /\ srcSnap'[k] = srcSnap[k]
        /\ \A k \in DOMAIN srcSnap' : (k \in DOMAIN srcSnap /\ srcSnap'[k] = srcSnap[k]) \/ (k = c /\ srcSnap'[k].gen = gen)
        /\ \A k : Current(srcSnap, k)' => (Current(srcSnap, k) /\ srcSnap'[k] = srcSnap[k]) \/ (k = c /\ srcSnap'[k].tree = src)
    <2>1. CASE eng'.zfs
      <3>1. srcSnap' = new
        BY <1>1, <2>1
      <3>2. ASSUME NEW k, Current(srcSnap, k)'
            PROVE  (Current(srcSnap, k) /\ srcSnap'[k] = srcSnap[k]) \/ (k = c /\ srcSnap'[k].tree = src)
        <4>1. k \in DOMAIN new /\ new[k].gen = gen
          BY <1>2, <3>1, <3>2 DEF Current
        <4>2. CASE k \in DOMAIN srcSnap /\ new[k] = srcSnap[k]
          BY <3>1, <4>1, <4>2 DEF Current
        <4>3. CASE k = c /\ ~Current(srcSnap, c)
          BY <1>7, <3>1, <4>3
        <4>4. CASE k = c /\ Current(srcSnap, c)
          BY <1>7, <3>1, <4>4 DEF Current
        <4>5. QED BY <1>7, <4>1, <4>2, <4>3, <4>4
      <3>3. QED BY <1>7, <3>1, <3>2
    <2>2. CASE ~eng'.zfs
      <3>1. srcSnap' = srcSnap
        BY <1>1, <2>2
      <3>2. QED BY <1>2, <3>1 DEF Current
    <2>3. QED BY <1>1, <2>1, <2>2
  <1>10. NameInv'
    <2>1. \A k \in DOMAIN srcSnap' : k \in Cycle /\ srcSnap'[k].gen \in Nat /\ srcSnap'[k].gen <= gen
      BY <1>9 DEF ViewInv, NameInv
    <2>2. \A k : Current(srcSnap, k)' => k < open
      BY <1>5, <1>9 DEF ViewInv, NameInv
    <2>3. \A d \in Dst : \A k : Current(dstSnap[d], k)' <=> Current(dstSnap[d], k)
      BY <1>2 DEF Current
    <2>4. \A d \in Dst : \A k : Current(dstSnap[d], k) => k <= verified[d]
      BY DEF ViewInv, NameInv
    <2>5. QED BY <1>2, <1>1, <1>5, <2>1, <2>2, <2>3, <2>4 DEF ViewInv, NameInv
  <1>11. \A k : EditsAfter(k)' = EditsAfter(k)
    BY <1>2 DEF EditsAfter
  <1>12. LogInv'
    <2>1. ASSUME NEW k, Current(srcSnap, k)'
          PROVE  Differs(srcSnap'[k].tree, src) \subseteq EditsAfter(k)
      <3>1. CASE Current(srcSnap, k) /\ srcSnap'[k] = srcSnap[k]
        BY <3>1 DEF ViewInv, LogInv
      <3>2. CASE srcSnap'[k].tree = src
        BY <3>2 DEF Differs, Same
      <3>3. QED BY <1>9, <2>1, <3>1, <3>2
    <2>2. ASSUME eng'.byEvent
          PROVE  ~eng'.zfs /\ \A d \in D : verified[d] # None /\ Rescan \notin Backlog(d, c)
      BY <1>1, <2>2 DEF EventPlan
    <2>3. \A d : Backlog(d, c)' = Backlog(d, c)
      BY <1>2 DEF Backlog
    <2>4. eng'.byEvent => ~eng'.zfs /\ \A d \in eng'.todo : verified[d] # None /\ Rescan \notin Backlog(d, eng.cycle)'
      <3>1. \A d : Backlog(d, eng.cycle)' = Backlog(d, c)
        BY <1>2, <1>1 DEF Backlog
      <3>2. QED BY <1>1, <2>2, <3>1
    <2>5. QED BY <1>2, <1>1, <1>11, <2>1, <2>4 DEF ViewInv, LogInv
  <1>13. GhostTypes'
    BY <1>2 DEF ViewInv, GhostTypes
  <1>14. Reached'
    <2>1. ASSUME NEW d \in Dst, srcBase[d] # None
          PROVE  srcSnap'[srcBase[d]] = srcSnap[srcBase[d]]
      <3>1. srcBase[d] \in DOMAIN srcSnap /\ Current(srcSnap, srcBase[d])
        BY <2>1 DEF BaseInv, BaseKept, Current
      <3>2. QED BY <1>9, <3>1
    <2>2. QED BY <1>2, <2>1 DEF ViewInv, Reached
  <1>15. WorkInv' /\ GreenIsCurrent'
    BY <1>2, <1>1, <1>11 DEF ViewInv, WorkInv, GreenIsCurrent
  <1>16. QED BY <1>8, <1>10, <1>12, <1>13, <1>14, <1>15 DEF ViewInv

\* The view is a state the source was in, later edits apart.
LEMMA ViewIs ==
  ASSUME ZfsAssumption, BaseInv, ViewInv, eng.at # "idle"
  PROVE  /\ Tree(View) /\ Differs(View, src) \subseteq EditsAfter(eng.cycle)
         /\ \A c \in DOMAIN srcSnap : Tree(srcSnap[c].tree) /\ Follows(srcSnap[c].tree, View)
  <1>1. History(src, srcTxg, srcSnap)
    BY DEF ViewInv, SnapInv
  <1>2. CASE eng.zfs
    <2>1. View = srcSnap[eng.cycle].tree /\ Current(srcSnap, eng.cycle)
      BY <1>2 DEF View, BaseInv, Held
    <2>2. eng.cycle \in DOMAIN srcSnap
      BY <2>1 DEF Current
    <2>3. QED BY <1>1, <2>1, <2>2 DEF History, ViewInv, LogInv
  <1>3. CASE ~eng.zfs
    <2>1. View = src
      BY <1>3 DEF View
    <2>2. QED BY <1>1, <2>1 DEF History, Differs, Same
  <1>4. QED BY <1>2, <1>3

\* What each way to bring a destination up to date looks at.
LEMMA WaysAre ==
  ASSUME ZfsAssumption, BaseInv, ViewInv, NEW d \in Dst, eng.at = "next", d \in eng.todo, NEW w \in Ways(d)
  PROVE  /\ Covered(w.diff) \subseteq Path
         /\ \/ /\ w.how = "event" /\ eng.byEvent
               /\ \A p \in Backlog(d, eng.cycle) : p \in Path /\ Below[p] \subseteq Covered(w.diff)
            \/ w.how = "walk" /\ ~eng.byEvent /\ Path \subseteq Covered(w.diff)
            \/ /\ w.how \in {"diff", "dual"} /\ ~eng.byEvent /\ eng.zfs /\ srcBase[d] \in DOMAIN srcSnap
               /\ Covered(DiffPaths(srcSnap[srcBase[d]].tree, View)) \subseteq Covered(w.diff)
               /\ w.how = "dual" =>
                     BothBases(d) /\ Covered(DiffPaths(dstSnap[d][dstBase[d]].tree, dst[d])) \subseteq Covered(w.diff)
  <1> DEFINE S == DiffPaths(srcSnap[srcBase[d]].tree, View)
             T == DiffPaths(dstSnap[d][dstBase[d]].tree, dst[d])
             B == Backlog(d, eng.cycle)
             base == srcSnap[srcBase[d]].tree
  <1>1. \/ /\ eng.byEvent /\ w.how = "event" /\ w.diff = [rel |-> B, recursive |-> B]
        \/ /\ ~eng.byEvent /\ w.how = "diff" /\ w.diff = S /\ CanDiff(d)
        \/ /\ ~eng.byEvent /\ w.how = "dual" /\ w.diff = BothDiffs(d, View) /\ CanDual(d)
        \/ /\ ~eng.byEvent /\ w.how = "walk" /\ w.diff = Everything
    BY DEF Ways
  <1>2. CASE eng.byEvent /\ w.how = "event" /\ w.diff = [rel |-> B, recursive |-> B]
    <2>1. Rescan \notin B
      BY <1>2 DEF ViewInv, LogInv
    <2>2. B \subseteq Path
      BY <2>1 DEF Backlog, ViewInv, LogInv
    <2>3. w.diff.rel = B /\ w.diff.recursive = B
      BY <1>2
    <2>4. Covered(w.diff) = B \cup UNION {Below[p] : p \in B}
      BY <2>3 DEF Covered
    <2>5. \A p \in B : Below[p] \subseteq Path
      BY <2>2, BelowIs
    <2> HIDE DEF B
    <2>6. Covered(w.diff) \subseteq Path /\ \A p \in B : p \in Path /\ Below[p] \subseteq Covered(w.diff)
      BY <2>2, <2>4, <2>5
    <2>7. QED BY <1>2, <2>6 DEF B
  <1>3. CASE ~eng.byEvent /\ w.how = "diff" /\ w.diff = S /\ CanDiff(d)
    <2>1. Covered(S) \subseteq Path
      BY DiffPathsAre, CoveredIs
    <2>2. QED BY <1>3, <2>1 DEF CanDiff
  <1>4. CASE ~eng.byEvent /\ w.how = "dual" /\ w.diff = BothDiffs(d, View) /\ CanDual(d)
    <2>1. w.diff.rel = S.rel \cup T.rel /\ w.diff.recursive = S.recursive \cup T.recursive
      BY <1>4 DEF BothDiffs, Union
    <2>2. S.rel \subseteq Path /\ S.recursive \subseteq Path /\ T.rel \subseteq Path /\ T.recursive \subseteq Path
      BY DiffPathsAre
    <2> HIDE DEF S, T
    <2>3. Covered(w.diff) \subseteq Path /\ Covered(S) \subseteq Covered(w.diff) /\ Covered(T) \subseteq Covered(w.diff)
      BY <2>1, <2>2, CoveredIs
    <2>4. QED BY <1>4, <2>3 DEF CanDual, BothBases, S, T
  <1>5. CASE ~eng.byEvent /\ w.how = "walk" /\ w.diff = Everything
    <2>1. w.diff.rel = Path /\ w.diff.recursive = Path
      BY <1>5 DEF Everything
    <2>2. Covered(w.diff) = Path
      BY <2>1, BelowIs DEF Covered
    <2>3. QED BY <1>5, <2>2
  <1>6. QED BY <1>1, <1>2, <1>3, <1>4, <1>5

\* Where a pass has left a destination different from its view, it did not look: the path
\* drifted, is ahead or was edited later.
LEMMA LookedAt ==
  ASSUME ZfsAssumption, BaseInv, ViewInv, NEW d \in Dst, eng.at = "next", d \in eng.todo, NEW w \in Ways(d),
         NEW fails \in BOOLEAN, fails => w.how \in {"diff", "dual"},
         NEW P, P = IF fails THEN Path ELSE Covered(w.diff),
         NEW new, new = Applied(dst[d], View, P, dstTxg[d])
  PROVE  /\ P \subseteq Path /\ Stems(new, dst[d], dstTxg[d])
         /\ Renewed(new, dst[d], dstTxg[d]) /\ Matches(new, dst[d], View, P)
         /\ Differs(src, new) \subseteq ((drifted[d] \cup ahead[d]) \ P) \cup EditsAfter(eng.cycle)
         /\ fails \/ w.how # "event" => Differs(View, new) \subseteq (drifted[d] \cup ahead[d]) \ P
  <1>1. /\ Tree(View) /\ Differs(View, src) \subseteq EditsAfter(eng.cycle)
        /\ \A c \in DOMAIN srcSnap : Tree(srcSnap[c].tree) /\ Follows(srcSnap[c].tree, View)
    BY ViewIs
  <1>2. Tree(dst[d]) /\ dstTxg[d] \in Nat
    BY DEF ViewInv, SnapInv, History
  <1>3. P \subseteq Path
    BY WaysAre
  <1>4. /\ Stems(new, dst[d], dstTxg[d]) /\ Renewed(new, dst[d], dstTxg[d]) /\ Matches(new, dst[d], View, P)
        /\ \A p \in Path : ~Same(View[p], new[p]) => p \notin P /\ new[p] = dst[d][p]
    <2>1. P \in SUBSET Path
      BY <1>3
    <2>2. Stems(new, dst[d], dstTxg[d]) /\ Renewed(new, dst[d], dstTxg[d])
      BY <1>1, <1>2, <2>1, AppliedIs
    <2>3. Matches(new, dst[d], View, P)
      BY <1>1, <1>2, <2>1, AppliedIs
    <2>4. QED BY <2>2, <2>3 DEF Matches
  <1>5. ASSUME NEW p \in Path, fails \/ w.how # "event", ~Same(View[p], new[p])
        PROVE  p \in (drifted[d] \cup ahead[d]) \ P
    <2> DEFINE base == srcSnap[srcBase[d]].tree
    <2>1. p \notin P /\ new[p] = dst[d][p]
      BY <1>4, <1>5
    <2>2. ~fails /\ w.how # "walk"
      BY <1>5, <2>1, WaysAre
    <2>3. srcBase[d] \in DOMAIN srcSnap /\ Covered(DiffPaths(base, View)) \subseteq P
      BY <1>5, <2>2, WaysAre
    <2>4. Tree(base) /\ Follows(base, View)
      BY <1>1, <2>3
    <2> HIDE DEF base
    <2>5. Same(base[p], View[p])
      BY <1>1, <2>1, <2>3, <2>4, DiffSees
    <2>6. p \in Differs(base, dst[d])
      BY <1>5, <2>1, <2>5 DEF Differs, Same
    <2>7. srcBase[d] # None
      BY <2>3, ZfsAssumption DEF ViewInv, NameInv, Cycle, None
    <2>8. QED BY <2>1, <2>6, <2>7 DEF ViewInv, Reached, base
  <1>6. ASSUME NEW p \in Path, ~fails, w.how = "event", ~Same(View[p], new[p])
        PROVE  p \in ((drifted[d] \cup ahead[d]) \ P) \cup EditsAfter(eng.cycle)
    <2>1. p \notin P /\ new[p] = dst[d][p]
      BY <1>4, <1>6
    <2>2. eng.byEvent /\ \A q \in Backlog(d, eng.cycle) : q \in Path /\ Below[q] \subseteq P
      BY <1>6, WaysAre
    <2>3. ~eng.zfs /\ verified[d] # None /\ Rescan \notin Backlog(d, eng.cycle)
      BY <2>2 DEF ViewInv, LogInv
    <2>4. p \in Differs(src, dst[d])
      BY <1>6, <2>1, <2>3 DEF View, Differs
    <2>5. p \in drifted[d] \cup ahead[d] \cup EditsAfter(verified[d])
      BY <2>3, <2>4 DEF ViewInv, GreenIsCurrent
    <2>6. ASSUME NEW c \in Cycle, c > verified[d], p \in edits[c]
          PROVE  c > eng.cycle
      <3>1. SUFFICES ASSUME c <= eng.cycle PROVE FALSE
        BY DEF BaseInv, EngType, Cycle
      <3>2. events[c] \subseteq Backlog(d, eng.cycle)
        BY <2>6, <3>1 DEF Backlog
      <3>3. edits[c] \subseteq UNION {Below[q] : q \in events[c]}
        BY <2>3, <3>2 DEF ViewInv, LogInv
      <3>4. PICK q \in events[c] : p \in Below[q]
        BY <2>6, <3>3
      <3>5. QED BY <2>1, <2>2, <3>2, <3>4
    <2>7. p \in EditsAfter(verified[d]) => p \in EditsAfter(eng.cycle)
      BY <2>6, EditsIs
    <2>8. QED BY <2>1, <2>5, <2>7
  <1>7. ASSUME NEW p \in Path, ~Same(src[p], new[p])
        PROVE  p \in ((drifted[d] \cup ahead[d]) \ P) \cup EditsAfter(eng.cycle)
    <2>1. CASE p \in Differs(View, src)
      BY <1>1, <2>1
    <2>2. CASE p \notin Differs(View, src)
      <3>1. ~Same(View[p], new[p])
        BY <1>7, <2>2 DEF Differs, Same
      <3>2. QED BY <1>5, <1>6, <3>1
    <2>3. QED BY <2>1, <2>2
  <1>8. QED BY <1>3, <1>4, <1>5, <1>7 DEF Differs

\* A destination that is brought up to date is as its view on all the pass looked at.
LEMMA SyncOneView ==
  ASSUME ZfsAssumption, BaseInv, ViewInv, NEW d \in Dst, SyncOne(d)
  PROVE  ViewInv'
  <1>1. /\ eng.at = "next" /\ d \in eng.todo
        /\ UNCHANGED <<src, dstSnap, srcSnap, srcTxg, dstTxg, srcBase, dstBase, target>>
        /\ UNCHANGED <<open, events, edits, gen, drifted, blind>>
        /\ verified' = [verified EXCEPT ![d] = eng.cycle]
        /\ window' = [window EXCEPT ![d] = [files |-> {}, dirs |-> {}]]
    BY DEF SyncOne, store, log
  <1>2. PICK w \in Ways(d), fails \in BOOLEAN :
          LET how == IF fails THEN "walk" ELSE w.how
              diff == IF fails THEN Everything ELSE w.diff
              new == Applied(dst[d], View, Covered(diff), dstTxg[d])
          IN  /\ fails => w.how \in {"diff", "dual"} /\ Within("faults")
              /\ dst' = [dst EXCEPT ![d] = new]
              /\ ahead' = [ahead EXCEPT ![d] = ahead[d] \cup Wrote(dst[d], new)]
              /\ eng' = IF how = "event" THEN [eng EXCEPT !.todo = eng.todo \ {d}]
                        ELSE Compared(d, how, diff, Wrote(dst[d], new))
    BY DEF SyncOne
  <1> DEFINE how == IF fails THEN "walk" ELSE w.how
             diff == IF fails THEN Everything ELSE w.diff
             P == Covered(diff)
             new == Applied(dst[d], View, P, dstTxg[d])
             W == Wrote(dst[d], new)
  <1>3. /\ fails => w.how \in {"diff", "dual"}
        /\ dst' = [dst EXCEPT ![d] = new] /\ ahead' = [ahead EXCEPT ![d] = ahead[d] \cup W]
        /\ eng' = IF how = "event" THEN [eng EXCEPT !.todo = eng.todo \ {d}] ELSE Compared(d, how, diff, W)
    BY <1>2
  <1>4. P = IF fails THEN Path ELSE Covered(w.diff)
    <2>1. Covered(Everything) = Path
      BY BelowIs DEF Covered, Everything
    <2>2. QED BY <2>1
  <1>5. how = "event" <=> ~fails /\ w.how = "event"
    OBVIOUS
  <1>6. \A p \in Path : p \notin W => new[p] = dst[d][p]
    BY DEF Wrote
  <1>7. new = Applied(dst[d], View, P, dstTxg[d])
    OBVIOUS
  <1>8. \/ how = "event" /\ eng' = [eng EXCEPT !.todo = eng.todo \ {d}]
        \/ /\ how # "event" /\ DOMAIN eng' = DOMAIN eng
           /\ eng'.at = "base" /\ eng'.d = d /\ eng'.todo = eng.todo /\ eng'.cycle = eng.cycle
           /\ eng'.zfs = eng.zfs /\ eng'.byEvent = eng.byEvent /\ eng'.seen = P
    BY <1>3, ComparedIs DEF BaseInv
  <1> HIDE DEF how, diff, P, new, W
  <1>9. /\ P \subseteq Path /\ Stems(new, dst[d], dstTxg[d])
        /\ Differs(src, new) \subseteq ((drifted[d] \cup ahead[d]) \ P) \cup EditsAfter(eng.cycle)
        /\ how # "event" => Differs(View, new) \subseteq (drifted[d] \cup ahead[d]) \ P
    <2>1. P \subseteq Path /\ Stems(new, dst[d], dstTxg[d])
      BY <1>1, <1>3, <1>4, <1>7, LookedAt
    <2>2. Differs(src, new) \subseteq ((drifted[d] \cup ahead[d]) \ P) \cup EditsAfter(eng.cycle)
      BY <1>1, <1>3, <1>4, <1>7, LookedAt
    <2>3. how # "event" => Differs(View, new) \subseteq (drifted[d] \cup ahead[d]) \ P
      BY <1>1, <1>3, <1>4, <1>5, <1>7, LookedAt
    <2>4. QED BY <2>1, <2>2, <2>3
  <1>10. /\ dst' = [e \in Dst |-> dst'[e]] /\ dst'[d] = new /\ \A e \in Dst : e # d => dst'[e] = dst[e]
         /\ ahead' = [e \in Dst |-> ahead'[e]] /\ ahead'[d] = ahead[d] \cup W
         /\ \A e \in Dst : e # d => ahead'[e] = ahead[e]
    BY <1>3 DEF ViewInv, SnapInv, GhostTypes
  <1>11. /\ verified'[d] = eng.cycle /\ \A e \in Dst : e # d => verified'[e] = verified[e]
         /\ verified[d] < eng.cycle /\ eng.cycle \in Nat /\ \A e \in Dst : verified[e] \in Nat
         /\ eng.cycle < open
    <2>1. verified = [e \in Dst |-> verified[e]] /\ eng.cycle \in Nat /\ \A e \in Dst : verified[e] \in Nat
      BY <1>1 DEF BaseInv, RowTypes, EngType, Cycle
    <2>2. verified[d] < eng.cycle
      BY <1>1 DEF BaseInv, Behind, AtWork
    <2>3. eng.cycle < open
      BY <1>1 DEF ViewInv, NameInv
    <2>4. QED BY <1>1, <2>1, <2>2, <2>3
  <1>12. SnapInv'
    <2>1. History(new, dstTxg[d], dstSnap[d])
      BY <1>9, HistoryStems DEF ViewInv, SnapInv
    <2>2. QED BY <1>1, <1>10, <2>1 DEF ViewInv, SnapInv
  <1>13. NameInv'
    <2>1. \A e \in Dst : verified'[e] < open /\ verified[e] <= verified'[e]
      BY <1>11 DEF ViewInv, NameInv
    <2>2. eng'.at \notin {"snap", "row", "idle"} /\ eng'.cycle = eng.cycle /\ (eng'.at = "base" => eng'.d = d)
      BY <1>1, <1>8 DEF BaseInv, EngType
    <2>3. ASSUME NEW e \in Dst, NEW c, Current(dstSnap[e], c)
          PROVE  c <= verified'[e] /\ (eng'.at = "base" /\ e = eng'.d => c # eng'.cycle)
      <3>1. c \in Nat /\ c <= verified[e]
        BY <2>3 DEF ViewInv, NameInv, Current, Cycle
      <3>2. QED BY <1>11, <2>1, <2>2, <3>1
    <2>4. (\A c : Current(srcSnap, c)' <=> Current(srcSnap, c))
          /\ \A e \in Dst : \A c : Current(dstSnap[e], c)' <=> Current(dstSnap[e], c)
      BY <1>1 DEF Current
    <2>5. QED BY <1>1, <1>11, <2>1, <2>2, <2>3, <2>4 DEF ViewInv, NameInv
  <1>14. \A k : EditsAfter(k)' = EditsAfter(k)
    BY <1>1 DEF EditsAfter
  <1>15. LogInv'
    <2>1. eng'.at # "idle" /\ eng'.byEvent =>
             /\ eng'.at = "next" /\ ~eng'.zfs
             /\ \A e \in eng'.todo : verified'[e] # None /\ Rescan \notin Backlog(e, eng.cycle)'
      <3>1. CASE how = "event"
        <4>1. eng'.at = "next" /\ eng'.zfs = eng.zfs /\ eng'.byEvent = eng.byEvent /\ eng'.cycle = eng.cycle
              /\ eng'.todo = eng.todo \ {d}
          BY <1>1, <1>8, <3>1 DEF BaseInv, EngType
        <4>2. \A e \in eng'.todo : verified'[e] = verified[e]
          BY <1>1, <1>11, <4>1 DEF BaseInv, EngType
        <4>3. \A e \in eng'.todo : Backlog(e, eng.cycle)' = Backlog(e, eng.cycle)
          BY <1>1, <4>1, <4>2 DEF Backlog
        <4>4. QED BY <1>1, <4>1, <4>2, <4>3 DEF ViewInv, LogInv
      <3>2. CASE how # "event"
        <4>1. ~eng.byEvent
          BY <1>1, <1>3, <1>5, <3>2, WaysAre
        <4>2. QED BY <1>8, <3>2, <4>1
      <3>3. QED BY <3>1, <3>2
    <2>2. \A c : Current(srcSnap, c)' <=> Current(srcSnap, c)
      BY <1>1 DEF Current
    <2>3. QED BY <1>1, <1>14, <2>1, <2>2 DEF ViewInv, LogInv
  <1>16. /\ window' = [e \in Dst |-> window'[e]] /\ window'[d] = [files |-> {}, dirs |-> {}]
         /\ \A e \in Dst : e # d => window'[e] = window[e]
    BY <1>1 DEF ViewInv, GhostTypes
  <1>17. GhostTypes'
    BY <1>1, <1>10, <1>16 DEF ViewInv, GhostTypes
  <1>18. Reached'
    <2>1. \A t : Differs(t, new) \subseteq Differs(t, dst[d]) \cup W
      BY <1>6 DEF Differs, Same
    <2>2. QED BY <1>1, <1>10, <2>1 DEF ViewInv, Reached
  <1>19. GreenIsCurrent'
    <2>1. Differs(src, new) \subseteq drifted[d] \cup ahead'[d] \cup EditsAfter(eng.cycle)
      BY <1>9, <1>10
    <2>2. QED BY <1>1, <1>10, <1>11, <1>14, <2>1 DEF ViewInv, GreenIsCurrent
  <1>20. WorkInv'
    <2>1. CASE how = "event"
      <3>1. eng'.at = "next"
        BY <1>1, <1>8, <2>1 DEF BaseInv, EngType
      <3>2. QED BY <3>1 DEF WorkInv
    <2>2. CASE how # "event"
      <3>1. (drifted[d] \cup ahead[d]) \ P \subseteq Rest(d)'
        <4>1. window'[d].files = {}
          BY <1>16
        <4>2. QED BY <1>1, <1>8, <1>10, <2>2, <4>1 DEF Rest
      <3>2. eng.zfs => View = srcSnap[eng.cycle].tree
        BY DEF View
      <3>3. eng'.d = d /\ eng'.cycle = eng.cycle /\ eng'.zfs = eng.zfs
        BY <1>8, <2>2
      <3>4. Rest(eng.d)' = Rest(d)'
        BY <3>3 DEF Rest
      <3>5. EditsAfter(eng.cycle)' = EditsAfter(eng.cycle)
        BY <1>1, <3>3 DEF EditsAfter
      <3>6. Differs(src', dst'[eng'.d]) \subseteq Rest(eng.d)' \cup EditsAfter(eng.cycle)'
        BY <1>1, <1>9, <1>10, <3>1, <3>3, <3>4, <3>5
      <3>7. eng'.zfs => Differs(srcSnap'[eng'.cycle].tree, dst'[eng'.d]) \subseteq Rest(eng.d)'
        BY <1>1, <1>9, <1>10, <2>2, <3>1, <3>2, <3>3, <3>4
      <3>8. QED BY <3>6, <3>7 DEF WorkInv
    <2>3. QED BY <2>1, <2>2
  <1>21. QED BY <1>12, <1>13, <1>15, <1>17, <1>18, <1>19, <1>20 DEF ViewInv

\* What a pass that failed has done is ahead.
LEMMA FailOneView ==
  ASSUME ZfsAssumption, BaseInv, ViewInv, NEW d \in Dst, FailOne(d)
  PROVE  ViewInv'
  <1>1. /\ eng.at = "next" /\ d \in eng.todo /\ eng' = [eng EXCEPT !.todo = eng.todo \ {d}, !.ok = FALSE]
        /\ UNCHANGED <<src, dstSnap, srcSnap, srcTxg, dstTxg, srcBase, dstBase, verified, target>>
        /\ UNCHANGED <<open, events, edits, gen, drifted, window, blind>>
    BY DEF FailOne, store, rows, log
  <1>2. PICK w \in Ways(d) : \E P \in SUBSET (Covered(w.diff) \cap Differs(View, dst[d])) :
          LET new == Applied(dst[d], View, P, dstTxg[d])
          IN  dst' = [dst EXCEPT ![d] = new] /\ ahead' = [ahead EXCEPT ![d] = ahead[d] \cup Wrote(dst[d], new)]
    BY DEF FailOne
  <1>3. PICK P \in SUBSET (Covered(w.diff) \cap Differs(View, dst[d])) :
          LET new == Applied(dst[d], View, P, dstTxg[d])
          IN  dst' = [dst EXCEPT ![d] = new] /\ ahead' = [ahead EXCEPT ![d] = ahead[d] \cup Wrote(dst[d], new)]
    BY <1>2
  <1> DEFINE new == Applied(dst[d], View, P, dstTxg[d])
             W == Wrote(dst[d], new)
  <1>4. dst' = [dst EXCEPT ![d] = new] /\ ahead' = [ahead EXCEPT ![d] = ahead[d] \cup W]
    BY <1>3
  <1>5. \A p \in Path : p \notin W => new[p] = dst[d][p]
    BY DEF Wrote
  <1>6. Stems(new, dst[d], dstTxg[d])
    <2>1. P \in SUBSET Path
      BY DEF Differs
    <2>2. Tree(dst[d]) /\ dstTxg[d] \in Nat /\ Tree(View)
      BY <1>1, ViewIs DEF ViewInv, SnapInv, History
    <2>3. QED BY <2>1, <2>2, AppliedIs
  <1> HIDE DEF new, W
  <1>7. /\ eng'.at = "next" /\ eng'.cycle = eng.cycle /\ eng'.zfs = eng.zfs /\ eng'.name = eng.name
        /\ eng'.byEvent = eng.byEvent /\ eng'.todo = eng.todo \ {d}
    BY <1>1 DEF BaseInv, EngType
  <1>8. /\ dst' = [e \in Dst |-> dst'[e]] /\ dst'[d] = new /\ \A e \in Dst : e # d => dst'[e] = dst[e]
        /\ ahead' = [e \in Dst |-> ahead'[e]] /\ ahead'[d] = ahead[d] \cup W
        /\ \A e \in Dst : e # d => ahead'[e] = ahead[e]
    BY <1>4 DEF ViewInv, SnapInv, GhostTypes
  <1>9. SnapInv'
    <2>1. History(new, dstTxg[d], dstSnap[d])
      BY <1>6, HistoryStems DEF ViewInv, SnapInv
    <2>2. QED BY <1>1, <1>8, <2>1 DEF ViewInv, SnapInv
  <1>10. NameInv'
    <2>1. (\A c : Current(srcSnap, c)' <=> Current(srcSnap, c))
          /\ \A e \in Dst : \A c : Current(dstSnap[e], c)' <=> Current(dstSnap[e], c)
      BY <1>1 DEF Current
    <2>2. QED BY <1>1, <1>7, <2>1 DEF ViewInv, NameInv
  <1>11. \A k : EditsAfter(k)' = EditsAfter(k)
    BY <1>1 DEF EditsAfter
  <1>12. LogInv'
    <2>1. \A c : Current(srcSnap, c)' <=> Current(srcSnap, c)
      BY <1>1 DEF Current
    <2>2. \A e : Backlog(e, eng.cycle)' = Backlog(e, eng.cycle)
      BY <1>1, <1>7 DEF Backlog
    <2>3. QED BY <1>1, <1>7, <1>11, <2>1, <2>2 DEF ViewInv, LogInv
  <1>13. GhostTypes'
    BY <1>1, <1>8 DEF ViewInv, GhostTypes
  <1>14. \A t : Differs(t, new) \subseteq Differs(t, dst[d]) \cup W
    BY <1>5 DEF Differs, Same
  <1>15. Reached'
    BY <1>1, <1>8, <1>14 DEF ViewInv, Reached
  <1>16. GreenIsCurrent'
    BY <1>1, <1>8, <1>11, <1>14 DEF ViewInv, GreenIsCurrent
  <1>17. WorkInv'
    BY <1>7 DEF WorkInv
  <1>18. QED BY <1>9, <1>10, <1>12, <1>13, <1>15, <1>16, <1>17 DEF ViewInv

\* The base of a destination's next diff is what the pass read, and what it looked at is
\* neither drifted nor ahead of it.
LEMMA SetSrcBaseView ==
  ASSUME ZfsAssumption, BaseInv, ViewInv, SetSrcBase
  PROVE  ViewInv'
  <1> DEFINE d == eng.d
  <1>1. /\ eng.at = "base" /\ srcBase' = [srcBase EXCEPT ![d] = IF eng.zfs THEN eng.cycle ELSE None]
        /\ ahead' = [ahead EXCEPT ![d] = ahead[d] \ eng.seen]
        /\ drifted' = [drifted EXCEPT ![d] = drifted[d] \ (eng.seen \ window[d].files)]
        /\ \/ eng' = Onward
           \/ eng' = [eng EXCEPT !.at = "row"]
           \/ eng' = [eng EXCEPT !.at = "snap"] /\ eng.zfs /\ d \notin Remote
        /\ UNCHANGED <<src, dst, dstSnap, srcSnap, srcTxg, dstTxg, dstBase, verified, target>>
        /\ UNCHANGED <<open, events, edits, gen, window, blind>>
    BY DEF SetSrcBase, store, log, Action
  <1>2. d \in Dst /\ eng.name = None /\ EngType /\ verified[d] = eng.cycle /\ ~eng.byEvent
    BY <1>1 DEF BaseInv, EngType, Held, Behind, AtWork, ViewInv, LogInv
  <1>3. /\ eng'.cycle = eng.cycle /\ eng'.zfs = eng.zfs /\ eng'.name = None /\ eng'.byEvent = eng.byEvent
        /\ \/ eng'.at = "next"
           \/ eng'.at = "row" /\ eng'.d = d
           \/ eng'.at = "snap" /\ eng'.d = d /\ eng.zfs /\ d \notin Remote
    BY <1>1, <1>2, OnwardIs DEF EngType
  <1>4. /\ srcBase'[d] = IF eng.zfs THEN eng.cycle ELSE None
        /\ drifted'[d] \cup ahead'[d] = Rest(d)
        /\ drifted' = [e \in Dst |-> drifted'[e]] /\ ahead' = [e \in Dst |-> ahead'[e]]
        /\ \A e \in Dst : e # d => srcBase'[e] = srcBase[e] /\ drifted'[e] = drifted[e] /\ ahead'[e] = ahead[e]
    <2>1. srcBase = [e \in Dst |-> srcBase[e]]
      BY DEF BaseInv, RowTypes
    <2>2. drifted = [e \in Dst |-> drifted[e]] /\ ahead = [e \in Dst |-> ahead[e]]
      BY DEF ViewInv, GhostTypes
    <2>3. drifted'[d] = drifted[d] \ (eng.seen \ window[d].files) /\ ahead'[d] = ahead[d] \ eng.seen
      BY <1>1, <1>2, <2>2
    <2>4. QED BY <1>1, <1>2, <2>1, <2>2, <2>3 DEF Rest
  <1>5. /\ Differs(src, dst[d]) \subseteq Rest(d) \cup EditsAfter(eng.cycle)
        /\ eng.zfs => Differs(srcSnap[eng.cycle].tree, dst[d]) \subseteq Rest(d)
    BY <1>1 DEF ViewInv, WorkInv
  <1> HIDE DEF d
  <1>6. SnapInv'
    BY <1>1 DEF ViewInv, SnapInv
  <1>7. (\A c : Current(srcSnap, c)' <=> Current(srcSnap, c))
        /\ \A e \in Dst : \A c : Current(dstSnap[e], c)' <=> Current(dstSnap[e], c)
    BY <1>1 DEF Current
  <1>8. NameInv'
    <2>1. eng'.cycle < open
      BY <1>1, <1>3 DEF ViewInv, NameInv
    <2>2. \A e \in Dst : \A c : Current(dstSnap[e], c) =>
             c <= verified[e] /\ (eng'.at \in {"base", "snap"} /\ e = eng'.d => c # eng'.cycle)
      BY <1>1, <1>3 DEF ViewInv, NameInv, d
    <2>3. eng'.at = "snap" \/ (eng'.at = "row" /\ eng'.name # None) =>
            eng'.zfs /\ eng'.d \notin Remote /\ srcBase'[eng'.d] = eng'.cycle
      BY <1>2, <1>3, <1>4
    <2>4. QED BY <1>1, <1>7, <2>1, <2>2, <2>3 DEF ViewInv, NameInv
  <1>9. \A k : EditsAfter(k)' = EditsAfter(k)
    BY <1>1 DEF EditsAfter
  <1>10. LogInv'
    BY <1>1, <1>2, <1>3, <1>7, <1>9 DEF ViewInv, LogInv
  <1>11. GhostTypes'
    BY <1>1, <1>4 DEF ViewInv, GhostTypes
  <1>12. Reached'
    BY <1>1, <1>4, <1>5 DEF ViewInv, Reached
  <1>13. GreenIsCurrent'
    BY <1>1, <1>2, <1>4, <1>5, <1>9 DEF ViewInv, GreenIsCurrent
  <1>14. WorkInv'
    BY <1>3 DEF WorkInv
  <1>15. QED BY <1>6, <1>8, <1>10, <1>11, <1>12, <1>13, <1>14 DEF ViewInv

\* A new baseline is of a cycle the destination is verified for.
LEMMA SnapDstView ==
  ASSUME ZfsAssumption, BaseInv, ViewInv, SnapDst
  PROVE  ViewInv'
  <1> DEFINE d == eng.d
  <1>1. /\ eng.at = "snap"
        /\ UNCHANGED <<src, dst, srcSnap, srcTxg, srcBase, dstBase, verified, target>>
        /\ UNCHANGED <<open, events, edits, gen, drifted, window, ahead>>
    BY DEF SnapDst, rows, log
  <1>2. d \in Dst /\ eng.name = None /\ EngType /\ verified[d] = eng.cycle /\ ~eng.byEvent
        /\ eng.zfs /\ d \notin Remote /\ srcBase[d] = eng.cycle /\ eng.cycle < open
    BY <1>1 DEF BaseInv, EngType, Held, Behind, AtWork, ViewInv, NameInv, LogInv
  <1>3. PICK old \in BOOLEAN :
          LET snaps == EnsureSnapshot(dstSnap[d], eng.cycle, dst[d], dstTxg[d], old)
          IN  \/ /\ eng' = [eng EXCEPT !.at = "row"] /\ dstSnap' = dstSnap /\ dstTxg' = dstTxg /\ blind' = blind
              \/ /\ eng' = Onward /\ blind' = blind
                 /\ dstSnap' = [dstSnap EXCEPT ![d] = Restrict(snaps, DOMAIN snaps \ {eng.cycle})]
                 /\ dstTxg' = [dstTxg EXCEPT ![d] = IF snaps # dstSnap[d] THEN dstTxg[d] + 1 ELSE dstTxg[d]]
              \/ /\ eng' = [eng EXCEPT !.at = "row", !.name = eng.cycle]
                 /\ \E U : blind' = [blind EXCEPT ![d].next = U]
                 /\ dstSnap' = [dstSnap EXCEPT ![d] = snaps]
                 /\ dstTxg' = [dstTxg EXCEPT ![d] = IF snaps # dstSnap[d] THEN dstTxg[d] + 1 ELSE dstTxg[d]]
    BY Zenon DEF SnapDst
  <1> DEFINE snaps == EnsureSnapshot(dstSnap[d], eng.cycle, dst[d], dstTxg[d], old)
             txg == IF snaps # dstSnap[d] THEN dstTxg[d] + 1 ELSE dstTxg[d]
             less == Restrict(snaps, DOMAIN snaps \ {eng.cycle})
  <1>4. \/ /\ eng' = [eng EXCEPT !.at = "row"] /\ dstSnap' = dstSnap /\ dstTxg' = dstTxg /\ blind' = blind
        \/ /\ eng' = Onward /\ blind' = blind
           /\ dstSnap' = [dstSnap EXCEPT ![d] = less] /\ dstTxg' = [dstTxg EXCEPT ![d] = txg]
        \/ /\ eng' = [eng EXCEPT !.at = "row", !.name = eng.cycle] /\ \E U : blind' = [blind EXCEPT ![d].next = U]
           /\ dstSnap' = [dstSnap EXCEPT ![d] = snaps] /\ dstTxg' = [dstTxg EXCEPT ![d] = txg]
    BY <1>3
  <1>5. snaps = EnsureSnapshot(dstSnap[d], eng.cycle, dst[d], dstTxg[d], old)
    OBVIOUS
  <1>6. /\ History(dst[d], txg, snaps) /\ History(dst[d], txg, less)
        /\ \A k \in DOMAIN snaps : (k \in DOMAIN dstSnap[d] /\ snaps[k] = dstSnap[d][k])
                                   \/ (k = eng.cycle /\ snaps[k].gen = gen)
        /\ DOMAIN less \subseteq DOMAIN snaps /\ \A k \in DOMAIN less : less[k] = snaps[k]
    <2>1. History(dst[d], dstTxg[d], dstSnap[d])
      BY <1>2 DEF ViewInv, SnapInv
    <2>2. History(dst[d], txg, snaps)
      <3> HIDE DEF snaps, d
      <3>1. QED BY <1>5, <2>1, EnsureKeeps
    <2>3. \A k \in DOMAIN snaps : (k \in DOMAIN dstSnap[d] /\ snaps[k] = dstSnap[d][k])
                                   \/ (k = eng.cycle /\ snaps[k].gen = gen)
      <3> HIDE DEF snaps, d
      <3>1. QED BY <1>5, <2>1, EnsureKeeps
    <2> HIDE DEF snaps, txg, d
    <2>4. History(dst[d], txg, less)
      BY <2>2, HistoryLess
    <2>5. QED BY <2>2, <2>3, <2>4 DEF Restrict
  <1> HIDE DEF snaps, txg, less
  <1>7. /\ dstSnap = [e \in Dst |-> dstSnap[e]] /\ dstTxg = [e \in Dst |-> dstTxg[e]]
        /\ blind = [e \in Dst |-> blind[e]]
    BY DEF BaseInv, RowTypes, ViewInv, SnapInv, GhostTypes
  <1>8. /\ eng'.cycle = eng.cycle /\ eng'.zfs = eng.zfs /\ eng'.byEvent = eng.byEvent
        /\ \/ eng'.at = "next"
           \/ eng'.at = "row" /\ eng'.d = d
    BY <1>2, <1>4, OnwardIs DEF EngType
  <1>9. /\ dstTxg' = [e \in Dst |-> dstTxg'[e]] /\ \A e \in Dst : e # d => dstSnap'[e] = dstSnap[e] /\ dstTxg'[e] = dstTxg[e]
        /\ History(dst[d], dstTxg'[d], dstSnap'[d])
        /\ \A k \in DOMAIN dstSnap'[d] : (k \in DOMAIN dstSnap[d] /\ dstSnap'[d][k] = dstSnap[d][k])
                                         \/ (k = eng.cycle /\ dstSnap'[d][k].gen = gen)
    <2>1. CASE dstSnap' = dstSnap /\ dstTxg' = dstTxg
      BY <1>2, <1>7, <2>1 DEF ViewInv, SnapInv
    <2>2. CASE dstSnap' = [dstSnap EXCEPT ![d] = less] /\ dstTxg' = [dstTxg EXCEPT ![d] = txg]
      <3>1. dstSnap'[d] = less /\ dstTxg'[d] = txg
        BY <1>2, <1>7, <2>2
      <3>2. \A k \in DOMAIN less : (k \in DOMAIN dstSnap[d] /\ less[k] = dstSnap[d][k])
                                   \/ (k = eng.cycle /\ less[k].gen = gen)
        BY <1>6
      <3>3. QED BY <1>2, <1>6, <1>7, <2>2, <3>1, <3>2
    <2>3. CASE dstSnap' = [dstSnap EXCEPT ![d] = snaps] /\ dstTxg' = [dstTxg EXCEPT ![d] = txg]
      <3>1. dstSnap'[d] = snaps /\ dstTxg'[d] = txg
        BY <1>2, <1>7, <2>3
      <3>2. QED BY <1>2, <1>6, <1>7, <2>3, <3>1
    <2>4. QED BY <1>4, <2>1, <2>2, <2>3
  <1> HIDE DEF d
  <1>10. SnapInv'
    BY <1>1, <1>9 DEF ViewInv, SnapInv
  <1>11. NameInv'
    <2>1. eng.cycle \in Cycle /\ eng.cycle \in Nat /\ gen \in Nat
      BY <1>1 DEF BaseInv, EngType, Cycle, ViewInv, NameInv
    <2>2. \A e \in Dst : \A c \in DOMAIN dstSnap'[e] :
            c \in Cycle /\ dstSnap'[e][c].gen \in Nat /\ dstSnap'[e][c].gen <= gen
      BY <1>9, <2>1 DEF ViewInv, NameInv
    <2>3. \A e \in Dst : \A c : Current(dstSnap[e], c)' => c <= verified[e]
      <3>1. ASSUME NEW e \in Dst, NEW c, c \in DOMAIN dstSnap'[e], dstSnap'[e][c].gen = gen
            PROVE  c <= verified[e]
        <4>1. CASE c \in DOMAIN dstSnap[e] /\ dstSnap'[e][c] = dstSnap[e][c]
          BY <3>1, <4>1 DEF ViewInv, NameInv, Current
        <4>2. CASE e = d /\ c = eng.cycle
          BY <1>2, <2>1, <4>2
        <4>3. QED BY <1>9, <3>1, <4>1, <4>2
      <3>2. QED BY <1>1, <3>1 DEF Current
    <2>4. \A c : Current(srcSnap, c)' <=> Current(srcSnap, c)
      BY <1>1 DEF Current
    <2>5. eng'.at \notin {"base", "snap"}
      BY <1>8
    <2>6. eng'.at = "row" => eng'.zfs /\ eng'.d \notin Remote /\ srcBase'[eng'.d] = eng'.cycle
      BY <1>1, <1>2, <1>8
    <2>7. eng'.cycle < open
      BY <1>2, <1>8
    <2>8. QED BY <1>1, <2>2, <2>3, <2>4, <2>5, <2>6, <2>7 DEF ViewInv, NameInv
  <1>12. \A k : EditsAfter(k)' = EditsAfter(k)
    BY <1>1 DEF EditsAfter
  <1>13. LogInv'
    <2>1. \A c : Current(srcSnap, c)' <=> Current(srcSnap, c)
      BY <1>1 DEF Current
    <2>2. QED BY <1>1, <1>2, <1>8, <1>12, <2>1 DEF ViewInv, LogInv
  <1>14. GhostTypes'
    <2>1. blind' = [e \in Dst |-> blind'[e]] /\ \A e \in Dst : DOMAIN blind'[e] = {"base", "next"}
      <3>1. \A e \in Dst : DOMAIN blind[e] = {"base", "next"}
        BY DEF ViewInv, GhostTypes
      <3>2. CASE blind' = blind
        BY <1>7, <3>1, <3>2
      <3>3. ASSUME NEW U, blind' = [blind EXCEPT ![d].next = U]
            PROVE  blind' = [e \in Dst |-> blind'[e]] /\ \A e \in Dst : DOMAIN blind'[e] = {"base", "next"}
        BY <1>7, <3>1, <3>3
      <3>4. QED BY <1>4, <3>2, <3>3
    <2>2. QED BY <1>1, <2>1 DEF ViewInv, GhostTypes
  <1>15. Reached' /\ GreenIsCurrent'
    BY <1>1, <1>12 DEF ViewInv, Reached, GreenIsCurrent
  <1>16. WorkInv'
    BY <1>8 DEF WorkInv
  <1>17. QED BY <1>10, <1>11, <1>13, <1>14, <1>15, <1>16 DEF ViewInv

\* A row and the sweep after it: no destination is greener.
LEMMA SetDstBaseView ==
  ASSUME ZfsAssumption, BaseInv, ViewInv, SetDstBase
  PROVE  ViewInv'
  <1> DEFINE d == eng.d
             kept == IF eng.name = None /\ dstBase[d] = None THEN dstSnap[d]
                     ELSE Restrict(dstSnap[d], DOMAIN dstSnap[d] \cap {eng.name})
  <1>1. /\ eng.at = "row" /\ dstBase' = [dstBase EXCEPT ![d] = eng.name] /\ eng' = Onward
        /\ dstSnap' = [dstSnap EXCEPT ![d] = kept]
        /\ \E U : blind' = [blind EXCEPT ![d].base = U]
        /\ UNCHANGED <<src, dst, srcSnap, srcTxg, dstTxg, srcBase, verified, target>>
        /\ UNCHANGED <<open, events, edits, gen, drifted, window, ahead>>
    BY DEF SetDstBase, log
  <1>2. d \in Dst /\ EngType /\ ~eng.byEvent /\ (eng.name # None => d \notin Remote) /\ eng.cycle < open
    BY <1>1 DEF BaseInv, EngType, ViewInv, NameInv, LogInv
  <1>3. eng'.cycle = eng.cycle /\ eng'.zfs = eng.zfs /\ eng'.byEvent = eng.byEvent /\ eng'.at = "next"
    BY <1>1, <1>2, OnwardIs
  <1>4. /\ dstSnap = [e \in Dst |-> dstSnap[e]] /\ dstBase = [e \in Dst |-> dstBase[e]]
        /\ blind = [e \in Dst |-> blind[e]]
    BY DEF BaseInv, RowTypes, ViewInv, GhostTypes
  <1>5. /\ History(dst[d], dstTxg[d], kept)
        /\ DOMAIN kept \subseteq DOMAIN dstSnap[d] /\ \A k \in DOMAIN kept : kept[k] = dstSnap[d][k]
    <2>1. History(dst[d], dstTxg[d], dstSnap[d])
      BY <1>2 DEF ViewInv, SnapInv
    <2> HIDE DEF d
    <2>2. History(dst[d], dstTxg[d], Restrict(dstSnap[d], DOMAIN dstSnap[d] \cap {eng.name}))
      BY <2>1, HistoryLess
    <2>3. QED BY <2>1, <2>2 DEF Restrict
  <1> HIDE DEF kept
  <1>6. /\ dstSnap'[d] = kept /\ dstBase'[d] = eng.name
        /\ \A e \in Dst : e # d => dstSnap'[e] = dstSnap[e] /\ dstBase'[e] = dstBase[e]
    BY <1>1, <1>2, <1>4
  <1> HIDE DEF d
  <1>7. SnapInv'
    BY <1>1, <1>5, <1>6 DEF ViewInv, SnapInv
  <1>8. NameInv'
    <2>1. \A e \in Dst : DOMAIN dstSnap'[e] \subseteq DOMAIN dstSnap[e]
                         /\ \A k \in DOMAIN dstSnap'[e] : dstSnap'[e][k] = dstSnap[e][k]
      BY <1>5, <1>6
    <2>2. \A e \in Dst : \A c : Current(dstSnap[e], c)' => Current(dstSnap[e], c)
      BY <1>1, <2>1 DEF Current
    <2>3. \A c : Current(srcSnap, c)' <=> Current(srcSnap, c)
      BY <1>1 DEF Current
    <2>4. \A e \in Remote : dstBase'[e] = None
      BY <1>2, <1>6, ZfsAssumption DEF ViewInv, NameInv
    <2>5. \A e \in Dst : \A c \in DOMAIN dstSnap'[e] :
            c \in Cycle /\ dstSnap'[e][c].gen \in Nat /\ dstSnap'[e][c].gen <= gen
      BY <2>1 DEF ViewInv, NameInv
    <2>6. \A e \in Dst : \A c : Current(dstSnap[e], c)' => c <= verified[e]
      BY <2>2 DEF ViewInv, NameInv
    <2>7. eng'.at = "next" /\ eng'.cycle < open
      BY <1>2, <1>3
    <2>8. QED BY <1>1, <2>3, <2>4, <2>5, <2>6, <2>7 DEF ViewInv, NameInv
  <1>9. \A k : EditsAfter(k)' = EditsAfter(k)
    BY <1>1 DEF EditsAfter
  <1>10. LogInv'
    <2>1. \A c : Current(srcSnap, c)' <=> Current(srcSnap, c)
      BY <1>1 DEF Current
    <2>2. QED BY <1>1, <1>2, <1>3, <1>9, <2>1 DEF ViewInv, LogInv
  <1>11. GhostTypes'
    <2>1. \A e \in Dst : DOMAIN blind[e] = {"base", "next"}
      BY DEF ViewInv, GhostTypes
    <2>2. blind' = [e \in Dst |-> blind'[e]] /\ \A e \in Dst : DOMAIN blind'[e] = {"base", "next"}
      BY <1>1, <1>4, <2>1
    <2>3. QED BY <1>1, <2>2 DEF ViewInv, GhostTypes
  <1>12. Reached' /\ GreenIsCurrent'
    BY <1>1, <1>9 DEF ViewInv, Reached, GreenIsCurrent
  <1>13. WorkInv'
    BY <1>3 DEF WorkInv
  <1>14. QED BY <1>7, <1>8, <1>10, <1>11, <1>12, <1>13 DEF ViewInv

\* cleanup_zfs_snapshots keeps the base of every destination's next diff.
LEMMA FinishView ==
  ASSUME ZfsAssumption, BaseInv, ViewInv, Finish
  PROVE  ViewInv'
  <1> DEFINE kept == Cleanup(srcSnap, eng.cycle)
  <1>1. /\ eng' = Idle /\ srcSnap' = IF eng.zfs /\ eng.ok THEN kept ELSE srcSnap
        /\ UNCHANGED <<src, dst, dstSnap, srcTxg, dstTxg, srcBase, dstBase, verified, target>>
        /\ UNCHANGED <<open, events, edits, gen, drifted, window, blind, ahead>>
    BY DEF Finish, rows, log, ghosts
  <1>2. /\ DOMAIN srcSnap' \subseteq DOMAIN srcSnap /\ \A c \in DOMAIN srcSnap' : srcSnap'[c] = srcSnap[c]
        /\ \A d \in Dst : srcBase[d] \in DOMAIN srcSnap => srcBase[d] \in DOMAIN srcSnap'
    <2>1. eng.at = "next"
      BY DEF Finish
    <2>2. eng.zfs => eng.cycle \in DOMAIN srcSnap
      BY <2>1 DEF BaseInv, Held, Current
    <2>3. CASE eng.zfs /\ eng.ok
      <3>1. /\ DOMAIN kept \subseteq DOMAIN srcSnap /\ \A c \in DOMAIN kept : kept[c] = srcSnap[c]
            /\ \A d \in Dst : srcBase[d] \in DOMAIN srcSnap => srcBase[d] \in DOMAIN kept
        BY <2>2, <2>3 DEF Cleanup, Restrict, Recent
      <3> HIDE DEF kept
      <3>2. QED BY <1>1, <2>3, <3>1
    <2>4. CASE ~(eng.zfs /\ eng.ok)
      BY <1>1, <2>4
    <2>5. QED BY <2>3, <2>4
  <1>3. History(src, srcTxg, srcSnap')
    BY <1>2 DEF ViewInv, SnapInv, History
  <1>4. eng'.at = "idle" /\ eng'.name = None
    BY <1>1, IdleIs
  <1>5. SnapInv'
    BY <1>1, <1>3 DEF ViewInv, SnapInv
  <1>6. (\A c : Current(srcSnap, c)' => Current(srcSnap, c) /\ srcSnap'[c] = srcSnap[c])
        /\ \A e \in Dst : \A c : Current(dstSnap[e], c)' <=> Current(dstSnap[e], c)
    BY <1>1, <1>2 DEF Current
  <1>7. NameInv'
    <2>1. \A e \in Dst : \A c : Current(dstSnap[e], c)' => c <= verified[e]
      BY <1>6 DEF ViewInv, NameInv
    <2>2. \A c \in DOMAIN srcSnap' : c \in Cycle /\ srcSnap'[c].gen \in Nat /\ srcSnap'[c].gen <= gen
      BY <1>2 DEF ViewInv, NameInv
    <2>3. QED BY <1>1, <1>4, <1>6, <2>1, <2>2 DEF ViewInv, NameInv
  <1>8. \A k : EditsAfter(k)' = EditsAfter(k)
    BY <1>1 DEF EditsAfter
  <1>9. LogInv'
    BY <1>1, <1>4, <1>6, <1>8 DEF ViewInv, LogInv
  <1>10. GhostTypes'
    BY <1>1 DEF ViewInv, GhostTypes
  <1>11. Reached'
    <2>1. \A d \in Dst : srcBase[d] # None => srcBase[d] \in DOMAIN srcSnap
      BY DEF BaseInv, BaseKept
    <2>2. QED BY <1>1, <1>2, <2>1 DEF ViewInv, Reached
  <1>12. GreenIsCurrent'
    BY <1>1, <1>8 DEF ViewInv, GreenIsCurrent
  <1>13. WorkInv'
    BY <1>4 DEF WorkInv
  <1>14. QED BY <1>5, <1>7, <1>9, <1>10, <1>11, <1>12, <1>13 DEF ViewInv

\* A crash loses the pass that was under way.
LEMMA CrashView ==
  ASSUME ZfsAssumption, BaseInv, ViewInv, Crash
  PROVE  ViewInv'
  <1>1. /\ eng' = Idle
        /\ UNCHANGED <<src, dst, srcSnap, dstSnap, srcTxg, dstTxg, srcBase, dstBase, verified, target>>
        /\ UNCHANGED <<open, events, edits, gen, drifted, window, blind, ahead>>
    BY DEF Crash, store, rows, log, ghosts
  <1>2. eng'.at = "idle" /\ eng'.name = None
    BY <1>1, IdleIs
  <1>3. SnapInv' /\ GhostTypes' /\ Reached' /\ WorkInv'
    BY <1>1, <1>2 DEF ViewInv, SnapInv, GhostTypes, Reached, WorkInv
  <1>4. (\A c : Current(srcSnap, c)' <=> Current(srcSnap, c))
        /\ \A e \in Dst : \A c : Current(dstSnap[e], c)' <=> Current(dstSnap[e], c)
    BY <1>1 DEF Current
  <1>5. NameInv'
    <2>1. \A e \in Dst : \A c : Current(dstSnap[e], c)' => c <= verified[e]
      BY <1>4 DEF ViewInv, NameInv
    <2>2. QED BY <1>1, <1>2, <1>4, <2>1 DEF ViewInv, NameInv
  <1>6. \A k : EditsAfter(k)' = EditsAfter(k)
    BY <1>1 DEF EditsAfter
  <1>7. LogInv' /\ GreenIsCurrent'
    BY <1>1, <1>2, <1>4, <1>6 DEF ViewInv, LogInv, GreenIsCurrent
  <1>8. QED BY <1>3, <1>5, <1>7 DEF ViewInv

\* A database that is lost takes what was green with it: none of the snapshots is its own.
LEMMA ResetView ==
  ASSUME ZfsAssumption, BaseInv, ViewInv, Reset
  PROVE  ViewInv'
  <1>1. /\ eng.at = "idle" /\ gen' = gen + 1 /\ open' = 1
        /\ events' = [c \in Cycle |-> {}] /\ edits' = [c \in Cycle |-> {}]
        /\ verified' = [d \in Dst |-> None] /\ target' = [d \in Dst |-> None]
        /\ srcBase' = [d \in Dst |-> None] /\ dstBase' = [d \in Dst |-> None]
        /\ blind' = [d \in Dst |-> [base |-> {}, next |-> {}]] /\ ahead' = [d \in Dst |-> {}]
        /\ UNCHANGED <<src, dst, srcSnap, dstSnap, srcTxg, dstTxg, eng, drifted, window>>
    BY DEF Reset, store
  <1>2. gen \in Nat /\ 1 \in Cycle /\ Remote \subseteq Dst
    BY ZfsAssumption DEF ViewInv, NameInv, Cycle
  <1>3. SnapInv' /\ Reached' /\ WorkInv' /\ GreenIsCurrent'
    BY <1>1 DEF ViewInv, SnapInv, Reached, WorkInv, GreenIsCurrent
  <1>4. GhostTypes'
    BY <1>1 DEF ViewInv, GhostTypes
  <1>5. (\A c : ~Current(srcSnap, c)') /\ \A d \in Dst : \A c : ~Current(dstSnap[d], c)'
    BY <1>1, <1>2 DEF ViewInv, NameInv, Current
  <1>6. NameInv'
    <2>1. \A c \in DOMAIN srcSnap' : c \in Cycle /\ srcSnap'[c].gen \in Nat /\ srcSnap'[c].gen <= gen'
      BY <1>1, <1>2 DEF ViewInv, NameInv
    <2>2. \A d \in Dst : \A c \in DOMAIN dstSnap'[d] :
            c \in Cycle /\ dstSnap'[d][c].gen \in Nat /\ dstSnap'[d][c].gen <= gen'
      BY <1>1, <1>2 DEF ViewInv, NameInv
    <2>3. gen' \in Nat /\ open' \in Cycle
      BY <1>1, <1>2
    <2>4. \A d \in Dst : verified'[d] < open' /\ target'[d] \in Nat /\ target'[d] < open'
      BY <1>1 DEF None
    <2>5. QED BY <1>1, <1>2, <1>5, <2>1, <2>2, <2>3, <2>4 DEF NameInv
  <1>7. LogInv'
    BY <1>1, <1>5 DEF LogInv
  <1>8. QED BY <1>3, <1>4, <1>6, <1>7 DEF ViewInv

\* Nothing changes.
LEMMA StutterView ==
  ASSUME ViewInv, UNCHANGED vars
  PROVE  ViewInv'
  <1>1. /\ UNCHANGED <<src, dst, srcSnap, dstSnap, srcTxg, dstTxg, srcBase, dstBase, verified, target>>
        /\ UNCHANGED <<open, events, edits, gen, eng, drifted, window, blind, ahead>>
    BY DEF vars, store, rows, log, ghosts
  <1>2. (\A c : Current(srcSnap, c)' <=> Current(srcSnap, c))
        /\ \A e \in Dst : \A c : Current(dstSnap[e], c)' <=> Current(dstSnap[e], c)
    BY <1>1 DEF Current
  <1>3. LogInv' /\ \A k : EditsAfter(k)' = EditsAfter(k)
    BY <1>1, LogSame DEF ViewInv
  <1>4. Rest(eng.d)' = Rest(eng.d)
    BY <1>1 DEF Rest
  <1>5. SnapInv' /\ GhostTypes' /\ Reached' /\ WorkInv' /\ GreenIsCurrent'
    BY <1>1, <1>3, <1>4 DEF ViewInv, SnapInv, GhostTypes, Reached, WorkInv, GreenIsCurrent
  <1>6. NameInv'
    BY <1>1, <1>2 DEF ViewInv, NameInv
  <1>7. QED BY <1>3, <1>5, <1>6 DEF ViewInv

\* The trees are equal at first, and the snapshots are of them.
LEMMA ViewInit ==
  ASSUME ZfsAssumption, Init
  PROVE  ViewInv
  <1>1. /\ Tree(Start) /\ Follows(Start, Start) /\ Before(Start, 1) /\ Before(Start, 2)
    BY StartAssumption, FollowsSelf DEF Before
  <1>2. eng.at = "idle" /\ eng.name = None
    BY IdleIs DEF Init
  <1>3. SnapInv
    <2> DEFINE snaps == Entry(1, [tree |-> Start, txg |-> 0, gen |-> 0])
    <2>1. History(Start, 1, snaps)
      BY <1>1 DEF History, Entry
    <2>2. History(Start, 0, [c \in {} |-> 0])
      BY <1>1 DEF History
    <2>3. History(src, srcTxg, srcSnap)
      BY <2>1 DEF Init
    <2>4. \A d \in Dst : History(dst[d], dstTxg[d], dstSnap[d])
      <3> HIDE DEF snaps
      <3>1. ASSUME NEW d \in Dst
            PROVE  dst[d] = Start /\ \/ dstTxg[d] = 1 /\ dstSnap[d] = snaps
                                     \/ dstTxg[d] = 0 /\ dstSnap[d] = [c \in {} |-> 0]
        BY DEF Init, snaps
      <3>2. QED BY <2>1, <2>2, <3>1
    <2>5. QED BY <2>3, <2>4 DEF SnapInv, Init
  <1>4. NameInv
    <2>1. 1 \in Cycle /\ 2 \in Cycle
      BY ZfsAssumption DEF Cycle
    <2>2. \A c \in DOMAIN srcSnap : c = 1 /\ srcSnap[c].gen = 0
      BY DEF Init, Entry
    <2>3. \A d \in Dst : \A c \in DOMAIN dstSnap[d] : c = 1 /\ dstSnap[d][c].gen = 0
      BY DEF Init, Entry
    <2>4. gen = 0 /\ open = 2 /\ target = [d \in Dst |-> target[d]] /\ \A d \in Dst : verified[d] = 1 /\ target[d] = 1
      BY DEF Init
    <2>5. \A d \in Remote : dstBase[d] = None
      BY ZfsAssumption DEF Init
    <2>6. QED BY <1>2, <2>1, <2>2, <2>3, <2>4, <2>5 DEF NameInv, Current
  <1>5. LogInv
    <2>1. \A c : Current(srcSnap, c) => srcSnap[c].tree = src
      BY DEF Current, Init, Entry
    <2>2. \A c : Current(srcSnap, c) => Differs(srcSnap[c].tree, src) = {}
      BY <2>1 DEF Differs, Same
    <2>3. QED BY <1>2, <2>2 DEF LogInv, Init
  <1>6. GhostTypes
    BY DEF Init, GhostTypes
  <1>7. Reached /\ GreenIsCurrent
    <2>1. \A d \in Dst : srcSnap[srcBase[d]].tree = Start /\ dst[d] = Start /\ src = Start
      BY DEF Init, Entry
    <2>2. Differs(Start, Start) = {}
      BY DEF Differs, Same
    <2>3. QED BY <2>1, <2>2 DEF Reached, GreenIsCurrent
  <1>8. WorkInv
    BY <1>2 DEF WorkInv
  <1>9. QED BY <1>3, <1>4, <1>5, <1>6, <1>7, <1>8 DEF ViewInv

\* Every step keeps what is known of trees, snapshots and green destinations.
LEMMA ViewStep ==
  ASSUME ZfsAssumption, BaseInv, ViewInv, [Next]_vars
  PROVE  ViewInv'
  <1>1. CASE Edit
    BY <1>1, EditView
  <1>2. ASSUME NEW d \in Dst, Drift(d) PROVE ViewInv'
    BY <1>2, DriftView
  <1>3. ASSUME NEW D \in Due, NEW manual \in BOOLEAN, Target(D, manual) PROVE ViewInv'
    BY <1>3, TargetView
  <1>4. ASSUME NEW c \in Cycle, Begin(c) PROVE ViewInv'
    BY <1>4, BeginView
  <1>5. ASSUME NEW d \in Dst, SyncOne(d) PROVE ViewInv'
    BY <1>5, SyncOneView
  <1>6. ASSUME NEW d \in Dst, FailOne(d) PROVE ViewInv'
    BY <1>6, FailOneView
  <1>7. CASE SetSrcBase
    BY <1>7, SetSrcBaseView
  <1>8. CASE SnapDst
    BY <1>8, SnapDstView
  <1>9. CASE SetDstBase
    BY <1>9, SetDstBaseView
  <1>10. CASE Finish
    BY <1>10, FinishView
  <1>11. CASE Crash
    BY <1>11, CrashView
  <1>12. CASE Reset
    BY <1>12, ResetView
  <1>13. CASE UNCHANGED vars
    BY <1>13, StutterView
  <1>14. QED BY <1>1, <1>2, <1>3, <1>4, <1>5, <1>6, <1>7, <1>8, <1>9, <1>10, <1>11, <1>12, <1>13 DEF Next

\* Trees stay trees through edits, drift, renames and passes that fail half way: nothing is
\* left without its directory and no object is in two places; no destination is verified for
\* or given a cycle that is not closed.
THEOREM TypeCorrect ==
  ASSUME ZfsAssumption
  PROVE  Spec => []TypeOK
  <1>1. Init => BaseInv /\ ViewInv
    BY BaseInit, ViewInit
  <1>2. BaseInv /\ ViewInv /\ [Next]_vars => (BaseInv /\ ViewInv)'
    BY BaseStep, ViewStep
  <1>3. BaseInv /\ ViewInv => TypeOK
    BY DEF BaseInv, EngType, ViewInv, SnapInv, History, NameInv, TypeOK
  <1>4. QED BY <1>1, <1>2, <1>3, PTL DEF Spec

\* A green destination differs from the source only by drift no pass has looked at, by what
\* passes by event and failed ones left ahead of the base, and by edits of later cycles:
\* whether it was synchronised by event, by one diff, by two or by a walk, and after crashes
\* and the loss of the database.
THEOREM GreenCurrent ==
  ASSUME ZfsAssumption
  PROVE  Spec => []GreenIsCurrent
  <1>1. Init => BaseInv /\ ViewInv
    BY BaseInit, ViewInit
  <1>2. BaseInv /\ ViewInv /\ [Next]_vars => (BaseInv /\ ViewInv)'
    BY BaseStep, ViewStep
  <1>3. BaseInv /\ ViewInv => GreenIsCurrent
    BY DEF ViewInv
  <1>4. QED BY <1>1, <1>2, <1>3, PTL DEF Spec

----------------------------------------------------------------------------
(* What the diffs of both sides show. *)

\* What the pass has looked at.
SeenInv ==
    eng.at = "base" =>
        /\ eng.how \in {"walk", "diff", "dual"}
        /\ eng.how = "walk" => Path \subseteq eng.seen
        /\ eng.how # "walk" =>
              /\ eng.zfs /\ srcBase[eng.d] \in DOMAIN srcSnap
              /\ Covered(DiffPaths(srcSnap[srcBase[eng.d]].tree, srcSnap[eng.cycle].tree)) \subseteq eng.seen

\* A destination's verified baseline.
Baseline(d) == dstSnap[d][dstBase[d]].tree
\* Where the bases of both sides differ.
Apart(d) == Differs(srcSnap[srcBase[d]].tree, Baseline(d))
\* The bases of a pair differ only by drift: by what a refresh could not see when they are of
\* one cycle, and else, where the destination is as in its baseline, by what drifted since.
Pair(d) ==
    BothBases(d) =>
        /\ srcBase[d] = dstBase[d] => Apart(d) \subseteq blind[d].base
        /\ srcBase[d] # dstBase[d] =>
              \A p \in Apart(d) :
                  Exists(dst[d], p) /\ Unmoved(Baseline(d), dst[d], p) => p \in blind[d].base \cup drifted[d]
\* So it is for every destination.
PairInv == \A d \in Dst : Pair(d)

\* Drift since the comparison is newer than every snapshot, but for what was removed.
WindowInv ==
    eng.at \in {"base", "snap"} =>
        LET w == window[eng.d] IN
        /\ w.dirs \subseteq w.files /\ w.files \subseteq drifted[eng.d] /\ w.files \cap Dir \subseteq w.dirs
        /\ \A p \in w.files \ w.dirs :
              ~Exists(dst[eng.d], p) \/ dst[eng.d][p].born = dstTxg[eng.d]

\* What a new baseline would get wrong.
Wrong(p, d) ==
    \/ p \in window[d].files
    \/ /\ p \notin eng.seen
       /\ \/ p \in blind[d].base
          \/ /\ p \in drifted[d] \cup ahead[d] /\ dstBase[d] \in DOMAIN dstSnap[d]
             /\ Same(dst[d][p], Baseline(d)[p])
\* A baseline a pass takes gets no more wrong than that, and what it does is noted.
RefreshInv ==
    /\ eng.at \in {"base", "snap"} /\ eng.zfs /\ eng.d \notin Remote /\ eng.how # "diff" =>
          \A p \in Differs(srcSnap[eng.cycle].tree, dst[eng.d]) : Wrong(p, eng.d)
    /\ eng.at = "snap" => eng.how # "diff"
    /\ eng.at = "row" /\ eng.name # None =>
          Differs(srcSnap[eng.cycle].tree, dstSnap[eng.d][eng.cycle].tree) \subseteq blind[eng.d].next

\* The diffs of both sides.
DiffInv == SeenInv /\ PairInv /\ WindowInv /\ RefreshInv

\* The trees two diffs start from, and what they are diffed with.
LEMMA BothAre ==
  ASSUME ZfsAssumption, BaseInv, ViewInv, NEW d \in Dst, BothBases(d)
  PROVE  /\ Tree(srcSnap[srcBase[d]].tree) /\ Follows(srcSnap[srcBase[d]].tree, src) /\ Tree(src)
         /\ Tree(Baseline(d)) /\ Before(Baseline(d), dstTxg[d]) /\ Follows(Baseline(d), dst[d])
         /\ Tree(dst[d]) /\ dstTxg[d] \in Nat
  <1>1. srcBase[d] \in DOMAIN srcSnap /\ dstBase[d] \in DOMAIN dstSnap[d]
    BY DEF BothBases
  <1>2. History(src, srcTxg, srcSnap) /\ History(dst[d], dstTxg[d], dstSnap[d])
    BY DEF ViewInv, SnapInv
  <1>3. QED BY <1>1, <1>2 DEF History, Baseline

\* All that a path is in is a directory.
LEMMA UpDirs ==
  ASSUME NEW p \in Path, NEW a \in Up(p), a # p
  PROVE  a \in Dir
  BY UpIs DEF Up

\* A pass makes nothing that is as it was in an older snapshot: what is was there before.
LEMMA UnmovedRenewed ==
  ASSUME NEW base, Tree(base), NEW txg \in Nat, Before(base, txg), NEW t, Tree(t), NEW u, Tree(u),
         Renewed(u, t, txg), NEW p \in Path, Exists(u, p), Unmoved(base, u, p)
  PROVE  u[p] = t[p] /\ Exists(t, p) /\ Unmoved(base, t, p)
  <1>1. ASSUME NEW a \in Up(p)
        PROVE  u[a] = t[a]
    <2>1. a \in Path /\ Exists(u, a)
      BY UpIs, TreeUp
    <2>2. base[a].id = u[a].id
      BY DEF Unmoved
    <2>3. Exists(base, a)
      BY <2>1, <2>2, ThereIs
    <2>4. Time(base[a].id) \in Nat /\ Time(base[a].id) < txg
      BY <2>1, <2>3 DEF Before
    <2>5. Time(u[a].id) # txg
      BY <2>2, <2>4
    <2>6. u[a] = t[a] \/ u[a] = NoNode \/ Time(u[a].id) = txg
      BY <2>1 DEF Renewed
    <2>7. QED BY <2>1, <2>5, <2>6 DEF Exists
  <1>2. p \in Up(p) /\ u[p] = t[p]
    BY <1>1, UpIs
  <1>3. QED BY <1>1, <1>2 DEF Unmoved, Exists

\* Nor does a change, but for the paths it hits.
LEMMA UnmovedChange ==
  ASSUME NEW base, Tree(base), NEW txg \in Nat, Before(base, txg), NEW t, Tree(t), NEW ch, Change(ch, t, txg),
         NEW p \in Path \ ch.hit, Exists(ch.tree, p), Unmoved(base, ch.tree, p)
  PROVE  Exists(t, p) /\ Unmoved(base, t, p)
  <1>1. Tree(ch.tree) /\ \A q \in Path \ ch.hit : ch.tree[q] = t[q]
    BY DEF Change, Stems
  <1>2. ASSUME NEW a \in Up(p)
        PROVE  ch.tree[a] = t[a]
    <2>1. a \in Path /\ Exists(ch.tree, a) /\ p \in Below[a]
      BY <1>1, UpIs, TreeUp, BelowIs
    <2>2. base[a].id = ch.tree[a].id
      BY DEF Unmoved
    <2>3. Exists(base, a)
      BY <1>1, <2>1, <2>2, ThereIs
    <2>4. Time(base[a].id) \in Nat /\ Time(base[a].id) < txg
      BY <2>1, <2>3 DEF Before
    <2>5. Time(ch.tree[a].id) # txg
      BY <2>2, <2>4
    <2>6. a \in ch.hit => Below[a] \subseteq ch.hit \/ Time(ch.tree[a].id) = txg
      BY DEF Change
    <2>7. a \notin ch.hit
      BY <2>1, <2>5, <2>6
    <2>8. QED BY <1>1, <2>1, <2>7
  <1>3. p \in Up(p) /\ ch.tree[p] = t[p]
    BY <1>2, UpIs
  <1>4. QED BY <1>2, <1>3 DEF Unmoved, Exists

\* Both bases stay, the destination does too, and no drift is forgotten.
LEMMA PairSame ==
  ASSUME NEW d, Pair(d), srcBase'[d] = srcBase[d], dstBase'[d] = dstBase[d], dst'[d] = dst[d],
         blind'[d].base = blind[d].base, drifted[d] \subseteq drifted'[d],
         BothBases(d)' => /\ BothBases(d) /\ srcSnap'[srcBase[d]] = srcSnap[srcBase[d]]
                          /\ dstSnap'[d][dstBase[d]] = dstSnap[d][dstBase[d]]
  PROVE  Pair(d)'
  <1>1. SUFFICES ASSUME BothBases(d)' PROVE Pair(d)'
    BY DEF Pair
  <1>2. BothBases(d) /\ Baseline(d)' = Baseline(d) /\ Apart(d)' = Apart(d)
    BY <1>1 DEF Baseline, Apart
  <1>3. QED BY <1>1, <1>2 DEF Pair

\* Nothing that is said of the two diffs changes.
LEMMA DiffSame ==
  ASSUME DiffInv, UNCHANGED <<dst, dstTxg, srcSnap, dstSnap, srcBase, dstBase, eng, drifted, window, blind, ahead>>
  PROVE  DiffInv'
  <1>1. SeenInv'
    BY DEF DiffInv, SeenInv
  <1>2. PairInv'
    <2>1. ASSUME NEW d \in Dst
          PROVE  Pair(d)'
      <3>1. BothBases(d)' => BothBases(d)
        BY DEF BothBases
      <3>2. Pair(d)
        BY DEF DiffInv, PairInv
      <3>3. QED BY <3>1, <3>2, PairSame
    <2>2. QED BY <2>1 DEF PairInv
  <1>3. WindowInv'
    BY DEF DiffInv, WindowInv
  <1>4. RefreshInv'
    BY DEF DiffInv, RefreshInv, Wrong, Baseline
  <1>5. QED BY <1>1, <1>2, <1>3, <1>4 DEF DiffInv

\* An idle engine, and one between two destinations, compares nothing.
LEMMA DiffIdle ==
  ASSUME eng'.at \in {"idle", "next"}, PairInv'
  PROVE  DiffInv'
  BY DEF DiffInv, SeenInv, WindowInv, RefreshInv

\* What drifts is known to have drifted, and what drifts after the comparison is seen by the
\* cross-check or noted.
LEMMA DriftDiff ==
  ASSUME ZfsAssumption, BaseInv, ViewInv, DiffInv, NEW d \in Dst, Drift(d)
  PROVE  DiffInv'
  <1>1. PICK ch \in Changes(dst[d], dstTxg[d]) :
          /\ dst' = [dst EXCEPT ![d] = ch.tree]
          /\ drifted' = [drifted EXCEPT ![d] = drifted[d] \cup ch.hit]
          /\ window' = [window EXCEPT ![d] = IF eng.at \in {"base", "snap"} /\ eng.d = d
                                             THEN [files |-> window[d].files \cup ch.hit, dirs |-> window[d].dirs \cup ch.dirs]
                                             ELSE window[d]]
    BY DEF Drift
  <1>2. UNCHANGED <<dstSnap, srcSnap, dstTxg, srcBase, dstBase, eng, blind, ahead>>
    BY DEF Drift, store, rows
  <1>3. Tree(dst[d]) /\ dstTxg[d] \in Nat
    BY DEF ViewInv, SnapInv, History
  <1>4. Change(ch, dst[d], dstTxg[d])
    BY <1>3, ChangesAre
  <1>5. /\ dst'[d] = ch.tree /\ drifted'[d] = drifted[d] \cup ch.hit
        /\ window'[d] = IF eng.at \in {"base", "snap"} /\ eng.d = d
                        THEN [files |-> window[d].files \cup ch.hit, dirs |-> window[d].dirs \cup ch.dirs] ELSE window[d]
        /\ \A e \in Dst : e # d => dst'[e] = dst[e] /\ drifted'[e] = drifted[e] /\ window'[e] = window[e]
    BY <1>1 DEF ViewInv, SnapInv, GhostTypes
  <1>6. SeenInv'
    BY <1>2 DEF DiffInv, SeenInv
  <1>7. \A e : BothBases(e)' <=> BothBases(e)
    BY <1>2 DEF BothBases
  <1>8. PairInv'
    <2>1. Pair(d)'
      <3>1. SUFFICES ASSUME BothBases(d) PROVE Pair(d)'
        BY <1>7 DEF Pair
      <3>2. Baseline(d)' = Baseline(d) /\ Apart(d)' = Apart(d)
        BY <1>2 DEF Baseline, Apart
      <3>3. Tree(Baseline(d)) /\ Before(Baseline(d), dstTxg[d])
        BY <3>1, BothAre
      <3>4. ASSUME srcBase[d] # dstBase[d], NEW p \in Apart(d), Exists(ch.tree, p), Unmoved(Baseline(d), ch.tree, p)
            PROVE  p \in blind[d].base \cup drifted[d] \cup ch.hit
        <4>1. SUFFICES ASSUME p \notin ch.hit PROVE p \in blind[d].base \cup drifted[d]
          OBVIOUS
        <4>2. p \in Path \ ch.hit
          BY <3>4, <4>1 DEF Apart, Differs
        <4>3. Exists(dst[d], p) /\ Unmoved(Baseline(d), dst[d], p)
          BY <1>3, <1>4, <3>3, <3>4, <4>2, UnmovedChange
        <4>4. QED BY <3>1, <3>4, <4>3 DEF DiffInv, PairInv, Pair
      <3>5. srcBase[d] = dstBase[d] => Apart(d) \subseteq blind[d].base
        BY <3>1 DEF DiffInv, PairInv, Pair
      <3>6. QED BY <1>2, <1>5, <3>2, <3>4, <3>5 DEF Pair
    <2>2. ASSUME NEW e \in Dst, e # d
          PROVE  Pair(e)'
      <3>1. Pair(e)
        BY DEF DiffInv, PairInv
      <3>2. QED BY <1>2, <1>5, <1>7, <2>2, <3>1, PairSame
    <2>3. QED BY <2>1, <2>2 DEF PairInv
  <1>9. CASE eng.at \notin {"base", "snap"}
    <2>1. WindowInv'
      BY <1>2, <1>9 DEF WindowInv
    <2>2. RefreshInv'
      BY <1>2, <1>9 DEF DiffInv, RefreshInv
    <2>3. QED BY <1>6, <1>8, <2>1, <2>2 DEF DiffInv
  <1>10. CASE eng.at \in {"base", "snap"} /\ eng.d # d
    <2>1. eng.d \in Dst
      BY <1>10 DEF BaseInv, EngType
    <2>2. dst'[eng.d] = dst[eng.d] /\ drifted'[eng.d] = drifted[eng.d] /\ window'[eng.d] = window[eng.d]
      BY <1>5, <1>10, <2>1
    <2>3. WindowInv'
      BY <1>2, <2>2 DEF DiffInv, WindowInv
    <2>4. RefreshInv'
      BY <1>2, <2>2 DEF DiffInv, RefreshInv, Wrong, Baseline
    <2>5. QED BY <1>6, <1>8, <2>3, <2>4 DEF DiffInv
  <1>11. CASE eng.at \in {"base", "snap"} /\ eng.d = d
    <2>1. window'[d].files = window[d].files \cup ch.hit /\ window'[d].dirs = window[d].dirs \cup ch.dirs
      BY <1>5, <1>11
    <2>2. /\ window[d].dirs \subseteq window[d].files /\ window[d].files \subseteq drifted[d]
          /\ window[d].files \cap Dir \subseteq window[d].dirs
          /\ \A p \in window[d].files \ window[d].dirs : ~Exists(dst[d], p) \/ dst[d][p].born = dstTxg[d]
      BY <1>11 DEF DiffInv, WindowInv
    <2>3. /\ ch.dirs \subseteq ch.hit /\ ch.hit \cap Dir \subseteq ch.dirs
          /\ \A q \in Path \ ch.hit : ch.tree[q] = dst[d][q]
          /\ \A q \in ch.hit \ ch.dirs : ch.tree[q] = NoNode \/ ch.tree[q].born = dstTxg[d]
      BY <1>4 DEF Change
    <2>4. ASSUME NEW p \in window'[d].files \ window'[d].dirs
          PROVE  ~Exists(ch.tree, p) \/ ch.tree[p].born = dstTxg[d]
      <3>1. p \in ch.hit \ ch.dirs \/ (p \notin ch.hit /\ p \in window[d].files \ window[d].dirs)
        BY <2>1, <2>4
      <3>2. window[d].files \subseteq Path
        BY DEF ViewInv, GhostTypes
      <3>3. QED BY <2>2, <2>3, <3>1, <3>2 DEF Exists
    <2>5. WindowInv'
      <3>1. /\ window'[d].dirs \subseteq window'[d].files /\ window'[d].files \subseteq drifted'[d]
            /\ window'[d].files \cap Dir \subseteq window'[d].dirs
        BY <1>5, <2>1, <2>2, <2>3
      <3>2. QED BY <1>2, <1>5, <1>11, <2>4, <3>1 DEF WindowInv
    <2>6. ASSUME NEW p \in Differs(srcSnap[eng.cycle].tree, ch.tree),
                 eng.zfs /\ eng.d \notin Remote /\ eng.how # "diff"
          PROVE  Wrong(p, d)'
      <3>1. CASE p \in ch.hit
        BY <2>1, <3>1 DEF Wrong
      <3>2. CASE p \notin ch.hit
        <4>1. p \in Path /\ ch.tree[p] = dst[d][p]
          BY <2>3, <3>2 DEF Differs
        <4>2. p \in Differs(srcSnap[eng.cycle].tree, dst[d])
          BY <2>6, <4>1 DEF Differs
        <4>3. Wrong(p, d)
          BY <1>11, <2>6, <4>2 DEF DiffInv, RefreshInv
        <4>4. QED BY <1>2, <1>5, <2>1, <4>1, <4>3 DEF Wrong, Baseline
      <3>3. QED BY <3>1, <3>2
    <2>7. RefreshInv'
      <3>1. \A p : Wrong(p, eng.d)' <=> Wrong(p, d)'
        BY <1>2, <1>11 DEF Wrong, Baseline
      <3>2. eng.at = "snap" => eng.how # "diff"
        BY DEF DiffInv, RefreshInv
      <3>3. QED BY <1>2, <1>5, <1>11, <2>6, <3>1, <3>2 DEF RefreshInv
    <2>8. QED BY <1>6, <1>8, <2>5, <2>7 DEF DiffInv
  <1>12. QED BY <1>9, <1>10, <1>11

\* The snapshots of this database stay when a pass starts.
LEMMA BeginSnap ==
  ASSUME NEW c \in Cycle, Begin(c), NEW k, Current(srcSnap, k)
  PROVE  k \in DOMAIN srcSnap' /\ srcSnap'[k] = srcSnap[k]
  <1> DEFINE new == EnsureSnapshot(srcSnap, c, src, srcTxg, FALSE)
  <1>1. srcSnap' = srcSnap \/ srcSnap' = new
    BY DEF Begin
  <1>2. k \in DOMAIN new /\ new[k] = srcSnap[k]
    BY DEF EnsureSnapshot, Current, Put
  <1>3. QED BY <1>1, <1>2 DEF Current

\* A pass starts: the bases stay.
LEMMA BeginDiff ==
  ASSUME ZfsAssumption, BaseInv, ViewInv, DiffInv, NEW c \in Cycle, Begin(c)
  PROVE  DiffInv'
  <1>1. UNCHANGED <<dst, dstSnap, srcBase, dstBase, drifted, blind, gen>>
    BY DEF Begin, rows, log, ghosts
  <1>2. eng'.at = "next"
    <2> DEFINE D == {d \in Dst : target[d] = c /\ verified[d] < c}
    <2>1. PICK byEvent \in {EventPlan(c, D)}, fails \in BOOLEAN :
            eng' = [Idle EXCEPT !.at = "next", !.cycle = c, !.todo = D, !.zfs = ~byEvent /\ ~fails, !.byEvent = byEvent,
                                !.mixed = \E d \in Remote : target[d] = c]
      BY DEF Begin
    <2> DEFINE z == ~byEvent /\ ~fails
               m == \E d \in Remote : target[d] = c
    <2>2. eng' = [Idle EXCEPT !.at = "next", !.cycle = c, !.todo = D, !.zfs = z, !.byEvent = byEvent, !.mixed = m]
      BY <2>1
    <2> HIDE DEF z, m, D
    <2>3. QED BY <2>2, IdleIs
  <1>3. ASSUME NEW d \in Dst
        PROVE  Pair(d)'
    <2>1. BothBases(d)' => BothBases(d) /\ srcSnap'[srcBase[d]] = srcSnap[srcBase[d]]
      <3>1. SUFFICES ASSUME BothBases(d)' PROVE BothBases(d) /\ srcSnap'[srcBase[d]] = srcSnap[srcBase[d]]
        OBVIOUS
      <3>2. srcBase[d] # None
        BY <1>1, <3>1 DEF BothBases
      <3>3. Current(srcSnap, srcBase[d])
        BY <3>2 DEF BaseInv, BaseKept, Current
      <3>4. srcSnap'[srcBase[d]] = srcSnap[srcBase[d]]
        BY <3>3, BeginSnap
      <3>5. QED BY <1>1, <3>1, <3>3, <3>4 DEF BothBases, Current
    <2>2. Pair(d)
      BY DEF DiffInv, PairInv
    <2>3. QED BY <1>1, <2>1, <2>2, PairSame
  <1>4. QED BY <1>2, <1>3, DiffIdle DEF PairInv

\* The bases of every pair stay, and a pass has written to one destination.
LEMMA PairRenewed ==
  ASSUME ZfsAssumption, BaseInv, ViewInv, PairInv, NEW d \in Dst,
         UNCHANGED <<srcSnap, dstSnap, srcBase, dstBase, drifted, blind>>,
         Tree(dst'[d]), Renewed(dst'[d], dst[d], dstTxg[d]), \A e \in Dst : e # d => dst'[e] = dst[e]
  PROVE  PairInv'
  <1>1. \A e : BothBases(e)' <=> BothBases(e)
    BY DEF BothBases
  <1>2. ASSUME NEW e \in Dst, e # d
        PROVE  Pair(e)'
    <2>1. Pair(e)
      BY DEF PairInv
    <2>2. QED BY <1>1, <1>2, <2>1, PairSame
  <1>3. Pair(d)'
    <2>1. SUFFICES ASSUME BothBases(d) PROVE Pair(d)'
      BY <1>1 DEF Pair
    <2>2. Baseline(d)' = Baseline(d) /\ Apart(d)' = Apart(d)
      BY DEF Baseline, Apart
    <2>3. Tree(Baseline(d)) /\ Before(Baseline(d), dstTxg[d]) /\ Tree(dst[d]) /\ dstTxg[d] \in Nat
      BY <2>1, BothAre
    <2>4. ASSUME NEW p \in Apart(d), Exists(dst'[d], p), Unmoved(Baseline(d), dst'[d], p)
          PROVE  Exists(dst[d], p) /\ Unmoved(Baseline(d), dst[d], p)
      <3>1. p \in Path
        BY <2>4 DEF Apart, Differs
      <3>2. QED BY <2>3, <2>4, <3>1, UnmovedRenewed
    <2>5. Pair(d)
      BY DEF PairInv
    <2>6. QED BY <2>1, <2>2, <2>4, <2>5 DEF Pair
  <1>4. QED BY <1>2, <1>3 DEF PairInv

\* A pass that failed has made nothing that is as in the baseline.
LEMMA FailOneDiff ==
  ASSUME ZfsAssumption, BaseInv, ViewInv, DiffInv, NEW d \in Dst, FailOne(d)
  PROVE  DiffInv'
  <1>1. /\ eng.at = "next" /\ d \in eng.todo /\ eng' = [eng EXCEPT !.todo = eng.todo \ {d}, !.ok = FALSE]
        /\ UNCHANGED <<srcSnap, dstSnap, dstTxg, srcBase, dstBase, drifted, window, blind>>
    BY DEF FailOne, store, rows
  <1>2. PICK w \in Ways(d) : \E P \in SUBSET (Covered(w.diff) \cap Differs(View, dst[d])) :
          dst' = [dst EXCEPT ![d] = Applied(dst[d], View, P, dstTxg[d])]
    BY DEF FailOne
  <1>3. PICK P \in SUBSET (Covered(w.diff) \cap Differs(View, dst[d])) :
          dst' = [dst EXCEPT ![d] = Applied(dst[d], View, P, dstTxg[d])]
    BY <1>2
  <1> DEFINE new == Applied(dst[d], View, P, dstTxg[d])
  <1>4. Tree(dst[d]) /\ dstTxg[d] \in Nat /\ Tree(View)
    BY <1>1, ViewIs DEF ViewInv, SnapInv, History
  <1>5. Renewed(new, dst[d], dstTxg[d]) /\ Tree(new)
    <2>1. P \in SUBSET Path
      BY DEF Differs
    <2>2. Renewed(new, dst[d], dstTxg[d]) /\ Stems(new, dst[d], dstTxg[d])
      BY <1>4, <2>1, AppliedIs
    <2>3. QED BY <2>2 DEF Stems
  <1>6. dst'[d] = new /\ \A e \in Dst : e # d => dst'[e] = dst[e]
    BY <1>3 DEF ViewInv, SnapInv
  <1> HIDE DEF new
  <1>7. PairInv'
    BY <1>1, <1>4, <1>5, <1>6, PairRenewed DEF DiffInv
  <1>8. eng'.at = "next"
    BY <1>1 DEF BaseInv, EngType
  <1>9. QED BY <1>7, <1>8, DiffIdle

\* A walk looks at everything, and the two diffs name all that is not as it was in the
\* bases.
LEMMA SyncOneDiff ==
  ASSUME ZfsAssumption, BaseInv, ViewInv, DiffInv, NEW d \in Dst, SyncOne(d)
  PROVE  DiffInv'
  <1>1. /\ eng.at = "next" /\ d \in eng.todo
        /\ UNCHANGED <<dstSnap, srcSnap, dstTxg, srcBase, dstBase, drifted, blind>>
        /\ window' = [window EXCEPT ![d] = [files |-> {}, dirs |-> {}]]
    BY DEF SyncOne, store
  <1>2. PICK w \in Ways(d), fails \in BOOLEAN :
          LET how == IF fails THEN "walk" ELSE w.how
              diff == IF fails THEN Everything ELSE w.diff
              new == Applied(dst[d], View, Covered(diff), dstTxg[d])
          IN  /\ fails => w.how \in {"diff", "dual"} /\ Within("faults")
              /\ dst' = [dst EXCEPT ![d] = new]
              /\ ahead' = [ahead EXCEPT ![d] = ahead[d] \cup Wrote(dst[d], new)]
              /\ eng' = IF how = "event" THEN [eng EXCEPT !.todo = eng.todo \ {d}]
                        ELSE Compared(d, how, diff, Wrote(dst[d], new))
    BY DEF SyncOne
  <1> DEFINE how == IF fails THEN "walk" ELSE w.how
             diff == IF fails THEN Everything ELSE w.diff
             P == Covered(diff)
             new == Applied(dst[d], View, P, dstTxg[d])
             W == Wrote(dst[d], new)
  <1>3. /\ fails => w.how \in {"diff", "dual"}
        /\ dst' = [dst EXCEPT ![d] = new] /\ ahead' = [ahead EXCEPT ![d] = ahead[d] \cup W]
        /\ eng' = IF how = "event" THEN [eng EXCEPT !.todo = eng.todo \ {d}] ELSE Compared(d, how, diff, W)
    BY <1>2
  <1>4. P = IF fails THEN Path ELSE Covered(w.diff)
    <2>1. Covered(Everything) = Path
      BY BelowIs DEF Covered, Everything
    <2>2. QED BY <2>1
  <1>5. (how = "event" <=> ~fails /\ w.how = "event") /\ (fails => how = "walk") /\ (~fails => how = w.how)
    OBVIOUS
  <1>6. new = Applied(dst[d], View, P, dstTxg[d])
    OBVIOUS
  <1>7. \/ how = "event" /\ eng' = [eng EXCEPT !.todo = eng.todo \ {d}]
        \/ /\ how # "event"
           /\ eng'.at = "base" /\ eng'.d = d /\ eng'.cycle = eng.cycle
           /\ eng'.zfs = eng.zfs /\ eng'.seen = P /\ eng'.how = how
    BY <1>3, ComparedIs DEF BaseInv
  <1> HIDE DEF how, diff, P, new, W
  <1>8. Tree(new) /\ Renewed(new, dst[d], dstTxg[d]) /\ Matches(new, dst[d], View, P)
    <2>1. Stems(new, dst[d], dstTxg[d]) /\ Renewed(new, dst[d], dstTxg[d])
      BY <1>1, <1>3, <1>4, <1>6, LookedAt
    <2>2. Matches(new, dst[d], View, P)
      BY <1>1, <1>3, <1>4, <1>6, LookedAt
    <2>3. QED BY <2>1, <2>2 DEF Stems
  <1>9. how # "event" => Differs(View, new) \subseteq (drifted[d] \cup ahead[d]) \ P
    BY <1>1, <1>3, <1>4, <1>5, <1>6, LookedAt
  <1>10. /\ dst'[d] = new /\ \A e \in Dst : e # d => dst'[e] = dst[e]
         /\ ahead'[d] = ahead[d] \cup W /\ window'[d] = [files |-> {}, dirs |-> {}]
    BY <1>1, <1>3 DEF ViewInv, SnapInv, GhostTypes
  <1>11. PairInv'
    BY <1>1, <1>8, <1>10, PairRenewed DEF DiffInv
  <1>12. CASE how = "event"
    <2>1. eng'.at = "next"
      BY <1>1, <1>7, <1>12 DEF BaseInv, EngType
    <2>2. QED BY <1>11, <2>1, DiffIdle
  <1>13. CASE how # "event"
    <2>1. /\ eng'.at = "base" /\ eng'.d = d /\ eng'.cycle = eng.cycle
          /\ eng'.zfs = eng.zfs /\ eng'.seen = P /\ eng'.how = how
      BY <1>7, <1>13
    <2>2. \/ how = "walk" /\ Path \subseteq P
          \/ /\ how \in {"diff", "dual"} /\ eng.zfs /\ srcBase[d] \in DOMAIN srcSnap
             /\ Covered(DiffPaths(srcSnap[srcBase[d]].tree, View)) \subseteq P
             /\ how = "dual" => BothBases(d) /\ Covered(DiffPaths(dstSnap[d][dstBase[d]].tree, dst[d])) \subseteq P
      <3>1. CASE fails
        BY <1>4, <1>5, <3>1
      <3>2. CASE ~fails
        BY <1>1, <1>4, <1>5, <1>13, <3>2, WaysAre
      <3>3. QED BY <3>1, <3>2
    <2>3. eng.zfs => View = srcSnap[eng.cycle].tree
      BY DEF View
    <2>4. SeenInv'
      BY <1>1, <2>1, <2>2, <2>3 DEF SeenInv
    <2>5. WindowInv'
      BY <1>10, <2>1 DEF WindowInv
    <2>6. ASSUME eng.zfs, how # "diff", NEW p \in Differs(View, new)
          PROVE  Wrong(p, d)'
      <3>1. p \in Path /\ p \notin P /\ new[p] = dst[d][p]
        BY <1>8, <2>6 DEF Matches, Differs
      <3>2. how = "dual" /\ BothBases(d) /\ p \notin Covered(DiffPaths(Baseline(d), dst[d]))
        BY <2>2, <2>6, <3>1 DEF Baseline
      <3>3. Tree(Baseline(d)) /\ Tree(dst[d]) /\ Follows(Baseline(d), dst[d])
        BY <3>2, BothAre
      <3>4. Same(Baseline(d)[p], dst[d][p])
        BY <3>1, <3>2, <3>3, DiffSees
      <3>5. p \in drifted[d] \cup ahead[d]
        BY <1>9, <1>13, <2>6
      <3>6. Baseline(d)' = Baseline(d) /\ dstBase[d] \in DOMAIN dstSnap[d]
        BY <1>1, <3>2 DEF Baseline, BothBases
      <3>7. Same(dst'[d][p], Baseline(d)[p])
        BY <1>10, <3>1, <3>4 DEF Same
      <3>8. QED BY <1>1, <1>10, <2>1, <3>1, <3>5, <3>6, <3>7 DEF Wrong
    <2>7. RefreshInv'
      <3>1. \A p : Wrong(p, eng.d)' <=> Wrong(p, d)'
        BY <2>1 DEF Wrong, Baseline
      <3>2. QED BY <1>1, <1>10, <2>1, <2>3, <2>6, <3>1 DEF RefreshInv
    <2>8. QED BY <1>11, <2>4, <2>5, <2>7 DEF DiffInv
  <1>14. QED BY <1>12, <1>13

\* A base that moves on to the cycle of the pass: what the pass did not look at is in it as in
\* the old one.
LEMMA SetSrcBaseDiff ==
  ASSUME ZfsAssumption, BaseInv, ViewInv, DiffInv, SetSrcBase
  PROVE  DiffInv'
  <1> DEFINE d == eng.d
  <1>1. /\ eng.at = "base" /\ srcBase' = [srcBase EXCEPT ![d] = IF eng.zfs THEN eng.cycle ELSE None]
        /\ ahead' = [ahead EXCEPT ![d] = ahead[d] \ eng.seen]
        /\ drifted' = [drifted EXCEPT ![d] = drifted[d] \ (eng.seen \ window[d].files)]
        /\ \/ eng' = Onward
           \/ eng' = [eng EXCEPT !.at = "row"]
           \/ eng' = [eng EXCEPT !.at = "snap"] /\ eng.zfs /\ d \notin Remote /\ eng.how # "diff"
        /\ UNCHANGED <<dst, dstSnap, srcSnap, dstTxg, dstBase, window, blind>>
    BY DEF SetSrcBase, store, Action
  <1>2. d \in Dst /\ eng.name = None /\ EngType /\ dstBase[d] # eng.cycle
    BY <1>1 DEF BaseInv, EngType, Held, Behind
  <1>3. /\ eng'.cycle = eng.cycle /\ eng'.zfs = eng.zfs /\ eng'.name = None
        /\ \/ eng'.at = "next"
           \/ eng'.at = "row" /\ eng'.d = d
           \/ /\ eng'.at = "snap" /\ eng'.d = d /\ eng.zfs /\ d \notin Remote /\ eng.how # "diff"
              /\ eng'.how = eng.how /\ eng'.seen = eng.seen
    BY <1>1, <1>2, OnwardIs DEF EngType
  <1>4. /\ srcBase'[d] = IF eng.zfs THEN eng.cycle ELSE None
        /\ drifted'[d] = drifted[d] \ (eng.seen \ window[d].files) /\ ahead'[d] = ahead[d] \ eng.seen
        /\ \A e \in Dst : e # d => srcBase'[e] = srcBase[e] /\ drifted'[e] = drifted[e] /\ ahead'[e] = ahead[e]
    <2>1. srcBase = [e \in Dst |-> srcBase[e]]
      BY DEF BaseInv, RowTypes
    <2>2. drifted = [e \in Dst |-> drifted[e]] /\ ahead = [e \in Dst |-> ahead[e]]
      BY DEF ViewInv, GhostTypes
    <2>3. QED BY <1>1, <1>2, <2>1, <2>2
  <1>5. eng.zfs => Differs(srcSnap[eng.cycle].tree, dst[d]) \subseteq Rest(d)
    BY <1>1 DEF ViewInv, WorkInv
  <1>6. /\ eng.how = "walk" => Path \subseteq eng.seen
        /\ eng.how # "walk" =>
              /\ eng.zfs /\ srcBase[d] \in DOMAIN srcSnap
              /\ Covered(DiffPaths(srcSnap[srcBase[d]].tree, srcSnap[eng.cycle].tree)) \subseteq eng.seen
    BY <1>1 DEF DiffInv, SeenInv
  <1>7. eng.d = d
    OBVIOUS
  <1> HIDE DEF d
  <1>8. ASSUME NEW e \in Dst, e # d
        PROVE  Pair(e)'
    <2>1. Pair(e) /\ (BothBases(e)' => BothBases(e))
      BY <1>1, <1>4, <1>8 DEF DiffInv, PairInv, BothBases
    <2>2. srcBase'[e] = srcBase[e] /\ drifted'[e] = drifted[e]
      BY <1>4, <1>8
    <2>3. QED BY <1>1, <2>1, <2>2, PairSame
  <1>9. ASSUME NEW e \in Dst, e = d
        PROVE  Pair(e)'
    <2>1. SUFFICES ASSUME BothBases(e)' PROVE Pair(e)'
      BY DEF Pair
    <2>2. eng.zfs /\ srcBase'[e] = eng.cycle /\ dstBase'[e] = dstBase[e] /\ dstBase[e] # eng.cycle
      BY <1>1, <1>2, <1>4, <1>9, <2>1 DEF BothBases
    <2>3. e \notin Remote /\ dstBase[e] # None /\ dstBase[e] \in DOMAIN dstSnap[e] /\ eng.cycle \in DOMAIN srcSnap
      BY <1>1, <2>1, <2>2 DEF BothBases
    <2> DEFINE now == srcSnap[eng.cycle].tree
               old == srcSnap[srcBase[e]].tree
    <2>4. History(src, srcTxg, srcSnap) /\ History(dst[e], dstTxg[e], dstSnap[e])
      BY DEF ViewInv, SnapInv
    <2>5. Tree(now) /\ Tree(dst[e]) /\ Tree(Baseline(e)) /\ Follows(Baseline(e), dst[e])
      BY <2>3, <2>4 DEF History, Baseline
    <2>6. Baseline(e)' = Baseline(e) /\ Apart(e)' = Differs(now, Baseline(e))
      BY <1>1, <2>2 DEF Baseline, Apart
    <2>7. ASSUME NEW p \in Differs(now, Baseline(e)), Exists(dst[e], p), Unmoved(Baseline(e), dst[e], p)
          PROVE  p \in blind[e].base \cup drifted'[e]
      <3>1. p \in Path /\ ~Same(now[p], Baseline(e)[p])
        BY <2>7 DEF Differs
      <3>2. Baseline(e)[p].id = dst[e][p].id /\ Baseline(e)[p].born = dst[e][p].born
        BY <2>7, <3>1, UpIs DEF Unmoved
      <3>3. Exists(Baseline(e), p)
        BY <2>5, <2>7, <3>1, <3>2, ThereIs
      <3>4. Same(Baseline(e)[p], dst[e][p])
        BY <3>1, <3>2, <3>3, <2>5 DEF Follows, Same
      <3>5. p \in Differs(now, dst[e])
        BY <3>1, <3>4 DEF Differs, Same
      <3>6. p \in Rest(e)
        BY <1>5, <1>9, <2>2, <3>5
      <3>7. CASE p \in drifted[e] \ (eng.seen \ window[e].files)
        BY <1>4, <1>9, <3>7
      <3>8. CASE p \in ahead[e] \ eng.seen
        <4>1. srcBase[e] \in DOMAIN srcSnap /\ p \notin Covered(DiffPaths(old, now))
          BY <1>6, <1>9, <3>1, <3>8
        <4>2. Tree(old) /\ Follows(old, now)
          BY <2>3, <2>4, <4>1 DEF History
        <4>3. Same(old[p], now[p])
          BY <2>5, <3>1, <4>1, <4>2, DiffSees
        <4>4. p \in Apart(e)
          BY <3>1, <4>3 DEF Apart, Differs, Same
        <4>5. srcBase[e] # None
          BY <4>1, ZfsAssumption DEF ViewInv, NameInv, Cycle, None
        <4>6. BothBases(e)
          BY <2>3, <4>1, <4>5 DEF BothBases
        <4>7. p \in blind[e].base \cup drifted[e]
          BY <2>7, <4>4, <4>6 DEF DiffInv, PairInv, Pair
        <4>8. QED BY <1>4, <1>9, <3>8, <4>7
      <3>9. QED BY <3>6, <3>7, <3>8 DEF Rest
    <2> HIDE DEF now, old
    <2>8. QED BY <1>1, <2>2, <2>6, <2>7 DEF Pair
  <1>10. PairInv'
    BY <1>8, <1>9 DEF PairInv
  <1>11. SeenInv'
    BY <1>3 DEF SeenInv
  <1>12. CASE eng'.at # "snap"
    BY <1>3, <1>10, <1>11, <1>12 DEF DiffInv, WindowInv, RefreshInv
  <1>13. CASE eng'.at = "snap"
    <2>1. eng'.d = d /\ eng.zfs /\ d \notin Remote /\ eng.how # "diff" /\ eng'.how = eng.how /\ eng'.seen = eng.seen
      BY <1>3, <1>13
    <2>2. /\ window[d].dirs \subseteq window[d].files /\ window[d].files \subseteq drifted[d]
          /\ window[d].files \cap Dir \subseteq window[d].dirs
          /\ \A p \in window[d].files \ window[d].dirs : ~Exists(dst[d], p) \/ dst[d][p].born = dstTxg[d]
      BY <1>1, <1>7 DEF DiffInv, WindowInv
    <2>3. window[d].files \subseteq drifted'[d]
      BY <1>4, <2>2
    <2>4. WindowInv'
      BY <1>1, <2>1, <2>2, <2>3 DEF WindowInv
    <2>5. ASSUME NEW p \in Differs(srcSnap[eng.cycle].tree, dst[d])
          PROVE  Wrong(p, eng.d)'
      <3>1. Wrong(p, d)
        BY <1>1, <1>7, <2>1, <2>5 DEF DiffInv, RefreshInv
      <3>2. Baseline(eng.d)' = Baseline(d)
        BY <1>1, <2>1 DEF Baseline
      <3>3. p \notin eng.seen /\ p \in drifted[d] \cup ahead[d] => p \in drifted'[d] \cup ahead'[d]
        BY <1>4
      <3>4. QED BY <1>1, <2>1, <3>1, <3>2, <3>3 DEF Wrong
    <2>6. RefreshInv'
      BY <1>1, <1>3, <1>13, <2>1, <2>5 DEF RefreshInv
    <2>7. QED BY <1>10, <1>11, <2>4, <2>6 DEF DiffInv
  <1>14. QED BY <1>12, <1>13

\* What a new baseline gets wrong is noted with it: the cross-check refuses the rest.
LEMMA RefreshSees ==
  ASSUME ZfsAssumption, BaseInv, ViewInv, DiffInv, eng.at = "snap", NEW d, d = eng.d, NEW t, t = dst[d],
         NEW diffed \in BOOLEAN, diffed => ~Contaminated(d, t)
  PROVE  Differs(srcSnap[eng.cycle].tree, t) \subseteq (blind[d].base \ eng.seen) \cup Unseen(d, diffed, t)
  <1> DEFINE base == dstSnap[d][dstBase[d]].tree
             based == dstBase[d] \in DOMAIN dstSnap[d]
             renewed == UNION {Below[p] : p \in Renamed(base, t) \cap Dir}
  <1>1. d \in Dst /\ eng.zfs /\ d \notin Remote /\ eng.how # "diff"
    BY DEF BaseInv, EngType, ViewInv, NameInv, DiffInv, RefreshInv
  <1>2. History(t, dstTxg[d], dstSnap[d])
    BY <1>1 DEF ViewInv, SnapInv
  <1>3. Tree(t) /\ dstTxg[d] \in Nat /\ (based => Tree(base) /\ Before(base, dstTxg[d]))
    BY <1>2 DEF History
  <1>4. /\ window[d].dirs \subseteq window[d].files /\ window[d].files \subseteq drifted[d]
        /\ window[d].files \cap Dir \subseteq window[d].dirs
        /\ \A p \in window[d].files \ window[d].dirs : ~Exists(t, p) \/ t[p].born = dstTxg[d]
    BY DEF DiffInv, WindowInv
  <1>5. Unseen(d, diffed, t) =
          (IF eng.known /\ diffed /\ based
           THEN window[d].dirs \cup (window[d].files \cap (eng.touched \cup renewed))
           ELSE window[d].files)
          \cup (IF based THEN {p \in drifted[d] \cup ahead[d] : Same(t[p], base[p])} ELSE {})
    BY DEF Unseen
  <1>6. eng.known /\ diffed /\ based => \A p \in DiffPaths(base, t).rel : p \in Dir \/ p \in eng.touched
    BY DEF Contaminated
  <1> SUFFICES ASSUME NEW p \in Differs(srcSnap[eng.cycle].tree, t)
               PROVE  p \in (blind[d].base \ eng.seen) \cup Unseen(d, diffed, t)
    OBVIOUS
  <1>7. Wrong(p, d) /\ p \in Path
    BY <1>1 DEF DiffInv, RefreshInv, Differs
  <1>8. CASE p \in window[d].files /\ eng.known /\ diffed /\ based /\ p \notin window[d].dirs
    <2>1. p \notin Dir
      BY <1>4, <1>8
    <2>2. CASE p \in DiffPaths(base, t).rel
      BY <1>5, <1>6, <1>8, <2>1, <2>2
    <2>3. ASSUME NEW a \in Up(p), a \in Renamed(base, t), p \notin DiffPaths(base, t).rel
          PROVE  p \in renewed
      <3>1. a # p
        BY <2>3, DiffPathsAre
      <3>2. a \in Dir
        BY <1>7, <3>1, UpDirs
      <3>3. p \in Below[a]
        BY <1>7, BelowIs, UpIs
      <3>4. QED BY <2>3, <3>2, <3>3
    <2>4. CASE p \notin DiffPaths(base, t).rel /\ \A a \in Up(p) : a \notin Renamed(base, t)
      <3>1. Tree(base) /\ Before(base, dstTxg[d])
        BY <1>3, <1>8
      <3> HIDE DEF base
      <3>2. base[p].born = t[p].born /\ (Exists(base, p) <=> Exists(t, p))
        BY <1>3, <1>7, <2>4, <3>1, SameObject
      <3>3. ~Exists(t, p)
        <4>1. SUFFICES ASSUME Exists(t, p) PROVE FALSE
          OBVIOUS
        <4>2. t[p].born = dstTxg[d]
          BY <1>4, <1>8, <4>1
        <4>3. base[p].born < dstTxg[d]
          BY <1>7, <3>1, <3>2, <4>1 DEF Before
        <4>4. QED BY <1>3, <3>2, <4>2, <4>3
      <3>4. Same(t[p], base[p])
        BY <3>2, <3>3 DEF Exists, Same
      <3>5. QED BY <1>4, <1>5, <1>8, <3>4
    <2> HIDE DEF base, renewed
    <2>5. QED BY <1>5, <1>8, <2>2, <2>3, <2>4
  <1>9. CASE p \in window[d].files /\ ~(eng.known /\ diffed /\ based /\ p \notin window[d].dirs)
    BY <1>5, <1>9
  <1>10. CASE p \notin window[d].files
    BY <1>5, <1>7, <1>10 DEF Wrong, Baseline
  <1>11. QED BY <1>8, <1>9, <1>10

\* A baseline is taken, refused or given up; the one in the row stays as it is.
LEMMA SnapDstDiff ==
  ASSUME ZfsAssumption, BaseInv, ViewInv, DiffInv, SnapDst
  PROVE  DiffInv'
  <1> DEFINE d == eng.d
             Noted(diffed, t) == (blind[d].base \ eng.seen) \cup Unseen(d, diffed, t)
  <1>1. /\ eng.at = "snap"
        /\ UNCHANGED <<dst, srcSnap, srcBase, dstBase, drifted, window, ahead>>
    BY DEF SnapDst, rows
  <1>2. /\ d \in Dst /\ eng.name = None /\ EngType /\ verified[d] = eng.cycle /\ dstBase[d] # eng.cycle
        /\ eng.cycle # None
    BY <1>1 DEF BaseInv, EngType, Held, Behind, AtWork, Cycle, None
  <1>3. PICK old \in BOOLEAN, diffed \in BOOLEAN :
          LET snaps == EnsureSnapshot(dstSnap[d], eng.cycle, dst[d], dstTxg[d], old)
          IN  \/ eng' = [eng EXCEPT !.at = "row"] /\ dstSnap' = dstSnap /\ blind' = blind
              \/ /\ eng' = Onward /\ blind' = blind
                 /\ dstSnap' = [dstSnap EXCEPT ![d] = Restrict(snaps, DOMAIN snaps \ {eng.cycle})]
              \/ /\ eng' = [eng EXCEPT !.at = "row", !.name = eng.cycle]
                 /\ diffed => ~Contaminated(d, snaps[eng.cycle].tree)
                 /\ blind' = [blind EXCEPT ![d].next = Noted(diffed, snaps[eng.cycle].tree)]
                 /\ dstSnap' = [dstSnap EXCEPT ![d] = snaps]
    <2>1. PICK old \in BOOLEAN, fails \in {"", "snapshot", "diff"} :
            LET snaps == EnsureSnapshot(dstSnap[d], eng.cycle, dst[d], dstTxg[d], old)
            IN  \/ eng' = [eng EXCEPT !.at = "row"] /\ dstSnap' = dstSnap /\ blind' = blind
                \/ /\ eng' = Onward /\ blind' = blind
                   /\ dstSnap' = [dstSnap EXCEPT ![d] = Restrict(snaps, DOMAIN snaps \ {eng.cycle})]
                \/ /\ eng' = [eng EXCEPT !.at = "row", !.name = eng.cycle]
                   /\ (fails # "diff") => ~Contaminated(d, snaps[eng.cycle].tree)
                   /\ blind' = [blind EXCEPT ![d].next = Noted(fails # "diff", snaps[eng.cycle].tree)]
                   /\ dstSnap' = [dstSnap EXCEPT ![d] = snaps]
      BY Zenon DEF SnapDst
    <2>2. (fails # "diff") \in BOOLEAN
      OBVIOUS
    <2>3. QED BY Zenon, <2>1, <2>2
  <1> DEFINE snaps == EnsureSnapshot(dstSnap[d], eng.cycle, dst[d], dstTxg[d], old)
             less == Restrict(snaps, DOMAIN snaps \ {eng.cycle})
  <1>4. \/ eng' = [eng EXCEPT !.at = "row"] /\ dstSnap' = dstSnap /\ blind' = blind
        \/ eng' = Onward /\ blind' = blind /\ dstSnap' = [dstSnap EXCEPT ![d] = less]
        \/ /\ eng' = [eng EXCEPT !.at = "row", !.name = eng.cycle]
           /\ diffed => ~Contaminated(d, snaps[eng.cycle].tree)
           /\ blind' = [blind EXCEPT ![d].next = Noted(diffed, snaps[eng.cycle].tree)]
           /\ dstSnap' = [dstSnap EXCEPT ![d] = snaps]
    BY <1>3
  <1>5. snaps = EnsureSnapshot(dstSnap[d], eng.cycle, dst[d], dstTxg[d], old)
    OBVIOUS
  <1>6. /\ \A k \in DOMAIN dstSnap[d] : k # eng.cycle => k \in DOMAIN snaps /\ snaps[k] = dstSnap[d][k]
        /\ \A k \in DOMAIN snaps : k \in DOMAIN dstSnap[d] \/ k = eng.cycle
        /\ snaps[eng.cycle].tree = dst[d]
    <2>1. History(dst[d], dstTxg[d], dstSnap[d])
      BY <1>2 DEF ViewInv, SnapInv
    <2>2. ~Current(dstSnap[d], eng.cycle)
      BY <1>1, <1>2 DEF ViewInv, NameInv
    <2> HIDE DEF snaps, d
    <2>3. \A k \in DOMAIN dstSnap[d] : k # eng.cycle => k \in DOMAIN snaps /\ snaps[k] = dstSnap[d][k]
      BY <1>5, <2>1, EnsureKeeps
    <2>4. \A k \in DOMAIN snaps : k \in DOMAIN dstSnap[d] \/ k = eng.cycle
      BY <1>5, <2>1, EnsureKeeps
    <2>5. snaps[eng.cycle].tree = dst[d]
      BY <1>5, <2>1, <2>2, EnsureKeeps
    <2>6. QED BY <2>3, <2>4, <2>5
  <1> HIDE DEF snaps
  <1>7. /\ DOMAIN less \subseteq DOMAIN snaps /\ \A k \in DOMAIN less : less[k] = snaps[k]
        /\ \A k \in DOMAIN snaps : k # eng.cycle => k \in DOMAIN less
    BY DEF Restrict
  <1> HIDE DEF less
  <1>8. /\ dstSnap = [e \in Dst |-> dstSnap[e]] /\ blind = [e \in Dst |-> blind[e]]
        /\ DOMAIN blind[d] = {"base", "next"}
    BY <1>2 DEF BaseInv, RowTypes, ViewInv, GhostTypes
  <1>9. /\ eng'.cycle = eng.cycle
        /\ \/ eng'.at = "next"
           \/ eng'.at = "row" /\ eng'.d = d
    BY <1>2, <1>4, OnwardIs DEF EngType
  <1>10. \A e \in Dst : e # d => dstSnap'[e] = dstSnap[e] /\ blind'[e] = blind[e]
    <2> HIDE DEF Noted, d
    <2>1. QED BY <1>4, <1>8
  <1>11. blind'[d].base = blind[d].base /\ (dstSnap'[d] = dstSnap[d] \/ dstSnap'[d] = less \/ dstSnap'[d] = snaps)
    <2>1. d \in Dst
      BY <1>2
    <2> HIDE DEF Noted, d
    <2>2. QED BY <1>4, <1>8, <2>1
  <1>12. PairInv'
    <2>1. ASSUME NEW e \in Dst, e # d
          PROVE  Pair(e)'
      <3>1. Pair(e)
        BY DEF DiffInv, PairInv
      <3>2. dstSnap'[e] = dstSnap[e] /\ blind'[e].base = blind[e].base
        BY <1>10, <2>1
      <3>3. BothBases(e)' => BothBases(e)
        BY <1>1, <3>2 DEF BothBases
      <3>4. QED BY <1>1, <3>1, <3>2, <3>3, PairSame
    <2>2. ASSUME NEW e \in Dst, e = d
          PROVE  Pair(e)'
      <3>1. Pair(e)
        BY DEF DiffInv, PairInv
      <3>2. /\ blind'[e].base = blind[e].base
            /\ dstBase[e] \in DOMAIN dstSnap'[e] =>
                 dstBase[e] \in DOMAIN dstSnap[e] /\ dstSnap'[e][dstBase[e]] = dstSnap[e][dstBase[e]]
        <4> HIDE DEF d
        <4>1. QED BY <1>2, <1>6, <1>7, <1>11, <2>2
      <3>3. BothBases(e)' => BothBases(e) /\ dstSnap'[e][dstBase[e]] = dstSnap[e][dstBase[e]]
        BY <1>1, <3>2 DEF BothBases
      <3>4. QED BY <1>1, <3>1, <3>2, <3>3, PairSame
    <2>3. QED BY <2>1, <2>2 DEF PairInv
  <1>13. CASE eng'.at = "next"
    BY <1>12, <1>13, DiffIdle
  <1>14. CASE eng'.at = "row" /\ eng'.d = d
    <2>1. SeenInv' /\ WindowInv'
      BY <1>14 DEF SeenInv, WindowInv
    <2>2. ASSUME eng'.name # None
          PROVE  Differs(srcSnap[eng.cycle].tree, dstSnap'[d][eng.cycle].tree) \subseteq blind'[d].next
      <3>1. /\ diffed => ~Contaminated(d, snaps[eng.cycle].tree)
            /\ blind' = [blind EXCEPT ![d].next = Noted(diffed, snaps[eng.cycle].tree)]
            /\ dstSnap' = [dstSnap EXCEPT ![d] = snaps]
        <4> HIDE DEF Noted
        <4>1. eng' # Onward
          BY <1>2, <1>14, OnwardIs
        <4>2. eng' # [eng EXCEPT !.at = "row"]
          BY <1>2, <2>2 DEF EngType
        <4>3. QED BY <1>4, <4>1, <4>2
      <3>2. blind'[d].next = Noted(diffed, dst[d]) /\ dstSnap'[d][eng.cycle].tree = dst[d]
        <4>1. d \in Dst
          BY <1>2
        <4> HIDE DEF Noted, d
        <4>2. QED BY <1>6, <1>8, <3>1, <4>1
      <3>3. diffed => ~Contaminated(d, dst[d])
        BY <1>6, <3>1
      <3>4. Differs(srcSnap[eng.cycle].tree, dst[d]) \subseteq Noted(diffed, dst[d])
        <4>1. d = eng.d
          OBVIOUS
        <4> HIDE DEF d
        <4>2. QED BY <1>1, <3>3, <4>1, RefreshSees
      <3>5. QED BY <3>2, <3>4
    <2>3. RefreshInv'
      <3> HIDE DEF d, Noted
      <3>1. QED BY <1>1, <1>9, <1>14, <2>2 DEF RefreshInv
    <2>4. QED BY <1>12, <2>1, <2>3 DEF DiffInv
  <1>15. QED BY <1>9, <1>13, <1>14

\* A new baseline in the row is of the cycle the source's base is of; without one there is
\* nothing to diff.
LEMMA SetDstBaseDiff ==
  ASSUME ZfsAssumption, BaseInv, ViewInv, DiffInv, SetDstBase
  PROVE  DiffInv'
  <1>1. PICK d \in Dst : d = eng.d
    BY DEF SetDstBase, BaseInv, EngType
  <1> DEFINE kept == IF eng.name = None /\ dstBase[d] = None THEN dstSnap[d]
                     ELSE Restrict(dstSnap[d], DOMAIN dstSnap[d] \cap {eng.name})
  <1>2. /\ eng.at = "row" /\ dstBase' = [dstBase EXCEPT ![d] = eng.name] /\ eng' = Onward
        /\ dstSnap' = [dstSnap EXCEPT ![d] = kept]
        /\ blind' = [blind EXCEPT ![d].base = IF eng.name = None THEN {} ELSE blind[d].next]
        /\ UNCHANGED <<dst, srcSnap, srcBase, drifted>>
    BY <1>1 DEF SetDstBase
  <1>3. EngType /\ (eng.name # None => eng.name = eng.cycle /\ srcBase[d] = eng.cycle)
    BY <1>1, <1>2 DEF BaseInv, Held, ViewInv, NameInv
  <1>4. eng'.at = "next"
    BY <1>2, <1>3, OnwardIs
  <1>5. DOMAIN kept \subseteq DOMAIN dstSnap[d] /\ \A k \in DOMAIN kept : kept[k] = dstSnap[d][k]
    BY DEF Restrict
  <1> HIDE DEF kept
  <1>6. /\ dstSnap = [e \in Dst |-> dstSnap[e]] /\ dstBase = [e \in Dst |-> dstBase[e]]
        /\ blind = [e \in Dst |-> blind[e]] /\ DOMAIN blind[d] = {"base", "next"}
    BY DEF BaseInv, RowTypes, ViewInv, GhostTypes
  <1>7. /\ dstSnap'[d] = kept /\ dstBase'[d] = eng.name
        /\ blind'[d].base = IF eng.name = None THEN {} ELSE blind[d].next
        /\ \A e \in Dst : e # d => dstSnap'[e] = dstSnap[e] /\ dstBase'[e] = dstBase[e] /\ blind'[e] = blind[e]
    BY <1>2, <1>6
  <1>8. Pair(d)'
    <2>1. SUFFICES ASSUME BothBases(d)' PROVE Pair(d)'
      BY DEF Pair
    <2>2. eng.name # None /\ eng.name \in DOMAIN kept
      BY <1>7, <2>1 DEF BothBases
    <2>3. srcBase'[d] = eng.cycle /\ dstBase'[d] = eng.cycle /\ dstSnap'[d][eng.cycle] = dstSnap[d][eng.cycle]
      BY <1>2, <1>3, <1>5, <1>7, <2>2
    <2>4. Differs(srcSnap[eng.cycle].tree, dstSnap[d][eng.cycle].tree) \subseteq blind[d].next
      BY <1>1, <1>2, <2>2 DEF DiffInv, RefreshInv
    <2>5. Apart(d)' = Differs(srcSnap[eng.cycle].tree, dstSnap[d][eng.cycle].tree)
      BY <1>2, <2>3 DEF Apart, Baseline
    <2>6. QED BY <1>7, <2>2, <2>3, <2>4, <2>5 DEF Pair
  <1>9. ASSUME NEW e \in Dst, e # d
        PROVE  Pair(e)'
    <2>1. Pair(e)
      BY DEF DiffInv, PairInv
    <2>2. BothBases(e)' => BothBases(e)
      BY <1>2, <1>7, <1>9 DEF BothBases
    <2>3. QED BY <1>2, <1>7, <1>9, <2>1, <2>2, PairSame
  <1>10. PairInv'
    BY <1>8, <1>9 DEF PairInv
  <1>11. QED BY <1>4, <1>10, DiffIdle

\* cleanup_zfs_snapshots takes away no base.
LEMMA FinishDiff ==
  ASSUME ZfsAssumption, BaseInv, ViewInv, DiffInv, Finish
  PROVE  DiffInv'
  <1> DEFINE kept == Cleanup(srcSnap, eng.cycle)
  <1>1. /\ eng' = Idle /\ srcSnap' = IF eng.zfs /\ eng.ok THEN kept ELSE srcSnap
        /\ UNCHANGED <<dst, dstSnap, srcBase, dstBase, drifted, blind>>
    BY DEF Finish, rows, ghosts
  <1>2. DOMAIN kept \subseteq DOMAIN srcSnap \cup {eng.cycle} /\ \A c \in DOMAIN kept : kept[c] = srcSnap[c]
    BY DEF Cleanup, Restrict, Recent
  <1> HIDE DEF kept
  <1>3. ASSUME NEW d \in Dst
        PROVE  Pair(d)'
    <2>1. Pair(d)
      BY DEF DiffInv, PairInv
    <2>2. srcBase[d] # None => srcBase[d] \in DOMAIN srcSnap
      BY DEF BaseInv, BaseKept
    <2>3. BothBases(d)' => BothBases(d) /\ srcSnap'[srcBase[d]] = srcSnap[srcBase[d]]
      BY <1>1, <1>2, <2>2 DEF BothBases
    <2>4. QED BY <1>1, <2>1, <2>3, PairSame
  <1>4. QED BY <1>1, <1>3, IdleIs, DiffIdle DEF PairInv

\* A crash forgets the pass, not the bases.
LEMMA CrashDiff ==
  ASSUME ZfsAssumption, BaseInv, ViewInv, DiffInv, Crash
  PROVE  DiffInv'
  <1>1. /\ eng' = Idle
        /\ UNCHANGED <<dst, srcSnap, dstSnap, srcBase, dstBase, drifted, blind>>
    BY DEF Crash, store, rows, ghosts
  <1>2. ASSUME NEW d \in Dst
        PROVE  Pair(d)'
    <2>1. Pair(d)
      BY DEF DiffInv, PairInv
    <2>2. BothBases(d)' => BothBases(d)
      BY <1>1 DEF BothBases
    <2>3. QED BY <1>1, <2>1, <2>2, PairSame
  <1>3. QED BY <1>1, <1>2, IdleIs, DiffIdle DEF PairInv

\* The database takes the rows with it.
LEMMA ResetDiff ==
  ASSUME DiffInv, Reset
  PROVE  DiffInv'
  <1>1. eng' = eng /\ eng.at = "idle" /\ srcBase' = [d \in Dst |-> None]
    BY DEF Reset
  <1>2. \A d \in Dst : Pair(d)'
    BY <1>1 DEF Pair, BothBases
  <1>3. QED BY <1>1, <1>2, DiffIdle DEF PairInv

\* Edits and requests are no part of it.
LEMMA ElseDiff ==
  ASSUME DiffInv, Edit \/ (\E D \in Due, manual \in BOOLEAN : Target(D, manual)) \/ UNCHANGED vars
  PROVE  DiffInv'
  <1>1. UNCHANGED <<dst, dstTxg, srcSnap, dstSnap, srcBase, dstBase, eng, drifted, window, blind, ahead>>
    BY DEF Edit, Target, vars, store, rows, ghosts
  <1>2. QED BY <1>1, DiffSame

\* At first both bases are the same tree.
LEMMA DiffInit ==
  ASSUME ZfsAssumption, Init
  PROVE  DiffInv
  <1>1. eng.at = "idle"
    BY IdleIs DEF Init
  <1>2. ASSUME NEW d \in Dst
        PROVE  Pair(d)
    <2>1. SUFFICES ASSUME BothBases(d) PROVE Pair(d)
      BY DEF Pair
    <2>2. d \notin Remote /\ srcBase[d] = 1 /\ dstBase[d] = 1
      BY <2>1 DEF Init, BothBases
    <2>3. srcSnap[1].tree = Start /\ dstSnap[d][1].tree = Start
      BY <2>2 DEF Init, Entry
    <2>4. Apart(d) = {}
      BY <2>2, <2>3 DEF Apart, Baseline, Differs, Same
    <2>5. QED BY <2>2, <2>4 DEF Pair
  <1>3. QED BY <1>1, <1>2 DEF DiffInv, SeenInv, PairInv, WindowInv, RefreshInv

\* Every step keeps what is known of the two diffs.
LEMMA DiffStep ==
  ASSUME ZfsAssumption, BaseInv, ViewInv, DiffInv, [Next]_vars
  PROVE  DiffInv'
  <1>1. CASE Edit
    BY <1>1, ElseDiff
  <1>2. ASSUME NEW d \in Dst, Drift(d) PROVE DiffInv'
    BY <1>2, DriftDiff
  <1>3. ASSUME NEW D \in Due, NEW manual \in BOOLEAN, Target(D, manual) PROVE DiffInv'
    BY <1>3, ElseDiff
  <1>4. ASSUME NEW c \in Cycle, Begin(c) PROVE DiffInv'
    BY <1>4, BeginDiff
  <1>5. ASSUME NEW d \in Dst, SyncOne(d) PROVE DiffInv'
    BY <1>5, SyncOneDiff
  <1>6. ASSUME NEW d \in Dst, FailOne(d) PROVE DiffInv'
    BY <1>6, FailOneDiff
  <1>7. CASE SetSrcBase
    BY <1>7, SetSrcBaseDiff
  <1>8. CASE SnapDst
    BY <1>8, SnapDstDiff
  <1>9. CASE SetDstBase
    BY <1>9, SetDstBaseDiff
  <1>10. CASE Finish
    BY <1>10, FinishDiff
  <1>11. CASE Crash
    BY <1>11, CrashDiff
  <1>12. CASE Reset
    BY <1>12, ResetDiff
  <1>13. CASE UNCHANGED vars
    BY <1>13, ElseDiff
  <1>14. QED BY <1>1, <1>2, <1>3, <1>4, <1>5, <1>6, <1>7, <1>8, <1>9, <1>10, <1>11, <1>12, <1>13 DEF Next

\* What neither diff stands for is as in both bases, and there they agree.
LEMMA DiffsSee ==
  ASSUME ZfsAssumption, BaseInv, ViewInv, DiffInv, NEW d \in Dst, BothBases(d)
  PROVE  Differs(src, dst[d]) \subseteq Covered(BothDiffs(d, src)) \cup blind[d].base \cup Restored(d)
  <1> DEFINE s == srcSnap[srcBase[d]].tree
             b == Baseline(d)
             S == DiffPaths(s, src)
             D == DiffPaths(b, dst[d])
  <1>1. /\ Tree(s) /\ Follows(s, src) /\ Tree(src)
        /\ Tree(b) /\ Before(b, dstTxg[d]) /\ Follows(b, dst[d]) /\ Tree(dst[d])
    BY BothAre
  <1>2. Covered(S) \subseteq Covered(BothDiffs(d, src)) /\ Covered(D) \subseteq Covered(BothDiffs(d, src))
    <2>1. /\ BothDiffs(d, src).rel = S.rel \cup D.rel
          /\ BothDiffs(d, src).recursive = S.recursive \cup D.recursive
      BY DEF BothDiffs, Union, Baseline
    <2>2. S.rel \subseteq Path /\ S.recursive \subseteq Path /\ D.rel \subseteq Path /\ D.recursive \subseteq Path
      BY DiffPathsAre
    <2> HIDE DEF S, D
    <2>3. QED BY <2>1, <2>2, CoveredIs
  <1> SUFFICES ASSUME NEW p \in Differs(src, dst[d]), p \notin Covered(BothDiffs(d, src))
               PROVE  p \in blind[d].base \cup Restored(d)
    OBVIOUS
  <1>3. p \in Path /\ ~Same(src[p], dst[d][p]) /\ p \notin Covered(S) /\ p \notin Covered(D)
    BY <1>2 DEF Differs
  <1>4. Same(s[p], src[p]) /\ Same(b[p], dst[d][p]) /\ Unmoved(b, dst[d], p)
    <2> HIDE DEF s, b
    <2>1. Same(s[p], src[p])
      BY <1>1, <1>3, DiffSees
    <2>2. Same(b[p], dst[d][p])
      BY <1>1, <1>3, DiffSees
    <2>3. Unmoved(b, dst[d], p)
      BY <1>1, <1>3, CoveredUnless
    <2>4. QED BY <2>1, <2>2, <2>3
  <1>5. p \in Apart(d) /\ p \in Differs(s, dst[d])
    BY <1>3, <1>4 DEF Apart, Differs, Same
  <1>6. Pair(d)
    BY DEF DiffInv, PairInv
  <1>7. CASE srcBase[d] = dstBase[d]
    BY <1>5, <1>6, <1>7 DEF Pair
  <1>8. CASE srcBase[d] # dstBase[d]
    <2>1. p \in drifted[d] \cup ahead[d]
      BY <1>5 DEF ViewInv, Reached, BothBases
    <2>2. Exists(dst[d], p) => p \in blind[d].base \cup drifted[d]
      BY <1>4, <1>5, <1>6, <1>8 DEF Pair
    <2>3. Same(dst[d][p], b[p])
      BY <1>4 DEF Same
    <2>4. QED BY <1>8, <2>1, <2>2, <2>3 DEF Restored, Baseline
  <1>9. QED BY <1>7, <1>8

\* The diffs of both sides against their bases name every path that differs now, but for drift
\* that a refresh's cross-check cannot see and, while the baseline is retained, drift made
\* again as it is there: whatever passes by event wrote, whatever failed ones left, through
\* crashes and the loss of the database.
THEOREM DiffsComplete ==
  ASSUME ZfsAssumption
  PROVE  Spec => []DiffComplete
  <1>1. Init => BaseInv /\ ViewInv /\ DiffInv
    BY BaseInit, ViewInit, DiffInit
  <1>2. BaseInv /\ ViewInv /\ DiffInv /\ [Next]_vars => (BaseInv /\ ViewInv /\ DiffInv)'
    BY BaseStep, ViewStep, DiffStep
  <1>3. BaseInv /\ ViewInv /\ DiffInv => DiffComplete
    BY DiffsSee DEF DiffComplete
  <1>4. QED BY <1>1, <1>2, <1>3, PTL DEF Spec
=============================================================================
