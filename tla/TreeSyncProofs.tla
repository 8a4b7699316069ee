--------------------------- MODULE TreeSyncProofs ---------------------------
(***************************************************************************)
(* Proofs about TreeSync: its trees stay trees, a verified pass left a     *)
(* correct tree, and what differs between passes is announced by events.   *)
(***************************************************************************)
EXTENDS TreeSync, TLAPS

(* Paths. *)

\* A set of paths that has the directory of each of its members, and that of p.
Closed(P, p) == \A q \in P \cup {p} : Parent[q] \in P \cup {Root}

\* What is above a path is the smallest such set.
LEMMA AboveIs ==
  ASSUME NEW p \in Path
  PROVE  /\ Above(p) \subseteq Path
         /\ Closed(Above(p), p)
         /\ \A P \in SUBSET Path : Closed(P, p) => Above(p) \subseteq P
  <1>1. Above(p) = {a \in Path : \A P \in SUBSET Path : Closed(P, p) => a \in P}
    BY DEF Above, Ancestors, Closed
  <1>2. \A q \in Above(p) \cup {p} : q \in Path
    BY <1>1
  <1>3. ASSUME NEW q \in Above(p) \cup {p}, Parent[q] # Root
        PROVE  Parent[q] \in Above(p)
    <2>1. Parent[q] \in Path
      BY <1>2, <1>3, TreeAssumption
    <2>2. \A P \in SUBSET Path : Closed(P, p) => Parent[q] \in P
      BY <1>1, <1>3 DEF Closed
    <2>3. QED BY <1>1, <2>1, <2>2
  <1>4. QED BY <1>1, <1>3 DEF Closed

\* A path is below the one it is in and what is above that.
LEMMA AboveParent ==
  ASSUME NEW p \in Path
  PROVE  /\ Parent[p] = Root => Above(p) = {}
         /\ Parent[p] # Root => /\ Parent[p] \in Path
                                /\ Above(p) = {Parent[p]} \cup Above(Parent[p])
  <1>1. ASSUME Parent[p] = Root
        PROVE  Above(p) = {}
    <2>1. Closed({}, p)
      BY <1>1 DEF Closed
    <2>2. QED BY <2>1, AboveIs
  <1>2. ASSUME Parent[p] # Root
        PROVE  /\ Parent[p] \in Path
               /\ Above(p) = {Parent[p]} \cup Above(Parent[p])
    <2> DEFINE q == Parent[p]
    <2>1. q \in Path
      BY <1>2, TreeAssumption
    <2>2. Above(q) \subseteq Path /\ Closed(Above(q), q) /\ Closed(Above(p), p) /\ Above(p) \subseteq Path
      BY <2>1, AboveIs
    <2>3. Closed({q} \cup Above(q), p)
      BY <2>2 DEF Closed
    <2>4. {q} \cup Above(q) \in SUBSET Path
      BY <2>1, <2>2
    <2>5. Above(p) \subseteq {q} \cup Above(q)
      BY <2>3, <2>4, AboveIs
    <2>6. q \in Above(p) /\ Closed(Above(p), q)
      BY <2>2, <1>2 DEF Closed
    <2>7. Above(q) \subseteq Above(p)
      BY <2>1, <2>2, <2>6, AboveIs
    <2>8. QED BY <2>1, <2>5, <2>6, <2>7
  <1>3. QED BY <1>1, <1>2

\* What is above what is above p is above p.
LEMMA AboveTrans ==
  ASSUME NEW p \in Path, NEW q \in Above(p)
  PROVE  q \in Path /\ Above(q) \subseteq Above(p)
  <1>1. Above(p) \subseteq Path /\ Closed(Above(p), p)
    BY AboveIs
  <1>2. Closed(Above(p), q)
    BY <1>1 DEF Closed
  <1>3. QED BY <1>1, <1>2, AboveIs

\* No path is above itself.
LEMMA Acyclic ==
  ASSUME NEW p \in Path
  PROVE  p \notin Above(p)
  <1> DEFINE P == {q \in Path : q \notin Above(q)}
  <1>1. ASSUME NEW q \in Path, Parent[q] \in P \cup {Root}
        PROVE  q \in P
    <2>1. CASE Parent[q] = Root
      BY <2>1, AboveParent
    <2>2. CASE Parent[q] # Root
      <3>1. Parent[q] \in Path /\ Parent[q] \notin Above(Parent[q]) /\ Above(q) = {Parent[q]} \cup Above(Parent[q])
        BY <1>1, <2>2, AboveParent
      <3>2. Parent[q] \in Above(q)
        BY <3>1
      <3>3. ASSUME q \in Above(q)
            PROVE  FALSE
        <4>1. CASE q = Parent[q]
          BY <3>1, <3>2, <4>1
        <4>2. CASE q \in Above(Parent[q])
          <5>1. Above(q) \subseteq Above(Parent[q])
            BY <3>1, <4>2, AboveTrans
          <5>2. QED BY <3>1, <3>2, <5>1
        <4>3. QED BY <3>1, <3>3, <4>1, <4>2
      <3>4. QED BY <3>3
    <2>3. QED BY <2>1, <2>2
  <1>2. P \in SUBSET Path
    OBVIOUS
  <1>3. P = Path
    BY <1>1, <1>2, RootedAssumption
  <1>4. QED BY <1>3

\* The subtree of a path: itself, and every path whose directory is in it.
LEMMA SubtreeIs ==
  ASSUME NEW p \in Path
  PROVE  /\ Subtree(p) = {q \in Path : p = q \/ p \in Above(q)}
         /\ p \in Subtree(p) /\ Subtree(p) \subseteq Path
         /\ \A q \in Path : Parent[q] \in Subtree(p) => q \in Subtree(p) /\ q # p
         /\ \A q \in Subtree(p) : q # p => Parent[q] \in Subtree(p) /\ Parent[q] # Root
         /\ Parent[p] \notin Subtree(p)
         /\ \A q \in Subtree(p) : Subtree(q) \subseteq Subtree(p)
  <1>1. Subtree(p) = {q \in Path : p = q \/ p \in Above(q)}
    BY DEF Subtree, Descendants
  <1>2. ASSUME NEW q \in Path, Parent[q] \in Subtree(p)
        PROVE  q \in Subtree(p) /\ q # p
    <2>1. Parent[q] # Root
      BY <1>1, <1>2, TreeAssumption
    <2>2. Parent[q] \in Path /\ Above(q) = {Parent[q]} \cup Above(Parent[q])
      BY <2>1, AboveParent
    <2>3. p \in Above(q)
      BY <1>1, <1>2, <2>2
    <2>4. QED BY <1>1, <2>3, Acyclic
  <1>3. ASSUME NEW q \in Subtree(p), q # p
        PROVE  Parent[q] \in Subtree(p) /\ Parent[q] # Root
    <2>1. q \in Path /\ p \in Above(q)
      BY <1>1, <1>3
    <2>2. Parent[q] \in Path /\ Above(q) = {Parent[q]} \cup Above(Parent[q])
      BY <2>1, AboveParent
    <2>3. QED BY <1>1, <2>1, <2>2, TreeAssumption
  <1>4. ASSUME NEW q \in Subtree(p)
        PROVE  Subtree(q) \subseteq Subtree(p)
    <2>1. q \in Path /\ Subtree(q) = {r \in Path : q = r \/ q \in Above(r)}
      BY <1>1 DEF Subtree, Descendants
    <2>2. ASSUME NEW r \in Path, q \in Above(r)
          PROVE  r \in Subtree(p)
      <3>1. Above(q) \subseteq Above(r)
        BY <2>2, AboveTrans
      <3>2. QED BY <1>1, <1>4, <2>2, <3>1
    <2>3. QED BY <1>4, <2>1, <2>2
  <1>5. p \in Subtree(p) /\ Subtree(p) \subseteq Path
    BY <1>1
  <1>6. Parent[p] \notin Subtree(p)
    BY <1>2
  <1>7. QED BY <1>1, <1>2, <1>3, <1>4, <1>5, <1>6

\* Every other path of a subtree is in the subtree of an entry of its directory.
LEMMA ChildOnWay ==
  ASSUME NEW d \in Path \cup {Root}, NEW q \in Path, d = Root \/ d \in Above(q)
  PROVE  \E c \in Path : Parent[c] = d /\ q \in Subtree(c)
  <1> DEFINE P == {x \in Path : (d = Root \/ d \in Above(x)) => \E c \in Path : Parent[c] = d /\ x \in Subtree(c)}
  <1>1. ASSUME NEW x \in Path, Parent[x] \in P \cup {Root}
        PROVE  x \in P
    <2>0. x \in Subtree(x)
      BY SubtreeIs
    <2>1. CASE Parent[x] = d
      BY <2>0, <2>1
    <2>2. CASE Parent[x] # d /\ Parent[x] = Root
      BY <2>2, AboveParent
    <2>3. CASE Parent[x] # d /\ Parent[x] # Root
      <3>1. Parent[x] \in P /\ Above(x) = {Parent[x]} \cup Above(Parent[x])
        BY <1>1, <2>3, AboveParent
      <3>2. SUFFICES ASSUME d = Root \/ d \in Above(x)
                     PROVE  \E c \in Path : Parent[c] = d /\ x \in Subtree(c)
        OBVIOUS
      <3>3. d = Root \/ d \in Above(Parent[x])
        BY <2>3, <3>1, <3>2
      <3>4. PICK c \in Path : Parent[c] = d /\ Parent[x] \in Subtree(c)
        BY <3>1, <3>3
      <3>5. x \in Subtree(c)
        BY <3>4, SubtreeIs
      <3>6. QED BY <3>4, <3>5
    <2>4. QED BY <2>1, <2>2, <2>3
  <1>2. P \in SUBSET Path
    OBVIOUS
  <1>3. P = Path
    BY <1>1, <1>2, RootedAssumption
  <1>4. QED BY <1>3

\* Among the paths that cover q there is one that no other covers.
LEMMA TopMost ==
  ASSUME NEW R \in SUBSET Path, NEW q \in Path, Covers(R, q)
  PROVE  \E r \in R : q \in Subtree(r) /\ \A x \in R : x # r => r \notin Subtree(x)
  <1> DEFINE Top(r) == \A x \in R : x # r => r \notin Subtree(x)
             P == {x \in Path : Covers(R, x) => \E r \in R : x \in Subtree(r) /\ Top(r)}
  <1>1. ASSUME NEW x \in Path, Parent[x] \in P \cup {Root}
        PROVE  x \in P
    <2>0. SUFFICES ASSUME Covers(R, x)
                   PROVE  \E r \in R : x \in Subtree(r) /\ Top(r)
      OBVIOUS
    <2>1. CASE Parent[x] \in Path /\ Covers(R, Parent[x])
      <3>1. PICK r \in R : Parent[x] \in Subtree(r) /\ Top(r)
        BY <1>1, <2>1, TreeAssumption
      <3>2. x \in Subtree(r)
        BY <3>1, SubtreeIs
      <3>3. QED BY <3>1, <3>2
    <2>2. CASE ~(Parent[x] \in Path /\ Covers(R, Parent[x]))
      <3>1. ASSUME NEW r \in R, x \in Subtree(r)
            PROVE  r = x
        <4>1. SUFFICES ASSUME r # x PROVE FALSE
          OBVIOUS
        <4>2. Parent[x] \in Subtree(r) /\ Subtree(r) \subseteq Path
          BY <3>1, <4>1, SubtreeIs
        <4>3. QED BY <2>2, <4>2 DEF Covers
      <3>2. x \in R /\ Top(x)
        BY <2>0, <3>1 DEF Covers
      <3>3. x \in Subtree(x)
        BY SubtreeIs
      <3>4. QED BY <3>2, <3>3
    <2>3. QED BY <2>1, <2>2
  <1>2. P \in SUBSET Path
    OBVIOUS
  <1>3. P = Path
    BY <1>1, <1>2, RootedAssumption
  <1>4. QED BY <1>3

\* What is covered covers what is below it; what is excluded has nothing else below it.
LEMMA CoversDown ==
  ASSUME NEW R \in SUBSET Path, NEW p \in Path, NEW q \in Subtree(p)
  PROVE  /\ q \in Path
         /\ Covers(R, p) => Covers(R, q)
         /\ p \in R => Covers(R, q)
         /\ p \in Excluded => q \in Excluded
  <1>1. q \in Path
    BY SubtreeIs
  <1>2. ASSUME NEW r \in R, p \in Subtree(r)
        PROVE  q \in Subtree(r)
    BY <1>2, SubtreeIs
  <1>3. ASSUME q \notin Excluded PROVE p \notin Excluded
    <2> DEFINE P == Path \ Excluded
    <2>1. Closed(P, q)
      BY <1>1, <1>3, TreeAssumption DEF Closed
    <2>2. Above(q) \subseteq P
      BY <1>1, <2>1, AboveIs
    <2>3. q = p \/ p \in Above(q)
      BY SubtreeIs
    <2>4. QED BY <1>3, <2>2, <2>3
  <1>4. QED BY <1>1, <1>2, <1>3 DEF Covers

----------------------------------------------------------------------------
(* Trees. *)

KindSet == {"none", "file", "link", "dir"}
Node == [kind : KindSet, ver : Nat, look : Nat, mode : {0, 1}]

IsTree(t) == t \in [Path -> Node] /\ Tree(t)

\* The same entry, but for the time of a directory.
Same(a, b) ==
    \/ b = a
    \/ a.kind = "dir" /\ b.kind = "dir" /\ a.look = b.look /\ a.mode = b.mode

\* The two nodes every tree may hold, and the empty tree.
LEMMA Nodes ==
  /\ Absent \in Node /\ Absent.kind = "none"
  /\ NewDir \in Node /\ NewDir.kind = "dir"
  /\ NoTree \in [Path -> Node] /\ \A p \in Path : NoTree[p] = Absent
  BY DEF Absent, NewDir, Node, KindSet, NoTree

\* The fields of a node, and of one with another version or mode.
LEMMA NodeIs ==
  ASSUME NEW x \in Node, NEW n \in Nat, NEW m \in {0, 1}
  PROVE  /\ x.kind \in KindSet /\ x.ver \in Nat /\ x.look \in Nat /\ x.mode \in {0, 1}
         /\ [x EXCEPT !.ver = n] \in Node /\ [x EXCEPT !.ver = n].kind = x.kind
         /\ [x EXCEPT !.ver = n].ver = n
         /\ [x EXCEPT !.ver = n].look = x.look /\ [x EXCEPT !.ver = n].mode = x.mode
         /\ [x EXCEPT !.mode = m] \in Node /\ [x EXCEPT !.mode = m].kind = x.kind
         /\ [x EXCEPT !.mode = m].ver = x.ver /\ [x EXCEPT !.mode = m].look = x.look
         /\ [x EXCEPT !.mode = m].mode = m
  BY DEF Node

\* A directory with another time.
LEMMA Retimed ==
  ASSUME NEW x \in Node, NEW n \in Nat
  PROVE  /\ [x EXCEPT !.ver = n] \in Node /\ [x EXCEPT !.ver = n].kind = x.kind
         /\ x.kind = "dir" => Same(x, [x EXCEPT !.ver = n])
  <1>1. [x EXCEPT !.ver = n] \in Node /\ [x EXCEPT !.ver = n].kind = x.kind
        /\ [x EXCEPT !.ver = n].look = x.look /\ [x EXCEPT !.ver = n].mode = x.mode
    BY DEF Node
  <1>2. QED BY <1>1 DEF Same

\* What lies above an entry of a tree is a directory.
LEMMA TreeUp ==
  ASSUME NEW t, Tree(t), NEW p \in Path, Exists(t, p), NEW a \in Above(p)
  PROVE  a \in Path /\ t[a].kind = "dir"
  <1> DEFINE P == {x \in Path : t[x].kind = "dir"}
  <1>1. \A x \in Path : Exists(t, x) => Parent[x] \in P \cup {Root}
    BY TreeAssumption DEF Tree, IsDir
  <1>2. Closed(P, p)
    BY <1>1 DEF Closed, Exists
  <1>3. QED BY <1>2, AboveIs

\* A tree is closed downwards: nothing lies below what is not a directory.
LEMMA TreeDown ==
  ASSUME NEW t, Tree(t), NEW p \in Path, t[p].kind # "dir", NEW q \in Subtree(p), q # p
  PROVE  q \in Path /\ ~Exists(t, q)
  <1>1. q \in Path /\ p \in Above(q)
    BY SubtreeIs
  <1>2. QED BY <1>1, TreeUp

\* Only the directory an entry lies in is touched.
LEMMA TouchedIs ==
  ASSUME NEW t \in [Path -> Node], NEW p \in Path, IsDir(t, Parent[p])
  PROVE  /\ Touched(t, p) \in [Path -> Node]
         /\ \A q \in Path : /\ Same(t[q], Touched(t, p)[q])
                            /\ q # Parent[p] => Touched(t, p)[q] = t[q]
  <1>1. CASE Parent[p] = Root
    BY <1>1 DEF Touched, Same
  <1>2. CASE Parent[p] # Root
    <2>1. Parent[p] \in Path /\ t[Parent[p]].kind = "dir" /\ t[Parent[p]] \in Node
      BY <1>2, TreeAssumption DEF IsDir
    <2>2. Touched(t, p) = [t EXCEPT ![Parent[p]] = [t[Parent[p]] EXCEPT !.ver = 0]]
      BY <1>2 DEF Touched
    <2>3. [t[Parent[p]] EXCEPT !.ver = 0] \in Node /\ Same(t[Parent[p]], [t[Parent[p]] EXCEPT !.ver = 0])
      BY <2>1, Retimed
    <2> DEFINE n == [t[Parent[p]] EXCEPT !.ver = 0]
    <2> HIDE DEF n
    <2>4. QED BY <2>1, <2>2, <2>3 DEF Same, n
  <1>3. QED BY <1>1, <1>2

\* Entries that only change their times leave a tree a tree.
LEMMA TreeSame ==
  ASSUME NEW t, NEW u, Tree(t), \A q \in Path : Same(t[q], u[q])
  PROVE  Tree(u)
  <1>1. \A q \in Path : t[q].kind = u[q].kind
    BY DEF Same
  <1>2. QED BY <1>1, TreeAssumption DEF Tree, Exists, IsDir

\* Without a subtree a tree is one still, and keeps every other entry.
LEMMA WithoutIs ==
  ASSUME NEW t, IsTree(t), NEW p \in Path, IsDir(t, Parent[p])
  PROVE  /\ IsTree(Without(t, p))
         /\ \A q \in Path : IF q \in Subtree(p) THEN Without(t, p)[q] = Absent
                            ELSE Same(t[q], Without(t, p)[q])
         /\ IsDir(Without(t, p), Parent[p])
  <1> DEFINE u == [q \in Path |-> IF q \in Subtree(p) THEN Absent ELSE t[q]]
  <1>1. u \in [Path -> Node] /\ \A q \in Path : u[q] = IF q \in Subtree(p) THEN Absent ELSE t[q]
    BY Nodes DEF IsTree
  <1>2. Without(t, p) = Touched(u, p)
    BY DEF Without
  <1> HIDE DEF u
  <1>3. Parent[p] \notin Subtree(p)
    BY SubtreeIs
  <1>4. IsDir(u, Parent[p])
    BY <1>1, <1>3, TreeAssumption DEF IsDir
  <1>5. Tree(u)
    <2>1. ASSUME NEW q \in Path, Exists(u, q)
          PROVE  IsDir(u, Parent[q])
      <3>1. q \notin Subtree(p) /\ u[q] = t[q]
        BY <1>1, <2>1, Nodes DEF Exists
      <3>2. Parent[q] \notin Subtree(p)
        BY <3>1, SubtreeIs
      <3>3. IsDir(t, Parent[q])
        BY <2>1, <3>1 DEF IsTree, Tree, Exists
      <3>4. QED BY <1>1, <3>2, <3>3, TreeAssumption DEF IsDir
    <2>2. QED BY <2>1 DEF Tree
  <1>6. /\ Touched(u, p) \in [Path -> Node]
        /\ \A q \in Path : /\ Same(u[q], Touched(u, p)[q])
                           /\ q # Parent[p] => Touched(u, p)[q] = u[q]
    BY <1>1, <1>4, TouchedIs
  <1>7. Tree(Touched(u, p))
    BY <1>5, <1>6, TreeSame
  <1>8. IsDir(Touched(u, p), Parent[p])
    BY <1>4, <1>6, TreeAssumption DEF IsDir, Same
  <1>9. ASSUME NEW q \in Path
        PROVE  IF q \in Subtree(p) THEN Touched(u, p)[q] = Absent ELSE Same(t[q], Touched(u, p)[q])
    BY <1>1, <1>3, <1>6
  <1>10. QED BY <1>2, <1>6, <1>7, <1>8, <1>9 DEF IsTree

\* With an entry put where nothing lies below, a tree is one still.
LEMMA WithIs ==
  ASSUME NEW t, IsTree(t), NEW p \in Path, NEW node \in Node, IsDir(t, Parent[p]),
         node.kind = "dir" \/ \A q \in Path : Parent[q] = p => ~Exists(t, q)
  PROVE  /\ IsTree(With(t, p, node))
         /\ With(t, p, node)[p] = node
         /\ \A q \in Path : q # p => Same(t[q], With(t, p, node)[q])
  <1> DEFINE u == [t EXCEPT ![p] = node]
  <1>1. u \in [Path -> Node] /\ u[p] = node /\ \A q \in Path : q # p => u[q] = t[q]
    BY DEF IsTree
  <1>2. With(t, p, node) = Touched(u, p)
    BY DEF With
  <1> HIDE DEF u
  <1>3. Parent[p] # p
    BY SubtreeIs
  <1>4. IsDir(u, Parent[p])
    BY <1>1, <1>3, TreeAssumption DEF IsDir
  <1>5. Tree(u)
    <2>1. ASSUME NEW q \in Path, Exists(u, q)
          PROVE  IsDir(u, Parent[q])
      <3>1. CASE q = p
        BY <1>4, <3>1
      <3>2. CASE q # p
        <4>1. Exists(t, q) /\ IsDir(t, Parent[q])
          BY <1>1, <2>1, <3>2 DEF IsTree, Tree, Exists
        <4>2. QED BY <1>1, <4>1, TreeAssumption DEF IsDir
      <3>3. QED BY <3>1, <3>2
    <2>2. QED BY <2>1 DEF Tree
  <1>6. /\ Touched(u, p) \in [Path -> Node]
        /\ \A q \in Path : /\ Same(u[q], Touched(u, p)[q])
                           /\ q # Parent[p] => Touched(u, p)[q] = u[q]
    BY <1>1, <1>4, TouchedIs
  <1>7. Tree(Touched(u, p))
    BY <1>5, <1>6, TreeSame
  <1>8. QED BY <1>1, <1>2, <1>3, <1>6, <1>7 DEF IsTree

\* Directories made: all of P are there, nothing else is new.
LEMMA MadeIs ==
  ASSUME NEW t, IsTree(t), NEW P \in SUBSET Path, CanMake(t, P),
         \A p \in P : Parent[p] \in P \/ IsDir(t, Parent[p])
  PROVE  /\ IsTree(Made(t, P))
         /\ \A p \in P : Made(t, P)[p].kind = "dir"
         /\ \A q \in Path : \/ Same(t[q], Made(t, P)[q])
                            \/ q \in P /\ ~Exists(t, q) /\ Made(t, P)[q].kind = "dir"
  <1> DEFINE new == {p \in P : ~Exists(t, p)}
             u == Made(t, P)
  <1>1. \A q \in Path : u[q] = IF q \in new THEN NewDir
                               ELSE IF t[q].kind = "dir" /\ \E x \in new : Parent[x] = q
                                    THEN [t[q] EXCEPT !.ver = 0] ELSE t[q]
    BY DEF Made
  <1>2. u = [q \in Path |-> u[q]]
    BY DEF Made
  <1>3. \A q \in Path : t[q] \in Node
    BY DEF IsTree
  <1> HIDE DEF u
  <1>5. ASSUME NEW q \in Path
        PROVE  /\ u[q] \in Node
               /\ q \in new => u[q].kind = "dir" /\ q \in P /\ ~Exists(t, q)
               /\ q \notin new => Same(t[q], u[q])
    <2>1. CASE q \in new
      BY <1>1, <2>1, Nodes
    <2>2. CASE q \notin new /\ t[q].kind = "dir" /\ \E x \in new : Parent[x] = q
      <3>1. u[q] = [t[q] EXCEPT !.ver = 0]
        BY <1>1, <2>2
      <3>2. [t[q] EXCEPT !.ver = 0] \in Node /\ Same(t[q], [t[q] EXCEPT !.ver = 0])
        BY <1>3, <2>2, Retimed
      <3>3. QED BY <2>2, <3>1, <3>2
    <2>3. CASE q \notin new /\ ~(t[q].kind = "dir" /\ \E x \in new : Parent[x] = q)
      <3>1. u[q] = t[q]
        BY <1>1, <2>3
      <3>2. QED BY <1>3, <2>3, <3>1 DEF Same
    <2>4. QED BY <2>1, <2>2, <2>3
  <1>6. \A p \in P : u[p].kind = "dir"
    <2>1. ASSUME NEW p \in P
          PROVE  u[p].kind = "dir"
      <3>1. p \in new \/ t[p].kind = "dir"
        BY DEF CanMake, Exists
      <3>2. QED BY <1>5, <3>1 DEF Same
    <2>2. QED BY <2>1
  <1>7. Tree(u)
    <2>1. ASSUME NEW q \in Path, Exists(u, q)
          PROVE  IsDir(u, Parent[q])
      <3>1. CASE Parent[q] \in P
        BY <1>6, <3>1 DEF IsDir
      <3>2. CASE Parent[q] \notin P
        <4>1. IsDir(t, Parent[q])
          <5>1. CASE q \in new
            BY <3>2, <5>1
          <5>2. CASE q \notin new
            <6>1. Exists(t, q)
              BY <1>5, <2>1, <5>2 DEF Same, Exists
            <6>2. QED BY <6>1 DEF IsTree, Tree
          <5>3. QED BY <5>1, <5>2
        <4>2. QED BY <1>5, <3>2, <4>1, TreeAssumption DEF IsDir, Same
      <3>3. QED BY <3>1, <3>2
    <2>2. QED BY <2>1 DEF Tree
  <1>8. u \in [Path -> Node]
    BY <1>2, <1>5
  <1>9. QED BY <1>5, <1>6, <1>7, <1>8 DEF IsTree, u

\* The directories above a path can be made one in the other.
LEMMA AboveMade ==
  ASSUME NEW p \in Path
  PROVE  /\ Above(p) \subseteq Path
         /\ \A t : \A a \in Above(p) : Parent[a] \in Above(p) \/ IsDir(t, Parent[a])
         /\ \A t : \A a \in Above(p) \cup {p} : Parent[a] \in Above(p) \cup {p} \/ IsDir(t, Parent[a])
         /\ Parent[p] \in Above(p) \/ Parent[p] = Root
  BY AboveIs DEF Closed, IsDir

\* The trash stays a tree when one is moved into it.
LEMMA TrashedIs ==
  ASSUME IsTree(dst), IsTree(trash), NEW p \in Path, CanMake(trash, Above(p))
  PROVE  IsTree(Trashed(p))
  <1> DEFINE u == Made(trash, Above(p))
             v == Trashed(p)
  <1>1. /\ IsTree(u)
        /\ \A a \in Above(p) : u[a].kind = "dir"
    <2>1. Above(p) \in SUBSET Path /\ \A a \in Above(p) : Parent[a] \in Above(p) \/ IsDir(trash, Parent[a])
      BY AboveMade
    <2>2. QED BY <2>1, MadeIs
  <1>2. v = [q \in Path |-> IF q \in Subtree(p) THEN dst[q] ELSE u[q]]
    BY DEF Trashed
  <1> HIDE DEF u, v
  <1>3. v \in [Path -> Node]
    BY <1>1, <1>2 DEF IsTree
  <1>4. ASSUME NEW q \in Path, Exists(v, q)
        PROVE  IsDir(v, Parent[q])
    <2>1. CASE q = p
      <3>1. Parent[p] \in Above(p) \/ Parent[p] = Root
        BY AboveMade
      <3>2. Parent[p] \notin Subtree(p) /\ Above(p) \subseteq Path
        BY SubtreeIs, AboveIs
      <3>3. QED BY <1>1, <1>2, <2>1, <3>1, <3>2 DEF IsDir
    <2>2. CASE q # p /\ q \in Subtree(p)
      <3>1. Parent[q] \in Subtree(p) /\ Parent[q] # Root /\ Parent[q] \in Path
        BY <2>2, SubtreeIs
      <3>2. Exists(dst, q) /\ IsDir(dst, Parent[q])
        BY <1>2, <1>4, <2>2 DEF IsTree, Tree, Exists
      <3>3. QED BY <1>2, <3>1, <3>2 DEF IsDir
    <2>3. CASE q \notin Subtree(p)
      <3>1. Parent[q] \notin Subtree(p)
        BY <2>3, SubtreeIs
      <3>2. Exists(u, q) /\ IsDir(u, Parent[q])
        BY <1>1, <1>2, <1>4, <2>3 DEF IsTree, Tree, Exists
      <3>3. QED BY <1>2, <3>1, <3>2, TreeAssumption DEF IsDir
    <2>4. QED BY <2>1, <2>2, <2>3
  <1>5. QED BY <1>3, <1>4 DEF IsTree, Tree, v

----------------------------------------------------------------------------
(* What a step does to the destination. *)

\* But for x itself, a directory above x is made, or what was below x is gone when
\* something of another kind takes its place.
Writes(x) ==
    \A q \in Path \ {x} :
        \/ Same(dst[q], dst'[q])
        \/ q \in Above(x) /\ ~Exists(dst, q) /\ dst'[q].kind = "dir"
        \/ q \in Subtree(x) /\ dst'[q] = Absent /\ dst[x].kind # dst'[x].kind

\* move_to_trash takes a tree away.
LEMMA RemovesTree ==
  ASSUME IsTree(dst), IsTree(trash), NEW x \in Path, CanTrash(x), Exists(dst, x),
         ToTrash(x, Without(dst, x))
  PROVE  /\ IsTree(dst') /\ IsTree(trash') /\ dst'[x] = Absent
         /\ \A q \in Path : IF q \in Subtree(x) THEN dst'[q] = Absent ELSE Same(dst[q], dst'[q])
  <1>1. IsDir(dst, Parent[x])
    BY DEF IsTree, Tree
  <1>2. /\ IsTree(Without(dst, x))
        /\ \A q \in Path : IF q \in Subtree(x) THEN Without(dst, x)[q] = Absent
                           ELSE Same(dst[q], Without(dst, x)[q])
    BY <1>1, WithoutIs
  <1>3. IsTree(Trashed(x))
    BY TrashedIs DEF CanTrash
  <1>4. dst' = Without(dst, x) /\ trash' = Trashed(x)
    BY DEF ToTrash
  <1>5. x \in Subtree(x)
    BY SubtreeIs
  <1> HIDE DEF IsTree, Same
  <1>6. QED BY <1>2, <1>3, <1>4, <1>5

\* create_dir_all.
LEMMA MakesDirs ==
  ASSUME IsTree(dst), NEW x \in Path, CanMake(dst, Above(x) \cup {x}),
         dst' = Made(dst, Above(x) \cup {x})
  PROVE  IsTree(dst') /\ dst'[x].kind = "dir" /\ Writes(x)
  <1> DEFINE P == Above(x) \cup {x}
  <1>1. P \in SUBSET Path /\ \A a \in P : Parent[a] \in P \/ IsDir(dst, Parent[a])
    BY AboveMade
  <1>2. /\ IsTree(Made(dst, P))
        /\ \A p \in P : Made(dst, P)[p].kind = "dir"
        /\ \A q \in Path : \/ Same(dst[q], Made(dst, P)[q])
                           \/ q \in P /\ ~Exists(dst, q) /\ Made(dst, P)[q].kind = "dir"
    BY <1>1, MadeIs
  <1>3. QED BY <1>2 DEF Writes

\* What blocks a directory is replaced by it.
LEMMA MakesDirOver ==
  ASSUME IsTree(dst), IsTree(trash), NEW x \in Path, Exists(dst, x), dst[x].kind # "dir", CanTrash(x),
         ToTrash(x, Made(Without(dst, x), {x}))
  PROVE  IsTree(dst') /\ IsTree(trash') /\ dst'[x].kind = "dir" /\ Writes(x)
  <1> DEFINE u == Without(dst, x)
  <1>1. IsDir(dst, Parent[x])
    BY DEF IsTree, Tree
  <1>2. /\ IsTree(u) /\ IsDir(u, Parent[x])
        /\ \A q \in Path : IF q \in Subtree(x) THEN u[q] = Absent ELSE Same(dst[q], u[q])
    BY <1>1, WithoutIs
  <1>3. dst' = Made(u, {x}) /\ trash' = Trashed(x) /\ IsTree(Trashed(x))
    BY TrashedIs DEF ToTrash, CanTrash
  <1> HIDE DEF u
  <1>4. x \in Subtree(x)
    BY SubtreeIs
  <1>5. CanMake(u, {x})
    BY <1>2, <1>4, Nodes DEF CanMake
  <1>6. /\ IsTree(Made(u, {x}))
        /\ \A p \in {x} : Made(u, {x})[p].kind = "dir"
        /\ \A q \in Path : \/ Same(u[q], Made(u, {x})[q])
                           \/ q \in {x} /\ ~Exists(u, q) /\ Made(u, {x})[q].kind = "dir"
    BY <1>2, <1>5, MadeIs
  <1>7. ASSUME NEW q \in Path \ {x}
        PROVE  \/ Same(dst[q], dst'[q])
               \/ q \in Subtree(x) /\ dst'[q] = Absent
    <2>1. Same(u[q], dst'[q])
      BY <1>3, <1>6
    <2>2. CASE q \in Subtree(x)
      BY <1>2, <2>1, <2>2, Nodes DEF Same
    <2>3. CASE q \notin Subtree(x)
      BY <1>2, <2>1, <2>3 DEF Same
    <2>4. QED BY <2>2, <2>3
  <1>8. QED BY <1>3, <1>6, <1>7 DEF Writes

\* A file or link is published, over what blocks it and in directories made for it.
LEMMA PutsFile ==
  ASSUME IsTree(dst), IsTree(trash), NEW x \in Path, NEW node \in Node, node.kind \in {"file", "link"},
         CanMake(dst, Above(x)),
         NEW room, NEW blocked \in BOOLEAN, blocked <=> (Exists(dst, x) /\ dst[x].kind # node.kind),
         room = Made(IF blocked THEN Without(dst, x) ELSE dst, Above(x)),
         dst' = With(room, x, node)
  PROVE  IsTree(dst') /\ dst'[x] = node /\ Writes(x)
  <1> DEFINE u == IF blocked THEN Without(dst, x) ELSE dst
  <1>0. x \in Subtree(x) /\ Above(x) \subseteq Path /\ x \notin Above(x)
    BY SubtreeIs, AboveIs, Acyclic
  <1>1. /\ IsTree(u)
        /\ \A q \in Path : \/ Same(dst[q], u[q]) /\ (q # x => q \notin Subtree(x) \/ ~Exists(u, q))
                           \/ blocked /\ q \in Subtree(x) /\ u[q] = Absent
    <2>1. CASE blocked
      <3>1. IsDir(dst, Parent[x])
        BY <2>1 DEF IsTree, Tree
      <3>2. /\ IsTree(Without(dst, x))
            /\ \A q \in Path : IF q \in Subtree(x) THEN Without(dst, x)[q] = Absent
                               ELSE Same(dst[q], Without(dst, x)[q])
        BY <3>1, WithoutIs
      <3>3. u = Without(dst, x)
        BY <2>1
      <3> HIDE DEF u
      <3>4. QED BY <2>1, <3>2, <3>3, <1>0
    <2>2. CASE ~blocked
      <3>1. u = dst /\ dst[x].kind # "dir"
        BY <2>2 DEF Exists
      <3>2. \A q \in Subtree(x) : q # x => ~Exists(dst, q)
        BY <3>1, TreeDown DEF IsTree
      <3> HIDE DEF u
      <3>3. QED BY <3>1, <3>2 DEF Same
    <2>3. QED BY <2>1, <2>2
  <1>2. room = Made(u, Above(x))
    OBVIOUS
  <1> HIDE DEF u
  <1>3. \A a \in Above(x) : a \notin Subtree(x) /\ Same(dst[a], u[a])
    <2>1. ASSUME NEW a \in Above(x)
          PROVE  a \notin Subtree(x)
      <3>1. SUFFICES ASSUME a \in Subtree(x) PROVE FALSE
        OBVIOUS
      <3>2. x \in Above(a)
        BY <1>0, <3>1, SubtreeIs
      <3>3. x \in Above(x)
        BY <3>2, AboveTrans
      <3>4. QED BY <1>0, <3>3
    <2>2. QED BY <1>0, <1>1, <2>1
  <1>4. CanMake(u, Above(x))
    BY <1>3 DEF CanMake, Same
  <1>5. \A a \in Above(x) : Parent[a] \in Above(x) \/ IsDir(u, Parent[a])
    BY AboveMade
  <1>6. /\ IsTree(room)
        /\ \A a \in Above(x) : room[a].kind = "dir"
        /\ \A q \in Path : \/ Same(u[q], room[q])
                           \/ q \in Above(x) /\ ~Exists(u, q) /\ room[q].kind = "dir"
    BY <1>0, <1>1, <1>2, <1>4, <1>5, MadeIs
  <1>7. IsDir(room, Parent[x])
    BY <1>6, AboveMade DEF IsDir
  <1>8. ASSUME NEW q \in Path, Parent[q] = x
        PROVE  ~Exists(room, q)
    <2>1. q \in Subtree(x) /\ q # x
      BY <1>0, <1>8, SubtreeIs
    <2>2. ~Exists(u, q)
      BY <1>1, <2>1, Nodes DEF Exists
    <2>3. q \notin Above(x)
      BY <1>3, <2>1
    <2>4. QED BY <1>6, <2>2, <2>3 DEF Same, Exists
  <1>9. /\ IsTree(dst') /\ dst'[x] = node
        /\ \A q \in Path : q # x => Same(room[q], dst'[q])
    BY <1>6, <1>7, <1>8, WithIs
  <1>10. ASSUME NEW q \in Path \ {x}
         PROVE  \/ Same(dst[q], dst'[q])
                \/ q \in Above(x) /\ ~Exists(dst, q) /\ dst'[q].kind = "dir"
                \/ q \in Subtree(x) /\ dst'[q] = Absent /\ dst[x].kind # dst'[x].kind
    <2>1. Same(room[q], dst'[q])
      BY <1>9
    <2>2. CASE q \in Above(x) /\ ~Exists(u, q) /\ room[q].kind = "dir"
      <3>1. ~Exists(dst, q)
        BY <1>3, <2>2 DEF Same, Exists
      <3>2. dst'[q].kind = "dir"
        BY <2>1, <2>2 DEF Same
      <3>3. QED BY <2>2, <3>1, <3>2
    <2>3. CASE Same(u[q], room[q])
      <3>1. Same(u[q], dst'[q])
        BY <2>1, <2>3 DEF Same
      <3>2. CASE blocked /\ q \in Subtree(x) /\ u[q] = Absent
        BY <1>9, <3>1, <3>2, Nodes DEF Same
      <3>3. CASE Same(dst[q], u[q])
        BY <3>1, <3>3 DEF Same
      <3>4. QED BY <1>1, <3>2, <3>3
    <2>4. QED BY <1>6, <2>2, <2>3
  <1>11. QED BY <1>9, <1>10 DEF Writes

----------------------------------------------------------------------------
(* The state of a pass. *)

Names == {"mismatch", "remove", "mkdir", "mkover", "copy", "failed", "extras", "modes", "stamp",
          "copied", "verify", "end"}
Pcs == Names \cup {"idle", "walk", "done"}
Fields == {"pc", "variant", "rel", "plan", "queue", "listed", "S", "D", "todo", "work", "changing",
           "failed", "fatal", "result"}

IsRun(r) ==
    /\ DOMAIN r = Fields
    /\ r.pc \in Pcs /\ r.variant \in DOMAIN Phases \cup {"none"}
    /\ r.rel \in SUBSET Path /\ r.plan \in Seq(Names)
    /\ r.queue \in Seq(Path \cup {Root}) /\ r.listed \in SUBSET Path
    /\ r.S \in [Path -> Node] /\ r.D \in [Path -> Node]
    /\ r.todo \in SUBSET Path /\ r.work \in SUBSET (SUBSET Path)
    /\ r.changing \in SUBSET Path /\ r.failed \in SUBSET (Path \cup {Batch})
    /\ r.fatal \in BOOLEAN /\ r.result \in {"none", "ok", "changing", "err"}

IsWorker(x) ==
    /\ DOMAIN x = {"pc", "item", "label", "mem"}
    /\ x.pc \in {"off", "loop", "memory", "send"} /\ x.item \in SUBSET Path
    /\ x.label \in Path \cup {Batch} /\ x.mem \in Nat

IsPool(f) == DOMAIN f = Worker /\ \A w \in Worker : IsWorker(f[w])

Copies == ToCopy(run.S, run.D, ByEvents(run))

\* What the workers have and will have to send.
WorkInv ==
    IF run.pc = "copy"
    THEN /\ \A i \in run.work : i # {} /\ i \subseteq Copies
         /\ \A w \in Worker : /\ pool[w].item \subseteq Copies
                              /\ pool[w].pc \in {"memory", "send"} => pool[w].item # {}
                              /\ pool[w].pc \in {"off", "loop"} => pool[w].item = {}
    ELSE pool = NoPool

BaseInv ==
    /\ IsTree(src) /\ IsTree(dst) /\ IsTree(trash)
    /\ mirror \in BOOLEAN /\ needFull \in BOOLEAN
    /\ dirty \in SUBSET Path /\ fresh \in SUBSET Path /\ changed \in SUBSET Path
    /\ clock \in Nat
    /\ left \in [edits : Nat, faults : Nat, foreign : BOOLEAN, ways : SUBSET DOMAIN Phases]

TypeInv == BaseInv /\ IsRun(run) /\ IsPool(pool) /\ WorkInv

\* What is in a list; a list that repeats nothing.
Ahead(s) == {s[i] : i \in DOMAIN s}
Once(s) == \A i, j \in DOMAIN s : s[i] = s[j] => i = j

Order == [walk |-> 0, mismatch |-> 1, remove |-> 1, mkdir |-> 2, mkover |-> 2, copy |-> 3,
          failed |-> 4, extras |-> 5, modes |-> 5, stamp |-> 6, copied |-> 7, verify |-> 7, end |-> 8]
First3 == {"mismatch", "remove", "mkover"}

\* A plan goes on in order, removes what blocks directories before they are made,
\* and stamps before it ends.
Planned(pc, s) ==
    /\ s \in Seq(Names) /\ Once(s)
    /\ \A x \in Ahead(s) : x # pc /\ Order[pc] <= Order[x]
    /\ \A i, j \in DOMAIN s : i < j => Order[s[i]] <= Order[s[j]]
    /\ \A i \in DOMAIN s : s[i] \in First3 => i = 1 /\ pc = "walk"
    /\ pc \in {"mismatch", "remove"} \/ {"mismatch", "remove"} \cap Ahead(s) # {} => "mkdir" \in Ahead(s)
    /\ pc \in {"stamp", "copied", "verify", "end"} \/ "stamp" \in Ahead(s)
    /\ pc = "end" \/ "end" \in Ahead(s)

Active == run.pc \notin {"idle", "done"}
Busy == Active /\ run.pc # "walk"
Coming == Ahead(run.plan)

PlanInv ==
    Active => /\ run.variant \in DOMAIN Phases
              /\ Planned(run.pc, run.plan)
              /\ run.pc = "walk" => run.plan = Phases[run.variant]

\* The ways to make a pass.
LEMMA VariantsAre == DOMAIN Phases = {"push_full", "push_events", "local_full", "reconcile", "local_events"}
  BY DEF Phases

\* The phases of each.
LEMMA PhasesAre ==
  /\ Phases["push_full"] = <<"mismatch", "mkdir", "copy", "extras", "modes", "stamp", "end">>
  /\ Phases["push_events"] = <<"remove", "mkdir", "copy", "modes", "stamp", "verify", "end">>
  /\ Phases["local_full"] = <<"mkover", "copy", "extras", "modes", "stamp", "copied", "end">>
  /\ Phases["reconcile"] = <<"mkover", "copy", "modes", "extras", "stamp", "copied", "end">>
  /\ Phases["local_events"] = <<"mismatch", "mkdir", "copy", "failed", "modes", "extras", "stamp", "verify", "end">>
  BY DEF Phases

\* A plan as a function on its numbers, and what is on it.
LEMMA Seven ==
  ASSUME NEW a, NEW b, NEW c, NEW d, NEW e, NEW f, NEW g
  PROVE  LET s == <<a, b, c, d, e, f, g>>
         IN  Len(s) = 7 /\ DOMAIN s = 1..7 /\ Ahead(s) = {a, b, c, d, e, f, g} /\ s # <<>>
  BY DEF Ahead

\* The same for a list of nine.
LEMMA Nine ==
  ASSUME NEW a, NEW b, NEW c, NEW d, NEW e, NEW f, NEW g, NEW h, NEW i
  PROVE  LET s == <<a, b, c, d, e, f, g, h, i>>
         IN  Len(s) = 9 /\ DOMAIN s = 1..9 /\ Ahead(s) = {a, b, c, d, e, f, g, h, i} /\ s # <<>>
  BY DEF Ahead

\* A whole-tree push goes in order.
LEMMA PlanPushFull ==
  /\ Planned("walk", Phases["push_full"])
  /\ Ahead(Phases["push_full"]) = {"mismatch", "mkdir", "copy", "extras", "modes", "stamp", "end"}
  BY PhasesAre, Seven DEF Planned, Once, Order, First3, Names

\* So does a push of event paths,
LEMMA PlanPushEvents ==
  /\ Planned("walk", Phases["push_events"])
  /\ Ahead(Phases["push_events"]) = {"remove", "mkdir", "copy", "modes", "stamp", "verify", "end"}
  BY PhasesAre, Seven DEF Planned, Once, Order, First3, Names

\* a whole-tree copy to a local destination,
LEMMA PlanLocalFull ==
  /\ Planned("walk", Phases["local_full"])
  /\ Ahead(Phases["local_full"]) = {"mkover", "copy", "extras", "modes", "stamp", "copied", "end"}
  BY PhasesAre, Seven DEF Planned, Once, Order, First3, Names

\* its first reconciliation,
LEMMA PlanReconcile ==
  /\ Planned("walk", Phases["reconcile"])
  /\ Ahead(Phases["reconcile"]) = {"mkover", "copy", "modes", "extras", "stamp", "copied", "end"}
  BY PhasesAre, Seven DEF Planned, Once, Order, First3, Names

\* and a local copy of event paths.
LEMMA PlanLocalEvents ==
  /\ Planned("walk", Phases["local_events"])
  /\ Ahead(Phases["local_events"]) = {"mismatch", "mkdir", "copy", "failed", "modes", "extras", "stamp", "verify", "end"}
  BY PhasesAre, Nine DEF Planned, Once, Order, First3, Names

\* Every pass makes directories, copies, sets modes and times, and removes.
LEMMA PlansAre ==
  ASSUME NEW v \in DOMAIN Phases
  PROVE  /\ Planned("walk", Phases[v])
         /\ "copy" \in Ahead(Phases[v]) /\ "modes" \in Ahead(Phases[v]) /\ "stamp" \in Ahead(Phases[v])
         /\ "mkdir" \in Ahead(Phases[v]) \/ "mkover" \in Ahead(Phases[v])
         /\ "extras" \in Ahead(Phases[v]) \/ "remove" \in Ahead(Phases[v])
  BY VariantsAre, PlanPushFull, PlanPushEvents, PlanLocalFull, PlanReconcile, PlanLocalEvents

\* The first of a list and the others.
LEMMA ListIs ==
  ASSUME NEW A, NEW s \in Seq(A), s # <<>>
  PROVE  /\ Head(s) \in A /\ Tail(s) \in Seq(A)
         /\ Head(s) = s[1] /\ 1 \in DOMAIN s
         /\ \A i \in DOMAIN Tail(s) : i + 1 \in DOMAIN s /\ i \in Nat /\ Tail(s)[i] = s[i + 1]
         /\ Head(s) \in Ahead(s)
         /\ Ahead(s) = {Head(s)} \cup Ahead(Tail(s))
         /\ Once(s) => Once(Tail(s)) /\ Head(s) \notin Ahead(Tail(s))
  <1>1. /\ Len(s) \in Nat /\ Len(s) > 0 /\ DOMAIN s = 1..Len(s) /\ DOMAIN Tail(s) = 1..(Len(s) - 1)
        /\ Tail(s) \in Seq(A) /\ Head(s) = s[1]
        /\ \A i \in 1..(Len(s) - 1) : Tail(s)[i] = s[i + 1]
    OBVIOUS
  <1>2. \A i \in DOMAIN s : i # 1 => i - 1 \in DOMAIN Tail(s) /\ s[i] = Tail(s)[i - 1]
    BY <1>1
  <1>3. \A i \in DOMAIN Tail(s) : i + 1 \in DOMAIN s /\ i \in Nat /\ Tail(s)[i] = s[i + 1] /\ i + 1 # 1
    BY <1>1
  <1>4. 1 \in DOMAIN s /\ Head(s) = s[1] /\ Tail(s) \in Seq(A) /\ Head(s) \in A
    BY <1>1
  <1>5. Ahead(s) = {Head(s)} \cup Ahead(Tail(s))
    <2>1. ASSUME NEW x \in Ahead(s)
          PROVE  x = Head(s) \/ x \in Ahead(Tail(s))
      BY <1>2, <1>4 DEF Ahead
    <2>2. ASSUME NEW x \in Ahead(Tail(s))
          PROVE  x \in Ahead(s)
      BY <1>3 DEF Ahead
    <2>3. Head(s) \in Ahead(s)
      BY <1>4 DEF Ahead
    <2>4. QED BY <2>1, <2>2, <2>3
  <1>6. ASSUME Once(s)
        PROVE  Once(Tail(s)) /\ Head(s) \notin Ahead(Tail(s))
    <2>1. \A i, j \in DOMAIN Tail(s) : i + 1 = j + 1 => i = j
      BY <1>3
    <2>2. Once(Tail(s))
      BY <1>3, <1>6, <2>1 DEF Once
    <2>3. Head(s) \notin Ahead(Tail(s))
      BY <1>3, <1>4, <1>6 DEF Once, Ahead
    <2>4. QED BY <2>2, <2>3
  <1>7. QED BY <1>3, <1>4, <1>5, <1>6

\* What is in a list that grows.
LEMMA AppendIs ==
  ASSUME NEW A, NEW s \in Seq(A), NEW x \in A
  PROVE  /\ Append(s, x) \in Seq(A)
         /\ Ahead(Append(s, x)) = Ahead(s) \cup {x}
         /\ Once(s) /\ x \notin Ahead(s) => Once(Append(s, x))
  <1> DEFINE t == Append(s, x)
  <1>1. /\ Len(s) \in Nat /\ DOMAIN s = 1..Len(s) /\ DOMAIN t = 1..(Len(s) + 1)
        /\ \A i \in 1..Len(s) : t[i] = s[i]
        /\ t[Len(s) + 1] = x /\ t \in Seq(A)
    OBVIOUS
  <1> HIDE DEF t
  <1>2. DOMAIN t = DOMAIN s \cup {Len(s) + 1} /\ \A i \in DOMAIN s : t[i] = s[i]
    BY <1>1
  <1>3. Ahead(t) = Ahead(s) \cup {x}
    BY <1>1, <1>2 DEF Ahead
  <1>4. Once(s) /\ x \notin Ahead(s) => Once(t)
    BY <1>1, <1>2 DEF Ahead, Once
  <1>5. QED BY <1>1, <1>3, <1>4 DEF t

\* Going on, a plan stays one.
LEMMA PlanGoesOn ==
  ASSUME NEW pc, NEW s, Planned(pc, s), pc # "end"
  PROVE  /\ s # <<>> /\ Head(s) \in Names /\ Planned(Head(s), Tail(s))
         /\ Ahead(s) = {Head(s)} \cup Ahead(Tail(s)) /\ Head(s) \notin Ahead(Tail(s)) /\ Head(s) # pc
         /\ pc # "walk" => Head(s) \notin First3
         /\ pc \in {"mismatch", "remove"} => "mkdir" \in Ahead(s)
  <1>1. s # <<>>
    BY DEF Planned, Ahead
  <1>2. s \in Seq(Names)
    BY DEF Planned
  <1>3. /\ Head(s) \in Names /\ Tail(s) \in Seq(Names)
        /\ Head(s) = s[1] /\ 1 \in DOMAIN s
        /\ \A i \in DOMAIN Tail(s) : i + 1 \in DOMAIN s /\ i \in Nat /\ Tail(s)[i] = s[i + 1]
        /\ Head(s) \in Ahead(s)
        /\ Ahead(s) = {Head(s)} \cup Ahead(Tail(s))
        /\ Once(Tail(s)) /\ Head(s) \notin Ahead(Tail(s))
    BY <1>1, <1>2, ListIs DEF Planned
  <1> DEFINE h == Head(s)
             t == Tail(s)
  <1> HIDE DEF h, t
  <1>4. ASSUME NEW i \in DOMAIN t
        PROVE  t[i] \notin First3 /\ Order[h] <= Order[t[i]]
    <2>1. i + 1 \in DOMAIN s /\ i + 1 # 1 /\ 1 < i + 1 /\ t[i] = s[i + 1]
      BY <1>3 DEF t, Planned
    <2>2. QED BY <1>3, <2>1 DEF h, Planned
  <1>5. \A x \in Ahead(t) : x # h /\ Order[h] <= Order[x]
    BY <1>3, <1>4 DEF Ahead, h, t
  <1>6. \A i, j \in DOMAIN t : i < j => Order[t[i]] <= Order[t[j]]
    <2>1. ASSUME NEW i \in DOMAIN t, NEW j \in DOMAIN t, i < j
          PROVE  Order[t[i]] <= Order[t[j]]
      <3>1. i + 1 \in DOMAIN s /\ j + 1 \in DOMAIN s /\ i + 1 < j + 1 /\ t[i] = s[i + 1] /\ t[j] = s[j + 1]
        BY <1>3, <2>1 DEF t
      <3>2. QED BY <3>1 DEF Planned
    <2>2. QED BY <2>1
  <1>7. h \in {"mismatch", "remove"} \/ {"mismatch", "remove"} \cap Ahead(t) # {} => "mkdir" \in Ahead(t)
    <2>1. {"mismatch", "remove"} \cap Ahead(t) = {}
      BY <1>4 DEF Ahead, First3
    <2>2. SUFFICES ASSUME h \in {"mismatch", "remove"}
                   PROVE  "mkdir" \in Ahead(t)
      BY <2>1
    <2>3. "mkdir" \in Ahead(s)
      BY <1>3, <2>2 DEF Planned, h
    <2>4. QED BY <1>3, <2>2, <2>3 DEF h, t
  <1>8. h \in {"stamp", "copied", "verify", "end"} \/ "stamp" \in Ahead(t)
    <2>1. CASE pc \in {"stamp", "copied", "verify"}
      BY <1>3, <2>1 DEF Planned, h, Order, Names
    <2>2. CASE pc \notin {"stamp", "copied", "verify"}
      BY <1>3, <2>2 DEF Planned, h, t
    <2>3. QED BY <2>1, <2>2
  <1>9. h = "end" \/ "end" \in Ahead(t)
    BY <1>3 DEF Planned, h, t
  <1>10. \A i \in DOMAIN t : t[i] \in First3 => i = 1 /\ h = "walk"
    BY <1>4
  <1>11. Planned(h, t)
    BY <1>3, <1>5, <1>6, <1>7, <1>8, <1>9, <1>10 DEF Planned, h, t
  <1>12. h # pc /\ (pc # "walk" => h \notin First3) /\ (pc \in {"mismatch", "remove"} => "mkdir" \in Ahead(s))
    BY <1>3 DEF Planned, h
  <1>13. QED BY <1>1, <1>3, <1>11, <1>12 DEF h, t

\* At the end nothing is left to do.
LEMMA PlanEnds ==
  ASSUME NEW s, Planned("end", s)
  PROVE  Ahead(s) = {}
  <1>1. ASSUME NEW x \in Ahead(s) PROVE FALSE
    <2>1. x \in Names /\ x # "end" /\ 8 <= Order[x]
      BY DEF Planned, Ahead, Order
    <2>2. QED BY <2>1 DEF Names, Order
  <1>2. QED BY <1>1

----------------------------------------------------------------------------
(* What a step does to the pass. *)

\* The pass compares the same and counts the same.
Compares(r, s) == s.variant = r.variant /\ s.rel = r.rel /\ s.S = r.S /\ s.D = r.D
Counts(r, s) == s.changing = r.changing /\ s.failed = r.failed /\ s.fatal = r.fatal

\* The list of what a phase has to do.
LEMMA TodoIs ==
  ASSUME NEW r
  PROVE  /\ Todo(r, "mismatch") = Mismatch(r.S, r.D)
         /\ Todo(r, "remove") = Mismatch(r.S, r.D) \cup Extras(r.S, r.D, r.rel)
         /\ Todo(r, "extras") = Extras(r.S, r.D, r.rel)
         /\ Todo(r, "mkdir") = {p \in Path : r.S[p].kind = "dir"}
         /\ Todo(r, "mkover") = {p \in Path : r.S[p].kind = "dir" /\ (r.variant = "reconcile" => r.D[p].kind # "dir")}
         /\ \A x \in Names \ {"mismatch", "remove", "extras", "mkdir", "mkover"} : Todo(r, x) = {}
         /\ \A x \in Names : Todo(r, x) \in SUBSET Path
  <1>1. Mismatch(r.S, r.D) \in SUBSET Path /\ Extras(r.S, r.D, r.rel) \in SUBSET Path
    BY DEF Mismatch, Extras
  <1>2. {p \in Path : r.S[p].kind = "dir"} \in SUBSET Path
    OBVIOUS
  <1>3. {p \in Path : r.S[p].kind = "dir" /\ (r.variant = "reconcile" => r.D[p].kind # "dir")} \in SUBSET Path
    OBVIOUS
  <1>4. Todo(r, "mismatch") = Mismatch(r.S, r.D)
    BY DEF Todo
  <1>5. Todo(r, "remove") = Mismatch(r.S, r.D) \cup Extras(r.S, r.D, r.rel)
    BY DEF Todo
  <1>6. Todo(r, "extras") = Extras(r.S, r.D, r.rel)
    BY DEF Todo
  <1>7. Todo(r, "mkdir") = {p \in Path : r.S[p].kind = "dir"}
    BY DEF Todo
  <1>8. Todo(r, "mkover") = {p \in Path : r.S[p].kind = "dir" /\ (r.variant = "reconcile" => r.D[p].kind # "dir")}
    BY DEF Todo
  <1>9. \A x \in Names \ {"mismatch", "remove", "extras", "mkdir", "mkover"} : Todo(r, x) = {}
    BY DEF Todo, Names
  <1> HIDE DEF Todo
  <1>10. ASSUME NEW x \in Names
         PROVE  Todo(r, x) \in SUBSET Path
    <2>1. CASE x \in {"mismatch", "remove", "extras"}
      BY <1>1, <1>4, <1>5, <1>6, <2>1
    <2>2. CASE x = "mkdir"
      BY <1>2, <1>7, <2>2
    <2>3. CASE x = "mkover"
      BY <1>3, <1>8, <2>3
    <2>4. CASE x \notin {"mismatch", "remove", "extras", "mkdir", "mkover"}
      BY <1>9, <2>4
    <2>5. QED BY <2>1, <2>2, <2>3, <2>4
  <1>11. QED BY <1>4, <1>5, <1>6, <1>7, <1>8, <1>9, <1>10

\* What is to be copied is all of the work, and no part of it is empty.
LEMMA PushWorkIs ==
  ASSUME NEW r
  PROVE  /\ PlanPushWork(r) \in SUBSET (SUBSET Path)
         /\ \A i \in PlanPushWork(r) : i # {} /\ i \subseteq ToCopy(r.S, r.D, ByEvents(r))
         /\ \A p \in ToCopy(r.S, r.D, ByEvents(r)) : \E i \in PlanPushWork(r) : p \in i
  <1> DEFINE P == ToCopy(r.S, r.D, ByEvents(r))
             small == {p \in P : /\ r.variant \in {"push_full", "push_events"}
                                 /\ r.S[p].kind = "file" /\ ~Delta(r, p)}
  <1>1. P \subseteq Path /\ small \subseteq P
    BY DEF ToCopy
  <1>2. PlanPushWork(r) = {{p} : p \in P \ small} \cup (IF small = {} THEN {} ELSE {small})
    BY DEF PlanPushWork
  <1> HIDE DEF P, small
  <1>3. \A i \in PlanPushWork(r) : i # {} /\ i \subseteq P
    BY <1>1, <1>2
  <1>4. \A p \in P : \E i \in PlanPushWork(r) : p \in i
    BY <1>1, <1>2
  <1>5. QED BY <1>1, <1>3, <1>4 DEF P

\* The pass enters its next phase.
LEMMA OnwardIs ==
  ASSUME NEW r, IsRun(r), Planned(r.pc, r.plan), r.pc # "end", NEW s, s = Onward(r)
  PROVE  /\ IsRun(s) /\ Compares(r, s) /\ Counts(r, s) /\ s.result = r.result
         /\ s.pc = Head(r.plan) /\ s.plan = Tail(r.plan)
         /\ s.todo = Todo(r, s.pc)
         /\ s.work = IF s.pc = "copy" THEN PlanPushWork(r) ELSE {}
  <1> DEFINE h == Head(r.plan)
             t == Tail(r.plan)
             d == Todo(r, h)
             w == IF h = "copy" THEN PlanPushWork(r) ELSE {}
  <1>1. h \in Names /\ t \in Seq(Names)
    <2>1. Head(r.plan) \in Names /\ Planned(Head(r.plan), Tail(r.plan))
      BY PlanGoesOn
    <2>2. QED BY <2>1 DEF Planned
  <1>2. d \in SUBSET Path /\ w \in SUBSET (SUBSET Path)
    BY <1>1, TodoIs, PushWorkIs
  <1>3. s = [r EXCEPT !.pc = h, !.plan = t, !.todo = d, !.work = w]
    BY DEF Onward
  <1> HIDE DEF h, t, d, w
  <1>4. /\ DOMAIN s = Fields
        /\ s.pc = h /\ s.plan = t /\ s.todo = d /\ s.work = w
        /\ s.variant = r.variant /\ s.rel = r.rel /\ s.S = r.S /\ s.D = r.D
        /\ s.changing = r.changing /\ s.failed = r.failed /\ s.fatal = r.fatal /\ s.result = r.result
        /\ s.queue = r.queue /\ s.listed = r.listed
    BY <1>3 DEF IsRun, Fields
  <1>5. IsRun(s)
    BY <1>1, <1>2, <1>4 DEF IsRun, Pcs
  <1>6. QED BY <1>4, <1>5 DEF Compares, Counts, h, t, d, w

\* The pass gives up.
LEMMA FailIs ==
  ASSUME IsRun(run), Fail
  PROVE  /\ IsRun(run') /\ Compares(run, run') /\ Counts(run, run')
         /\ run'.pc = "done" /\ run'.result = "err"
  <1>1. run' = [run EXCEPT !.pc = "done", !.result = "err"]
    BY DEF Fail
  <1>2. /\ DOMAIN run' = Fields
        /\ run'.pc = "done" /\ run'.result = "err" /\ run'.plan = run.plan /\ run'.todo = run.todo
        /\ run'.work = run.work
        /\ run'.variant = run.variant /\ run'.rel = run.rel /\ run'.S = run.S /\ run'.D = run.D
        /\ run'.changing = run.changing /\ run'.failed = run.failed /\ run'.fatal = run.fatal
        /\ run'.queue = run.queue /\ run'.listed = run.listed
    BY <1>1 DEF IsRun, Fields
  <1>3. IsRun(run')
    BY <1>2 DEF IsRun, Pcs
  <1>4. QED BY <1>2, <1>3 DEF Compares, Counts

\* Entries that keep their kind leave a tree a tree.
LEMMA TreeKinds ==
  ASSUME NEW t, NEW u, Tree(t), \A q \in Path : u[q].kind = t[q].kind
  PROVE  Tree(u)
  BY TreeAssumption DEF Tree, Exists, IsDir

\* Apart from what is below an entry, only the directory it is in is touched.
LEMMA Elsewhere ==
  ASSUME NEW t \in [Path -> Node], NEW p \in Path, NEW node, NEW q \in Path, q # Parent[p]
  PROVE  /\ q \notin Subtree(p) => Without(t, p)[q] = t[q]
         /\ q # p => With(t, p, node)[q] = t[q]
  <1>1. ASSUME NEW u, DOMAIN u = Path
        PROVE  Touched(u, p)[q] = u[q]
    <2>1. CASE Parent[p] = Root
      BY <2>1 DEF Touched
    <2>2. CASE Parent[p] # Root
      BY <1>1, <2>2 DEF Touched
    <2>3. QED BY <2>1, <2>2
  <1>2. ASSUME q \notin Subtree(p)
        PROVE  Without(t, p)[q] = t[q]
    <2> DEFINE u == [x \in Path |-> IF x \in Subtree(p) THEN Absent ELSE t[x]]
    <2>1. DOMAIN u = Path /\ u[q] = t[q]
      BY <1>2
    <2>2. Without(t, p) = Touched(u, p)
      BY DEF Without
    <2> HIDE DEF u
    <2>3. QED BY <1>1, <2>1, <2>2
  <1>3. ASSUME q # p
        PROVE  With(t, p, node)[q] = t[q]
    <2> DEFINE u == [t EXCEPT ![p] = node]
    <2>1. DOMAIN u = Path /\ u[q] = t[q]
      BY <1>3
    <2>2. With(t, p, node) = Touched(u, p)
      BY DEF With
    <2> HIDE DEF u
    <2>3. QED BY <1>1, <2>1, <2>2
  <1>4. QED BY <1>2, <1>3

\* What the mode and stamp phases make of the destination.
Remoded == [p \in Path |-> IF p \in ModeFixes(run.S, run.D, ByEvents(run)) /\ Exists(dst, p)
                           THEN [dst[p] EXCEPT !.mode = run.S[p].mode] ELSE dst[p]]
Restamped == [p \in Path |-> IF run.S[p].kind = "dir" /\ Exists(dst, p)
                             THEN [dst[p] EXCEPT !.ver = run.S[p].ver] ELSE dst[p]]

\* transfer_set_modes changes modes and nothing else.
LEMMA ModesAre ==
  ASSUME IsTree(dst), run.S \in [Path -> Node]
  PROVE  /\ IsTree(Remoded)
         /\ \A p \in Path :
              /\ Remoded[p].kind = dst[p].kind /\ Remoded[p].ver = dst[p].ver /\ Remoded[p].look = dst[p].look
              /\ Remoded[p].mode = IF p \in ModeFixes(run.S, run.D, ByEvents(run)) /\ Exists(dst, p)
                                   THEN run.S[p].mode ELSE dst[p].mode
              /\ p \notin ModeFixes(run.S, run.D, ByEvents(run)) => Remoded[p] = dst[p]
              /\ p \in ModeFixes(run.S, run.D, ByEvents(run)) /\ Exists(dst, p)
                   => Remoded[p] = [dst[p] EXCEPT !.mode = run.S[p].mode]
  <1> DEFINE F == ModeFixes(run.S, run.D, ByEvents(run))
             u == Remoded
  <1>1. \A p \in Path : u[p] = IF p \in F /\ Exists(dst, p) THEN [dst[p] EXCEPT !.mode = run.S[p].mode] ELSE dst[p]
    BY DEF Remoded
  <1>2. u = [p \in Path |-> u[p]]
    BY DEF Remoded
  <1> HIDE DEF F, u
  <1>3. ASSUME NEW p \in Path
        PROVE  /\ u[p] \in Node /\ u[p].kind = dst[p].kind /\ u[p].ver = dst[p].ver /\ u[p].look = dst[p].look
               /\ u[p].mode = IF p \in F /\ Exists(dst, p) THEN run.S[p].mode ELSE dst[p].mode
    <2>1. dst[p] \in Node /\ run.S[p] \in Node
      BY DEF IsTree
    <2>2. run.S[p].mode \in {0, 1}
      BY <2>1 DEF Node
    <2> DEFINE m == run.S[p].mode
               x == dst[p]
    <2>3. u[p] = IF p \in F /\ Exists(dst, p) THEN [x EXCEPT !.mode = m] ELSE x
      BY <1>1
    <2> HIDE DEF m, x
    <2>4. x \in Node /\ m \in {0, 1}
      BY <2>1, <2>2 DEF m, x
    <2>5. QED BY <2>3, <2>4 DEF m, x, Node
  <1>4. u \in [Path -> Node]
    BY <1>2, <1>3
  <1>5. Tree(u)
    BY <1>3, TreeKinds DEF IsTree
  <1>6. QED BY <1>1, <1>3, <1>4, <1>5 DEF IsTree, F, u

\* set_dir_mtimes changes times of directories and of nothing else that is one in both.
LEMMA StampsAre ==
  ASSUME IsTree(dst), run.S \in [Path -> Node]
  PROVE  /\ IsTree(Restamped)
         /\ \A p \in Path :
              /\ Restamped[p].kind = dst[p].kind
              /\ ~(run.S[p].kind = "dir" /\ Exists(dst, p)) => Restamped[p] = dst[p]
              /\ run.S[p].kind = "dir" /\ Exists(dst, p) => Restamped[p].ver = run.S[p].ver
              /\ dst[p].kind = "dir" => Same(dst[p], Restamped[p])
  <1> DEFINE u == Restamped
  <1>1. \A p \in Path : u[p] = IF run.S[p].kind = "dir" /\ Exists(dst, p) THEN [dst[p] EXCEPT !.ver = run.S[p].ver] ELSE dst[p]
    BY DEF Restamped
  <1>2. u = [p \in Path |-> u[p]]
    BY DEF Restamped
  <1> HIDE DEF u
  <1>3. ASSUME NEW p \in Path
        PROVE  /\ u[p] \in Node /\ u[p].kind = dst[p].kind
               /\ run.S[p].kind = "dir" /\ Exists(dst, p) => u[p].ver = run.S[p].ver
               /\ dst[p].kind = "dir" => Same(dst[p], u[p])
    <2>1. dst[p] \in Node /\ run.S[p] \in Node
      BY DEF IsTree
    <2>2. run.S[p].ver \in Nat
      BY <2>1 DEF Node
    <2> DEFINE n == run.S[p].ver
               x == dst[p]
    <2>3. u[p] = IF run.S[p].kind = "dir" /\ Exists(dst, p) THEN [x EXCEPT !.ver = n] ELSE x
      BY <1>1
    <2> HIDE DEF n, x
    <2>4. x \in Node /\ n \in Nat
      BY <2>1, <2>2 DEF n, x
    <2>5. [x EXCEPT !.ver = n].ver = n
      BY <2>4 DEF Node
    <2>6. /\ [x EXCEPT !.ver = n] \in Node /\ [x EXCEPT !.ver = n].kind = x.kind
          /\ x.kind = "dir" => Same(x, [x EXCEPT !.ver = n])
      BY <2>4, Retimed
    <2>7. Same(x, x)
      BY DEF Same
    <2>8. QED BY <2>3, <2>4, <2>5, <2>6, <2>7 DEF n, x
  <1>4. u \in [Path -> Node]
    BY <1>2, <1>3
  <1>5. Tree(u)
    BY <1>3, TreeKinds DEF IsTree
  <1>6. QED BY <1>1, <1>3, <1>4, <1>5 DEF IsTree, u

\* What a user changes: a subtree, and the time of the directory it is in.
LEMMA EditIs ==
  ASSUME IsTree(src), NEW p \in Path, clock \in Nat, Edit(p)
  PROVE  /\ IsTree(src') /\ clock' = clock + 1
         /\ \A q \in Path : q \notin Subtree(p) =>
               Same(src[q], src'[q]) /\ (q # Parent[p] => src'[q] = src[q])
         /\ \A q \in Path : src'[q].kind = "file" =>
               \/ src[q].kind = "file" /\ src'[q].ver = src[q].ver /\ src'[q].look = src[q].look
               \/ q = p /\ src'[q].ver = clock'
  <1> DEFINE v == clock + 1
             node(k) == [kind |-> k, ver |-> v, look |-> v, mode |-> 0]
             t(n) == With(Without(src, p), p, n)
             put(n) == IF Parent[p] = Root THEN t(n) ELSE [t(n) EXCEPT ![Parent[p]].ver = v]
             u == src'
             Good == /\ IsTree(u)
                     /\ \A q \in Path : q \notin Subtree(p) => Same(src[q], u[q]) /\ (q # Parent[p] => u[q] = src[q])
                     /\ \A q \in Path : u[q].kind = "file" =>
                          \/ src[q].kind = "file" /\ u[q].ver = src[q].ver /\ u[q].look = src[q].look
                          \/ q = p /\ u[q].ver = v
  <1>0. v \in Nat /\ clock' = v /\ p \in Subtree(p) /\ Parent[p] # p /\ Parent[p] \notin Subtree(p)
    BY SubtreeIs DEF Edit
  <1>1. IsDir(src, Parent[p])
    BY DEF Edit
  <1>2. \/ \E k \in {"file", "link", "dir"} : u = put(node(k))
        \/ Exists(src, p) /\ u = put(Absent)
        \/ src[p].kind = "file" /\ u = [src EXCEPT ![p].ver = v]
        \/ src[p].kind = "file" /\ u = [src EXCEPT ![p].mode = 1 - @]
    BY DEF Edit
  <1>3. \A k \in {"file", "link", "dir"} : node(k) \in Node /\ node(k).ver = v
    BY <1>0 DEF Node, KindSet
  <1> HIDE DEF v, u, node, put, Good
  <1>4. ASSUME NEW n \in Node, n.kind = "none" \/ n.ver = v, u = put(n)
        PROVE  Good
    <2> DEFINE w == Without(src, p)
               x == With(w, p, n)
    <2>1. /\ IsTree(w) /\ IsDir(w, Parent[p])
          /\ \A q \in Path : IF q \in Subtree(p) THEN w[q] = Absent ELSE Same(src[q], w[q])
      BY <1>1, WithoutIs
    <2>2. \A q \in Path : q # Parent[p] /\ q \notin Subtree(p) => w[q] = src[q]
      BY Elsewhere DEF IsTree
    <2> HIDE DEF w
    <2>3. \A q \in Path : Parent[q] = p => ~Exists(w, q)
      BY <2>1, SubtreeIs, Nodes DEF Exists
    <2>4. /\ IsTree(x) /\ x[p] = n
          /\ \A q \in Path : q # p => Same(w[q], x[q])
      BY <2>1, <2>3, WithIs
    <2>5. \A q \in Path : q # Parent[p] /\ q # p => x[q] = w[q]
      BY <2>1, Elsewhere DEF IsTree
    <2>6. u = IF Parent[p] = Root THEN x ELSE [x EXCEPT ![Parent[p]].ver = v]
      BY <1>4 DEF w, put
    <2> HIDE DEF x
    <2>7. /\ IsTree(u) /\ u[p] = n
          /\ \A q \in Path : q # p /\ q # Parent[p] => u[q] = x[q]
          /\ \A q \in Path : q # p => Same(x[q], u[q])
      <3>1. CASE Parent[p] = Root
        BY <2>4, <2>6, <3>1 DEF Same
      <3>2. CASE Parent[p] # Root
        <4> DEFINE d == Parent[p]
        <4>1. d \in Path /\ d # p /\ x[d].kind = "dir" /\ x[d] \in Node
          BY <1>0, <2>1, <2>4, <3>2, TreeAssumption DEF IsDir, Same, IsTree
        <4>2. u = [x EXCEPT ![d] = [x[d] EXCEPT !.ver = v]]
          BY <2>6, <3>2
        <4>3. [x[d] EXCEPT !.ver = v] \in Node /\ Same(x[d], [x[d] EXCEPT !.ver = v])
          BY <1>0, <4>1, Retimed
        <4> DEFINE m == [x[d] EXCEPT !.ver = v]
        <4> HIDE DEF m, d
        <4>4. u \in [Path -> Node] /\ u[d] = m /\ \A q \in Path : q # d => u[q] = x[q]
          BY <2>4, <4>1, <4>2, <4>3 DEF m, IsTree
        <4>5. \A q \in Path : Same(x[q], u[q])
          BY <4>3, <4>4 DEF Same, m
        <4>6. Tree(u)
          BY <2>4, <4>5, TreeSame DEF IsTree
        <4>7. u[p] = n
          BY <2>4, <4>1, <4>4
        <4>8. QED BY <4>4, <4>5, <4>6, <4>7 DEF IsTree, d
      <3>3. QED BY <3>1, <3>2
    <2>8. ASSUME NEW q \in Path, q \notin Subtree(p)
          PROVE  Same(src[q], u[q]) /\ (q # Parent[p] => u[q] = src[q])
      <3>1. q # p
        BY <1>0, <2>8
      <3>2. Same(src[q], w[q]) /\ Same(w[q], x[q]) /\ Same(x[q], u[q])
        BY <2>1, <2>4, <2>7, <2>8, <3>1
      <3>3. Same(src[q], u[q])
        BY <3>2 DEF Same
      <3>4. q # Parent[p] => u[q] = src[q]
        BY <2>2, <2>5, <2>7, <2>8, <3>1
      <3>5. QED BY <3>3, <3>4
    <2>9. ASSUME NEW q \in Path, u[q].kind = "file"
          PROVE  \/ src[q].kind = "file" /\ u[q].ver = src[q].ver /\ u[q].look = src[q].look
                 \/ q = p /\ u[q].ver = v
      <3>1. CASE q = p
        BY <1>4, <2>7, <2>9, <3>1
      <3>2. CASE q # p /\ q \in Subtree(p)
        <4>1. q # Parent[p]
          BY <1>0, <3>2
        <4>2. u[q] = Absent
          BY <2>1, <2>5, <2>7, <3>2, <4>1
        <4>3. QED BY <2>9, <4>2, Nodes
      <3>3. CASE q \notin Subtree(p)
        BY <2>8, <2>9, <3>3 DEF Same
      <3>4. QED BY <3>1, <3>2, <3>3
    <2>10. QED BY <2>7, <2>8, <2>9 DEF Good
  <1>5. ASSUME \E k \in {"file", "link", "dir"} : u = put(node(k))
        PROVE  Good
    <2>1. PICK k \in {"file", "link", "dir"} : u = put(node(k))
      BY <1>5
    <2>2. node(k) \in Node /\ node(k).ver = v
      BY <1>3
    <2>3. QED BY <1>4, <2>1, <2>2
  <1>6. ASSUME u = put(Absent)
        PROVE  Good
    BY <1>4, <1>6, Nodes
  <1>7. ASSUME NEW y \in Node, src[p].kind = "file", y.kind = "file",
               y.ver = v \/ (y.ver = src[p].ver /\ y.look = src[p].look), u = [src EXCEPT ![p] = y]
        PROVE  Good
    <2>1. u \in [Path -> Node] /\ u[p] = y /\ \A q \in Path : q # p => u[q] = src[q]
      BY <1>7 DEF IsTree
    <2>2. Tree(u)
      BY <1>7, <2>1, TreeKinds DEF IsTree
    <2>3. QED BY <1>0, <1>7, <2>1, <2>2 DEF IsTree, Same, Good
  <1>8. src[p] \in Node
    BY DEF IsTree
  <1>9. ASSUME src[p].kind = "file" /\ u = [src EXCEPT ![p].ver = v]
        PROVE  Good
    <2> DEFINE y == [src[p] EXCEPT !.ver = v]
    <2>1. y \in Node /\ y.kind = "file" /\ y.ver = v
      BY <1>0, <1>8, <1>9 DEF Node
    <2>2. u = [src EXCEPT ![p] = y]
      BY <1>9
    <2> HIDE DEF y
    <2>3. QED BY <1>7, <1>9, <2>1, <2>2
  <1>10. ASSUME src[p].kind = "file" /\ u = [src EXCEPT ![p].mode = 1 - @]
         PROVE  Good
    <2> DEFINE y == [src[p] EXCEPT !.mode = 1 - src[p].mode]
    <2>1. y \in Node /\ y.kind = "file" /\ y.ver = src[p].ver /\ y.look = src[p].look
      BY <1>8, <1>10 DEF Node
    <2>2. u = [src EXCEPT ![p] = y]
      BY <1>10
    <2> HIDE DEF y
    <2>3. QED BY <1>7, <1>10, <2>1, <2>2
  <1>11. Good
    BY <1>2, <1>5, <1>6, <1>9, <1>10
  <1>12. QED BY <1>0, <1>11 DEF Good, u, v

----------------------------------------------------------------------------
(* The kinds of steps. *)

\* What only users, the start and the end of a pass change.
Others == UNCHANGED <<src, mirror, dirty, fresh, needFull, changed, clock>>

Same4(r, s) == s.pc = r.pc /\ s.plan = r.plan /\ s.todo = r.todo /\ s.result = r.result

\* A subtree of the destination is taken away.
Removes(x) ==
    \A q \in Path : IF q \in Subtree(x) THEN dst'[q] = Absent ELSE Same(dst[q], dst'[q])

\* The pass gives up.
Stops ==
    /\ Active /\ Others /\ dst' = dst
    /\ Compares(run, run') /\ Counts(run, run')
    /\ run'.pc = "done" /\ run'.result = "err"

\* What the next phase has to do.
Enters(r) ==
    /\ run'.pc = Head(run.plan) /\ run'.plan = Tail(run.plan) /\ run'.result = run.result
    /\ run'.todo = Todo(r, run'.pc)
    /\ run'.work = IF run'.pc = "copy" THEN PlanPushWork(r) ELSE {}
    /\ Counts(run, run') /\ pool' = NoPool

\* A directory is listed, an entry of a listing is there or is gone.
WalksDir ==
    /\ run.pc = "walk" /\ Others /\ dst' = dst
    /\ run.listed = {} /\ run.queue # <<>> /\ IsDir(src, Head(run.queue))
    /\ Same4(run, run') /\ Compares(run, run') /\ Counts(run, run')
    /\ run'.listed = Children(src, Head(run.queue)) \ Excluded /\ run'.queue = Tail(run.queue)
WalksEntry(p) ==
    /\ run.pc = "walk" /\ Others /\ dst' = dst
    /\ p \in run.listed /\ Exists(src, p)
    /\ Same4(run, run') /\ Counts(run, run')
    /\ run'.variant = run.variant /\ run'.rel = run.rel /\ run'.D = run.D
    /\ run'.S = [run.S EXCEPT ![p] = src[p]] /\ run'.listed = run.listed \ {p}
    /\ run'.queue = IF src[p].kind = "dir" THEN Append(run.queue, p) ELSE run.queue
WalksPast(p) ==
    /\ run.pc = "walk" /\ Others /\ dst' = dst
    /\ p \in run.listed /\ ~Exists(src, p)
    /\ Same4(run, run') /\ Compares(run, run') /\ Counts(run, run')
    /\ run'.listed = run.listed \ {p} /\ run'.queue = run.queue

\* The destination is listed and the first phase begins.
Listed == [p \in Path |-> IF ByEvents(run) /\ ~Covers(run.rel, p) THEN Absent ELSE dst[p]]
Scans ==
    /\ run.pc = "walk" /\ Others /\ dst' = dst
    /\ run.listed = {} /\ run.queue = <<>>
    /\ run'.variant = run.variant /\ run'.rel = run.rel /\ run'.S = run.S /\ run'.D = Listed
    /\ Enters(run')

\* A phase is over and the next begins.
GoesOn ==
    /\ Busy /\ run.pc # "end" /\ Others
    /\ Compares(run, run') /\ Enters(run)
    /\ run.pc \in {"mismatch", "remove", "extras", "mkdir", "mkover"} => run.todo = {}
    /\ run.pc = "copy" => ~run.fatal /\ \A w \in Worker : pool[w].pc = "off"
    /\ dst' = IF run.pc = "modes" THEN Remoded ELSE IF run.pc = "stamp" THEN Restamped ELSE dst

\* One path of a phase is done.
Tidies(x) ==
    /\ x \in run.todo /\ Others /\ pool' = pool
    /\ run'.pc = run.pc /\ run'.plan = run.plan /\ run'.result = run.result
    /\ Compares(run, run') /\ Counts(run, run') /\ run'.todo = run.todo \ {x}
    /\ \/ run.pc \in {"mismatch", "remove", "extras"} /\ dst' = dst /\ ~Exists(dst, x)
       \/ run.pc \in {"mismatch", "remove", "extras"} /\ Removes(x)
       \/ run.pc \in {"mkdir", "mkover"} /\ dst'[x].kind = "dir" /\ Writes(x)

\* A worker takes, sends or gives up what it has to send.
Due(p) == (\E i \in run.work : p \in i) \/ \E w \in Worker : p \in pool[w].item
Sends ==
    /\ run.pc = "copy" /\ Others /\ Same4(run, run') /\ Compares(run, run')
    /\ run.changing \subseteq run'.changing /\ run'.changing \subseteq run.changing \cup Copies
    /\ run.failed \subseteq run'.failed /\ (run.fatal => run'.fatal)
    /\ run'.failed = {} /\ ~run'.fatal =>
          \A p \in Path : Due(p) => Due(p)' \/ p \in run'.changing \/ dst'[p] = run.S[p]
    /\ run'.work \subseteq run.work
    /\ \A w \in Worker : pool'[w].pc = "off" => pool[w].pc = "off" \/ run'.fatal \/ run.work = {}
    /\ \/ dst' = dst
       \/ \E x \in Copies : /\ src[x].kind = run.S[x].kind /\ src[x].ver = run.S[x].ver
                            /\ dst'[x] = run.S[x] /\ Writes(x)

\* What the pass comes to.
Ends ==
    /\ run.pc = "end" /\ Others /\ dst' = dst
    /\ Compares(run, run') /\ Counts(run, run') /\ run'.pc = "done"
    /\ run'.result = IF run.failed # {} THEN "err" ELSE IF run.changing # {} THEN "changing" ELSE "ok"

\* What the pass leaves alone keeps its type.
LEMMA BaseKept ==
  ASSUME BaseInv, Others, IsTree(dst'), IsTree(trash'),
         left' = left \/ (left' = [left EXCEPT !.faults = @ - 1] /\ left.faults > 0)
  PROVE  BaseInv'
  <1>1. left' \in [edits : Nat, faults : Nat, foreign : BOOLEAN, ways : SUBSET DOMAIN Phases]
    BY DEF BaseInv
  <1> HIDE DEF IsTree
  <1>2. QED BY <1>1 DEF BaseInv, Others, IsTree, Tree, Exists, IsDir

\* New workers have nothing to send.
LEMMA NewPool ==
  /\ IsPool(NoPool) /\ \A w \in Worker : NoPool[w].pc = "loop" /\ NoPool[w].item = {}
  BY DEF IsPool, IsWorker, NoPool

\* Outside the copy phase the workers are new.
LEMMA NewWork ==
  ASSUME run.pc # "copy", pool = NoPool
  PROVE  WorkInv
  BY DEF WorkInv

\* A pass that gave up.
LEMMA StopsTyped ==
  ASSUME TypeInv, Active, Fail, pool' = NoPool \/ (pool' = pool /\ run.pc # "copy"), Others, dst' = dst, trash' = trash,
         left' = left \/ (left' = [left EXCEPT !.faults = @ - 1] /\ left.faults > 0)
  PROVE  TypeInv' /\ Stops
  <1>1. /\ IsRun(run') /\ Compares(run, run') /\ Counts(run, run')
        /\ run'.pc = "done" /\ run'.result = "err"
    BY FailIs DEF TypeInv
  <1>2. pool' = NoPool
    BY DEF TypeInv, WorkInv
  <1>3. BaseInv'
    BY BaseKept DEF TypeInv, BaseInv
  <1>4. WorkInv'
    BY <1>1, <1>2 DEF WorkInv, NoPool
  <1>5. IsPool(pool')
    BY <1>2, NewPool
  <1>6. QED BY <1>1, <1>3, <1>4, <1>5 DEF TypeInv, Stops

\* Entering a phase, the pass is well formed.
LEMMA EntersTyped ==
  ASSUME NEW r, IsRun(r), r.pc = run.pc, r.plan = run.plan, r.result = run.result, Counts(run, r),
         Planned(r.pc, r.plan), r.pc # "end", run' = Onward(r), pool' = NoPool
  PROVE  /\ IsRun(run') /\ IsPool(pool') /\ WorkInv'
         /\ Compares(r, run') /\ Enters(r)
  <1> DEFINE s == run'
  <1>1. /\ IsRun(s) /\ Compares(r, s) /\ Counts(r, s) /\ s.result = r.result
        /\ s.pc = Head(r.plan) /\ s.plan = Tail(r.plan)
        /\ s.todo = Todo(r, s.pc)
        /\ s.work = IF s.pc = "copy" THEN PlanPushWork(r) ELSE {}
    <2> HIDE DEF s
    <2>1. s = Onward(r)
      BY DEF s
    <2>2. QED BY <2>1, OnwardIs
  <1>2. Enters(r)
    BY <1>1 DEF Enters, Counts
  <1>3. IsPool(pool')
    BY NewPool
  <1>4. WorkInv'
    <2>1. CASE run'.pc = "copy"
      <3>1. run'.work = PlanPushWork(r)
        BY <1>1, <2>1
      <3>2. \A i \in PlanPushWork(r) : i # {} /\ i \subseteq ToCopy(r.S, r.D, ByEvents(r))
        BY PushWorkIs
      <3>3. Copies' = ToCopy(r.S, r.D, ByEvents(r))
        BY <1>1 DEF Copies, Compares, ByEvents
      <3>4. \A w \in Worker : pool'[w].item = {} /\ pool'[w].pc = "loop"
        BY NewPool
      <3> HIDE DEF Copies
      <3>5. QED BY <2>1, <3>1, <3>2, <3>3, <3>4 DEF WorkInv
    <2>2. CASE run'.pc # "copy"
      BY <2>2 DEF WorkInv, NoPool
    <2>3. QED BY <2>1, <2>2
  <1>5. QED BY <1>1, <1>2, <1>3, <1>4

\* A phase is over.
LEMMA GoesOnTyped ==
  ASSUME TypeInv, PlanInv, Busy, run.pc # "end", Others, run' = Onward(run), pool' = NoPool, trash' = trash, left' = left,
         run.pc \in {"mismatch", "remove", "extras", "mkdir", "mkover"} => run.todo = {},
         run.pc = "copy" => ~run.fatal /\ \A w \in Worker : pool[w].pc = "off",
         dst' = IF run.pc = "modes" THEN Remoded ELSE IF run.pc = "stamp" THEN Restamped ELSE dst
  PROVE  TypeInv' /\ GoesOn
  <1>1. IsRun(run) /\ Planned(run.pc, run.plan) /\ Counts(run, run)
    BY DEF TypeInv, PlanInv, Busy, Counts
  <1>2. /\ IsRun(run') /\ IsPool(pool') /\ WorkInv'
        /\ Compares(run, run') /\ Enters(run)
    BY <1>1, EntersTyped
  <1>3. IsTree(dst')
    <2>1. IsTree(dst) /\ run.S \in [Path -> Node]
      BY DEF TypeInv, BaseInv, IsRun
    <2>2. IsTree(Remoded) /\ IsTree(Restamped)
      BY <2>1, ModesAre, StampsAre
    <2> HIDE DEF IsTree
    <2>3. QED BY <2>1, <2>2
  <1>4. BaseInv'
    BY <1>3, BaseKept DEF TypeInv, BaseInv
  <1>5. QED BY <1>2, <1>4 DEF TypeInv, GoesOn

\* The listing of the destination ends the walk.
LEMMA ScanTyped ==
  ASSUME TypeInv, PlanInv, ScanDst
  PROVE  TypeInv' /\ (Stops \/ Scans)
  <1>1. run.pc = "walk" /\ run.listed = {} /\ run.queue = <<>> /\ Others /\ dst' = dst /\ trash' = trash
        /\ left' = left /\ pool' = pool /\ Active
    BY DEF ScanDst, passVars, Others, Active
  <1>2. CASE Fail
    BY <1>1, <1>2, StopsTyped
  <1>3. CASE run' = Onward([run EXCEPT !.D = Listed])
    <2> DEFINE r == [run EXCEPT !.D = Listed]
    <2>0. Listed \in [Path -> Node]
      BY Nodes DEF Listed, TypeInv, BaseInv, IsTree
    <2>1. /\ DOMAIN r = Fields
          /\ r.D = Listed /\ r.pc = run.pc /\ r.plan = run.plan /\ r.result = run.result
          /\ r.variant = run.variant /\ r.rel = run.rel /\ r.S = run.S
          /\ r.changing = run.changing /\ r.failed = run.failed /\ r.fatal = run.fatal
          /\ r.queue = run.queue /\ r.listed = run.listed /\ r.todo = run.todo /\ r.work = run.work
      BY DEF TypeInv, IsRun, Fields
    <2>2. run' = Onward(r)
      BY <1>3
    <2> HIDE DEF r
    <2>3. IsRun(r)
      BY <2>0, <2>1 DEF TypeInv, IsRun
    <2>4. Planned(r.pc, r.plan) /\ r.pc # "end" /\ Counts(run, r)
      BY <1>1, <2>1 DEF PlanInv, Counts
    <2>5. pool' = NoPool
      BY <1>1 DEF TypeInv, WorkInv
    <2>6. /\ IsRun(run') /\ IsPool(pool') /\ WorkInv'
          /\ Compares(r, run') /\ Enters(r)
      BY <2>1, <2>2, <2>3, <2>4, <2>5, EntersTyped
    <2>7. BaseInv'
      BY <1>1, BaseKept DEF TypeInv, BaseInv
    <2>8. run'.todo = Todo(run', run'.pc) /\ PlanPushWork(run') = PlanPushWork(r)
      BY <2>6 DEF Enters, Compares, Todo, PlanPushWork, ByEvents, Delta
    <2>9. Enters(run')
      BY <2>6, <2>8 DEF Enters
    <2>10. Scans
      BY <1>1, <2>1, <2>6, <2>9 DEF Scans, Compares
    <2>11. QED BY <2>6, <2>7, <2>10 DEF TypeInv
  <1>4. QED BY <1>2, <1>3 DEF ScanDst, Listed

\* A run with another list of what is to be done.
LEMMA TodoTyped ==
  ASSUME IsRun(run), NEW x, run' = [run EXCEPT !.todo = @ \ {x}]
  PROVE  /\ IsRun(run') /\ Compares(run, run') /\ Counts(run, run')
         /\ run'.pc = run.pc /\ run'.plan = run.plan /\ run'.result = run.result
         /\ run'.todo = run.todo \ {x}
  <1>1. /\ DOMAIN run' = Fields /\ run'.todo = run.todo \ {x}
        /\ run'.D = run.D /\ run'.pc = run.pc /\ run'.plan = run.plan /\ run'.result = run.result
        /\ run'.variant = run.variant /\ run'.rel = run.rel /\ run'.S = run.S
        /\ run'.changing = run.changing /\ run'.failed = run.failed /\ run'.fatal = run.fatal
        /\ run'.queue = run.queue /\ run'.listed = run.listed /\ run'.work = run.work
    BY DEF IsRun, Fields
  <1>2. IsRun(run')
    BY <1>1 DEF IsRun
  <1>3. QED BY <1>1, <1>2 DEF Compares, Counts

\* One path of a phase is done.
LEMMA TidiesTyped ==
  ASSUME TypeInv, NEW x \in run.todo, run.pc \notin {"walk", "copy"}, run' = [run EXCEPT !.todo = @ \ {x}],
         Others, pool' = pool, left' = left, IsTree(dst'), IsTree(trash'),
         \/ run.pc \in {"mismatch", "remove", "extras"} /\ dst' = dst /\ ~Exists(dst, x)
         \/ run.pc \in {"mismatch", "remove", "extras"} /\ Removes(x)
         \/ run.pc \in {"mkdir", "mkover"} /\ dst'[x].kind = "dir" /\ Writes(x)
  PROVE  TypeInv' /\ Tidies(x)
  <1>1. IsRun(run)
    BY DEF TypeInv
  <1>2. /\ IsRun(run') /\ Compares(run, run') /\ Counts(run, run')
        /\ run'.pc = run.pc /\ run'.plan = run.plan /\ run'.result = run.result
        /\ run'.todo = run.todo \ {x}
    BY <1>1, TodoTyped
  <1>3. BaseInv'
    BY BaseKept DEF TypeInv
  <1>4. WorkInv'
    BY <1>2 DEF TypeInv, WorkInv, NoPool
  <1>5. IsPool(pool')
    BY DEF TypeInv
  <1>6. QED BY <1>2, <1>3, <1>4, <1>5 DEF TypeInv, Tidies

\* The walk of the source.
LEMMA WalkTyped ==
  ASSUME TypeInv, WalkDir \/ \E p \in Path : WalkEntry(p)
  PROVE  TypeInv' /\ (Stops \/ WalksDir \/ \E p \in Path : WalksEntry(p) \/ WalksPast(p))
  <1>1. run.pc = "walk" /\ Others /\ dst' = dst /\ trash' = trash /\ left' = left /\ pool' = pool /\ Active
    BY DEF WalkDir, WalkEntry, passVars, Others, Active
  <1>2. BaseInv' /\ IsRun(run) /\ DOMAIN run = Fields /\ pool' = NoPool /\ IsPool(pool')
    BY <1>1, BaseKept DEF TypeInv, BaseInv, WorkInv, IsRun
  <1>3. CASE Fail
    BY <1>1, <1>3, StopsTyped
  <1>4. CASE WalkDir /\ ~Fail
    <2> DEFINE l == Children(src, Head(run.queue)) \ Excluded
               q == Tail(run.queue)
    <2>1. run.queue # <<>> /\ IsDir(src, Head(run.queue)) /\ run.listed = {}
          /\ run' = [run EXCEPT !.listed = l, !.queue = q]
      BY <1>4 DEF WalkDir
    <2>2. run.queue \in Seq(Path \cup {Root}) /\ l \in SUBSET Path
      BY <1>2 DEF IsRun, Children
    <2>3. q \in Seq(Path \cup {Root})
      BY <2>1, <2>2, ListIs
    <2> HIDE DEF l, q
    <2>4. /\ DOMAIN run' = Fields /\ run'.listed = l /\ run'.queue = q /\ run'.todo = run.todo
          /\ run'.D = run.D /\ run'.pc = run.pc /\ run'.plan = run.plan /\ run'.result = run.result
          /\ run'.variant = run.variant /\ run'.rel = run.rel /\ run'.S = run.S
          /\ run'.changing = run.changing /\ run'.failed = run.failed /\ run'.fatal = run.fatal
          /\ run'.work = run.work
      BY <1>2, <2>1 DEF Fields
    <2>5. IsRun(run')
      BY <1>2, <2>2, <2>3, <2>4 DEF IsRun
    <2>6. WorkInv'
      BY <1>1, <1>2, <2>4 DEF WorkInv, NoPool
    <2>7. WalksDir
      BY <1>1, <2>1, <2>4 DEF WalksDir, Same4, Compares, Counts, l, q
    <2>8. QED BY <1>2, <2>5, <2>6, <2>7 DEF TypeInv
  <1>5. ASSUME NEW p \in Path, WalkEntry(p), ~Fail
        PROVE  TypeInv' /\ (WalksEntry(p) \/ WalksPast(p))
    <2>1. run.listed \in SUBSET Path /\ p \in run.listed
      <3>1. run.listed # {} /\ p = First(run.listed)
        BY <1>5 DEF WalkEntry
      <3>2. First(run.listed) \in run.listed
        BY <3>1 DEF First
      <3>3. QED BY <1>2, <3>1, <3>2 DEF IsRun
    <2>2. CASE Exists(src, p)
      <3> DEFINE u == [run.S EXCEPT ![p] = src[p]]
                 q == IF src[p].kind = "dir" THEN Append(run.queue, p) ELSE run.queue
                 l == run.listed \ {p}
      <3>1. run' = [run EXCEPT !.listed = l, !.S = u, !.queue = q]
        BY <1>5, <2>2 DEF WalkEntry
      <3>2. u \in [Path -> Node] /\ l \in SUBSET Path
        BY <1>2, <2>1 DEF IsRun, TypeInv, BaseInv, IsTree
      <3>3. q \in Seq(Path \cup {Root})
        <4>1. run.queue \in Seq(Path \cup {Root}) /\ p \in Path \cup {Root}
          BY <1>2 DEF IsRun
        <4>2. QED BY <4>1, AppendIs
      <3> HIDE DEF u, q, l
      <3>4. /\ DOMAIN run' = Fields /\ run'.listed = l /\ run'.queue = q /\ run'.todo = run.todo
            /\ run'.D = run.D /\ run'.pc = run.pc /\ run'.plan = run.plan /\ run'.result = run.result
            /\ run'.variant = run.variant /\ run'.rel = run.rel /\ run'.S = u
            /\ run'.changing = run.changing /\ run'.failed = run.failed /\ run'.fatal = run.fatal
            /\ run'.work = run.work
        BY <1>2, <3>1 DEF Fields
      <3>5. IsRun(run')
        BY <1>2, <3>2, <3>3, <3>4 DEF IsRun
      <3>6. WorkInv'
        BY <1>1, <1>2, <3>4 DEF WorkInv, NoPool
      <3>7. WalksEntry(p)
        BY <1>1, <2>1, <2>2, <3>4 DEF WalksEntry, Same4, Counts, l, q, u
      <3>8. QED BY <1>2, <3>5, <3>6, <3>7 DEF TypeInv
    <2>3. CASE ~Exists(src, p)
      <3> DEFINE l == run.listed \ {p}
      <3>1. run' = [run EXCEPT !.listed = l]
        BY <1>5, <2>3 DEF WalkEntry
      <3>2. l \in SUBSET Path
        BY <2>1
      <3> HIDE DEF l
      <3>4. /\ DOMAIN run' = Fields /\ run'.listed = l /\ run'.queue = run.queue /\ run'.todo = run.todo
            /\ run'.D = run.D /\ run'.pc = run.pc /\ run'.plan = run.plan /\ run'.result = run.result
            /\ run'.variant = run.variant /\ run'.rel = run.rel /\ run'.S = run.S
            /\ run'.changing = run.changing /\ run'.failed = run.failed /\ run'.fatal = run.fatal
            /\ run'.work = run.work
        BY <1>2, <3>1 DEF Fields
      <3>5. IsRun(run')
        BY <1>2, <3>2, <3>4 DEF IsRun
      <3>6. WorkInv'
        BY <1>1, <1>2, <3>4 DEF WorkInv, NoPool
      <3>7. WalksPast(p)
        BY <1>1, <2>1, <2>3, <3>4 DEF WalksPast, Same4, Counts, Compares, l
      <3>8. QED BY <1>2, <3>5, <3>6, <3>7 DEF TypeInv
    <2>4. QED BY <2>2, <2>3
  <1>6. QED BY <1>3, <1>4, <1>5

\* One removal of a phase.
LEMMA RemoveTyped ==
  ASSUME TypeInv, NEW p \in Path, RemoveOne(p)
  PROVE  TypeInv' /\ (Stops \/ Tidies(p))
  <1>1. /\ run.pc \in {"mismatch", "remove", "extras"} /\ p \in run.todo /\ Others /\ left' = left /\ pool' = pool
        /\ Active /\ IsTree(dst) /\ IsTree(trash)
    BY DEF RemoveOne, passVars, Others, Active, TypeInv, BaseInv
  <1>2. CASE Fail /\ dst' = dst /\ trash' = trash
    BY <1>1, <1>2, StopsTyped
  <1>3. CASE run' = [run EXCEPT !.todo = @ \ {p}] /\ dst' = dst /\ trash' = trash /\ ~Exists(dst, p)
    <2>1. IsTree(dst') /\ IsTree(trash')
      BY <1>1, <1>3
    <2>2. QED BY <1>1, <1>3, <2>1, TidiesTyped
  <1>4. CASE run' = [run EXCEPT !.todo = @ \ {p}] /\ Exists(dst, p) /\ CanTrash(p) /\ ToTrash(p, Without(dst, p))
    <2>1. /\ IsTree(dst') /\ IsTree(trash')
          /\ \A q \in Path : IF q \in Subtree(p) THEN dst'[q] = Absent ELSE Same(dst[q], dst'[q])
      BY <1>1, <1>4, RemovesTree
    <2>2. Removes(p)
      BY <2>1 DEF Removes
    <2>3. QED BY <1>1, <1>4, <2>1, <2>2, TidiesTyped
  <1>5. QED BY <1>2, <1>3, <1>4 DEF RemoveOne

\* One directory made.
LEMMA MakeTyped ==
  ASSUME TypeInv, NEW p \in Path, MakeDir(p) \/ MakeDirOver(p)
  PROVE  TypeInv' /\ (Stops \/ Tidies(p))
  <1>1. /\ run.pc \in {"mkdir", "mkover"} /\ p \in run.todo /\ Others /\ left' = left /\ pool' = pool
        /\ Active /\ IsTree(dst) /\ IsTree(trash)
    BY DEF MakeDir, MakeDirOver, passVars, Others, Active, TypeInv, BaseInv
  <1>2. CASE Fail /\ dst' = dst /\ trash' = trash
    BY <1>1, <1>2, StopsTyped
  <1>3. CASE /\ run' = [run EXCEPT !.todo = @ \ {p}] /\ trash' = trash
             /\ CanMake(dst, Above(p) \cup {p}) /\ dst' = Made(dst, Above(p) \cup {p})
    <2>1. IsTree(dst') /\ dst'[p].kind = "dir" /\ Writes(p)
      BY <1>1, <1>3, MakesDirs
    <2>2. IsTree(trash')
      BY <1>1, <1>3
    <2>3. QED BY <1>1, <1>3, <2>1, <2>2, TidiesTyped
  <1>4. CASE /\ run' = [run EXCEPT !.todo = @ \ {p}] /\ Exists(dst, p) /\ dst[p].kind # "dir" /\ CanTrash(p)
             /\ ToTrash(p, Made(Without(dst, p), {p}))
    <2>1. IsTree(dst') /\ IsTree(trash') /\ dst'[p].kind = "dir" /\ Writes(p)
      BY <1>1, <1>4, MakesDirOver
    <2>2. QED BY <1>1, <1>4, <2>1, TidiesTyped
  <1>5. CASE MakeDir(p)
    BY <1>2, <1>3, <1>5 DEF MakeDir
  <1>6. CASE MakeDirOver(p)
    <2>1. CASE Exists(dst, p) /\ dst[p].kind # "dir"
      BY <1>2, <1>4, <1>6, <2>1 DEF MakeDirOver
    <2>2. CASE ~(Exists(dst, p) /\ dst[p].kind # "dir")
      BY <1>2, <1>3, <1>6, <2>2 DEF MakeDirOver
    <2>3. QED BY <2>1, <2>2
  <1>7. QED BY <1>5, <1>6

\* The phases that take one step, and the ends of the others.
LEMMA PhasesTyped ==
  ASSUME TypeInv, PlanInv, PhaseDone \/ PoolEnd \/ FixModes \/ StampDirs \/ CheckFailed \/ Verify
  PROVE  TypeInv' /\ (Stops \/ GoesOn)
  <1>1. /\ Active /\ Busy /\ run.pc # "end" /\ Others /\ trash' = trash /\ left' = left
    BY DEF PhaseDone, PoolEnd, FixModes, StampDirs, CheckFailed, Verify, passVars, Others, Active, Busy
  <1>2. run.pc # "copy" => pool = NoPool
    BY DEF TypeInv, WorkInv
  <1>3. CASE PhaseDone
    BY <1>1, <1>2, <1>3, GoesOnTyped DEF PhaseDone
  <1>4. CASE PoolEnd
    <2>1. run.pc = "copy" /\ pool' = NoPool /\ dst' = dst /\ \A w \in Worker : pool[w].pc = "off"
      BY <1>4 DEF PoolEnd
    <2>2. CASE Fail
      BY <1>1, <2>1, <2>2, StopsTyped
    <2>3. CASE ~run.fatal /\ run' = Onward(run)
      BY <1>1, <2>1, <2>3, GoesOnTyped
    <2>4. QED BY <1>4, <2>2, <2>3 DEF PoolEnd
  <1>5. CASE FixModes
    <2>1. run.pc = "modes" /\ pool' = NoPool /\ dst' = Remoded /\ run' = Onward(run)
      BY <1>2, <1>5 DEF FixModes, Remoded
    <2>2. QED BY <1>1, <2>1, GoesOnTyped
  <1>6. CASE StampDirs
    <2>1. run.pc = "stamp" /\ pool' = NoPool /\ dst' = Restamped /\ run' = Onward(run)
      BY <1>2, <1>6 DEF StampDirs, Restamped
    <2>2. QED BY <1>1, <2>1, GoesOnTyped
  <1>7. CASE CheckFailed \/ Verify
    <2>1. run.pc \in {"failed", "copied", "verify"} /\ pool' = NoPool /\ dst' = dst
      BY <1>2, <1>7 DEF CheckFailed, Verify
    <2>2. CASE Fail
      BY <1>1, <2>1, <2>2, StopsTyped
    <2>3. CASE run' = Onward(run)
      BY <1>1, <2>1, <2>3, GoesOnTyped
    <2>4. QED BY <1>7, <2>2, <2>3 DEF CheckFailed, Verify
  <1>8. QED BY <1>3, <1>4, <1>5, <1>6, <1>7

\* A pass is cut off.
LEMMA AbortTyped ==
  ASSUME TypeInv, Abort
  PROVE  TypeInv' /\ Stops
  BY StopsTyped DEF Abort, Others, Active

\* A pass comes to its result.
LEMMA EndTyped ==
  ASSUME TypeInv, IntoResult
  PROVE  TypeInv' /\ Ends
  <1> DEFINE z == IF run.failed # {} THEN "err" ELSE IF run.changing # {} THEN "changing" ELSE "ok"
  <1>1. run.pc = "end" /\ Others /\ dst' = dst /\ trash' = trash /\ left' = left /\ pool' = pool
        /\ run' = [run EXCEPT !.pc = "done", !.result = z]
    BY DEF IntoResult, passVars, Others
  <1>2. BaseInv' /\ IsRun(run) /\ DOMAIN run = Fields /\ pool' = NoPool /\ IsPool(pool')
    BY <1>1, BaseKept DEF TypeInv, BaseInv, WorkInv, IsRun
  <1>3. z \in {"none", "ok", "changing", "err"}
    OBVIOUS
  <1> HIDE DEF z
  <1>4. /\ DOMAIN run' = Fields /\ run'.listed = run.listed /\ run'.queue = run.queue /\ run'.todo = run.todo
        /\ run'.D = run.D /\ run'.pc = "done" /\ run'.plan = run.plan /\ run'.result = z
        /\ run'.variant = run.variant /\ run'.rel = run.rel /\ run'.S = run.S
        /\ run'.changing = run.changing /\ run'.failed = run.failed /\ run'.fatal = run.fatal
        /\ run'.work = run.work
    BY <1>1, <1>2 DEF Fields
  <1>5. IsRun(run')
    BY <1>2, <1>3, <1>4 DEF IsRun, Pcs
  <1>6. WorkInv'
    BY <1>2, <1>4 DEF WorkInv, NoPool
  <1>7. Ends
    BY <1>1, <1>4 DEF Ends, Compares, Counts, z
  <1>8. QED BY <1>2, <1>5, <1>6, <1>7 DEF TypeInv

\* A pass begins, is settled, and a user changes the source.
Begins(v) ==
    /\ run.pc = "idle" /\ run'.pc = "walk" /\ v \in DOMAIN Phases
    /\ run'.variant = v /\ run'.plan = Phases[v]
    /\ run'.S = NoTree /\ run'.changing = {} /\ run'.failed = {} /\ run'.result = "none"
    /\ IF v \in {"push_events", "local_events"}
       THEN run'.rel = dirty' /\ run'.queue = <<>> /\ run'.listed = Uncovered(dirty') /\ ~needFull
       ELSE run'.rel = {} /\ run'.queue = <<Root>> /\ run'.listed = {}
    /\ IF run.result = "err" THEN dirty' = dirty /\ fresh' = fresh ELSE dirty' = fresh /\ fresh' = {}
    /\ UNCHANGED <<src, dst, mirror, needFull, changed, clock>>
Settles ==
    /\ run.pc = "done" /\ run'.pc = "idle" /\ run'.result = run.result
    /\ IF run.result = "err" THEN UNCHANGED <<dirty, fresh, needFull>>
       ELSE dirty' = {} /\ needFull' = FALSE /\ fresh' = fresh \cup run.changing
    /\ changed' = {} /\ UNCHANGED <<src, dst, mirror, clock>>
Edits(p) ==
    /\ clock' = clock + 1
    /\ \A q \in Path : q \notin Subtree(p) =>
          Same(src[q], src'[q]) /\ (q # Parent[p] => src'[q] = src[q])
    /\ \A q \in Path : src'[q].kind = "file" =>
          \/ src[q].kind = "file" /\ src'[q].ver = src[q].ver /\ src'[q].look = src[q].look
          \/ q = p /\ src'[q].ver = clock'
    /\ fresh' = IF p \in Excluded THEN fresh ELSE fresh \cup {p}
    /\ changed' = IF run.pc = "idle" THEN {} ELSE changed \cup Subtree(p)
    /\ UNCHANGED <<dst, mirror, dirty, needFull, run, pool>>

\* What a pass starts from.
LEMMA IdleIs ==
  /\ IsRun(Idle) /\ Idle.pc = "idle" /\ Idle.rel = {} /\ Idle.queue = <<>> /\ Idle.listed = {} /\ Idle.plan = <<>>
  /\ Idle.S = NoTree /\ Idle.D = NoTree /\ Idle.changing = {} /\ Idle.failed = {} /\ Idle.result = "none"
  <1>1. NoTree \in [Path -> Node]
    BY Nodes
  <1>2. Idle.S = NoTree /\ Idle.D = NoTree
    BY DEF Idle
  <1>3. Idle.S \in [Path -> Node] /\ Idle.D \in [Path -> Node]
    BY <1>1, <1>2
  <1>4. /\ Idle.pc = "idle" /\ Idle.rel = {} /\ Idle.queue = <<>> /\ Idle.listed = {} /\ Idle.plan = <<>>
        /\ Idle.changing = {} /\ Idle.failed = {} /\ Idle.result = "none" /\ Idle.fatal = FALSE
        /\ Idle.variant = "none" /\ Idle.todo = {} /\ Idle.work = {}
    BY DEF Idle
  <1>5. DOMAIN Idle = Fields
    BY DEF Idle, Fields
  <1>6. IsRun(Idle)
    <2> DEFINE x == Idle
    <2> HIDE DEF x
    <2>1. x.plan \in Seq(Names) /\ x.queue \in Seq(Path \cup {Root})
      BY <1>4 DEF x
    <2>2. x.fatal \in BOOLEAN
      BY <1>4 DEF x
    <2>3. QED BY <1>3, <1>4, <1>5, <2>1, <2>2 DEF IsRun, Pcs, x
  <1>7. QED BY <1>2, <1>4, <1>6

\* A pass begins.
LEMMA BeginTyped ==
  ASSUME TypeInv, NEW v \in DOMAIN Phases, Begin(v)
  PROVE  TypeInv' /\ Begins(v)
  <1> DEFINE events == v \in {"push_events", "local_events"}
             taken == IF run.result = "err" THEN dirty ELSE fresh
             rel == IF events THEN taken ELSE {}
             queue == IF events THEN <<>> ELSE <<Root>>
             listed == IF events THEN Uncovered(taken) ELSE {}
             plan == Phases[v]
  <1>1. /\ run.pc = "idle" /\ (events => ~needFull)
        /\ run' = [Idle EXCEPT !.pc = "walk", !.variant = v, !.plan = plan, !.rel = rel, !.queue = queue, !.listed = listed]
        /\ dirty' = taken /\ UNCHANGED <<src, dst, mirror, needFull, pool, changed, clock, left>>
        /\ IF run.result = "err" THEN UNCHANGED <<fresh, trash>> ELSE fresh' = {} /\ trash' = NoTree
    BY DEF Begin
  <1>2. taken \in SUBSET Path
    BY DEF TypeInv, BaseInv
  <1>3. rel \in SUBSET Path /\ listed \in SUBSET Path
    BY <1>2 DEF Uncovered
  <1>4. queue \in Seq(Path \cup {Root})
    <2>1. <<>> \in Seq(Path \cup {Root}) /\ <<Root>> \in Seq(Path \cup {Root})
      OBVIOUS
    <2>2. QED BY <2>1
  <1>5. plan \in Seq(Names)
    <2>1. Planned("walk", Phases[v])
      BY PlansAre
    <2>2. QED BY <2>1 DEF Planned
  <1>6. IsTree(NoTree)
    BY Nodes DEF IsTree, Tree, Exists
  <1> DEFINE s == run'
             S == Idle.S
             D == Idle.D
  <1>7. /\ run'.rel = rel /\ run'.queue = queue /\ run'.listed = listed /\ run'.plan = plan
        /\ run'.pc = "walk" /\ run'.variant = v
        /\ DOMAIN run' = Fields /\ run'.S = NoTree /\ run'.D = NoTree
        /\ run'.todo = {} /\ run'.work = {} /\ run'.changing = {} /\ run'.failed = {}
        /\ run'.fatal = FALSE /\ run'.result = "none"
    <2> HIDE DEF rel, queue, listed, plan
    <2>1. /\ Idle.pc = "idle" /\ Idle.changing = {} /\ Idle.failed = {} /\ Idle.result = "none" /\ Idle.fatal = FALSE
          /\ Idle.variant = "none" /\ Idle.todo = {} /\ Idle.work = {} /\ DOMAIN Idle = Fields
          /\ Idle.S = NoTree /\ Idle.D = NoTree
      BY IdleIs DEF Idle, Fields
    <2>2. QED BY <1>1, <2>1 DEF Fields
  <1>8. NoTree \in [Path -> Node]
    BY Nodes
  <1>9. IsRun(run')
    <2> HIDE DEF rel, queue, listed, plan
    <2>1. QED BY <1>3, <1>4, <1>5, <1>7, <1>8 DEF IsRun, Pcs
  <1>10. WorkInv'
    BY <1>1, <1>7 DEF TypeInv, WorkInv, NoPool
  <1>11. BaseInv'
    <2>1. IsTree(src') /\ IsTree(dst') /\ IsTree(trash')
      BY <1>1, <1>6 DEF TypeInv, BaseInv
    <2>2. fresh' \in SUBSET Path /\ dirty' \in SUBSET Path
      BY <1>1, <1>2 DEF TypeInv, BaseInv
    <2> HIDE DEF IsTree, taken
    <2>3. QED BY <1>1, <2>1, <2>2 DEF TypeInv, BaseInv
  <1>12. IsPool(pool')
    BY <1>1 DEF TypeInv
  <1>13. Begins(v)
    <2>1. taken = dirty'
      BY <1>1
    <2>2. IF run.result = "err" THEN dirty' = dirty /\ fresh' = fresh ELSE dirty' = fresh /\ fresh' = {}
      BY <1>1
    <2>3. IF events
          THEN run'.rel = dirty' /\ run'.queue = <<>> /\ run'.listed = Uncovered(dirty') /\ ~needFull
          ELSE run'.rel = {} /\ run'.queue = <<Root>> /\ run'.listed = {}
      BY <1>1, <1>7, <2>1
    <2> HIDE DEF taken
    <2>4. QED BY <1>1, <1>7, <2>2, <2>3 DEF Begins
  <1>14. QED BY <1>9, <1>10, <1>11, <1>12, <1>13 DEF TypeInv

\* A pass is recorded.
LEMMA SettleTyped ==
  ASSUME TypeInv, Settle
  PROVE  TypeInv' /\ Settles
  <1>1. /\ run.pc = "done" /\ run' = [Idle EXCEPT !.result = run.result]
        /\ changed' = {} /\ UNCHANGED <<src, dst, mirror, pool, trash, removed, clock, left>>
        /\ IF run.result = "err" THEN UNCHANGED <<dirty, fresh, needFull>>
           ELSE dirty' = {} /\ needFull' = FALSE /\ fresh' = fresh \cup run.changing
    BY DEF Settle
  <1>2. IsRun(Idle) /\ IsRun(run)
    BY IdleIs DEF TypeInv
  <1>3. IsRun(run') /\ run'.pc = "idle" /\ run'.result = run.result
    <2> DEFINE x == Idle
               y == run.result
    <2>1. run' = [x EXCEPT !.result = y] /\ x.pc = "idle" /\ IsRun(x) /\ y \in {"none", "ok", "changing", "err"}
      BY <1>1, <1>2, IdleIs DEF IsRun
    <2> HIDE DEF x, y
    <2>2. /\ DOMAIN run' = Fields /\ run'.listed = x.listed /\ run'.queue = x.queue /\ run'.todo = x.todo
          /\ run'.D = x.D /\ run'.pc = x.pc /\ run'.plan = x.plan /\ run'.result = y
          /\ run'.variant = x.variant /\ run'.rel = x.rel /\ run'.S = x.S
          /\ run'.changing = x.changing /\ run'.failed = x.failed /\ run'.fatal = x.fatal
          /\ run'.work = x.work
      BY <2>1 DEF IsRun, Fields
    <2>3. IsRun(run')
      BY <2>1, <2>2 DEF IsRun
    <2>4. QED BY <2>1, <2>2, <2>3 DEF y
  <1>4. BaseInv'
    <2>1. IsTree(src') /\ IsTree(dst') /\ IsTree(trash')
      BY <1>1 DEF TypeInv, BaseInv
    <2>2. fresh' \in SUBSET Path /\ dirty' \in SUBSET Path /\ needFull' \in BOOLEAN
      BY <1>1, <1>2 DEF TypeInv, BaseInv, IsRun
    <2> HIDE DEF IsTree
    <2>3. QED BY <1>1, <2>1, <2>2 DEF TypeInv, BaseInv
  <1>5. IsPool(pool') /\ WorkInv'
    BY <1>1, <1>3 DEF TypeInv, WorkInv, NoPool
  <1>6. QED BY <1>1, <1>3, <1>4, <1>5 DEF TypeInv, Settles

\* A user edits the source.
LEMMA EditTyped ==
  ASSUME TypeInv, NEW p \in Path, Edit(p)
  PROVE  TypeInv' /\ Edits(p)
  <1>1. /\ UNCHANGED <<dst, mirror, dirty, needFull, run, pool, trash, removed>>
        /\ fresh' = IF p \in Excluded THEN fresh ELSE fresh \cup {p}
        /\ changed' = IF run.pc = "idle" THEN {} ELSE changed \cup Subtree(p)
        /\ left' = [left EXCEPT !.edits = @ - 1] /\ left.edits > 0
    BY DEF Edit
  <1>2. /\ IsTree(src') /\ clock' = clock + 1
        /\ \A q \in Path : q \notin Subtree(p) =>
              Same(src[q], src'[q]) /\ (q # Parent[p] => src'[q] = src[q])
        /\ \A q \in Path : src'[q].kind = "file" =>
              \/ src[q].kind = "file" /\ src'[q].ver = src[q].ver /\ src'[q].look = src[q].look
              \/ q = p /\ src'[q].ver = clock'
    BY EditIs DEF TypeInv, BaseInv
  <1>3. left' \in [edits : Nat, faults : Nat, foreign : BOOLEAN, ways : SUBSET DOMAIN Phases]
    BY <1>1 DEF TypeInv, BaseInv
  <1>4. fresh' \in SUBSET Path /\ changed' \in SUBSET Path /\ clock' \in Nat
    BY <1>1, <1>2, SubtreeIs DEF TypeInv, BaseInv
  <1>5. IsTree(dst') /\ IsTree(trash')
    BY <1>1 DEF TypeInv, BaseInv
  <1>6. BaseInv'
    <2> HIDE DEF IsTree
    <2>1. QED BY <1>1, <1>2, <1>3, <1>4, <1>5 DEF TypeInv, BaseInv
  <1>7. IsRun(run') /\ IsPool(pool') /\ WorkInv'
    BY <1>1 DEF TypeInv, WorkInv, NoPool, Copies, ToCopy, ByEvents, EntriesMatch, Exists
  <1>8. Edits(p)
    BY <1>1, <1>2 DEF Edits
  <1>9. QED BY <1>6, <1>7, <1>8 DEF TypeInv

\* A worker with what it has to send.
IsSender(x) ==
    /\ IsWorker(x) /\ x.item \subseteq Copies
    /\ x.pc \in {"memory", "send"} => x.item # {}
    /\ x.pc \in {"off", "loop"} => x.item = {}

\* What a step of the pool leaves alone.
KeepsRun ==
    /\ DOMAIN run' = Fields /\ Same4(run, run') /\ Compares(run, run')
    /\ run'.queue = run.queue /\ run'.listed = run.listed

\* A step of one worker: what it has to send is sent, given up or still with it.
LEMMA SendsTyped ==
  ASSUME TypeInv, run.pc = "copy", Others, IsTree(dst'), IsTree(trash'),
         left' = left \/ (left' = [left EXCEPT !.faults = @ - 1] /\ left.faults > 0),
         KeepsRun, run'.work \subseteq run.work,
         run.changing \subseteq run'.changing, run'.changing \subseteq run.changing \cup Copies,
         run.failed \subseteq run'.failed, run'.failed \subseteq Path \cup {Batch},
         run.fatal => run'.fatal, run'.fatal \in BOOLEAN,
         NEW w \in Worker, NEW x, pool' = [pool EXCEPT ![w] = x], IsSender(x),
         x.pc = "off" => run'.fatal \/ run.work = {},
         run'.failed = {} /\ ~run'.fatal =>
            \A p \in Path : p \in pool[w].item \/ (\E i \in run.work : p \in i) =>
               p \in x.item \/ (\E i \in run'.work : p \in i) \/ p \in run'.changing \/ dst'[p] = run.S[p],
         \/ dst' = dst
         \/ \E y \in Copies : /\ src[y].kind = run.S[y].kind /\ src[y].ver = run.S[y].ver
                              /\ dst'[y] = run.S[y] /\ Writes(y)
  PROVE  TypeInv' /\ Sends
  <1>1. BaseInv'
    BY BaseKept DEF TypeInv
  <1>2. IsRun(run) /\ DOMAIN pool = Worker /\ \A u \in Worker : IsWorker(pool[u])
    BY DEF TypeInv, IsPool
  <1>3. Copies \subseteq Path
    BY DEF Copies, ToCopy
  <1>4. run'.work \in SUBSET (SUBSET Path) /\ run'.changing \in SUBSET Path
    BY <1>2, <1>3 DEF IsRun
  <1>5. IsRun(run')
    BY <1>2, <1>4 DEF IsRun, KeepsRun, Same4, Compares
  <1>6. pool'[w] = x /\ DOMAIN pool' = Worker /\ \A u \in Worker : u # w => pool'[u] = pool[u]
    BY <1>2
  <1>7. IsPool(pool')
    BY <1>2, <1>6 DEF IsPool, IsSender
  <1>8. Copies' = Copies
    BY DEF Copies, KeepsRun, Compares, ByEvents
  <1>9. WorkInv'
    <2>1. run'.pc = "copy"
      BY DEF KeepsRun, Same4
    <2>2. /\ \A i \in run.work : i # {} /\ i \subseteq Copies
          /\ \A u \in Worker : /\ pool[u].item \subseteq Copies
                               /\ pool[u].pc \in {"memory", "send"} => pool[u].item # {}
                               /\ pool[u].pc \in {"off", "loop"} => pool[u].item = {}
      BY DEF TypeInv, WorkInv
    <2>3. \A u \in Worker : /\ pool'[u].item \subseteq Copies
                            /\ pool'[u].pc \in {"memory", "send"} => pool'[u].item # {}
                            /\ pool'[u].pc \in {"off", "loop"} => pool'[u].item = {}
      BY <1>6, <2>2 DEF IsSender
    <2> HIDE DEF Copies
    <2>4. QED BY <1>8, <2>1, <2>2, <2>3 DEF WorkInv
  <1>10. ASSUME run'.failed = {}, ~run'.fatal, NEW p \in Path, Due(p)
         PROVE  Due(p)' \/ p \in run'.changing \/ dst'[p] = run.S[p]
    <2>1. CASE p \in pool[w].item \/ (\E i \in run.work : p \in i)
      BY <1>6, <1>10, <2>1 DEF Due
    <2>2. CASE ~(p \in pool[w].item \/ (\E i \in run.work : p \in i))
      <3>1. PICK u \in Worker : p \in pool[u].item
        BY <1>10, <2>2 DEF Due
      <3>2. p \in pool'[u].item
        BY <1>6, <2>2, <3>1
      <3>3. QED BY <3>2 DEF Due
    <2>3. QED BY <2>1, <2>2
  <1>11. \A u \in Worker : pool'[u].pc = "off" => pool[u].pc = "off" \/ run'.fatal \/ run.work = {}
    BY <1>6
  <1>12. Sends
    BY <1>10, <1>11 DEF Sends, KeepsRun
  <1>13. QED BY <1>1, <1>5, <1>7, <1>9, <1>12 DEF TypeInv

\* A worker that ended, and one that looks for work.
LEMMA Senders ==
  /\ IsSender(Stopped) /\ Stopped.item = {} /\ Stopped.pc = "off"
  /\ IsSender(Looping) /\ Looping.item = {} /\ Looping.pc = "loop"
  <1>1. /\ DOMAIN Stopped = {"pc", "item", "label", "mem"} /\ Stopped.pc = "off" /\ Stopped.item = {}
        /\ Stopped.label = Batch /\ Stopped.mem = 0
    BY DEF Stopped
  <1>2. /\ DOMAIN Looping = {"pc", "item", "label", "mem"} /\ Looping.pc = "loop" /\ Looping.item = {}
        /\ Looping.label = Batch /\ Looping.mem = 0
    BY <1>1 DEF Looping
  <1>3. QED BY <1>1, <1>2 DEF IsSender, IsWorker

\* What a worker goes on with when it is done with p.
LEMMA SentIs ==
  ASSUME TypeInv, run.pc = "copy", NEW w \in Worker, pool[w].pc = "send", NEW p \in pool[w].item
  PROVE  /\ Sent(w, p) => pool' = [pool EXCEPT ![w] = Rest(w, p)]
         /\ IsSender(Rest(w, p)) /\ Rest(w, p).pc # "off"
         /\ Rest(w, p).item = pool[w].item \ {p}
         /\ p \in Copies /\ p \in Path
  <1>1. DOMAIN pool = Worker /\ IsWorker(pool[w]) /\ pool[w].item \subseteq Copies
    BY DEF TypeInv, IsPool, WorkInv
  <1>2. Sent(w, p) => pool' = [pool EXCEPT ![w] = Rest(w, p)]
    BY <1>1 DEF Sent, Rest
  <1>3. CASE pool[w].item = {p}
    BY <1>1, <1>2, <1>3, Senders DEF Rest, Copies, ToCopy
  <1>4. CASE pool[w].item # {p}
    <2> DEFINE x == pool[w]
               y == [x EXCEPT !.item = x.item \ {p}]
    <2>1. Rest(w, p) = y
      BY <1>4 DEF Rest
    <2>2. IsWorker(x) /\ x.item \subseteq Copies /\ x.pc = "send" /\ p \in x.item /\ x.item # {p}
      BY <1>1, <1>4
    <2> HIDE DEF x
    <2>3. /\ DOMAIN y = {"pc", "item", "label", "mem"} /\ y.pc = "send" /\ y.item = x.item \ {p}
          /\ y.label = x.label /\ y.mem = x.mem
      BY <2>2 DEF IsWorker
    <2> HIDE DEF y
    <2>4. y.item # {}
      BY <2>2, <2>3
    <2>5. IsSender(y)
      BY <2>2, <2>3, <2>4 DEF IsSender, IsWorker
    <2>6. p \in Copies /\ p \in Path
      BY <2>2 DEF Copies, ToCopy
    <2>7. QED BY <1>2, <2>1, <2>3, <2>5, <2>6 DEF x
  <1>5. QED BY <1>3, <1>4

\* A failure is collected.
LEMMA CollectedTyped ==
  ASSUME TypeInv, run.pc = "copy", Others, dst' = dst, trash' = trash,
         left' = left \/ (left' = [left EXCEPT !.faults = @ - 1] /\ left.faults > 0),
         NEW w \in Worker, NEW label \in Path \cup {Batch}, NEW x, IsSender(x), x.pc # "off",
         run' = [run EXCEPT !.failed = @ \cup {label}], pool' = [pool EXCEPT ![w] = x]
  PROVE  TypeInv' /\ Sends
  <1>1. /\ DOMAIN run' = Fields /\ run'.listed = run.listed /\ run'.queue = run.queue /\ run'.todo = run.todo
        /\ run'.D = run.D /\ run'.pc = run.pc /\ run'.plan = run.plan /\ run'.result = run.result
        /\ run'.variant = run.variant /\ run'.rel = run.rel /\ run'.S = run.S
        /\ run'.changing = run.changing /\ run'.failed = run.failed \cup {label} /\ run'.fatal = run.fatal
        /\ run'.work = run.work
    BY DEF TypeInv, IsRun, Fields
  <1>2. KeepsRun
    BY <1>1 DEF KeepsRun, Same4, Compares
  <1>3. run'.failed \subseteq Path \cup {Batch} /\ run'.fatal \in BOOLEAN
    BY <1>1 DEF TypeInv, IsRun
  <1>4. IsTree(dst') /\ IsTree(trash')
    BY DEF TypeInv, BaseInv
  <1>5. run'.failed # {}
    BY <1>1
  <1> HIDE DEF Copies
  <1>6. QED BY <1>1, <1>2, <1>3, <1>4, <1>5, SendsTyped

\* The pool gives up.
LEMMA FatalTyped ==
  ASSUME TypeInv, run.pc = "copy", Others, dst' = dst, trash' = trash,
         left' = left \/ (left' = [left EXCEPT !.faults = @ - 1] /\ left.faults > 0),
         NEW w \in Worker, run' = [run EXCEPT !.fatal = TRUE], pool' = [pool EXCEPT ![w] = Stopped]
  PROVE  TypeInv' /\ Sends
  <1>1. /\ DOMAIN run' = Fields /\ run'.listed = run.listed /\ run'.queue = run.queue /\ run'.todo = run.todo
        /\ run'.D = run.D /\ run'.pc = run.pc /\ run'.plan = run.plan /\ run'.result = run.result
        /\ run'.variant = run.variant /\ run'.rel = run.rel /\ run'.S = run.S
        /\ run'.changing = run.changing /\ run'.failed = run.failed /\ run'.fatal = TRUE
        /\ run'.work = run.work
    BY DEF TypeInv, IsRun, Fields
  <1>2. KeepsRun
    BY <1>1 DEF KeepsRun, Same4, Compares
  <1>3. run'.failed \subseteq Path \cup {Batch} /\ run'.fatal \in BOOLEAN /\ run'.fatal
    BY <1>1 DEF TypeInv, IsRun
  <1>4. IsTree(dst') /\ IsTree(trash')
    BY DEF TypeInv, BaseInv
  <1> HIDE DEF Copies
  <1>6. QED BY <1>1, <1>2, <1>3, <1>4, Senders, SendsTyped

\* A file is sent, or is changing while it is read.
LEMMA PassesTyped ==
  ASSUME TypeInv, run.pc = "copy", Others, left' = left, IsTree(dst'), IsTree(trash'),
         NEW w \in Worker, pool[w].pc = "send", NEW p \in pool[w].item, Sent(w, p),
         \/ run' = run /\ dst'[p] = run.S[p] /\ Writes(p)
                       /\ src[p].kind = run.S[p].kind /\ src[p].ver = run.S[p].ver
         \/ run' = [run EXCEPT !.changing = @ \cup {p}] /\ dst' = dst
  PROVE  TypeInv' /\ Sends
  <1>1. /\ pool' = [pool EXCEPT ![w] = Rest(w, p)] /\ IsSender(Rest(w, p)) /\ Rest(w, p).pc # "off"
        /\ Rest(w, p).item = pool[w].item \ {p}
        /\ p \in Copies /\ p \in Path
    BY SentIs
  <1>2. /\ DOMAIN run' = Fields /\ run'.listed = run.listed /\ run'.queue = run.queue /\ run'.todo = run.todo
        /\ run'.D = run.D /\ run'.pc = run.pc /\ run'.plan = run.plan /\ run'.result = run.result
        /\ run'.variant = run.variant /\ run'.rel = run.rel /\ run'.S = run.S
        /\ run'.failed = run.failed /\ run'.fatal = run.fatal
        /\ run'.work = run.work
        /\ run.changing \subseteq run'.changing /\ run'.changing \subseteq run.changing \cup {p}
        /\ p \in run'.changing \/ dst'[p] = run.S[p]
    BY DEF TypeInv, IsRun, Fields
  <1>3. KeepsRun
    BY <1>2 DEF KeepsRun, Same4, Compares
  <1>4. run'.failed \subseteq Path \cup {Batch} /\ run'.fatal \in BOOLEAN
    BY <1>2 DEF TypeInv, IsRun
  <1>5. \/ dst' = dst
        \/ \E y \in Copies : /\ src[y].kind = run.S[y].kind /\ src[y].ver = run.S[y].ver
                             /\ dst'[y] = run.S[y] /\ Writes(y)
    BY <1>1
  <1>6. run'.changing \subseteq run.changing \cup Copies
    BY <1>1, <1>2
  <1>7. ASSUME NEW q \in Path, q \in pool[w].item \/ (\E i \in run.work : q \in i)
        PROVE  q \in Rest(w, p).item \/ (\E i \in run'.work : q \in i) \/ q \in run'.changing \/ dst'[q] = run.S[q]
    BY <1>1, <1>2, <1>7
  <1> DEFINE x == Rest(w, p)
  <1> HIDE DEF x, Copies
  <1>8. /\ pool' = [pool EXCEPT ![w] = x] /\ IsSender(x) /\ x.pc # "off"
        /\ \A q \in Path : q \in pool[w].item \/ (\E i \in run.work : q \in i) =>
              q \in x.item \/ (\E i \in run'.work : q \in i) \/ q \in run'.changing \/ dst'[q] = run.S[q]
    BY <1>1, <1>7 DEF x
  <1>9. QED BY <1>2, <1>3, <1>4, <1>5, <1>6, <1>8, SendsTyped

\* A worker takes an item or the memory for it.
LEMMA ClaimTyped ==
  ASSUME TypeInv, NEW w \in Worker, Claim(w) \/ AcquireMemory(w)
  PROVE  TypeInv' /\ Sends
  <1>1. /\ run.pc = "copy" /\ Others /\ left' = left /\ dst' = dst /\ trash' = trash
        /\ IsTree(dst') /\ IsTree(trash')
        /\ DOMAIN pool = Worker /\ IsWorker(pool[w]) /\ pool[w].item \subseteq Copies
        /\ IsRun(run)
    BY DEF Claim, AcquireMemory, passVars, Others, TypeInv, BaseInv, WorkInv, IsPool
  <1>2. /\ run.failed \subseteq Path \cup {Batch} /\ run.fatal \in BOOLEAN
        /\ run.work \in SUBSET (SUBSET Path) /\ DOMAIN run = Fields
    BY <1>1 DEF IsRun
  <1>3. /\ \A i \in run.work : i # {} /\ i \subseteq Copies
        /\ pool[w].pc \in {"memory", "send"} => pool[w].item # {}
        /\ pool[w].pc \in {"off", "loop"} => pool[w].item = {}
    BY <1>1 DEF TypeInv, WorkInv
  <1>4. CASE run' = run /\ pool' = [pool EXCEPT ![w] = Stopped] /\ (run.fatal \/ run.work = {}) /\ pool[w].pc = "loop"
    <2>1. KeepsRun
      BY <1>2, <1>4 DEF KeepsRun, Same4, Compares
    <2> HIDE DEF Copies
    <2>2. pool[w].item = {}
      BY <1>3, <1>4
    <2>3. \A p \in Path : p \in pool[w].item \/ (\E i \in run.work : p \in i) =>
               p \in Stopped.item \/ (\E i \in run'.work : p \in i) \/ p \in run'.changing \/ dst'[p] = run.S[p]
      BY <1>4, <2>2
    <2>4. QED BY <1>1, <1>2, <1>4, <2>1, <2>3, Senders, SendsTyped
  <1>5. CASE Claim(w) /\ ~run.fatal /\ run.work # {}
    <2> DEFINE item == First(run.work)
               x == [pc |-> IF \E p \in item : Delta(run, p) THEN "memory" ELSE "send", item |-> item, mem |-> 0,
                     label |-> IF Cardinality(item) > 1 THEN Batch ELSE CHOOSE p \in item : TRUE]
    <2>1. /\ run' = [run EXCEPT !.work = @ \ {item}] /\ pool[w].pc = "loop"
          /\ pool' = [pool EXCEPT ![w] = x]
      BY <1>5 DEF Claim
    <2>2. item \in run.work
      BY <1>5 DEF First
    <2> HIDE DEF item
    <2>3. item # {} /\ item \subseteq Copies /\ item \in SUBSET Path
      BY <1>2, <1>3, <2>2
    <2>4. (CHOOSE p \in item : TRUE) \in item
      BY <2>3
    <2>5. /\ DOMAIN x = {"pc", "item", "label", "mem"} /\ x.pc \in {"memory", "send"} /\ x.item = item
          /\ x.label \in Path \cup {Batch} /\ x.mem = 0
      BY <2>3, <2>4
    <2> HIDE DEF x
    <2>6. IsSender(x)
      BY <2>3, <2>5 DEF IsSender, IsWorker
    <2>7. /\ DOMAIN run' = Fields /\ run'.listed = run.listed /\ run'.queue = run.queue /\ run'.todo = run.todo
          /\ run'.D = run.D /\ run'.pc = run.pc /\ run'.plan = run.plan /\ run'.result = run.result
          /\ run'.variant = run.variant /\ run'.rel = run.rel /\ run'.S = run.S
          /\ run'.changing = run.changing /\ run'.failed = run.failed /\ run'.fatal = run.fatal
          /\ run'.work = run.work \ {item}
      BY <1>2, <2>1 DEF Fields
    <2>8. KeepsRun
      BY <2>7 DEF KeepsRun, Same4, Compares
    <2>9. pool[w].item = {}
      BY <1>3, <2>1
    <2>10. \A p \in Path : p \in pool[w].item \/ (\E i \in run.work : p \in i) =>
               p \in x.item \/ (\E i \in run'.work : p \in i) \/ p \in run'.changing \/ dst'[p] = run.S[p]
      BY <2>5, <2>7, <2>9
    <2> HIDE DEF Copies
    <2>11. x.pc # "off"
      BY <2>5
    <2>12. QED BY <1>1, <1>2, <2>1, <2>6, <2>7, <2>8, <2>10, <2>11, SendsTyped
  <1>6. CASE AcquireMemory(w)
    <2> DEFINE need == Weight[First(pool[w].item)]
               y == pool[w]
               x == [y EXCEPT !.pc = "send", !.mem = need]
    <2>1. run' = run /\ pool[w].pc = "memory" /\ pool' = [pool EXCEPT ![w].pc = "send", ![w].mem = need]
      BY <1>6 DEF AcquireMemory
    <2>2. pool' = [pool EXCEPT ![w] = x]
      BY <1>1, <2>1 DEF IsWorker
    <2>3. First(pool[w].item) \in pool[w].item
      BY <1>3, <2>1 DEF First
    <2>4. need \in Nat
      BY <1>1, <2>3, TreeAssumption DEF IsWorker
    <2> HIDE DEF need, y
    <2>5. /\ DOMAIN x = {"pc", "item", "label", "mem"} /\ x.pc = "send" /\ x.item = y.item
          /\ x.label = y.label /\ x.mem = need
      BY <1>1 DEF IsWorker, y
    <2> HIDE DEF x
    <2>6. IsSender(x)
      BY <1>1, <1>3, <2>1, <2>4, <2>5 DEF IsSender, IsWorker, y
    <2>7. KeepsRun
      BY <1>2, <2>1 DEF KeepsRun, Same4, Compares
    <2>8. \A p \in Path : p \in pool[w].item \/ (\E i \in run.work : p \in i) =>
               p \in x.item \/ (\E i \in run'.work : p \in i) \/ p \in run'.changing \/ dst'[p] = run.S[p]
      BY <2>1, <2>5 DEF y
    <2> HIDE DEF Copies
    <2>9. x.pc # "off"
      BY <2>5
    <2>10. QED BY <1>1, <1>2, <2>1, <2>2, <2>6, <2>7, <2>8, <2>9, SendsTyped
  <1>7. QED BY <1>4, <1>5, <1>6 DEF Claim

\* A worker publishes a file or link.
LEMMA PublishTyped ==
  ASSUME TypeInv, NEW w \in Worker, NEW p \in Path, Publish(w, p)
  PROVE  TypeInv' /\ Sends
  <1> DEFINE blocked == Exists(dst, p) /\ dst[p].kind # run.S[p].kind
             room == Made(IF blocked THEN Without(dst, p) ELSE dst, Above(p))
  <1>1. /\ run.pc = "copy" /\ pool[w].pc = "send" /\ p \in pool[w].item
        /\ src[p].kind = run.S[p].kind /\ src[p].ver = run.S[p].ver
        /\ Others /\ left' = left
        /\ IsTree(dst) /\ IsTree(trash)
    BY DEF Publish, passVars, Others, TypeInv, BaseInv
  <1>2. /\ IsSender(Rest(w, p)) /\ Rest(w, p).pc # "off" /\ p \in Copies
        /\ Sent(w, p) => pool' = [pool EXCEPT ![w] = Rest(w, p)]
    BY <1>1, SentIs
  <1>3. run.S[p] \in Node /\ run.S[p].kind \in {"file", "link"}
    BY <1>2 DEF Copies, ToCopy, TypeInv, IsRun
  <1>4. CASE /\ CanMake(dst, Above(p)) /\ (blocked => CanTrash(p))
             /\ dst' = With(room, p, run.S[p]) /\ (trash' = trash \/ (blocked /\ trash' = Trashed(p)))
             /\ Sent(w, p) /\ run' = run
    <2> DEFINE node == run.S[p]
               b == blocked
    <2>1. /\ b \in BOOLEAN /\ b <=> (Exists(dst, p) /\ dst[p].kind # node.kind)
          /\ room = Made(IF b THEN Without(dst, p) ELSE dst, Above(p))
          /\ dst' = With(room, p, node)
      BY <1>4
    <2> HIDE DEF node, room, b
    <2>2. node \in Node /\ node.kind \in {"file", "link"}
      BY <1>3 DEF node
    <2>3. b <=> (Exists(dst, p) /\ dst[p].kind # node.kind)
      BY <2>1
    <2>4. IsTree(dst') /\ dst'[p] = node /\ Writes(p)
      BY <1>1, <1>4, <2>1, <2>2, <2>3, PutsFile
    <2>5. IsTree(trash')
      <3>1. CASE trash' = trash
        BY <1>1, <3>1
      <3>2. CASE blocked /\ trash' = Trashed(p)
        <4>1. CanMake(trash, Above(p))
          BY <1>4, <3>2 DEF CanTrash
        <4>2. IsTree(Trashed(p))
          BY <1>1, <4>1, TrashedIs
        <4>3. QED BY <3>2, <4>2
      <3>3. QED BY <1>4, <3>1, <3>2
    <2> HIDE DEF Writes
    <2>6. QED BY <1>1, <1>4, <2>4, <2>5, PassesTyped DEF node
  <1>5. CASE Failed(w, p, Sent(w, p)) /\ dst' = dst /\ trash' = trash
    <2>1. CASE run' = [run EXCEPT !.fatal = TRUE] /\ pool' = [pool EXCEPT ![w] = Stopped]
      BY <1>1, <1>5, <2>1, FatalTyped
    <2>2. CASE run' = [run EXCEPT !.failed = @ \cup {p}] /\ Sent(w, p)
      <3> DEFINE x == Rest(w, p)
      <3> HIDE DEF x
      <3>1. IsSender(x) /\ x.pc # "off" /\ pool' = [pool EXCEPT ![w] = x] /\ p \in Path \cup {Batch}
        BY <1>2, <2>2 DEF x
      <3>2. QED BY <1>1, <1>5, <2>2, <3>1, CollectedTyped
    <2>3. QED BY <1>5, <2>1, <2>2 DEF Failed
  <1>6. QED BY <1>4, <1>5 DEF Publish, ToTrash

\* A worker finds that the source changed.
LEMMA SourceTyped ==
  ASSUME TypeInv, NEW w \in Worker, NEW p \in Path, SourceChanging(w, p) \/ SourceGone(w, p)
  PROVE  TypeInv' /\ Sends
  <1>1. /\ run.pc = "copy" /\ pool[w].pc = "send" /\ p \in pool[w].item
        /\ Others /\ left' = left /\ dst' = dst /\ trash' = trash
        /\ IsTree(dst') /\ IsTree(trash')
    BY DEF SourceChanging, SourceGone, passVars, Others, TypeInv, BaseInv
  <1>2. /\ IsSender(Rest(w, p)) /\ Rest(w, p).pc # "off"
        /\ Sent(w, p) => pool' = [pool EXCEPT ![w] = Rest(w, p)]
    BY <1>1, SentIs
  <1>3. CASE SourceChanging(w, p)
    <2>1. run' = [run EXCEPT !.changing = @ \cup {p}] /\ Sent(w, p)
      BY <1>3 DEF SourceChanging
    <2>2. QED BY <1>1, <2>1, PassesTyped
  <1>4. CASE SourceGone(w, p)
    <2>0. Failed(w, p, Sent(w, p))
      BY <1>4 DEF SourceGone
    <2>1. CASE run' = [run EXCEPT !.fatal = TRUE] /\ pool' = [pool EXCEPT ![w] = Stopped]
      BY <1>1, <2>1, FatalTyped
    <2>2. CASE run' = [run EXCEPT !.failed = @ \cup {p}] /\ Sent(w, p)
      <3> DEFINE x == Rest(w, p)
      <3> HIDE DEF x
      <3>1. IsSender(x) /\ x.pc # "off" /\ pool' = [pool EXCEPT ![w] = x] /\ p \in Path \cup {Batch}
        BY <1>2, <2>2 DEF x
      <3>2. QED BY <1>1, <2>2, <3>1, CollectedTyped
    <2>3. QED BY <2>0, <2>1, <2>2 DEF Failed
  <1>5. QED BY <1>3, <1>4

\* A transfer fails.
LEMMA SendFailsTyped ==
  ASSUME TypeInv, NEW w \in Worker, SendFails(w)
  PROVE  TypeInv' /\ Sends
  <1>1. /\ run.pc = "copy" /\ pool[w].pc = "send" /\ Others /\ dst' = dst /\ trash' = trash
        /\ left' = [left EXCEPT !.faults = @ - 1] /\ left.faults > 0
    BY DEF SendFails, Others
  <1>2. pool[w].label \in Path \cup {Batch}
    BY DEF TypeInv, IsPool, IsWorker
  <1>3. CASE run' = [run EXCEPT !.fatal = TRUE] /\ pool' = [pool EXCEPT ![w] = Stopped]
    BY <1>1, <1>3, FatalTyped
  <1>4. CASE Failed(w, pool[w].label, pool' = [pool EXCEPT ![w] = Looping])
    <2>1. CASE run' = [run EXCEPT !.failed = @ \cup {pool[w].label}] /\ pool' = [pool EXCEPT ![w] = Looping]
      <3>1. IsSender(Looping) /\ Looping.pc # "off"
        BY Senders
      <3> DEFINE label == pool[w].label
                 x == Looping
      <3> HIDE DEF label, x
      <3>2. /\ label \in Path \cup {Batch} /\ IsSender(x) /\ x.pc # "off"
            /\ run' = [run EXCEPT !.failed = @ \cup {label}] /\ pool' = [pool EXCEPT ![w] = x]
        BY <1>2, <2>1, <3>1 DEF label, x
      <3>3. QED BY <1>1, <3>2, CollectedTyped
    <2>2. QED BY <1>3, <1>4, <2>1 DEF Failed
  <1>5. QED BY <1>3, <1>4 DEF SendFails

\* Every step is of one of the kinds, and keeps the types.
Moves ==
    \/ \E v \in DOMAIN Phases : Begins(v)
    \/ WalksDir
    \/ \E p \in Path : WalksEntry(p) \/ WalksPast(p) \/ Tidies(p) \/ Edits(p)
    \/ Scans \/ GoesOn \/ Sends \/ Ends \/ Stops \/ Settles

\* Every action is a step of one of the kinds.
LEMMA MovesTyped ==
  ASSUME TypeInv, PlanInv, Next
  PROVE  TypeInv' /\ Moves
  <1>1. CASE \E v \in left.ways : Begin(v)
    <2>1. left.ways \subseteq DOMAIN Phases
      BY DEF TypeInv, BaseInv
    <2>2. PICK v \in DOMAIN Phases : Begin(v)
      BY <1>1, <2>1
    <2>3. TypeInv' /\ Begins(v)
      BY <2>2, BeginTyped
    <2>4. QED BY <2>3 DEF Moves
  <1>2. CASE WalkDir \/ \E p \in Path : WalkEntry(p)
    BY <1>2, WalkTyped DEF Moves
  <1>3. CASE ScanDst
    BY <1>3, ScanTyped DEF Moves
  <1>4. CASE PhaseDone \/ PoolEnd \/ FixModes \/ StampDirs \/ CheckFailed \/ Verify
    BY <1>4, PhasesTyped DEF Moves
  <1>5. CASE \E p \in Path : RemoveOne(p)
    BY <1>5, RemoveTyped DEF Moves
  <1>6. CASE \E p \in Path : MakeDir(p) \/ MakeDirOver(p)
    BY <1>6, MakeTyped DEF Moves
  <1>7. CASE \E w \in Worker : Work(w)
    <2>1. PICK w \in Worker : Work(w)
      BY <1>7
    <2>2. TypeInv' /\ Sends
      BY <2>1, ClaimTyped, PublishTyped, SourceTyped DEF Work
    <2>3. QED BY <2>2 DEF Moves
  <1>8. CASE IntoResult
    BY <1>8, EndTyped DEF Moves
  <1>9. CASE Settle
    BY <1>9, SettleTyped DEF Moves
  <1>10. CASE \E w \in Worker : SendFails(w)
    BY <1>10, SendFailsTyped DEF Moves
  <1>11. CASE Abort
    BY <1>11, AbortTyped DEF Moves
  <1>12. CASE \E p \in Path : Edit(p)
    <2>1. PICK p \in Path : Edit(p)
      BY <1>12
    <2>2. TypeInv' /\ Edits(p)
      BY <2>1, EditTyped
    <2>3. QED BY <2>2 DEF Moves
  <1>13. QED BY <1>1, <1>2, <1>3, <1>4, <1>5, <1>6, <1>7, <1>8, <1>9, <1>10, <1>11, <1>12 DEF Next, Step

----------------------------------------------------------------------------
(* Types and plans. *)

LEMMA PlanStep ==
  ASSUME TypeInv, PlanInv, Moves
  PROVE  PlanInv'
  <1>1. CASE \E v \in DOMAIN Phases : Begins(v)
    <2>1. PICK v \in DOMAIN Phases : Begins(v)
      BY <1>1
    <2>2. Planned("walk", Phases[v])
      BY PlansAre
    <2>3. QED BY <2>1, <2>2 DEF Begins, PlanInv
  <1>2. CASE Scans \/ GoesOn
    <2>1. Active /\ run.pc # "end" /\ run'.variant = run.variant /\ run'.pc = Head(run.plan) /\ run'.plan = Tail(run.plan)
      BY <1>2 DEF Scans, GoesOn, Enters, Compares, Active, Busy
    <2>2. Planned(run.pc, run.plan) /\ run.variant \in DOMAIN Phases
      BY <2>1 DEF PlanInv
    <2>3. Head(run.plan) \in Names /\ Planned(Head(run.plan), Tail(run.plan))
      BY <2>1, <2>2, PlanGoesOn
    <2>4. run'.pc # "walk"
      BY <2>1, <2>3 DEF Names
    <2>5. QED BY <2>1, <2>2, <2>3, <2>4 DEF PlanInv
  <1>3. CASE Stops \/ Ends \/ Settles
    BY <1>3 DEF Stops, Ends, Settles, PlanInv, Active
  <1>4. CASE WalksDir \/ Sends \/ \E p \in Path : WalksEntry(p) \/ WalksPast(p) \/ Tidies(p) \/ Edits(p)
    <2>1. run'.pc = run.pc /\ run'.plan = run.plan /\ run'.variant = run.variant
      BY <1>4 DEF WalksDir, Sends, WalksEntry, WalksPast, Tidies, Edits, Same4, Compares
    <2>2. QED BY <2>1 DEF PlanInv, Active
  <1>5. QED BY <1>1, <1>2, <1>3, <1>4 DEF Moves

\* The trees a program starts with are trees.
LEMMA BaseInit ==
  ASSUME Init
  PROVE  BaseInv
  <1>1. ASSUME NEW v \in {1, 2}, NEW t \in Trees(v)
        PROVE  IsTree(t)
    <2>1. Absent \in Node /\ File(v) \in Node /\ Dir(v) \in Node
      BY Nodes DEF File, Dir, Node, KindSet
    <2>2. t \in [Path -> {Absent, File(v), Dir(v)}] /\ \A p \in Path : Exists(t, p) => IsDir(t, Parent[p])
      BY DEF Trees
    <2>3. t \in [Path -> Node]
      BY <2>1, <2>2
    <2>4. QED BY <2>2, <2>3 DEF IsTree, Tree
  <1>2. IsTree(src) /\ IsTree(dst)
    <2>1. src \in Trees(1)
      BY DEF Init
    <2>2. dst \in Trees(2) \/ dst = src
      BY DEF Init
    <2>3. IsTree(src)
      BY <1>1, <2>1
    <2>4. dst \in Trees(2) => IsTree(dst)
      BY <1>1
    <2> HIDE DEF IsTree
    <2>5. QED BY <2>2, <2>3, <2>4
  <1>3. IsTree(trash)
    BY Nodes DEF Init, IsTree, Tree, Exists
  <1>4. left \in [edits : Nat, faults : Nat, foreign : BOOLEAN, ways : SUBSET DOMAIN Phases]
    BY TreeAssumption DEF Init
  <1>5. mirror \in BOOLEAN /\ needFull \in BOOLEAN /\ clock \in Nat /\ dirty = {} /\ fresh = {} /\ changed = {}
    BY <1>4 DEF Init
  <1> HIDE DEF IsTree
  <1>6. QED BY <1>2, <1>3, <1>4, <1>5 DEF BaseInv

\* The first state has its types.
LEMMA TypeInit ==
  ASSUME Init
  PROVE  TypeInv /\ PlanInv
  <1>1. run = Idle /\ pool = NoPool
    BY DEF Init
  <1>2. IsRun(run) /\ run.pc = "idle"
    BY <1>1, IdleIs
  <1>3. IsPool(pool) /\ WorkInv
    BY <1>1, <1>2, NewPool, NewWork
  <1>4. QED BY <1>2, <1>3, BaseInit DEF TypeInv, PlanInv, Active

\* Every phase is a phase of some pass.
LEMMA PhaseNames ==
  Names \subseteq UNION {{Phases[v][i] : i \in DOMAIN Phases[v]} : v \in DOMAIN Phases}
  <1>1. \A v \in DOMAIN Phases : Ahead(Phases[v]) \subseteq UNION {{Phases[x][i] : i \in DOMAIN Phases[x]} : x \in DOMAIN Phases}
    BY DEF Ahead
  <1>2. /\ Ahead(Phases["push_full"]) = {"mismatch", "mkdir", "copy", "extras", "modes", "stamp", "end"}
        /\ Ahead(Phases["push_events"]) = {"remove", "mkdir", "copy", "modes", "stamp", "verify", "end"}
        /\ Ahead(Phases["local_full"]) = {"mkover", "copy", "extras", "modes", "stamp", "copied", "end"}
        /\ Ahead(Phases["local_events"])
             = {"mismatch", "mkdir", "copy", "failed", "modes", "extras", "stamp", "verify", "end"}
    BY PlanPushFull, PlanPushEvents, PlanLocalFull, PlanLocalEvents
  <1>3. Names = Ahead(Phases["push_full"]) \cup Ahead(Phases["push_events"]) \cup Ahead(Phases["local_full"])
                \cup Ahead(Phases["local_events"])
    BY <1>2 DEF Names
  <1>4. {"push_full", "push_events", "local_full", "local_events"} \subseteq DOMAIN Phases
    BY VariantsAre
  <1>5. QED BY <1>1, <1>3, <1>4

\* The types the proofs need are those the runs check, and more.
LEMMA TypeImplies ==
  ASSUME TypeInv
  PROVE  TypeOK
  <1>1. Tree(src) /\ Tree(dst) /\ Tree(trash)
    BY DEF TypeInv, BaseInv, IsTree
  <1>2. dirty \cup fresh \subseteq Path /\ {mirror, needFull} \subseteq BOOLEAN
    BY DEF TypeInv, BaseInv
  <1>3. run.pc \in {"idle", "walk", "done"} \cup UNION {{Phases[v][i] : i \in DOMAIN Phases[v]} : v \in DOMAIN Phases}
    BY PhaseNames DEF TypeInv, IsRun, Pcs
  <1>4. run.failed \subseteq Path \cup {Batch} /\ run.changing \subseteq Path
    BY DEF TypeInv, IsRun
  <1>5. \A w \in Worker : pool[w].pc \in {"off", "loop", "memory", "send"} /\ pool[w].mem \in Nat
    BY DEF TypeInv, IsPool, IsWorker
  <1>6. QED BY <1>1, <1>2, <1>3, <1>4, <1>5 DEF TypeOK

\* A step that changes nothing keeps them.
LEMMA TypeStutters ==
  ASSUME TypeInv, PlanInv, UNCHANGED vars
  PROVE  TypeInv' /\ PlanInv'
  <1>1. /\ src' = src /\ dst' = dst /\ trash' = trash /\ mirror' = mirror /\ needFull' = needFull
        /\ dirty' = dirty /\ fresh' = fresh /\ changed' = changed /\ clock' = clock /\ left' = left
        /\ run' = run /\ pool' = pool
    BY DEF vars
  <1>2. IsTree(src') /\ IsTree(dst') /\ IsTree(trash')
    BY <1>1 DEF TypeInv, BaseInv
  <1>3. BaseInv'
    <2> HIDE DEF IsTree
    <2>1. QED BY <1>1, <1>2 DEF TypeInv, BaseInv
  <1>4. IsRun(run') /\ IsPool(pool')
    BY <1>1 DEF TypeInv
  <1>5. Copies' = Copies
    BY <1>1 DEF Copies, ByEvents
  <1>6. WorkInv'
    <2> HIDE DEF Copies
    <2>1. QED BY <1>1, <1>5 DEF TypeInv, WorkInv, NoPool
  <1>7. PlanInv'
    BY <1>1 DEF PlanInv, Active
  <1>8. QED BY <1>3, <1>4, <1>6, <1>7 DEF TypeInv

\* The trees stay trees, whatever order entries come and go in, and a pass is in
\* one of its phases.
THEOREM TypeCorrect == Spec => []TypeOK
  <1>1. Init => TypeInv /\ PlanInv
    BY TypeInit
  <1>2. ASSUME TypeInv, PlanInv, [Next]_vars
        PROVE  TypeInv' /\ PlanInv'
    <2>1. CASE Next
      BY <1>2, <2>1, MovesTyped, PlanStep
    <2>2. CASE UNCHANGED vars
      BY <1>2, <2>2, TypeStutters
    <2>3. QED BY <1>2, <2>1, <2>2
  <1>3. TypeInv => TypeOK
    BY TypeImplies
  <1>4. Spec => [](TypeInv /\ PlanInv)
    BY <1>1, <1>2, PTL DEF Spec
  <1>5. QED BY <1>3, <1>4, PTL

----------------------------------------------------------------------------
(* What the walk has seen. *)

\* The part of the tree that a pass is about; a path strictly below another.
Region(p) == ByEvents(run) => Covers(run.rel, p)
Below(q, d) == d = Root \/ d \in Above(q)

\* An entry of a listing lies in a directory of it, or on the upper edge of the region.
Held(t, p) == Parent[p] = Root \/ t[Parent[p]].kind = "dir" \/ ~Region(Parent[p])
Snapshot(t) == \A p \in Path : Exists(t, p) => Region(p) /\ Held(t, p)

\* What is listed, and what lies below a directory in the queue, comes only once.
Frontier ==
    /\ Once(run.queue)
    /\ Root \in Ahead(run.queue) => ~ByEvents(run)
    /\ \A d \in Ahead(run.queue) \ {Root} : run.S[d].kind = "dir"
    /\ \A l \in run.listed : l \notin Excluded /\ Region(l) /\ Held(run.S, l)
    /\ \A l \in run.listed : \A q \in Subtree(l) : ~Exists(run.S, q)
    /\ \A d \in Ahead(run.queue), q \in Path : Below(q, d) => ~Exists(run.S, q)
    /\ \A d \in Ahead(run.queue), l \in run.listed : ~Below(l, d)
    /\ \A l, m \in run.listed : l \in Subtree(m) => l = m

WalkInv ==
    /\ run.pc # "idle" => Snapshot(run.S) /\ \A p \in Path : Exists(run.S, p) => p \notin Excluded
    /\ run.pc = "walk" => Frontier

\* In a listing, what is above an entry is a directory.
LEMMA SnapshotUp ==
  ASSUME NEW t, Snapshot(t), run.rel \in SUBSET Path, NEW p \in Path, Exists(t, p), NEW a \in Above(p), Region(a)
  PROVE  t[a].kind = "dir"
  <1> DEFINE P == {x \in Path : t[x].kind = "dir" \/ ~Region(x)}
  <1>1. ASSUME NEW x \in Path, Exists(t, x)
        PROVE  Parent[x] \in P \cup {Root}
    BY <1>1, TreeAssumption DEF Snapshot, Held
  <1>2. ASSUME NEW x \in Path, ~Region(x)
        PROVE  Parent[x] \in P \cup {Root}
    <2>1. SUFFICES ASSUME Parent[x] # Root PROVE Parent[x] \in P
      OBVIOUS
    <2>2. Parent[x] \in Path
      BY <2>1, TreeAssumption
    <2>3. x \in Subtree(Parent[x])
      BY <2>2, SubtreeIs
    <2>4. ~Region(Parent[x])
      BY <1>2, <2>2, <2>3, CoversDown DEF Region
    <2>5. QED BY <2>2, <2>4
  <1>3. Closed(P, p)
    BY <1>1, <1>2 DEF Closed, Exists
  <1>4. a \in P
    BY <1>3, AboveIs
  <1>5. QED BY <1>4

\* What is below a path of the region is in it.
LEMMA RegionDown ==
  ASSUME run.rel \in SUBSET Path, NEW p \in Path, NEW q \in Subtree(p), Region(p)
  PROVE  Region(q)
  BY CoversDown DEF Region

\* Below a child is below its directory, and the other way round.
LEMMA BelowIs ==
  ASSUME NEW c \in Path, NEW q \in Path
  PROVE  /\ q \in Subtree(c) => Below(q, Parent[c])
         /\ q \in Subtree(c) /\ q # c => Below(q, c)
         /\ Below(q, c) => q \in Subtree(c) /\ q # c
         /\ ~Below(q, q)
         /\ \A d \in Path : Below(q, c) /\ Below(c, d) => Below(q, d)
  <1>1. Subtree(c) = {x \in Path : c = x \/ c \in Above(x)} /\ c # Root
    BY SubtreeIs, TreeAssumption
  <1>2. q \notin Above(q) /\ c \notin Above(c) /\ q # Root
    BY Acyclic, TreeAssumption
  <1>3. Parent[c] = Root \/ Parent[c] \in Above(c)
    BY AboveMade
  <1>4. ASSUME c \in Above(q)
        PROVE  Above(c) \subseteq Above(q)
    BY <1>4, AboveTrans
  <1>5. QED BY <1>1, <1>2, <1>3, <1>4 DEF Below

\* The walk starts with the top directory or the event paths.
LEMMA WalkStart ==
  ASSUME TypeInv, NEW v \in DOMAIN Phases, Begins(v), TypeInv'
  PROVE  WalkInv'
  <1>1. run'.S = NoTree /\ \A p \in Path : ~Exists(run'.S, p)
    BY Nodes DEF Begins, Exists
  <1>2. Snapshot(run.S)'
    BY <1>1 DEF Snapshot
  <1>3. ASSUME NEW A, NEW x
        PROVE  /\ Once(<<>>) /\ Ahead(<<>>) = {}
               /\ Once(<<x>>) /\ Ahead(<<x>>) = {x}
    BY DEF Once, Ahead
  <1>4. dirty' \in SUBSET Path
    BY DEF TypeInv, BaseInv
  <1>5. CASE v \in {"push_events", "local_events"}
    <2>1. run'.rel = dirty' /\ run'.queue = <<>> /\ run'.listed = Uncovered(dirty') /\ ByEvents(run')
      BY <1>5 DEF Begins, ByEvents
    <2>2. ASSUME NEW l \in run'.listed
          PROVE  l \in Path /\ l \notin Excluded /\ Region(l)' /\ Held(run.S, l)'
      <3>1. l \in dirty' /\ l \in Path /\ l \notin Excluded /\ ~ \E q \in dirty' : l # q /\ l \in Subtree(q)
        BY <1>4, <2>1, <2>2 DEF Uncovered
      <3>2. Region(l)'
        BY <2>1, <3>1, SubtreeIs DEF Region, Covers
      <3>3. ASSUME Parent[l] # Root, Covers(dirty', Parent[l])
            PROVE  FALSE
        <4>1. PICK q \in dirty' : Parent[l] \in Subtree(q)
          BY <3>3 DEF Covers
        <4>2. l \in Subtree(q) /\ l # q
          BY <1>4, <3>1, <4>1, SubtreeIs
        <4>3. QED BY <3>1, <4>2
      <3>4. Held(run.S, l)'
        BY <2>1, <3>3 DEF Held, Region
      <3>5. QED BY <3>1, <3>2, <3>4
    <2>3. \A l, m \in run'.listed : l \in Subtree(m) => l = m
      BY <2>1 DEF Uncovered
    <2>4. \A l \in run'.listed : \A q \in Subtree(l) : ~Exists(run'.S, q)
      BY <1>1, <2>2, SubtreeIs
    <2>5. Once(run'.queue) /\ Ahead(run'.queue) = {}
      BY <1>3, <2>1
    <2>6. Frontier'
      BY <2>2, <2>3, <2>4, <2>5 DEF Frontier
    <2>7. QED BY <1>1, <1>2, <2>6 DEF WalkInv
  <1>6. CASE v \notin {"push_events", "local_events"}
    <2>1. run'.rel = {} /\ run'.queue = <<Root>> /\ run'.listed = {} /\ ~ByEvents(run')
      BY <1>6 DEF Begins, ByEvents
    <2>2. Once(run'.queue) /\ Ahead(run'.queue) = {Root}
      BY <1>3, <2>1
    <2>3. Frontier'
      BY <1>1, <2>1, <2>2 DEF Frontier
    <2>4. QED BY <1>1, <1>2, <2>3 DEF WalkInv
  <1>7. QED BY <1>5, <1>6

\* It goes on with the entries of a directory,
LEMMA WalkDirKeeps ==
  ASSUME TypeInv, WalkInv, WalksDir
  PROVE  WalkInv'
  <1> DEFINE d == Head(run.queue)
             t == Tail(run.queue)
  <1>1. /\ run.pc = "walk" /\ run.queue # <<>> /\ run.listed = {} /\ IsDir(src, d)
        /\ run'.pc = "walk" /\ run'.S = run.S /\ run'.variant = run.variant /\ run'.rel = run.rel
        /\ run'.queue = t /\ run'.listed = Children(src, d) \ Excluded
    BY DEF WalksDir, Same4, Compares
  <1>2. run.rel \in SUBSET Path /\ run.queue \in Seq(Path \cup {Root})
    BY DEF TypeInv, IsRun
  <1>3. Frontier /\ Snapshot(run.S) /\ \A p \in Path : Exists(run.S, p) => p \notin Excluded
    BY <1>1 DEF WalkInv
  <1>4. /\ d \in Path \cup {Root} /\ d \in Ahead(run.queue) /\ Ahead(run.queue) = {d} \cup Ahead(t)
        /\ Once(t) /\ d \notin Ahead(t)
    BY <1>1, <1>2, <1>3, ListIs DEF Frontier
  <1> HIDE DEF d, t
  <1>5. \A l \in run'.listed : l \in Path /\ Parent[l] = d /\ l \notin Excluded
    BY <1>1 DEF Children
  <1>6. ASSUME NEW l \in run'.listed
        PROVE  Region(l) /\ Held(run.S, l)
    <2>1. CASE d = Root
      BY <1>3, <1>4, <1>5, <2>1 DEF Frontier, Region, Held
    <2>2. CASE d # Root
      <3>1. d \in Path /\ run.S[d].kind = "dir"
        BY <1>3, <1>4, <2>2 DEF Frontier
      <3>2. Region(d)
        BY <1>3, <3>1 DEF Snapshot, Exists
      <3>3. l \in Subtree(d)
        BY <1>5, <3>1, SubtreeIs
      <3>4. QED BY <1>2, <1>5, <3>1, <3>2, <3>3, RegionDown DEF Held
    <2>3. QED BY <2>1, <2>2
  <1>7. \A l \in run'.listed : Region(l)' /\ Held(run.S, l)'
    BY <1>1, <1>6 DEF Region, Held, ByEvents
  <1>8. ASSUME NEW l \in run'.listed, NEW q \in Subtree(l)
        PROVE  ~Exists(run.S, q)
    <2>1. l \in Path /\ q \in Path
      BY <1>5, <1>8, SubtreeIs
    <2>2. Below(q, d)
      BY <1>5, <1>8, <2>1, BelowIs
    <2>3. QED BY <1>3, <1>4, <2>1, <2>2 DEF Frontier
  <1>9. ASSUME NEW e \in Ahead(t), NEW l \in run'.listed, Below(l, e)
        PROVE  FALSE
    <2>1. e \in Path \cup {Root} /\ e # d /\ e \in Ahead(run.queue)
      BY <1>2, <1>4 DEF Ahead
    <2>2. CASE e = Root
      <3>1. d \in Path
        BY <1>4, <2>1, <2>2
      <3>2. Below(d, Root) /\ run.S[d].kind = "dir"
        BY <1>3, <1>4, <2>1, <2>2 DEF Below, Frontier
      <3>3. QED BY <1>3, <2>1, <2>2, <3>1, <3>2 DEF Frontier, Exists
    <2>3. CASE e # Root
      <3>1. l \in Subtree(e) /\ l # e /\ e \in Path /\ l \in Path
        BY <1>5, <1>9, <2>1, <2>3, BelowIs
      <3>2. Parent[l] \in Subtree(e) /\ Parent[l] # Root
        BY <3>1, SubtreeIs
      <3>3. d \in Subtree(e) /\ d \in Path /\ d # e
        BY <1>5, <2>1, <3>1, <3>2, SubtreeIs
      <3>4. Below(d, e)
        BY <3>1, <3>3, BelowIs
      <3>5. ~Exists(run.S, d)
        BY <1>3, <2>1, <3>3, <3>4 DEF Frontier
      <3>6. run.S[d].kind = "dir"
        BY <1>3, <1>4, <3>2, <1>5 DEF Frontier
      <3>7. QED BY <3>5, <3>6 DEF Exists
    <2>4. QED BY <2>2, <2>3
  <1>10. ASSUME NEW l \in run'.listed, NEW m \in run'.listed, l \in Subtree(m)
         PROVE  l = m
    <2>1. SUFFICES ASSUME l # m PROVE FALSE
      OBVIOUS
    <2>2. Parent[l] \in Subtree(m) /\ Parent[m] \notin Subtree(m)
      BY <1>5, <1>10, <2>1, SubtreeIs
    <2>3. QED BY <1>5, <2>2
  <1>11. /\ Root \in Ahead(t) => ~ByEvents(run')
         /\ \A e \in Ahead(t) \ {Root} : run.S[e].kind = "dir"
         /\ \A e \in Ahead(t), q \in Path : Below(q, e) => ~Exists(run.S, q)
    BY <1>1, <1>3, <1>4 DEF Frontier, ByEvents
  <1>12. Frontier'
    BY <1>1, <1>4, <1>5, <1>7, <1>8, <1>9, <1>10, <1>11 DEF Frontier
  <1>13. Snapshot(run.S)'
    BY <1>1, <1>3 DEF Snapshot, Region, Held, ByEvents
  <1>14. QED BY <1>1, <1>3, <1>12, <1>13 DEF WalkInv

\* puts the directories among them in the queue,
LEMMA WalkEntryKeeps ==
  ASSUME TypeInv, WalkInv, NEW p \in Path, WalksEntry(p)
  PROVE  WalkInv'
  <1>1. /\ run.pc = "walk" /\ p \in run.listed /\ Exists(src, p)
        /\ run'.pc = "walk" /\ run'.variant = run.variant /\ run'.rel = run.rel
        /\ run'.S = [run.S EXCEPT ![p] = src[p]] /\ run'.listed = run.listed \ {p}
        /\ run'.queue = IF src[p].kind = "dir" THEN Append(run.queue, p) ELSE run.queue
    BY DEF WalksEntry, Same4
  <1>2. run.rel \in SUBSET Path /\ run.queue \in Seq(Path \cup {Root}) /\ run.S \in [Path -> Node] /\ run.listed \in SUBSET Path
    BY DEF TypeInv, IsRun
  <1>3. Frontier /\ Snapshot(run.S) /\ \A q \in Path : Exists(run.S, q) => q \notin Excluded
    BY <1>1 DEF WalkInv
  <1>4. run'.S[p] = src[p] /\ \A q \in Path : q # p => run'.S[q] = run.S[q]
    BY <1>1, <1>2
  <1>5. p \notin Excluded /\ Region(p) /\ Held(run.S, p) /\ \A q \in Subtree(p) : ~Exists(run.S, q)
    BY <1>1, <1>3 DEF Frontier
  <1>6. p \in Subtree(p) /\ Parent[p] # p
    BY SubtreeIs
  <1>7. p \notin Ahead(run.queue)
    BY <1>3, <1>5, <1>6, TreeAssumption DEF Frontier, Exists
  <1>8. /\ Ahead(run'.queue) \subseteq Ahead(run.queue) \cup {p}
        /\ p \in Ahead(run'.queue) => src[p].kind = "dir"
        /\ Once(run'.queue)
    <2>1. Once(run.queue)
      BY <1>3 DEF Frontier
    <2>2. /\ Ahead(Append(run.queue, p)) = Ahead(run.queue) \cup {p}
          /\ Once(Append(run.queue, p))
      BY <1>2, <1>7, <2>1, AppendIs
    <2>3. QED BY <1>1, <1>7, <2>1, <2>2
  <1>9. /\ Root \in Ahead(run'.queue) => ~ByEvents(run')
        /\ \A d \in Ahead(run'.queue) \ {Root} : run'.S[d].kind = "dir"
    <2>1. Ahead(run.queue) \subseteq Path \cup {Root}
      BY <1>2 DEF Ahead
    <2>2. Root # p
      BY TreeAssumption
    <2>3. QED BY <1>1, <1>3, <1>4, <1>7, <1>8, <2>1, <2>2 DEF Frontier, ByEvents
  <1>10. ASSUME NEW l \in run'.listed
         PROVE  l \in Path /\ l \notin Excluded /\ Region(l)' /\ Held(run.S, l)' /\ \A q \in Subtree(l) : ~Exists(run'.S, q)
    <2>1. l \in run.listed /\ l # p /\ l \in Path
      BY <1>1, <1>2
    <2>2. l \notin Excluded /\ Region(l) /\ Held(run.S, l) /\ \A q \in Subtree(l) : ~Exists(run.S, q)
      BY <1>3, <2>1 DEF Frontier
    <2>3. Region(l)'
      BY <1>1, <2>2 DEF Region, ByEvents
    <2>4. Parent[l] # p
      <3>1. l \notin Subtree(p)
        BY <1>1, <1>3, <2>1 DEF Frontier
      <3>2. QED BY <1>6, <2>1, <3>1, SubtreeIs
    <2>5. Held(run.S, l)'
      BY <1>1, <1>4, <2>1, <2>2, <2>4, TreeAssumption DEF Held, Region, ByEvents
    <2>6. p \notin Subtree(l)
      BY <1>1, <1>3, <2>1 DEF Frontier
    <2>7. \A q \in Subtree(l) : ~Exists(run'.S, q)
      BY <1>4, <2>1, <2>2, <2>6, SubtreeIs DEF Exists
    <2>8. QED BY <2>1, <2>2, <2>3, <2>5, <2>7
  <1>11. ASSUME NEW d \in Ahead(run'.queue), NEW q \in Path, Below(q, d)
         PROVE  ~Exists(run'.S, q)
    <2>1. CASE d = p
      <3>1. q \in Subtree(p) /\ q # p
        BY <1>11, <2>1, BelowIs
      <3>2. QED BY <1>4, <1>5, <3>1 DEF Exists
    <2>2. CASE d # p
      <3>1. d \in Ahead(run.queue)
        BY <1>8, <2>2
      <3>2. ~Below(p, d) /\ ~Exists(run.S, q)
        BY <1>1, <1>3, <1>11, <3>1 DEF Frontier
      <3>3. QED BY <1>4, <1>11, <3>2 DEF Exists
    <2>3. QED BY <2>1, <2>2
  <1>12. ASSUME NEW d \in Ahead(run'.queue), NEW l \in run'.listed
         PROVE  ~Below(l, d)
    <2>1. l \in run.listed /\ l # p /\ l \in Path
      BY <1>1, <1>2
    <2>2. CASE d = p
      <3>1. l \notin Subtree(p)
        BY <1>1, <1>3, <2>1 DEF Frontier
      <3>2. QED BY <2>1, <2>2, <3>1, BelowIs
    <2>3. CASE d # p
      BY <1>3, <1>8, <2>1, <2>3 DEF Frontier
    <2>4. QED BY <2>2, <2>3
  <1>13. \A l, m \in run'.listed : l \in Subtree(m) => l = m
    BY <1>1, <1>3 DEF Frontier
  <1>14. Frontier'
    BY <1>8, <1>9, <1>10, <1>11, <1>12, <1>13 DEF Frontier
  <1>15. ASSUME NEW q \in Path, Exists(run'.S, q)
         PROVE  q \notin Excluded /\ Region(q)' /\ Held(run.S, q)'
    <2>1. CASE q = p
      <3>1. Held(run.S, p)'
        BY <1>1, <1>4, <1>5, <1>6, TreeAssumption DEF Held, Region, ByEvents
      <3>2. Region(p)'
        BY <1>1, <1>5 DEF Region, ByEvents
      <3>3. QED BY <1>5, <2>1, <3>1, <3>2
    <2>2. CASE q # p
      <3>1. Exists(run.S, q) /\ q \notin Excluded /\ Region(q) /\ Held(run.S, q)
        BY <1>3, <1>4, <1>15, <2>2 DEF Snapshot, Exists
      <3>2. Parent[q] # p
        <4>1. q \notin Subtree(p)
          BY <1>5, <3>1
        <4>2. QED BY <1>6, <4>1, SubtreeIs
      <3>3. Region(q)'
        BY <1>1, <3>1 DEF Region, ByEvents
      <3>4. Held(run.S, q)'
        BY <1>1, <1>4, <3>1, <3>2, TreeAssumption DEF Held, Region, ByEvents
      <3>5. QED BY <3>1, <3>3, <3>4
    <2>3. QED BY <2>1, <2>2
  <1>16. Snapshot(run.S)'
    BY <1>15 DEF Snapshot
  <1>17. QED BY <1>1, <1>14, <1>15, <1>16 DEF WalkInv

\* and passes over an event path that is gone.
LEMMA WalkPastKeeps ==
  ASSUME TypeInv, WalkInv, NEW p \in Path, WalksPast(p)
  PROVE  WalkInv'
  <1>1. /\ run.pc = "walk" /\ run'.pc = "walk" /\ run'.variant = run.variant /\ run'.rel = run.rel
        /\ run'.S = run.S /\ run'.listed = run.listed \ {p} /\ run'.queue = run.queue
    BY DEF WalksPast, Same4, Compares
  <1>2. Frontier /\ Snapshot(run.S) /\ \A q \in Path : Exists(run.S, q) => q \notin Excluded
    BY <1>1 DEF WalkInv
  <1>3. Frontier'
    BY <1>1, <1>2 DEF Frontier, Region, Held, ByEvents
  <1>4. Snapshot(run.S)'
    BY <1>1, <1>2 DEF Snapshot, Region, Held, ByEvents
  <1>5. QED BY <1>1, <1>2, <1>3, <1>4 DEF WalkInv

\* The walk keeps a frontier, and what it listed.
LEMMA WalkStep ==
  ASSUME TypeInv, PlanInv, WalkInv, Moves, TypeInv', PlanInv'
  PROVE  WalkInv'
  <1>1. CASE \E v \in DOMAIN Phases : Begins(v)
    BY <1>1, WalkStart
  <1>2. CASE WalksDir \/ \E p \in Path : WalksEntry(p) \/ WalksPast(p)
    BY <1>2, WalkDirKeeps, WalkEntryKeeps, WalkPastKeeps
  <1>3. CASE Settles
    BY <1>3 DEF Settles, WalkInv
  <1>4. CASE \E p \in Path : Edits(p)
    <2>1. run' = run
      BY <1>4 DEF Edits
    <2>2. QED BY <2>1 DEF WalkInv, Frontier, Snapshot, Held, Region, ByEvents
  <1>5. CASE Scans \/ GoesOn \/ Sends \/ Ends \/ Stops \/ \E p \in Path : Tidies(p)
    <2>1. /\ run.pc # "idle" /\ run'.pc # "walk"
          /\ run'.S = run.S /\ run'.variant = run.variant /\ run'.rel = run.rel
      <3>1. CASE Scans
        <4>1. run'.pc = Head(run.plan) /\ Planned(run.pc, run.plan) /\ run.pc # "end"
          BY <3>1 DEF Scans, Enters, PlanInv, Active
        <4>2. Head(run.plan) \in Names
          BY <4>1, PlanGoesOn
        <4>3. QED BY <3>1, <4>1, <4>2 DEF Scans, Names
      <3>2. CASE GoesOn
        <4>1. run'.pc = Head(run.plan) /\ Planned(run.pc, run.plan) /\ run.pc # "end"
          BY <3>2 DEF GoesOn, Enters, PlanInv, Active, Busy
        <4>2. Head(run.plan) \in Names
          BY <4>1, PlanGoesOn
        <4>3. QED BY <3>2, <4>1, <4>2 DEF GoesOn, Busy, Active, Names, Compares
      <3>3. CASE Sends \/ Ends \/ Stops \/ \E p \in Path : Tidies(p)
        BY <3>3 DEF Sends, Ends, Stops, Tidies, Same4, Compares, Active
      <3>4. QED BY <1>5, <3>1, <3>2, <3>3
    <2>2. Snapshot(run.S) /\ \A p \in Path : Exists(run.S, p) => p \notin Excluded
      BY <2>1 DEF WalkInv
    <2>3. Snapshot(run.S)'
      BY <2>1, <2>2 DEF Snapshot, Held, Region, ByEvents
    <2>4. QED BY <2>1, <2>2, <2>3 DEF WalkInv
  <1>6. QED BY <1>1, <1>2, <1>3, <1>4, <1>5 DEF Moves

\* What has been listed is as the source has it, unless it changed since.
SeenAs(p) ==
    /\ src[p].kind = run.S[p].kind /\ src[p].look = run.S[p].look /\ src[p].mode = run.S[p].mode
    /\ src[p].kind # "dir" \/ (\A q \in changed : Parent[q] # p) => src[p].ver = run.S[p].ver
SeenRight == \A p \in Path : Exists(run.S, p) /\ p \notin changed => SeenAs(p)

\* What has not been listed still will be.
Pending(p) ==
    /\ run.pc = "walk"
    /\ (\E l \in run.listed : p \in Subtree(l)) \/ \E d \in Ahead(run.queue) : Below(p, d)
SeenAll ==
    run.result # "err" =>
        \A p \in Path \ (changed \cup Excluded) : Region(p) /\ Exists(src, p) /\ ~Exists(run.S, p) => Pending(p)

\* What is above what has been listed is a directory, unless it changed since.
SeenUp == \A p \in Path : Exists(run.S, p) => \A a \in Above(p) : a \in changed \/ src[a].kind = "dir"

\* Changes are announced to the next cycle; a pass from events is about those of its cycle.
SeenNew ==
    /\ \A p \in changed \ Excluded : Covers(fresh, p)
    /\ ByEvents(run) => run.rel = dirty /\ ~needFull

SeenInv == run.pc # "idle" => SeenRight /\ SeenAll /\ SeenUp /\ SeenNew

\* Between passes nothing is taken up unless the last one failed.
IdleInv ==
    /\ run.pc = "idle" => changed = {} /\ (run.result # "err" => dirty = {})
    /\ Active => run.result = "none"

\* The next phase is the first of those to come.
LEMMA NextPhase ==
  ASSUME PlanInv, Scans \/ GoesOn
  PROVE  /\ Active /\ Busy' /\ run'.pc \in Names /\ run'.pc # run.pc
         /\ Planned(run.pc, run.plan) /\ Coming = {run'.pc} \cup Coming' /\ run'.pc \notin Coming'
         /\ run.pc # "walk" => run'.pc \notin First3
         /\ run.pc \in {"mismatch", "remove"} => "mkdir" \in Coming
  <1>1. Active /\ run.pc # "end" /\ run'.pc = Head(run.plan) /\ run'.plan = Tail(run.plan)
    BY DEF Scans, GoesOn, Enters, Active, Busy
  <1>2. Planned(run.pc, run.plan)
    BY <1>1 DEF PlanInv
  <1> DEFINE s == run.plan
             c == run.pc
  <1>3. /\ Head(s) \in Names
        /\ Ahead(s) = {Head(s)} \cup Ahead(Tail(s)) /\ Head(s) \notin Ahead(Tail(s)) /\ Head(s) # c
        /\ c # "walk" => Head(s) \notin First3
        /\ c \in {"mismatch", "remove"} => "mkdir" \in Ahead(s)
    <2>1. Planned(c, s) /\ c # "end"
      BY <1>1, <1>2
    <2> HIDE DEF s, c
    <2>2. QED BY <2>1, PlanGoesOn
  <1>4. Busy'
    BY <1>1, <1>3 DEF Busy, Active, Names
  <1>5. QED BY <1>1, <1>2, <1>3, <1>4 DEF Coming

\* Between passes only a failed cycle is kept.
LEMMA IdleStep ==
  ASSUME PlanInv, IdleInv, Moves
  PROVE  IdleInv'
  <1>1. CASE \E v \in DOMAIN Phases : Begins(v)
    BY <1>1 DEF Begins, IdleInv, Active
  <1>2. CASE WalksDir \/ Sends \/ \E p \in Path : WalksEntry(p) \/ WalksPast(p)
    BY <1>2 DEF WalksDir, Sends, WalksEntry, WalksPast, Same4, IdleInv, Active
  <1>3. CASE Scans \/ GoesOn
    <2>1. Active /\ Busy'
      BY <1>3, NextPhase
    <2>2. run'.result = run.result
      BY <1>3 DEF Scans, GoesOn, Enters
    <2>3. QED BY <2>1, <2>2 DEF IdleInv, Active, Busy
  <1>4. CASE Ends \/ Stops
    BY <1>4 DEF Ends, Stops, IdleInv, Active
  <1>5. CASE \E p \in Path : Tidies(p)
    BY <1>5 DEF Tidies, IdleInv, Active
  <1>6. CASE Settles
    BY <1>6 DEF Settles, IdleInv, Active
  <1>7. CASE \E p \in Path : Edits(p)
    BY <1>7 DEF Edits, IdleInv, Active
  <1>8. QED BY <1>1, <1>2, <1>3, <1>4, <1>5, <1>6, <1>7 DEF Moves

\* At the start of a pass everything still will be listed.
LEMMA SeenStart ==
  ASSUME TypeInv, IdleInv, NEW v \in DOMAIN Phases, Begins(v), TypeInv'
  PROVE  SeenInv'
  <1>1. run'.S = NoTree /\ \A p \in Path : ~Exists(run'.S, p)
    BY Nodes DEF Begins, Exists
  <1>2. changed' = {}
    BY DEF Begins, IdleInv
  <1>3. SeenRight' /\ SeenUp'
    BY <1>1 DEF SeenRight, SeenUp
  <1>4. dirty' \in SUBSET Path /\ run'.pc = "walk"
    BY DEF TypeInv, BaseInv, Begins
  <1>5. SeenNew'
    BY <1>2 DEF SeenNew, Begins, ByEvents
  <1>6. ASSUME NEW p \in Path \ Excluded, Region(p)'
        PROVE  Pending(p)'
    <2>1. CASE v \in {"push_events", "local_events"}
      <3>1. run'.rel = dirty' /\ run'.listed = Uncovered(dirty') /\ ByEvents(run')
        BY <2>1 DEF Begins, ByEvents
      <3>2. Covers(dirty', p)
        BY <1>6, <3>1 DEF Region
      <3> DEFINE R == dirty'
      <3> HIDE DEF R
      <3>3. R \in SUBSET Path /\ Covers(R, p) /\ p \in Path
        BY <1>4, <3>2 DEF R
      <3>4. \E r \in R : p \in Subtree(r) /\ \A x \in R : x # r => r \notin Subtree(x)
        BY <3>3, TopMost
      <3>5. PICK r \in R : p \in Subtree(r) /\ \A x \in R : x # r => r \notin Subtree(x)
        BY <3>4
      <3>6. r \notin Excluded
        BY <3>3, <3>5, CoversDown
      <3>7. r \in run'.listed
        BY <3>1, <3>5, <3>6 DEF Uncovered, R
      <3>8. QED BY <1>4, <3>5, <3>7 DEF Pending
    <2>2. CASE v \notin {"push_events", "local_events"}
      <3>1. run'.queue = <<Root>>
        BY <2>2 DEF Begins
      <3>2. Root \in Ahead(run'.queue)
        <4>1. \A x : x \in Ahead(<<x>>)
          BY DEF Ahead
        <4>2. QED BY <3>1, <4>1
      <3>3. QED BY <1>4, <3>2 DEF Pending, Below
    <2>3. QED BY <2>1, <2>2
  <1>7. SeenAll'
    BY <1>6 DEF SeenAll
  <1>8. QED BY <1>3, <1>5, <1>7 DEF SeenInv

\* What is above an entry of the source is there.
LEMMA SourceUp ==
  ASSUME TypeInv, NEW p \in Path, Exists(src, p)
  PROVE  /\ \A a \in Above(p) : src[a].kind = "dir"
         /\ \A c \in Path : p \in Subtree(c) => Exists(src, c) /\ (p # c => src[c].kind = "dir")
  <1>1. \A a \in Above(p) : src[a].kind = "dir"
    BY TreeUp DEF TypeInv, BaseInv, IsTree
  <1>2. \A c \in Path : p \in Subtree(c) => p = c \/ c \in Above(p)
    BY SubtreeIs
  <1>3. QED BY <1>1, <1>2 DEF Exists

\* A directory hands what lies below it to its entries.
LEMMA SeenWalkDir ==
  ASSUME TypeInv, SeenInv, WalksDir
  PROVE  SeenInv'
  <1> DEFINE d == Head(run.queue)
             t == Tail(run.queue)
  <1>1. /\ run.pc = "walk" /\ run.queue # <<>> /\ run.listed = {} /\ run'.result = run.result
        /\ run'.pc = "walk" /\ run'.S = run.S /\ run'.variant = run.variant /\ run'.rel = run.rel
        /\ run'.queue = t /\ run'.listed = Children(src, d) \ Excluded
        /\ src' = src /\ changed' = changed /\ fresh' = fresh /\ dirty' = dirty /\ needFull' = needFull
    BY DEF WalksDir, Same4, Compares, Others
  <1>2. run.queue \in Seq(Path \cup {Root})
    BY DEF TypeInv, IsRun
  <1>3. SeenRight /\ SeenAll /\ SeenUp /\ SeenNew
    BY <1>1 DEF SeenInv
  <1>4. d \in Path \cup {Root} /\ Ahead(run.queue) = {d} \cup Ahead(t)
    BY <1>1, <1>2, ListIs
  <1> HIDE DEF d, t
  <1>5. SeenRight' /\ SeenUp' /\ SeenNew'
    BY <1>1, <1>3 DEF SeenRight, SeenUp, SeenNew, SeenAs, ByEvents
  <1>6. ASSUME NEW p \in Path \ (changed \cup Excluded), Exists(src, p), Pending(p)
        PROVE  Pending(p)'
    <2>1. PICK e \in Ahead(run.queue) : Below(p, e)
      BY <1>1, <1>6 DEF Pending
    <2>2. CASE e \in Ahead(t)
      BY <1>1, <2>1, <2>2 DEF Pending
    <2>3. CASE e = d
      <3>1. d = Root \/ d \in Above(p)
        BY <2>1, <2>3 DEF Below
      <3>2. PICK c \in Path : Parent[c] = d /\ p \in Subtree(c)
        BY <1>4, <3>1, ChildOnWay
      <3>3. Exists(src, c)
        BY <1>6, <3>2, SourceUp
      <3>4. c \notin Excluded
        BY <1>6, <3>2, CoversDown
      <3>5. c \in run'.listed
        BY <1>1, <3>2, <3>3, <3>4 DEF Children
      <3>6. QED BY <1>1, <3>2, <3>5 DEF Pending
    <2>4. QED BY <1>4, <2>1, <2>2, <2>3
  <1>7. SeenAll'
    BY <1>1, <1>3, <1>6 DEF SeenAll, Region, ByEvents
  <1>8. QED BY <1>5, <1>7 DEF SeenInv

\* An entry is as it was listed, and what lies below it still comes.
LEMMA SeenWalkEntry ==
  ASSUME TypeInv, SeenInv, WalkInv, NEW p \in Path, WalksEntry(p) \/ WalksPast(p)
  PROVE  SeenInv'
  <1>1. /\ run.pc = "walk" /\ p \in run.listed /\ run'.result = run.result
        /\ run'.pc = "walk" /\ run'.variant = run.variant /\ run'.rel = run.rel
        /\ run'.listed = run.listed \ {p}
        /\ src' = src /\ changed' = changed /\ fresh' = fresh /\ dirty' = dirty /\ needFull' = needFull
        /\ \/ run'.S = [run.S EXCEPT ![p] = src[p]] /\ Exists(src, p)
              /\ run'.queue = IF src[p].kind = "dir" THEN Append(run.queue, p) ELSE run.queue
           \/ run'.S = run.S /\ ~Exists(src, p) /\ run'.queue = run.queue
    BY DEF WalksEntry, WalksPast, Same4, Compares, Others
  <1>2. run.queue \in Seq(Path \cup {Root}) /\ run.S \in [Path -> Node]
    BY DEF TypeInv, IsRun
  <1>3. SeenRight /\ SeenAll /\ SeenUp /\ SeenNew
    BY <1>1 DEF SeenInv
  <1>4. /\ run'.S[p] = src[p] \/ run'.S[p] = run.S[p]
        /\ Exists(run'.S, p) => run'.S[p] = src[p]
        /\ Exists(src, p) => Exists(run'.S, p)
        /\ \A q \in Path : q # p => run'.S[q] = run.S[q]
    <2>1. ~Exists(run.S, p)
      <3>1. p \in Subtree(p)
        BY SubtreeIs
      <3>2. QED BY <1>1, <3>1 DEF WalkInv, Frontier
    <2>2. QED BY <1>1, <1>2, <2>1 DEF Exists
  <1>5. /\ Ahead(run.queue) \subseteq Ahead(run'.queue)
        /\ src[p].kind = "dir" => p \in Ahead(run'.queue)
    <2>1. Ahead(Append(run.queue, p)) = Ahead(run.queue) \cup {p}
      BY <1>2, AppendIs
    <2>2. QED BY <1>1, <2>1 DEF Exists
  <1>6. SeenRight'
    BY <1>1, <1>3, <1>4 DEF SeenRight, SeenAs, Exists
  <1>7. SeenUp'
    <2>1. ASSUME NEW q \in Path, Exists(run'.S, q), NEW a \in Above(q)
          PROVE  a \in changed \/ src[a].kind = "dir"
      <3>1. CASE q = p
        <4>1. Exists(src, p)
          BY <1>4, <2>1, <3>1 DEF Exists
        <4>2. QED BY <2>1, <3>1, <4>1, SourceUp
      <3>2. CASE q # p
        BY <1>3, <1>4, <2>1, <3>2 DEF SeenUp, Exists
      <3>3. QED BY <3>1, <3>2
    <2>2. QED BY <1>1, <2>1 DEF SeenUp
  <1>8. SeenNew'
    BY <1>1, <1>3 DEF SeenNew, ByEvents
  <1>9. ASSUME NEW q \in Path \ (changed \cup Excluded), Exists(src, q), ~Exists(run'.S, q), Pending(q)
        PROVE  Pending(q)'
    <2>1. CASE \E l \in run.listed : l # p /\ q \in Subtree(l)
      BY <1>1, <2>1 DEF Pending
    <2>2. CASE \E e \in Ahead(run.queue) : Below(q, e)
      BY <1>1, <1>5, <2>2 DEF Pending
    <2>3. CASE q \in Subtree(p)
      <3>1. q # p
        BY <1>4, <1>9
      <3>2. src[p].kind = "dir"
        BY <1>9, <2>3, <3>1, SourceUp
      <3>3. Below(q, p)
        BY <2>3, <3>1, BelowIs
      <3>4. QED BY <1>1, <1>5, <3>2, <3>3 DEF Pending
    <2>4. QED BY <1>9, <2>1, <2>2, <2>3 DEF Pending
  <1>10. SeenAll'
    <2>1. \A q \in Path : Exists(run.S, q) /\ ~Exists(run'.S, q) => ~Exists(src, q)
      BY <1>4 DEF Exists
    <2>2. QED BY <1>1, <1>3, <1>9, <2>1 DEF SeenAll, Region, ByEvents
  <1>11. QED BY <1>6, <1>7, <1>8, <1>10 DEF SeenInv

\* What users change counts as changed.
LEMMA SeenEdit ==
  ASSUME TypeInv, SeenInv, NEW p \in Path, Edits(p)
  PROVE  SeenInv'
  <1>0. SUFFICES ASSUME run.pc # "idle" PROVE SeenInv'
    BY DEF Edits, SeenInv
  <1>1. /\ run' = run /\ changed' = changed \cup Subtree(p) /\ dirty' = dirty /\ needFull' = needFull
        /\ fresh' = IF p \in Excluded THEN fresh ELSE fresh \cup {p}
        /\ \A q \in Path : q \notin Subtree(p) =>
              Same(src[q], src'[q]) /\ (q # Parent[p] => src'[q] = src[q])
    BY <1>0 DEF Edits
  <1>2. SeenRight /\ SeenAll /\ SeenUp /\ SeenNew
    BY <1>0 DEF SeenInv
  <1>3. p \in Subtree(p) /\ Subtree(p) \subseteq Path
    BY SubtreeIs
  <1>4. SeenRight'
    <2>1. ASSUME NEW q \in Path, Exists(run.S, q), q \notin changed'
          PROVE  SeenAs(q)'
      <3>1. q \notin Subtree(p) /\ SeenAs(q)
        BY <1>1, <1>2, <2>1 DEF SeenRight
      <3>2. CASE q # Parent[p]
        <4>1. src'[q] = src[q]
          BY <1>1, <3>1, <3>2
        <4>2. QED BY <1>1, <3>1, <4>1 DEF SeenAs
      <3>3. CASE q = Parent[p]
        <4>1. Same(src[q], src'[q])
          BY <1>1, <3>1
        <4>2. p \in changed' /\ Parent[p] = q
          BY <1>1, <1>3, <3>3
        <4>3. CASE src'[q].kind = "dir"
          BY <1>1, <3>1, <4>1, <4>2, <4>3 DEF SeenAs, Same
        <4>4. CASE src'[q].kind # "dir"
          BY <1>1, <3>1, <4>1, <4>4 DEF SeenAs, Same
        <4>5. QED BY <4>3, <4>4
      <3>4. QED BY <3>2, <3>3
    <2>2. QED BY <1>1, <2>1 DEF SeenRight
  <1>5. ASSUME NEW q \in Path, q \notin changed'
        PROVE  q \notin changed /\ src'[q].kind = src[q].kind
    BY <1>1, <1>5 DEF Same
  <1>6. SeenUp'
    <2>1. ASSUME NEW q \in Path, Exists(run.S, q), NEW a \in Above(q), a \notin changed'
          PROVE  src'[a].kind = "dir"
      <3>1. a \in Path
        BY AboveIs
      <3>2. QED BY <1>2, <1>5, <2>1, <3>1 DEF SeenUp
    <2>2. QED BY <1>1, <2>1 DEF SeenUp
  <1>7. SeenAll'
    BY <1>1, <1>2, <1>5 DEF SeenAll, Pending, Region, ByEvents, Exists
  <1>8. SeenNew'
    <2>1. ASSUME NEW q \in changed' \ Excluded
          PROVE  Covers(fresh', q)
      <3>1. CASE q \in changed
        BY <1>1, <1>2, <2>1, <3>1 DEF SeenNew, Covers
      <3>2. CASE q \in Subtree(p)
        <4>1. p \notin Excluded
          BY <2>1, <3>2, CoversDown
        <4>2. QED BY <1>1, <3>2, <4>1 DEF Covers
      <3>3. QED BY <1>1, <2>1, <3>1, <3>2
    <2>2. QED BY <1>1, <1>2, <2>1 DEF SeenNew
  <1>9. QED BY <1>4, <1>6, <1>7, <1>8 DEF SeenInv

\* What was listed is right, but where a user changed it since.
LEMMA SeenStep ==
  ASSUME TypeInv, PlanInv, IdleInv, WalkInv, SeenInv, Moves, TypeInv'
  PROVE  SeenInv'
  <1>1. CASE \E v \in DOMAIN Phases : Begins(v)
    BY <1>1, SeenStart
  <1>2. CASE WalksDir \/ \E p \in Path : WalksEntry(p) \/ WalksPast(p)
    BY <1>2, SeenWalkDir, SeenWalkEntry
  <1>3. CASE \E p \in Path : Edits(p)
    BY <1>3, SeenEdit
  <1>4. CASE Settles
    BY <1>4 DEF Settles, SeenInv
  <1>5. CASE Scans \/ GoesOn \/ Sends \/ Ends \/ Stops \/ \E p \in Path : Tidies(p)
    <2>1. Active
      BY <1>5, NextPhase DEF Sends, Ends, Stops, Tidies, Active
    <2>2. /\ run'.S = run.S /\ run'.variant = run.variant /\ run'.rel = run.rel
          /\ src' = src /\ changed' = changed /\ fresh' = fresh /\ dirty' = dirty /\ needFull' = needFull
      BY <1>5 DEF Scans, GoesOn, Sends, Ends, Stops, Tidies, Compares, Others
    <2>3. run.result = "none" /\ SeenRight /\ SeenAll /\ SeenUp /\ SeenNew
      BY <2>1 DEF IdleInv, SeenInv, Active
    <2>4. SeenRight' /\ SeenUp' /\ SeenNew'
      BY <2>2, <2>3 DEF SeenRight, SeenUp, SeenNew, SeenAs, ByEvents
    <2>5. CASE Stops
      BY <2>4, <2>5 DEF Stops, SeenAll, SeenInv
    <2>6. CASE ~Stops
      <3>1. \A p \in Path : ~Pending(p)
        <4>1. CASE Scans
          <5>1. Ahead(<<>>) = {}
            BY DEF Ahead
          <5>2. QED BY <4>1, <5>1 DEF Scans, Pending
        <4>2. CASE ~Scans
          BY <1>5, <2>6, <4>2 DEF GoesOn, Busy, Sends, Ends, Tidies, Pending
        <4>3. QED BY <4>1, <4>2
      <3>2. SeenAll'
        BY <2>2, <2>3, <3>1 DEF SeenAll, Region, ByEvents
      <3>3. QED BY <2>4, <3>2 DEF SeenInv
    <2>7. QED BY <2>5, <2>6
  <1>6. QED BY <1>1, <1>2, <1>3, <1>4, <1>5 DEF Moves

----------------------------------------------------------------------------
(* What the pass has done. *)

\* What is left to do was to be done.
TodoInv == Busy => run.todo \subseteq Todo(run, run.pc)

\* The listing of the destination was a tree.
ListInv == Busy => Snapshot(run.D)

\* The destination changes at and around x: something in the way or not wanted is
\* taken away, a directory is made, or an entry is sent.
Strikes(x) ==
    /\ x \in Path /\ Region(x)
    /\ \/ /\ run.pc \in {"mismatch", "remove", "extras"} /\ Removes(x)
          /\ \/ run.pc # "extras" /\ x \in Mismatch(run.S, run.D)
             \/ run.pc # "mismatch" /\ x \in Extras(run.S, run.D, run.rel)
       \/ run.pc \in {"mkdir", "mkover"} /\ run.S[x].kind = "dir" /\ dst'[x].kind = "dir" /\ Writes(x)
       \/ run.pc = "copy" /\ x \in Copies /\ dst'[x] = run.S[x] /\ src[x].kind = run.S[x].kind /\ Writes(x)

\* What a phase is about, path by path.
LEMMA Kinds ==
  ASSUME NEW p
  PROVE  /\ p \in Mismatch(run.S, run.D) <=>
              p \in Path /\ Exists(run.S, p) /\ Exists(run.D, p) /\ run.S[p].kind # run.D[p].kind
         /\ p \in Extras(run.S, run.D, run.rel) <=>
              mirror /\ p \in Path \ Excluded /\ ~Exists(run.S, p) /\ (Exists(run.D, p) \/ p \in run.rel)
         /\ p \in Copies <=>
              p \in Path /\ run.S[p].kind \in {"file", "link"} /\ ~EntriesMatch(run.S[p], run.D[p], ByEvents(run))
         /\ p \in ModeFixes(run.S, run.D, ByEvents(run)) <=>
              p \in Path /\ EntriesMatch(run.S[p], run.D[p], ByEvents(run)) /\ EntryModeDiffers(run.S[p], run.D[p])
  BY DEF Mismatch, Extras, Copies, ToCopy, ModeFixes

\* Every step of a phase or of a worker changes nothing or one entry with what
\* goes with it.
LEMMA StepStrikes ==
  ASSUME TypeInv, WalkInv, TodoInv, ListInv, Busy, Sends \/ \E x \in Path : Tidies(x)
  PROVE  dst' = dst \/ \E x \in Path : Strikes(x)
  <1>1. Snapshot(run.S) /\ Snapshot(run.D)
    BY DEF WalkInv, ListInv, Busy, Active
  <1>2. CASE Sends
    <2>1. SUFFICES ASSUME NEW x \in Copies, dst'[x] = run.S[x], src[x].kind = run.S[x].kind, Writes(x)
                   PROVE  Strikes(x) /\ x \in Path
      BY <1>2 DEF Sends
    <2>2. run.pc = "copy" /\ x \in Path /\ run.S[x].kind \in {"file", "link"}
      BY <1>2, Kinds DEF Sends
    <2>3. Region(x)
      BY <1>1, <2>2 DEF Snapshot, Exists
    <2>4. QED BY <2>1, <2>2, <2>3 DEF Strikes
  <1>3. CASE \E x \in Path : Tidies(x)
    <2>1. PICK x \in Path : Tidies(x)
      BY <1>3
    <2>2. x \in Todo(run, run.pc) /\ run.pc \in Names
      BY <2>1 DEF Tidies, TodoInv, Names
    <2>3. CASE run.pc \in {"mismatch", "remove", "extras"}
      <3>1. /\ x \in Mismatch(run.S, run.D) \/ x \in Extras(run.S, run.D, run.rel)
            /\ run.pc = "mismatch" => x \in Mismatch(run.S, run.D)
            /\ run.pc = "extras" => x \in Extras(run.S, run.D, run.rel)
        BY <2>2, <2>3, TodoIs
      <3>2. Region(x)
        <4>1. Exists(run.S, x) \/ Exists(run.D, x) \/ x \in run.rel
          BY <3>1, Kinds
        <4>2. x \in Subtree(x)
          BY SubtreeIs
        <4>3. QED BY <1>1, <4>1, <4>2 DEF Snapshot, Region, Covers
      <3>3. dst' = dst \/ Removes(x)
        BY <2>1, <2>3 DEF Tidies
      <3>4. QED BY <2>3, <3>1, <3>2, <3>3 DEF Strikes
    <2>4. CASE run.pc \in {"mkdir", "mkover"}
      <3>1. run.S[x].kind = "dir"
        BY <2>2, <2>4, TodoIs
      <3>2. Region(x)
        BY <1>1, <3>1 DEF Snapshot, Exists
      <3>3. dst'[x].kind = "dir" /\ Writes(x)
        BY <2>1, <2>4 DEF Tidies
      <3>4. QED BY <2>4, <3>1, <3>2, <3>3 DEF Strikes
    <2>5. QED BY <2>1, <2>3, <2>4 DEF Tidies
  <1>4. QED BY <1>2, <1>3

\* Where a directory is written, nothing but directories above it comes.
LEMMA DirWrites ==
  ASSUME IsTree(dst), NEW x \in Path, Writes(x), dst'[x].kind = "dir", NEW q \in Path, q # x
  PROVE  \/ Same(dst[q], dst'[q])
         \/ q \in Above(x) /\ ~Exists(dst, q) /\ dst'[q].kind = "dir"
         \/ ~Exists(dst, q) /\ dst'[q] = Absent
  <1>1. CASE q \in Subtree(x) /\ dst'[q] = Absent /\ dst[x].kind # dst'[x].kind
    <2>1. ~Exists(dst, q)
      BY <1>1, TreeDown DEF IsTree
    <2>2. QED BY <1>1, <2>1
  <1>2. QED BY <1>1 DEF Writes

\* What such a change does to an entry of the region.
LEMMA Spared ==
  ASSUME TypeInv, WalkInv, ListInv, Busy, NEW x \in Path, Strikes(x), NEW p \in Path, Region(p)
  PROVE  \/ Same(dst[p], dst'[p]) \/ (~Exists(dst, p) /\ ~Exists(dst', p))
         \/ run.S[p].kind = "dir" /\ dst'[p].kind = "dir"
         \/ p \in Copies /\ dst'[p] = run.S[p]
         \/ ~Exists(run.S, p) /\ (~Exists(dst', p) \/ Same(dst[p], dst'[p]))
         \/ run.pc \in {"mismatch", "remove"} /\ (p \in Copies \/ run.S[p].kind = "dir")
  <1>0. Snapshot(run.S) /\ Snapshot(run.D) /\ run.rel \in SUBSET Path /\ IsTree(dst) /\ Region(x)
    BY DEF WalkInv, ListInv, Busy, Active, TypeInv, BaseInv, IsRun, Strikes
  <1>1. ASSUME p \in Above(x), Exists(run.S, x)
        PROVE  run.S[p].kind = "dir"
    BY <1>0, <1>1, SnapshotUp
  <1>2. ASSUME p \in Subtree(x), p # x
        PROVE  /\ Exists(run.S, p) => run.S[x].kind = "dir"
               /\ Exists(run.D, p) => run.D[x].kind = "dir"
    <2>1. x \in Above(p)
      BY <1>2, SubtreeIs
    <2>2. QED BY <1>0, <2>1, SnapshotUp
  <1>3. CASE run.pc \in {"mismatch", "remove", "extras"}
    <2>1. /\ \/ run.pc # "extras" /\ x \in Mismatch(run.S, run.D)
             \/ run.pc # "mismatch" /\ x \in Extras(run.S, run.D, run.rel)
          /\ IF p \in Subtree(x) THEN dst'[p] = Absent ELSE Same(dst[p], dst'[p])
      BY <1>3 DEF Strikes, Removes
    <2>2. CASE p \notin Subtree(x)
      BY <2>1, <2>2
    <2>3. CASE p \in Subtree(x) /\ ~Exists(run.S, p)
      BY <2>1, <2>3, Nodes DEF Exists
    <2>4. CASE p \in Subtree(x) /\ Exists(run.S, p) /\ x \in Extras(run.S, run.D, run.rel)
      BY <1>2, <2>4, Kinds DEF Exists
    <2>5. CASE p \in Subtree(x) /\ Exists(run.S, p) /\ x \in Mismatch(run.S, run.D) /\ run.pc # "extras"
      <3>1. SUFFICES ASSUME run.S[p].kind # "dir" PROVE p \in Copies
        BY <1>3, <2>5
      <3>2. run.S[p].kind # run.D[p].kind
        BY <1>2, <2>5, Kinds DEF Exists
      <3>3. run.S[p].kind \in {"file", "link"}
        BY <2>5, <3>1 DEF TypeInv, IsRun, Node, KindSet, Exists
      <3>4. QED BY <3>2, <3>3, Kinds DEF EntriesMatch
    <2>6. QED BY <2>1, <2>2, <2>3, <2>4, <2>5
  <1>4. CASE run.pc \in {"mkdir", "mkover"}
    <2>1. run.S[x].kind = "dir" /\ dst'[x].kind = "dir" /\ Writes(x)
      BY <1>4 DEF Strikes
    <2>2. CASE p = x
      BY <2>1, <2>2
    <2>3. CASE p # x
      <3>1. \/ Same(dst[p], dst'[p])
            \/ p \in Above(x) /\ ~Exists(dst, p) /\ dst'[p].kind = "dir"
            \/ ~Exists(dst, p) /\ dst'[p] = Absent
        BY <1>0, <2>1, <2>3, DirWrites
      <3>2. CASE p \in Above(x) /\ dst'[p].kind = "dir"
        BY <1>1, <2>1, <3>2 DEF Exists
      <3>3. CASE ~Exists(dst, p) /\ dst'[p] = Absent
        BY <3>3, Nodes DEF Exists
      <3>4. QED BY <3>1, <3>2, <3>3
    <2>4. QED BY <2>2, <2>3
  <1>5. CASE run.pc = "copy"
    <2>1. x \in Copies /\ dst'[x] = run.S[x] /\ Writes(x) /\ run.S[x].kind \in {"file", "link"}
      BY <1>5, Kinds DEF Strikes
    <2>2. CASE p = x
      BY <2>1, <2>2
    <2>3. CASE p # x
      <3>1. CASE p \in Above(x) /\ dst'[p].kind = "dir"
        BY <1>1, <2>1, <3>1 DEF Exists
      <3>2. CASE p \in Subtree(x) /\ dst'[p] = Absent
        <4>1. ~Exists(run.S, p)
          BY <1>2, <2>1, <2>3, <3>2
        <4>2. QED BY <3>2, <4>1, Nodes DEF Exists
      <3>3. QED BY <2>1, <2>3, <3>1, <3>2 DEF Writes
    <2>4. QED BY <2>2, <2>3
  <1>6. QED BY <1>3, <1>4, <1>5 DEF Strikes

\* The pass stays in its phase.
Stays == /\ Busy /\ mirror' = mirror
         /\ run'.pc = run.pc /\ run'.plan = run.plan /\ Compares(run, run')
Works == Stays /\ (Sends \/ \E x \in Path : Tidies(x))

\* How a pass gets to where it is once both sides are listed.
LEMMA BusyMoves ==
  ASSUME PlanInv, Moves, Busy'
  PROVE  Scans \/ GoesOn \/ Works \/ (Busy /\ UNCHANGED <<dst, mirror, run, pool>>)
  <1>1. CASE \E v \in DOMAIN Phases : Begins(v)
    BY <1>1 DEF Begins, Busy, Active
  <1>2. CASE WalksDir \/ \E p \in Path : WalksEntry(p) \/ WalksPast(p)
    BY <1>2 DEF WalksDir, WalksEntry, WalksPast, Same4, Busy, Active
  <1>3. CASE Ends \/ Stops \/ Settles
    BY <1>3 DEF Ends, Stops, Settles, Busy, Active
  <1>4. CASE Sends
    BY <1>4 DEF Sends, Same4, Others, Works, Stays, Busy, Active
  <1>5. CASE \E p \in Path : Tidies(p)
    BY <1>5 DEF Tidies, Others, Works, Stays, Busy, Active
  <1>6. CASE \E p \in Path : Edits(p)
    BY <1>6 DEF Edits, Busy, Active
  <1>7. QED BY <1>1, <1>2, <1>3, <1>4, <1>5, <1>6 DEF Moves

\* What is left to do was to be done.
LEMMA TodoStep ==
  ASSUME PlanInv, TodoInv, Moves
  PROVE  TodoInv'
  <1>1. SUFFICES ASSUME Busy' PROVE run'.todo \subseteq Todo(run, run.pc)'
    BY DEF TodoInv
  <1>2. CASE Scans
    BY <1>2 DEF Scans, Enters, Todo, Mismatch, Extras, Others
  <1>3. CASE GoesOn
    BY <1>3 DEF GoesOn, Enters, Compares, Todo, Mismatch, Extras, Others
  <1>4. CASE Works
    <2>1. run'.todo \subseteq run.todo
      BY <1>4 DEF Works, Sends, Tidies, Same4
    <2>2. run.todo \subseteq Todo(run, run.pc) /\ Stays
      BY <1>4 DEF Works, Stays, TodoInv
    <2>3. Todo(run, run.pc)' = Todo(run, run.pc)
      BY <2>2 DEF Stays, Compares, Todo, Mismatch, Extras
    <2>4. QED BY <2>1, <2>2, <2>3
  <1>5. CASE Busy /\ UNCHANGED <<dst, mirror, run, pool>>
    BY <1>5 DEF TodoInv, Todo, Mismatch, Extras
  <1>6. QED BY <1>1, <1>2, <1>3, <1>4, <1>5, BusyMoves

\* The listing of the destination.
LEMMA ListedIs ==
  ASSUME TypeInv, Scans
  PROVE  /\ \A p \in Path : Region(p)' <=> Region(p)
         /\ \A p \in Path : Region(p) => run'.D[p] = dst[p]
         /\ \A p \in Path : ~Region(p) => run'.D[p] = Absent
         /\ run'.S = run.S /\ dst' = dst /\ mirror' = mirror /\ changed' = changed
  <1>1. run'.variant = run.variant /\ run'.rel = run.rel /\ run'.S = run.S /\ run'.D = Listed
    BY DEF Scans
  <1>2. dst' = dst /\ mirror' = mirror /\ changed' = changed
    BY DEF Scans, Others
  <1>3. \A p \in Path : Listed[p] = IF ByEvents(run) /\ ~Covers(run.rel, p) THEN Absent ELSE dst[p]
    BY DEF Listed
  <1>4. QED BY <1>1, <1>2, <1>3 DEF Region, ByEvents

\* The listing of the destination was a tree.
LEMMA ListStep ==
  ASSUME TypeInv, PlanInv, ListInv, Moves
  PROVE  ListInv'
  <1>1. SUFFICES ASSUME Busy' PROVE Snapshot(run.D)'
    BY DEF ListInv
  <1>2. CASE Scans
    <2>1. ASSUME NEW p \in Path, Exists(run.D, p)'
          PROVE  Region(p)' /\ Held(run.D, p)'
      <3>1. Region(p) /\ Exists(dst, p)
        BY <1>2, <2>1, ListedIs, Nodes DEF Exists
      <3>2. Parent[p] = Root \/ (Parent[p] \in Path /\ dst[Parent[p]].kind = "dir")
        <4>1. IsDir(dst, Parent[p])
          BY <3>1 DEF TypeInv, BaseInv, IsTree, Tree
        <4>2. QED BY <4>1, TreeAssumption DEF IsDir
      <3>3. QED BY <1>2, <3>1, <3>2, ListedIs DEF Held
    <2>2. QED BY <2>1 DEF Snapshot
  <1>3. CASE GoesOn \/ Works
    <2>1. Busy /\ Compares(run, run')
      BY <1>3 DEF GoesOn, Works, Stays
    <2>2. QED BY <2>1 DEF ListInv, Compares, Snapshot, Exists, Held, Region, ByEvents
  <1>4. CASE Busy /\ UNCHANGED <<dst, mirror, run, pool>>
    BY <1>4 DEF ListInv, Snapshot, Exists, Held, Region, ByEvents
  <1>5. QED BY <1>1, <1>2, <1>3, <1>4, BusyMoves

\* Directories: all are there once the phase that makes them is over.
DirsInv ==
    Busy /\ "mkdir" \notin Coming /\ "mkover" \notin Coming =>
        \A p \in Path : run.S[p].kind = "dir" =>
            dst[p].kind = "dir" \/ (run.pc \in {"mkdir", "mkover"} /\ p \in run.todo)

\* What has to go: nothing else is left of it once the mirror is done.
AbsentInv ==
    Busy /\ mirror =>
        \A p \in Path \ Excluded : Region(p) /\ ~Exists(run.S, p) /\ Exists(dst, p) =>
            /\ Exists(run.D, p)
            /\ \/ "extras" \in Coming \/ "remove" \in Coming
               \/ run.pc \in {"extras", "remove"} /\ p \in run.todo

\* Files that need no copy: they stay, but for their modes.
KeptInv ==
    Busy => \A p \in Path \ Copies : run.S[p].kind \in {"file", "link"} =>
        dst[p] = IF "modes" \notin Coming /\ run.pc # "modes" /\ p \in ModeFixes(run.S, run.D, ByEvents(run))
                 THEN [run.D[p] EXCEPT !.mode = run.S[p].mode] ELSE run.D[p]

\* Files to be copied: each is with a worker, changing, or there.
CopyInv ==
    /\ Busy /\ run.pc \in {"mismatch", "remove", "mkdir", "mkover"} => "copy" \in Coming
    /\ run.pc = "copy" => \A w \in Worker : pool[w].pc = "off" => run.fatal \/ run.work = {}
    /\ run.pc = "copy" /\ run.failed = {} /\ ~run.fatal =>
          \A p \in Copies : Due(p) \/ p \in run.changing \/ dst[p] = run.S[p]
    /\ Busy /\ run.pc # "copy" /\ "copy" \notin Coming /\ run.failed = {} =>
          \A p \in Copies : p \in run.changing \/ dst[p] = run.S[p]

\* Directory times: they are right once they were set.
StampInv ==
    Busy /\ "stamp" \notin Coming /\ run.pc # "stamp" =>
        \A p \in Path : run.S[p].kind = "dir" => dst[p].ver = run.S[p].ver

\* What the phases that take one step make of a kind of entry.
LEMMA KindsKept ==
  ASSUME TypeInv, GoesOn
  PROVE  /\ \A p \in Path : dst'[p].kind = dst[p].kind
         /\ run.pc # "modes" => \A p \in Path : run.S[p].kind # "dir" => dst'[p] = dst[p]
         /\ run.pc \notin {"modes", "stamp"} => dst' = dst
         /\ run'.S = run.S /\ run'.D = run.D /\ run'.changing = run.changing /\ run'.failed = run.failed
         /\ Copies' = Copies /\ mirror' = mirror /\ Busy
         /\ \A p \in Path : Region(p)' <=> Region(p)
  <1>1. dst' = IF run.pc = "modes" THEN Remoded ELSE IF run.pc = "stamp" THEN Restamped ELSE dst
    BY DEF GoesOn
  <1>2. IsTree(dst) /\ run.S \in [Path -> Node]
    BY DEF TypeInv, BaseInv, IsRun
  <1>3. \A p \in Path : Remoded[p].kind = dst[p].kind
    BY <1>2, ModesAre
  <1>4. \A p \in Path : Restamped[p].kind = dst[p].kind
    BY <1>2, StampsAre
  <1>5. \A p \in Path : run.S[p].kind # "dir" => Restamped[p] = dst[p]
    BY <1>2, StampsAre
  <1>6. Busy /\ mirror' = mirror /\ Compares(run, run') /\ Counts(run, run')
    BY DEF GoesOn, Enters, Others
  <1>7. Copies' = Copies
    BY <1>6 DEF Compares, Copies, ByEvents
  <1>8. \A p \in Path : Region(p)' <=> Region(p)
    BY <1>6 DEF Compares, Region, ByEvents
  <1> HIDE DEF Copies, Region
  <1>9. QED BY <1>1, <1>3, <1>4, <1>5, <1>6, <1>7, <1>8 DEF Compares, Counts

\* What a phase does changes neither what it compares nor what comes next.
LEMMA WorksKeeps ==
  ASSUME Works
  PROVE  /\ run'.S = run.S /\ run'.D = run.D /\ run'.pc = run.pc /\ mirror' = mirror /\ Busy /\ Busy'
         /\ Coming' = Coming /\ Copies' = Copies /\ (\A p \in Path : Region(p)' <=> Region(p))
         /\ ModeFixes(run.S, run.D, ByEvents(run))' = ModeFixes(run.S, run.D, ByEvents(run))
  BY DEF Works, Stays, Compares, Busy, Active, Coming, Copies, Region, ByEvents

\* Directories stay once they are made.
LEMMA DirsStep ==
  ASSUME TypeInv, PlanInv, WalkInv, TodoInv, ListInv, DirsInv, Moves, PlanInv'
  PROVE  DirsInv'
  <1>1. SUFFICES ASSUME Busy', "mkdir" \notin Coming', "mkover" \notin Coming',
                        NEW p \in Path, run'.S[p].kind = "dir"
                 PROVE  dst'[p].kind = "dir" \/ (run'.pc \in {"mkdir", "mkover"} /\ p \in run'.todo)
    BY DEF DirsInv
  <1>2. CASE Scans
    <2>1. run.plan = Phases[run.variant] /\ run.variant \in DOMAIN Phases
      BY <1>2 DEF Scans, PlanInv, Active
    <2>2. "mkdir" \in Coming \/ "mkover" \in Coming
      BY <2>1, PlansAre DEF Coming
    <2>3. run'.pc \in {"mkdir", "mkover"}
      BY <1>1, <1>2, <2>2, NextPhase
    <2>4. run'.todo = Todo(run', run'.pc)
      BY <1>2 DEF Scans, Enters
    <2>5. CASE run'.pc = "mkdir" \/ run'.variant # "reconcile" \/ run'.D[p].kind # "dir"
      BY <1>1, <2>3, <2>4, <2>5, TodoIs
    <2>6. CASE run'.variant = "reconcile" /\ run'.D[p].kind = "dir"
      <3>1. Region(p)
        BY <1>2, <2>6 DEF Scans, Region, ByEvents
      <3>2. QED BY <1>2, <2>6, <3>1, ListedIs
    <2>7. QED BY <2>5, <2>6
  <1>3. CASE GoesOn
    <2>1. dst'[p].kind = dst[p].kind /\ run.S[p].kind = "dir" /\ Busy
      BY <1>1, <1>3, KindsKept
    <2>2. CASE run'.pc = "mkdir"
      BY <1>1, <1>3, <2>1, <2>2, TodoIs DEF GoesOn, Enters
    <2>3. CASE run'.pc # "mkdir"
      <3>1. run'.pc # "mkover"
        BY <1>3, NextPhase DEF GoesOn, Busy, First3
      <3>2. "mkdir" \notin Coming /\ "mkover" \notin Coming
        BY <1>1, <1>3, <2>3, <3>1, NextPhase
      <3>3. dst[p].kind = "dir" \/ (run.pc \in {"mkdir", "mkover"} /\ p \in run.todo)
        BY <2>1, <3>2 DEF DirsInv
      <3>4. QED BY <1>3, <2>1, <3>3 DEF GoesOn
    <2>4. QED BY <2>2, <2>3
  <1>4. CASE Works
    <2>1. run.S[p].kind = "dir" /\ Busy /\ "mkdir" \notin Coming /\ "mkover" \notin Coming /\ run'.pc = run.pc
      BY <1>1, <1>4, WorksKeeps
    <2>2. dst[p].kind = "dir" \/ (run.pc \in {"mkdir", "mkover"} /\ p \in run.todo)
      BY <2>1 DEF DirsInv
    <2>3. run.pc \notin {"mismatch", "remove"}
      BY <2>1 DEF PlanInv, Planned, Busy, Coming
    <2>4. CASE dst[p].kind = "dir"
      <3>1. CASE dst' = dst
        BY <2>4, <3>1
      <3>2. CASE \E x \in Path : Strikes(x)
        <4>1. Snapshot(run.S)
          BY <2>1 DEF WalkInv, Busy, Active
        <4>2. Region(p)
          BY <2>1, <4>1 DEF Snapshot, Exists
        <4>3. p \notin Copies
          BY <2>1, Kinds
        <4>4. QED BY <2>1, <2>3, <2>4, <3>2, <4>2, <4>3, Spared DEF Same, Exists
      <3>3. QED BY <1>4, <2>1, <3>1, <3>2, StepStrikes DEF Works
    <2>5. CASE run.pc \in {"mkdir", "mkover"} /\ p \in run.todo
      <3>1. PICK x \in Path : Tidies(x)
        BY <1>4, <2>5 DEF Works, Sends
      <3>2. CASE p = x
        BY <2>5, <3>1, <3>2 DEF Tidies
      <3>3. CASE p # x
        BY <2>1, <2>5, <3>1, <3>3 DEF Tidies
      <3>4. QED BY <3>2, <3>3
    <2>6. QED BY <2>2, <2>4, <2>5
  <1>5. CASE Busy /\ UNCHANGED <<dst, mirror, run, pool>>
    BY <1>1, <1>5 DEF DirsInv, Coming
  <1>6. QED BY <1>1, <1>2, <1>3, <1>4, <1>5, BusyMoves

\* What has to go is on the list of the mirror, until it is gone.
LEMMA AbsentStep ==
  ASSUME TypeInv, PlanInv, WalkInv, TodoInv, ListInv, AbsentInv, Moves, TypeInv', PlanInv'
  PROVE  AbsentInv'
  <1> DEFINE Goal(p) == /\ Exists(run'.D, p)
                        /\ \/ "extras" \in Coming' \/ "remove" \in Coming'
                           \/ run'.pc \in {"extras", "remove"} /\ p \in run'.todo
  <1>1. SUFFICES ASSUME Busy', mirror', NEW p \in Path \ Excluded, Region(p)', ~Exists(run'.S, p), Exists(dst', p)
                 PROVE  Goal(p)
    BY DEF AbsentInv
  <1>2. CASE Scans
    <2>1. run.plan = Phases[run.variant] /\ run.variant \in DOMAIN Phases
      BY <1>2 DEF Scans, PlanInv, Active
    <2>2. "extras" \in Coming \/ "remove" \in Coming
      BY <2>1, PlansAre DEF Coming
    <2>3. Region(p) /\ run'.D[p] = dst[p] /\ dst' = dst /\ mirror' = mirror
      BY <1>1, <1>2, ListedIs
    <2>4. Exists(run'.D, p)
      BY <1>1, <2>3 DEF Exists
    <2>5. p \in Extras(run'.S, run'.D, run'.rel)
      BY <1>1, <2>3, <2>4 DEF Extras
    <2>6. run'.todo = Todo(run', run'.pc)
      BY <1>2 DEF Scans, Enters
    <2>7. run'.pc \in {"extras", "remove"} => p \in run'.todo
      BY <2>5, <2>6, TodoIs
    <2>8. QED BY <1>2, <2>2, <2>4, <2>7, NextPhase
  <1>3. CASE GoesOn
    <2>1. Region(p) /\ ~Exists(run.S, p) /\ Exists(dst, p) /\ run'.D = run.D /\ mirror' = mirror /\ Busy
      BY <1>1, <1>3, KindsKept DEF Exists
    <2>2. /\ Exists(run.D, p)
          /\ \/ "extras" \in Coming \/ "remove" \in Coming
             \/ run.pc \in {"extras", "remove"} /\ p \in run.todo
      BY <1>1, <2>1 DEF AbsentInv
    <2>3. "extras" \in Coming \/ "remove" \in Coming
      BY <1>3, <2>2 DEF GoesOn
    <2>4. p \in Extras(run.S, run.D, run.rel)
      BY <1>1, <2>1, <2>2 DEF Extras
    <2>5. run'.todo = Todo(run, run'.pc)
      BY <1>3 DEF GoesOn, Enters
    <2>6. run'.pc \in {"extras", "remove"} => p \in run'.todo
      BY <2>4, <2>5, TodoIs
    <2>7. Exists(run'.D, p)
      BY <2>1, <2>2
    <2>8. QED BY <1>3, <2>3, <2>6, <2>7, NextPhase
  <1>4. CASE Works
    <2>1. /\ Region(p) /\ ~Exists(run.S, p) /\ run'.D = run.D /\ mirror' = mirror /\ Busy
          /\ run'.pc = run.pc /\ Coming' = Coming
      BY <1>1, <1>4, WorksKeeps
    <2>2. Exists(dst, p)
      <3>1. CASE dst' = dst
        BY <1>1, <3>1
      <3>2. CASE \E x \in Path : Strikes(x)
        <4>1. p \notin Copies /\ run.S[p].kind # "dir"
          BY <2>1, Kinds DEF Exists
        <4>2. Same(dst[p], dst'[p])
          BY <1>1, <2>1, <3>2, <4>1, Spared
        <4>3. QED BY <1>1, <4>2 DEF Same, Exists
      <3>3. QED BY <1>4, <2>1, <3>1, <3>2, StepStrikes DEF Works
    <2>3. /\ Exists(run.D, p)
          /\ \/ "extras" \in Coming \/ "remove" \in Coming
             \/ run.pc \in {"extras", "remove"} /\ p \in run.todo
      BY <1>1, <2>1, <2>2 DEF AbsentInv
    <2>4. CASE run.pc \in {"extras", "remove"} /\ p \in run.todo
      <3>1. PICK x \in Path : Tidies(x)
        BY <1>4, <2>4 DEF Works, Sends
      <3>2. CASE p = x
        <4>1. p \in Subtree(x)
          BY <3>2, SubtreeIs
        <4>2. ~Exists(dst', p)
          BY <2>4, <3>1, <3>2, <4>1, Nodes DEF Tidies, Removes, Exists
        <4>3. QED BY <1>1, <4>2
      <3>3. CASE p # x
        BY <2>1, <2>3, <2>4, <3>1, <3>3 DEF Tidies
      <3>4. QED BY <3>2, <3>3
    <2>5. QED BY <2>1, <2>3, <2>4
  <1>5. CASE Busy /\ UNCHANGED <<dst, mirror, run, pool>>
    <2>1. Region(p)
      BY <1>1, <1>5 DEF Region, ByEvents
    <2>2. QED BY <1>1, <1>5, <2>1 DEF AbsentInv, Coming
  <1>6. QED BY <1>1, <1>2, <1>3, <1>4, <1>5, BusyMoves

\* Files that need no copy survive every removal and every copy of others.
LEMMA KeptStep ==
  ASSUME TypeInv, PlanInv, WalkInv, TodoInv, ListInv, KeptInv, Moves, TypeInv', PlanInv'
  PROVE  KeptInv'
  <1> DEFINE Fixed(p) == p \in ModeFixes(run.S, run.D, ByEvents(run))
             Later == "modes" \notin Coming /\ run.pc # "modes"
  <1>1. SUFFICES ASSUME Busy', NEW p \in Path \ Copies', run'.S[p].kind \in {"file", "link"}
                 PROVE  dst'[p] = IF Later' /\ Fixed(p)'
                                  THEN [run'.D[p] EXCEPT !.mode = run'.S[p].mode] ELSE run'.D[p]
    BY DEF KeptInv
  <1>2. CASE Scans
    <2>1. run.plan = Phases[run.variant] /\ run.variant \in DOMAIN Phases
      BY <1>2 DEF Scans, PlanInv, Active
    <2>2. "modes" \in Coming
      BY <2>1, PlansAre DEF Coming
    <2>3. ~Later'
      BY <1>2, <2>2, NextPhase
    <2>4. Snapshot(run.S) /\ run.S = run'.S
      BY <1>2 DEF Scans, WalkInv
    <2>5. Region(p)
      BY <1>1, <2>4 DEF Snapshot, Exists
    <2>6. run'.D[p] = dst'[p]
      BY <1>2, <2>5, ListedIs
    <2>7. QED BY <2>3, <2>6
  <1>3. CASE GoesOn
    <2>1. /\ p \notin Copies /\ run'.S = run.S /\ run'.D = run.D /\ Busy /\ run.S[p].kind \in {"file", "link"}
          /\ (Fixed(p)' <=> Fixed(p))
      BY <1>1, <1>3, KindsKept DEF GoesOn, Compares, ByEvents
    <2>2. dst[p] = IF Later /\ Fixed(p) THEN [run.D[p] EXCEPT !.mode = run.S[p].mode] ELSE run.D[p]
      BY <2>1 DEF KeptInv
    <2>3. /\ Coming = {run'.pc} \cup Coming' /\ run'.pc \notin Coming' /\ run'.pc # run.pc
          /\ \A x \in Coming : x # run.pc
      BY <1>3, NextPhase DEF Planned, Coming
    <2>4. CASE run.pc # "modes"
      <3>1. Later' <=> Later
        BY <2>3, <2>4
      <3>2. dst'[p] = dst[p]
        BY <1>3, <2>1, <2>4, KindsKept
      <3>3. QED BY <2>1, <2>2, <3>1, <3>2
    <2>5. CASE run.pc = "modes"
      <3>1. Later' /\ ~Later
        BY <2>3, <2>5
      <3>2. dst' = Remoded /\ dst[p] = run.D[p]
        BY <1>3, <2>2, <2>5, <3>1 DEF GoesOn
      <3>3. IsTree(dst) /\ run.S \in [Path -> Node]
        BY DEF TypeInv, BaseInv, IsRun
      <3>4. CASE Fixed(p)
        <4>1. Exists(dst, p)
          BY <2>1, <3>2, <3>4, Kinds DEF EntriesMatch, Exists
        <4>2. Remoded[p] = [dst[p] EXCEPT !.mode = run.S[p].mode]
          BY <3>3, <3>4, <4>1, ModesAre
        <4>3. QED BY <2>1, <3>1, <3>2, <3>4, <4>2
      <3>5. CASE ~Fixed(p)
        <4>1. Remoded[p] = dst[p]
          BY <3>3, <3>5, ModesAre
        <4>2. QED BY <2>1, <3>2, <3>5, <4>1
      <3>6. QED BY <3>4, <3>5
    <2>6. QED BY <2>4, <2>5
  <1>4. CASE Works
    <2>1. /\ p \notin Copies /\ run'.S = run.S /\ run'.D = run.D /\ Busy /\ run.S[p].kind \in {"file", "link"}
          /\ (Fixed(p)' <=> Fixed(p)) /\ (Later' <=> Later)
      BY <1>1, <1>4, WorksKeeps
    <2>2. dst[p] = IF Later /\ Fixed(p) THEN [run.D[p] EXCEPT !.mode = run.S[p].mode] ELSE run.D[p]
      BY <2>1 DEF KeptInv
    <2>3. dst'[p] = dst[p]
      <3>1. SUFFICES ASSUME NEW x \in Path, Strikes(x)
                     PROVE  dst'[p] = dst[p]
        BY <1>4, <2>1, StepStrikes DEF Works
      <3>2. Snapshot(run.S)
        BY <2>1 DEF WalkInv, Busy, Active
      <3>3. Region(p)
        BY <2>1, <3>2 DEF Snapshot, Exists
      <3>4. EntriesMatch(run.S[p], run.D[p], ByEvents(run))
        BY <2>1, Kinds
      <3>5. run.D[p].kind = run.S[p].kind
        BY <3>4 DEF EntriesMatch
      <3>6. dst[p].kind = run.S[p].kind
        <4>1. run.D[p] \in Node /\ run.S[p] \in Node
          BY DEF TypeInv, IsRun
        <4> DEFINE n == run.D[p]
                   m == run.S[p].mode
        <4>2. n \in Node /\ m \in {0, 1}
          BY <4>1 DEF Node
        <4> HIDE DEF n, m
        <4>3. [n EXCEPT !.mode = m].kind = n.kind
          BY <4>2, NodeIs
        <4>4. QED BY <2>2, <3>5, <4>3 DEF n, m
      <3>7. QED BY <2>1, <3>1, <3>3, <3>6, Spared DEF Same, Exists
    <2>4. QED BY <2>1, <2>2, <2>3
  <1>5. CASE Busy /\ UNCHANGED <<dst, mirror, run, pool>>
    BY <1>1, <1>5 DEF KeptInv, Coming, Copies, ByEvents
  <1>6. QED BY <1>1, <1>2, <1>3, <1>4, <1>5, BusyMoves

\* A file that was sent stays as it is.
LEMMA CopiedStays ==
  ASSUME TypeInv, WalkInv, TodoInv, ListInv, Works, run.pc \notin {"mismatch", "remove"},
         NEW p \in Copies, dst[p] = run.S[p]
  PROVE  dst'[p] = run.S[p]
  <1>1. p \in Path /\ run.S[p].kind \in {"file", "link"}
    BY Kinds
  <1>2. Busy /\ Snapshot(run.S)
    BY DEF Works, Stays, WalkInv, Busy, Active
  <1>3. Region(p)
    BY <1>1, <1>2 DEF Snapshot, Exists
  <1>4. CASE dst' = dst
    BY <1>4
  <1>5. CASE \E x \in Path : Strikes(x)
    <2>1. \/ Same(dst[p], dst'[p]) \/ (~Exists(dst, p) /\ ~Exists(dst', p))
          \/ dst'[p] = run.S[p]
      BY <1>1, <1>2, <1>3, <1>5, Spared DEF Exists
    <2>2. QED BY <1>1, <2>1 DEF Same, Exists
  <1>6. QED BY <1>2, <1>4, <1>5, StepStrikes DEF Works

\* No file to be copied is lost among the workers.
LEMMA CopyStep ==
  ASSUME TypeInv, PlanInv, WalkInv, TodoInv, ListInv, CopyInv, Moves, TypeInv', PlanInv'
  PROVE  CopyInv'
  <1> DEFINE First4 == {"mismatch", "remove", "mkdir", "mkover"}
             Out == \A w \in Worker : pool[w].pc = "off" => run.fatal \/ run.work = {}
             There == \A p \in Copies : Due(p) \/ p \in run.changing \/ dst[p] = run.S[p]
             Done == \A p \in Copies : p \in run.changing \/ dst[p] = run.S[p]
  <1>1. SUFFICES ASSUME Busy'
                 PROVE  /\ run'.pc \in First4 => "copy" \in Coming'
                        /\ run'.pc = "copy" => Out'
                        /\ run'.pc = "copy" /\ run'.failed = {} /\ ~run'.fatal => There'
                        /\ run'.pc # "copy" /\ "copy" \notin Coming' /\ run'.failed = {} => Done'
    BY DEF CopyInv, Busy, Active
  <1>2. ASSUME Scans \/ GoesOn, run'.pc = "copy"
        PROVE  Out' /\ There'
    <2>1. pool' = NoPool
      BY <1>2 DEF Scans, GoesOn, Enters
    <2>2. run'.work = PlanPushWork(run')
      <3>1. CASE Scans
        BY <1>2, <3>1 DEF Scans, Enters
      <3>2. CASE GoesOn
        BY <1>2, <3>2 DEF GoesOn, Enters, Compares, PlanPushWork, ByEvents, Delta
      <3>3. QED BY <1>2, <3>1, <3>2
    <2>3. Out'
      BY <2>1, NewPool
    <2>4. \A p \in Copies' : \E i \in run'.work : p \in i
      BY <2>2, PushWorkIs DEF Copies
    <2>5. There'
      BY <2>4 DEF Due
    <2>6. QED BY <2>3, <2>5
  <1>3. CASE Scans
    <2>1. run.plan = Phases[run.variant] /\ run.variant \in DOMAIN Phases
      BY <1>3 DEF Scans, PlanInv, Active
    <2>2. "copy" \in Coming
      BY <2>1, PlansAre DEF Coming
    <2>3. "copy" \in Coming' \/ run'.pc = "copy"
      BY <1>3, <2>2, NextPhase
    <2>4. QED BY <1>2, <1>3, <2>3
  <1>4. CASE GoesOn
    <2>1. /\ Coming = {run'.pc} \cup Coming' /\ Busy /\ run.pc \in Names /\ run'.pc \in Names
          /\ Order[run.pc] <= Order[run'.pc]
      <3>1. Planned(run.pc, run.plan) /\ Coming = {run'.pc} \cup Coming' /\ run'.pc \in Names
        BY <1>4, NextPhase
      <3>2. Order[run.pc] <= Order[run'.pc]
        BY <3>1 DEF Planned, Coming
      <3>3. Busy /\ run.pc \in Names
        BY <1>4 DEF GoesOn, Busy, Active, TypeInv, IsRun, Pcs
      <3>4. QED BY <3>1, <3>2, <3>3
    <2>2. run'.pc \in First4 => run.pc \in First4
      BY <2>1 DEF Order, Names
    <2>3. run'.pc \in First4 => "copy" \in Coming'
      BY <2>1, <2>2 DEF CopyInv
    <2>4. ASSUME run'.pc # "copy", "copy" \notin Coming', run'.failed = {}
          PROVE  Done'
      <3>1. /\ run'.S = run.S /\ run'.changing = run.changing /\ run.failed = {} /\ Copies' = Copies
            /\ "copy" \notin Coming
        BY <1>4, <2>1, <2>4, KindsKept
      <3>2. Done
        <4>1. CASE run.pc # "copy"
          BY <2>1, <3>1, <4>1 DEF CopyInv
        <4>2. CASE run.pc = "copy"
          <5>1. ~run.fatal /\ \A w \in Worker : pool[w].pc = "off"
            BY <1>4, <4>2 DEF GoesOn
          <5>2. run.work = {}
            BY <4>2, <5>1, TreeAssumption DEF CopyInv
          <5>3. \A w \in Worker : pool[w].item = {}
            BY <4>2, <5>1 DEF TypeInv, WorkInv
          <5>4. \A p : ~Due(p)
            BY <5>2, <5>3 DEF Due
          <5>5. There
            BY <3>1, <4>2, <5>1 DEF CopyInv
          <5>6. QED BY <5>4, <5>5
        <4>3. QED BY <4>1, <4>2
      <3>3. ASSUME NEW p \in Copies, dst[p] = run.S[p]
            PROVE  dst'[p] = run.S[p]
        <4>1. p \in Path /\ run.S[p].kind \in {"file", "link"}
          BY <3>3, Kinds
        <4>2. CASE run.pc # "modes"
          BY <1>4, <3>3, <4>1, <4>2, KindsKept
        <4>3. CASE run.pc = "modes"
          <5>1. dst' = Remoded
            BY <1>4, <4>3 DEF GoesOn
          <5>2. IsTree(dst) /\ run.S \in [Path -> Node]
            BY DEF TypeInv, BaseInv, IsRun
          <5>3. p \notin ModeFixes(run.S, run.D, ByEvents(run))
            BY <3>3, Kinds
          <5>4. Remoded[p] = dst[p]
            BY <4>1, <5>2, <5>3, ModesAre
          <5>5. QED BY <3>3, <5>1, <5>4
        <4>4. QED BY <4>2, <4>3
      <3>4. QED BY <3>1, <3>2, <3>3
    <2>5. QED BY <1>2, <1>4, <2>3, <2>4
  <1>5. CASE Works
    <2>1. /\ run'.S = run.S /\ run'.pc = run.pc /\ Coming' = Coming /\ Copies' = Copies /\ Busy
      BY <1>5, WorksKeeps
    <2>2. run'.pc \in First4 => "copy" \in Coming'
      BY <2>1 DEF CopyInv
    <2>3. CASE run.pc = "copy"
      <3>1. Sends
        BY <1>5, <2>3 DEF Works, Tidies
      <3>2. Out'
        <4>1. ASSUME NEW w \in Worker, pool'[w].pc = "off"
              PROVE  run'.fatal \/ run'.work = {}
          <5>1. (run.fatal => run'.fatal) /\ run'.work \subseteq run.work
                /\ (pool[w].pc = "off" \/ run'.fatal \/ run.work = {})
            BY <3>1, <4>1 DEF Sends
          <5>2. QED BY <2>3, <5>1 DEF CopyInv
        <4>2. QED BY <4>1
      <3>3. ASSUME run'.failed = {}, ~run'.fatal
            PROVE  There'
        <4>1. run.failed = {} /\ ~run.fatal /\ run.changing \subseteq run'.changing
          BY <3>1, <3>3 DEF Sends
        <4>2. ASSUME NEW p \in Copies
              PROVE  Due(p)' \/ p \in run'.changing \/ dst'[p] = run.S[p]
          <5>1. Due(p) \/ p \in run.changing \/ dst[p] = run.S[p]
            BY <2>3, <4>1 DEF CopyInv
          <5>2. CASE dst[p] = run.S[p]
            BY <1>5, <2>3, <5>2, CopiedStays
          <5>3. CASE Due(p)
            BY <3>1, <3>3, <5>3, Kinds DEF Sends
          <5>4. QED BY <4>1, <5>1, <5>2, <5>3
        <4>3. QED BY <2>1, <4>2
      <3>4. QED BY <2>1, <2>2, <2>3, <3>2, <3>3
    <2>4. CASE run.pc # "copy"
      <3>1. Counts(run, run')
        BY <1>5, <2>4 DEF Works, Sends, Tidies
      <3>2. ASSUME "copy" \notin Coming', run'.failed = {}
            PROVE  Done'
        <4>1. Done /\ run.pc \notin {"mismatch", "remove"}
          BY <2>1, <2>4, <3>1, <3>2 DEF CopyInv, Counts
        <4>2. ASSUME NEW p \in Copies, dst[p] = run.S[p]
              PROVE  dst'[p] = run.S[p]
          BY <1>5, <4>1, <4>2, CopiedStays
        <4>3. QED BY <2>1, <3>1, <4>1, <4>2 DEF Counts
      <3>3. QED BY <2>1, <2>2, <2>4, <3>2
    <2>5. QED BY <2>3, <2>4
  <1>6. CASE Busy /\ UNCHANGED <<dst, mirror, run, pool>>
    BY <1>6 DEF CopyInv, Coming, Copies, ByEvents, Due
  <1>7. QED BY <1>1, <1>3, <1>4, <1>5, <1>6, BusyMoves

\* Nothing touches a directory after its time was set.
LEMMA StampStep ==
  ASSUME TypeInv, PlanInv, DirsInv, StampInv, Moves, TypeInv', PlanInv'
  PROVE  StampInv'
  <1>1. SUFFICES ASSUME Busy', "stamp" \notin Coming', run'.pc # "stamp", NEW p \in Path, run'.S[p].kind = "dir"
                 PROVE  dst'[p].ver = run'.S[p].ver
    BY DEF StampInv
  <1>2. CASE Scans
    <2>1. run.plan = Phases[run.variant] /\ run.variant \in DOMAIN Phases
      BY <1>2 DEF Scans, PlanInv, Active
    <2>2. "stamp" \in Coming
      BY <2>1, PlansAre DEF Coming
    <2>3. QED BY <1>1, <1>2, <2>2, NextPhase
  <1>3. CASE GoesOn
    <2>1. /\ Coming = {run'.pc} \cup Coming' /\ "stamp" \notin Coming /\ run'.S = run.S /\ Busy
          /\ Planned(run.pc, run.plan) /\ run.pc \in {"stamp", "copied", "verify", "end"}
      <3>1. Coming = {run'.pc} \cup Coming' /\ Planned(run.pc, run.plan)
        BY <1>3, NextPhase
      <3>2. QED BY <1>1, <1>3, <3>1, KindsKept DEF Planned, Coming
    <2>2. CASE run.pc # "stamp"
      <3>1. dst' = dst
        BY <1>3, <2>1, <2>2, KindsKept
      <3>2. QED BY <1>1, <2>1, <2>2, <3>1 DEF StampInv
    <2>3. CASE run.pc = "stamp"
      <3>1. dst' = Restamped
        BY <1>3, <2>3 DEF GoesOn
      <3>2. "mkdir" \notin Coming /\ "mkover" \notin Coming
        BY <2>1, <2>3 DEF Planned, Coming, Order
      <3>3. dst[p].kind = "dir"
        BY <1>1, <2>1, <2>3, <3>2 DEF DirsInv
      <3>4. IsTree(dst) /\ run.S \in [Path -> Node]
        BY DEF TypeInv, BaseInv, IsRun
      <3>5. Restamped[p].ver = run.S[p].ver
        BY <1>1, <2>1, <3>3, <3>4, StampsAre DEF Exists
      <3>6. QED BY <2>1, <3>1, <3>5
    <2>4. QED BY <2>2, <2>3
  <1>4. CASE Works
    <2>1. "stamp" \notin Coming /\ Busy /\ run'.S = run.S /\ run.pc # "stamp"
      BY <1>1, <1>4, WorksKeeps
    <2>2. run.pc \in {"copied", "verify", "end"}
      BY <2>1 DEF PlanInv, Planned, Busy, Coming
    <2>3. QED BY <1>4, <2>2 DEF Works, Sends, Tidies
  <1>5. CASE Busy /\ UNCHANGED <<dst, mirror, run, pool>>
    BY <1>1, <1>5 DEF StampInv, Coming
  <1>6. QED BY <1>1, <1>2, <1>3, <1>4, <1>5, BusyMoves

----------------------------------------------------------------------------
(* What a finished pass has made. *)

Outcome(p) ==
    /\ run.S[p].kind = "dir" => dst[p].kind = "dir" /\ dst[p].ver = run.S[p].ver
    /\ run.S[p].kind \in {"file", "link"} =>
          \/ p \in run.changing
          \/ EntriesMatch(run.S[p], dst[p], ByEvents(run)) /\ ~EntryModeDiffers(run.S[p], dst[p])
    /\ mirror /\ p \notin Excluded /\ ~Exists(run.S, p) => ~Exists(dst, p)
DoneInv ==
    run.pc = "done" =>
        /\ run.result \in {"ok", "changing", "err"} /\ (run.result = "ok" => run.changing = {})
        /\ run.result # "err" => \A p \in Path : Region(p) => Outcome(p)

BusyInv == TodoInv /\ ListInv /\ DirsInv /\ AbsentInv /\ KeptInv /\ CopyInv /\ StampInv

\* At the end everything in the region is as it was listed.
LEMMA AtEnd ==
  ASSUME TypeInv, PlanInv, BusyInv, run.pc = "end", run.failed = {}, NEW p \in Path, Region(p)
  PROVE  Outcome(p)
  <1>1. Busy /\ Coming = {}
    BY PlanEnds DEF Busy, Active, PlanInv, Coming
  <1>2. run.S[p] \in Node /\ run.D[p] \in Node /\ dst[p] \in Node
    BY DEF TypeInv, BaseInv, IsTree, IsRun
  <1>3. ASSUME run.S[p].kind = "dir"
        PROVE  dst[p].kind = "dir" /\ dst[p].ver = run.S[p].ver
    BY <1>1, <1>3 DEF BusyInv, DirsInv, StampInv
  <1>4. ASSUME run.S[p].kind \in {"file", "link"}
        PROVE  \/ p \in run.changing
               \/ EntriesMatch(run.S[p], dst[p], ByEvents(run)) /\ ~EntryModeDiffers(run.S[p], dst[p])
    <2>1. CASE p \in Copies
      <3>1. p \in run.changing \/ dst[p] = run.S[p]
        BY <1>1, <2>1 DEF BusyInv, CopyInv
      <3>2. QED BY <1>4, <3>1 DEF EntriesMatch, EntryModeDiffers
    <2>2. CASE p \notin Copies
      <3>1. EntriesMatch(run.S[p], run.D[p], ByEvents(run))
        BY <1>4, <2>2, Kinds
      <3>2. dst[p] = IF p \in ModeFixes(run.S, run.D, ByEvents(run))
                     THEN [run.D[p] EXCEPT !.mode = run.S[p].mode] ELSE run.D[p]
        BY <1>1, <1>4, <2>2 DEF BusyInv, KeptInv
      <3> DEFINE n == run.D[p]
                 m == run.S[p].mode
      <3>3. n \in Node /\ m \in {0, 1}
        BY <1>2 DEF Node
      <3>4. CASE p \in ModeFixes(run.S, run.D, ByEvents(run))
        <4>1. dst[p] = [n EXCEPT !.mode = m]
          BY <3>2, <3>4
        <4> HIDE DEF n, m
        <4>2. dst[p].kind = n.kind /\ dst[p].ver = n.ver /\ dst[p].look = n.look /\ dst[p].mode = m
          BY <3>3, <4>1, NodeIs
        <4>3. QED BY <3>1, <4>2 DEF EntriesMatch, EntryModeDiffers, n, m
      <3>5. CASE p \notin ModeFixes(run.S, run.D, ByEvents(run))
        BY <3>1, <3>2, <3>5, Kinds
      <3>6. QED BY <3>4, <3>5
    <2>3. QED BY <2>1, <2>2
  <1>5. ASSUME mirror, p \notin Excluded, ~Exists(run.S, p)
        PROVE  ~Exists(dst, p)
    BY <1>1, <1>5 DEF BusyInv, AbsentInv
  <1>6. QED BY <1>3, <1>4, <1>5 DEF Outcome

\* A pass that ends without an error has done all of its work.
LEMMA DoneStep ==
  ASSUME TypeInv, PlanInv, BusyInv, DoneInv, Moves
  PROVE  DoneInv'
  <1>1. SUFFICES ASSUME run'.pc = "done" PROVE DoneInv'
    BY DEF DoneInv
  <1>2. CASE Stops
    BY <1>2 DEF Stops, DoneInv
  <1>3. CASE Ends
    <2>1. /\ run.pc = "end" /\ dst' = dst /\ mirror' = mirror /\ Compares(run, run') /\ Counts(run, run')
          /\ run'.result = IF run.failed # {} THEN "err" ELSE IF run.changing # {} THEN "changing" ELSE "ok"
      BY <1>3 DEF Ends, Others
    <2>2. ASSUME run'.result # "err", NEW p \in Path, Region(p)'
          PROVE  Outcome(p)'
      <3>1. run.failed = {} /\ Region(p)
        BY <2>1, <2>2 DEF Compares, Region, ByEvents
      <3>2. Outcome(p)
        BY <2>1, <3>1, AtEnd
      <3>3. QED BY <2>1, <3>2 DEF Outcome, Compares, Counts, ByEvents, Exists
    <2>3. QED BY <2>1, <2>2 DEF DoneInv, Counts
  <1>4. CASE \E p \in Path : Edits(p)
    <2>1. run' = run /\ dst' = dst /\ mirror' = mirror
      BY <1>4 DEF Edits
    <2>2. QED BY <1>1, <2>1 DEF DoneInv, Outcome, Region, ByEvents, Exists
  <1>5. CASE \E v \in DOMAIN Phases : Begins(v)
    BY <1>1, <1>5 DEF Begins
  <1>6. CASE WalksDir \/ Sends \/ \E p \in Path : WalksEntry(p) \/ WalksPast(p)
    BY <1>1, <1>6 DEF WalksDir, WalksEntry, WalksPast, Sends, Same4
  <1>7. CASE Scans \/ GoesOn
    BY <1>1, <1>7, NextPhase DEF Busy, Active
  <1>8. CASE Settles
    BY <1>1, <1>8 DEF Settles
  <1>9. CASE \E p \in Path : Tidies(p)
    BY <1>1, <1>9 DEF Tidies
  <1>10. QED BY <1>2, <1>3, <1>4, <1>5, <1>6, <1>7, <1>8, <1>9 DEF Moves

\* A pass keeps what it has done.
LEMMA BusyStep ==
  ASSUME TypeInv, PlanInv, WalkInv, BusyInv, Moves, TypeInv', PlanInv'
  PROVE  BusyInv'
  <1>1. TodoInv' /\ ListInv'
    BY TodoStep, ListStep DEF BusyInv
  <1>2. DirsInv' /\ AbsentInv'
    BY DirsStep, AbsentStep DEF BusyInv
  <1>3. KeptInv' /\ CopyInv' /\ StampInv'
    BY KeptStep, CopyStep, StampStep DEF BusyInv
  <1>4. QED BY <1>1, <1>2, <1>3 DEF BusyInv

----------------------------------------------------------------------------
(* Versions. *)

\* Files of one version look the same, wherever they are, and no version is newer
\* than the last edit.
Known(L, c, n) == n.kind = "file" => n.ver <= c /\ n.look = L[n.ver]
Looks(L) == \A p \in Path : Known(L, clock, src[p]) /\ Known(L, clock, dst[p]) /\ (run.pc # "idle" => Known(L, clock, run.S[p]))
LookInv == \E L \in [Nat -> Nat] : Looks(L)

\* Entries that are the same are both known.
LEMMA SameKnown ==
  ASSUME NEW a, NEW b, Same(a, b), NEW L, Known(L, clock, a)
  PROVE  Known(L, clock, b)
  BY DEF Same, Known

\* Every file of the destination was there, or was listed.
LEMMA FilesKnown ==
  ASSUME TypeInv, PlanInv, BusyInv, WalkInv, NEW L, Looks(L), Busy, GoesOn \/ Works, NEW p \in Path
  PROVE  Known(L, clock, dst'[p])
  <1>1. Known(L, clock, dst[p]) /\ \A q \in Path : Known(L, clock, run.S[q])
    BY DEF Looks, Busy, Active
  <1>2. CASE GoesOn
    <2>1. IsTree(dst) /\ run.S \in [Path -> Node]
      BY DEF TypeInv, BaseInv, IsRun
    <2>2. CASE run.pc = "modes"
      <3>1. dst' = Remoded
        BY <1>2, <2>2 DEF GoesOn
      <3>2. Remoded[p].kind = dst[p].kind /\ Remoded[p].ver = dst[p].ver /\ Remoded[p].look = dst[p].look
        BY <2>1, ModesAre
      <3>3. QED BY <1>1, <3>1, <3>2 DEF Known
    <2>3. CASE run.pc = "stamp"
      <3>1. dst' = Restamped
        BY <1>2, <2>3 DEF GoesOn
      <3>2. "mkdir" \notin Coming /\ "mkover" \notin Coming
        <4>1. Planned(run.pc, run.plan)
          BY DEF PlanInv, Busy
        <4>2. QED BY <2>3, <4>1 DEF Planned, Coming, Order
      <3>3. run.S[p].kind = "dir" => dst[p].kind = "dir"
        BY <2>3, <3>2 DEF BusyInv, DirsInv
      <3>4. CASE run.S[p].kind = "dir"
        <4>1. Restamped[p].kind = "dir"
          BY <2>1, <3>3, <3>4, StampsAre
        <4>2. QED BY <3>1, <4>1 DEF Known
      <3>5. CASE run.S[p].kind # "dir"
        BY <1>1, <1>2, <2>3, <3>5, KindsKept
      <3>6. QED BY <3>4, <3>5
    <2>4. CASE run.pc \notin {"modes", "stamp"}
      BY <1>1, <1>2, <2>4, KindsKept
    <2>5. QED BY <2>2, <2>3, <2>4
  <1>3. CASE Works
    <2>1. CASE dst' = dst
      BY <1>1, <2>1
    <2>2. CASE \E x \in Path : Strikes(x)
      <3>1. PICK x \in Path : Strikes(x)
        BY <2>2
      <3>2. \/ Same(dst[p], dst'[p])
            \/ dst'[p].kind # "file"
            \/ dst'[p] = run.S[p]
        BY <3>1, Nodes DEF Strikes, Removes, Writes
      <3>3. QED BY <1>1, <3>2, SameKnown DEF Known
    <2>3. QED BY <1>3, <2>1, <2>2, StepStrikes DEF Works, BusyInv
  <1>4. QED BY <1>2, <1>3

\* At first a version is what it looks like.
LEMMA LookInit ==
  ASSUME Init
  PROVE  LookInv
  <1> DEFINE L == [n \in Nat |-> n]
  <1>1. L \in [Nat -> Nat] /\ \A n \in Nat : L[n] = n
    OBVIOUS
  <1>2. clock = 2 /\ run.pc = "idle"
    BY DEF Init, Idle
  <1>3. ASSUME NEW v \in {1, 2}, NEW t \in Trees(v), NEW p \in Path
        PROVE  Known(L, clock, t[p])
    <2>1. t[p] \in {Absent, File(v), Dir(v)}
      BY DEF Trees
    <2> HIDE DEF L
    <2>2. QED BY <1>1, <1>2, <2>1 DEF Known, Absent, File, Dir
  <1>4. \A p \in Path : Known(L, clock, src[p]) /\ Known(L, clock, dst[p])
    <2>1. src \in Trees(1) /\ (dst \in Trees(2) \/ dst = src)
      BY DEF Init
    <2>2. ASSUME NEW p \in Path
          PROVE  Known(L, clock, src[p]) /\ Known(L, clock, dst[p])
      <3>1. Known(L, clock, src[p])
        BY <1>3, <2>1
      <3>2. CASE dst = src
        BY <3>1, <3>2
      <3>3. CASE dst \in Trees(2)
        BY <1>3, <3>1, <3>3
      <3>4. QED BY <2>1, <3>1, <3>2, <3>3
    <2>3. QED BY <2>2
  <1> HIDE DEF L
  <1>5. QED BY <1>1, <1>2, <1>4 DEF LookInv, Looks

\* An edit makes a new version, and every copy is of a version there was.
LEMMA LookStep ==
  ASSUME TypeInv, PlanInv, WalkInv, BusyInv, LookInv, Moves, TypeInv'
  PROVE  LookInv'
  <1>1. PICK L \in [Nat -> Nat] : Looks(L)
    BY DEF LookInv
  <1>2. ASSUME clock' = clock, src' = src, \A p \in Path : Known(L, clock, dst'[p]),
               run'.pc = "idle" \/ \A p \in Path : Known(L, clock, run'.S[p])
        PROVE  LookInv'
    BY <1>1, <1>2 DEF LookInv, Looks, Known
  <1>3. ASSUME dst' = dst
        PROVE  \A p \in Path : Known(L, clock, dst'[p])
    BY <1>1, <1>3 DEF Looks
  <1>4. ASSUME run.pc # "idle", run'.S = run.S
        PROVE  \A p \in Path : Known(L, clock, run'.S[p])
    BY <1>1, <1>4 DEF Looks
  <1>5. CASE \E v \in DOMAIN Phases : Begins(v)
    <2>1. run'.S = NoTree /\ dst' = dst /\ src' = src /\ clock' = clock
      BY <1>5 DEF Begins
    <2>2. \A p \in Path : Known(L, clock, run'.S[p])
      BY <2>1, Nodes DEF Known
    <2>3. QED BY <1>2, <1>3, <2>1, <2>2
  <1>6. CASE WalksDir \/ Scans \/ Ends \/ Stops \/ \E p \in Path : WalksPast(p)
    <2>1. run'.S = run.S /\ dst' = dst /\ src' = src /\ clock' = clock /\ run.pc # "idle"
      BY <1>6 DEF WalksDir, Scans, Ends, Stops, WalksPast, Compares, Others, Active
    <2>2. QED BY <1>2, <1>3, <1>4, <2>1
  <1>7. CASE \E p \in Path : WalksEntry(p)
    <2>1. PICK p \in Path : WalksEntry(p)
      BY <1>7
    <2>2. run'.S = [run.S EXCEPT ![p] = src[p]] /\ dst' = dst /\ src' = src /\ clock' = clock /\ run.pc # "idle"
      BY <2>1 DEF WalksEntry, Others
    <2>3. \A q \in Path : run'.S[q] = run.S[q] \/ run'.S[q] = src[q]
      BY <2>2 DEF TypeInv, IsRun
    <2>4. \A q \in Path : Known(L, clock, run'.S[q])
      BY <1>1, <2>2, <2>3 DEF Looks
    <2>5. QED BY <1>2, <1>3, <2>2, <2>4
  <1>8. CASE GoesOn \/ Works
    <2>1. Busy /\ run'.S = run.S
      BY <1>8, KindsKept, WorksKeeps
    <2>2. src' = src /\ clock' = clock
      BY <1>8 DEF GoesOn, Works, Sends, Tidies, Others
    <2>3. \A p \in Path : Known(L, clock, dst'[p])
      BY <1>1, <1>8, <2>1, FilesKnown
    <2>4. QED BY <1>2, <1>4, <2>1, <2>2, <2>3 DEF Busy, Active
  <1>9. CASE Settles
    <2>1. dst' = dst /\ src' = src /\ clock' = clock /\ run'.pc = "idle"
      BY <1>9 DEF Settles
    <2>2. QED BY <1>2, <1>3, <2>1
  <1>10. CASE \E p \in Path : Edits(p)
    <2>1. PICK p \in Path : Edits(p)
      BY <1>10
    <2>2. /\ clock' = clock + 1 /\ run' = run /\ dst' = dst
          /\ \A q \in Path : src'[q].kind = "file" =>
                \/ src[q].kind = "file" /\ src'[q].ver = src[q].ver /\ src'[q].look = src[q].look
                \/ q = p /\ src'[q].ver = clock'
      BY <2>1 DEF Edits
    <2> DEFINE K == [L EXCEPT ![clock'] = src'[p].look]
    <2>3. src'[p].look \in Nat /\ clock \in Nat /\ clock' \in Nat
      BY DEF TypeInv, BaseInv, IsTree, Node
    <2>4. K \in [Nat -> Nat] /\ K[clock'] = src'[p].look /\ \A n \in Nat : n <= clock => K[n] = L[n]
      BY <2>2, <2>3
    <2> HIDE DEF K
    <2>5. ASSUME NEW n \in Node, Known(L, clock, n)
          PROVE  Known(K, clock', n)
      <3>1. n.ver \in Nat
        BY DEF Node
      <3>2. QED BY <2>2, <2>3, <2>4, <2>5, <3>1 DEF Known
    <2>6. ASSUME NEW q \in Path
          PROVE  Known(K, clock', src'[q])
      <3>1. src[q] \in Node /\ src'[q] \in Node /\ Known(L, clock, src[q])
        BY <1>1 DEF TypeInv, BaseInv, IsTree, Looks
      <3>2. src[q].ver \in Nat
        BY <3>1 DEF Node
      <3>3. QED BY <2>2, <2>3, <2>4, <3>1, <3>2 DEF Known
    <2>7. \A q \in Path : dst[q] \in Node /\ run.S[q] \in Node
      BY DEF TypeInv, BaseInv, IsTree, IsRun
    <2>8. QED BY <1>1, <2>2, <2>4, <2>5, <2>6, <2>7 DEF LookInv, Looks
  <1>11. CASE Sends \/ \E p \in Path : Tidies(p)
    <2>1. Works
      BY <1>11 DEF Works, Stays, Sends, Tidies, Same4, Others, Busy, Active
    <2>2. QED BY <1>8, <2>1
  <1>12. QED BY <1>5, <1>6, <1>7, <1>8, <1>9, <1>10, <1>11 DEF Moves

----------------------------------------------------------------------------
(* What events announce. *)

\* An entry of a tree is what the source has there.
Matches(t, p) ==
    IF Exists(src, p)
    THEN /\ src[p].kind = t[p].kind
         /\ src[p].kind = "file" => src[p].look = t[p].look /\ src[p].mode = t[p].mode
         /\ src[p].kind = "link" => src[p].ver = t[p].ver
    ELSE mirror => ~Exists(t, p)

\* No event of an unverified cycle is about p.
Quiet(p) == p \notin Excluded /\ ~Covers(dirty \cup fresh, p)

\* What no event is about is right at the destination, and was right when it was listed.
TrackInv ==
    ~needFull => \A p \in Path : Quiet(p) =>
        Matches(dst, p) /\ (Busy /\ Region(p) => Matches(run.D, p))

\* The time of a directory does not matter.
LEMMA SameMatches ==
  ASSUME NEW t, NEW u, NEW p, Same(t[p], u[p]), Matches(t, p)
  PROVE  Matches(u, p)
  BY DEF Same, Matches, Exists

\* Nothing above what is quiet changed, and a pass from events is not about it.
LEMMA QuietIs ==
  ASSUME TypeInv, SeenInv, run.pc # "idle", NEW p \in Path, Quiet(p)
  PROVE  /\ p \notin changed
         /\ \A x \in Path : p \in Subtree(x) => Quiet(x) /\ x \notin changed
         /\ Region(p) => ~ByEvents(run)
  <1> DEFINE R == dirty \cup fresh
  <1>1. R \in SUBSET Path /\ changed \in SUBSET Path /\ SeenNew
    BY DEF TypeInv, BaseInv, SeenInv
  <1>2. ASSUME NEW x \in Path, p \in Subtree(x)
        PROVE  Quiet(x) /\ x \notin changed
    <2> HIDE DEF R
    <2>1. (Covers(R, x) => Covers(R, p)) /\ (x \in Excluded => p \in Excluded)
      BY <1>1, <1>2, CoversDown
    <2>2. Quiet(x)
      BY <2>1 DEF Quiet, R
    <2>3. x \notin changed
      BY <1>1, <2>2 DEF Quiet, SeenNew, Covers
    <2>4. QED BY <2>2, <2>3
  <1>3. p \in Subtree(p)
    BY SubtreeIs
  <1>4. Region(p) => ~ByEvents(run)
    BY <1>1 DEF Region, SeenNew, Quiet, Covers
  <1>5. QED BY <1>2, <1>3, <1>4

\* A change at the destination keeps right what no event is about.
LEMMA TrackStrikes ==
  ASSUME TypeInv, WalkInv, SeenInv, IdleInv, TrackInv, ~needFull, Busy,
         NEW x \in Path, Strikes(x), NEW p \in Path, Quiet(p)
  PROVE  Matches(dst', p)
  <1>1. /\ run.pc # "idle" /\ run.pc # "walk" /\ run.result # "err" /\ SeenRight /\ SeenAll /\ SeenUp
        /\ Snapshot(run.S) /\ IsTree(dst) /\ Region(x) /\ run.rel \in SUBSET Path
    BY DEF Busy, Active, IdleInv, SeenInv, WalkInv, TypeInv, BaseInv, IsRun, Strikes
  <1>2. Matches(dst, p)
    BY DEF TrackInv
  <1>3. p \notin changed /\ \A y \in Path : p \in Subtree(y) => Quiet(y) /\ y \notin changed
    BY <1>1, QuietIs
  <1>4. ASSUME Same(dst[p], dst'[p])
        PROVE  Matches(dst', p)
    BY <1>2, <1>4, SameMatches
  <1>5. ASSUME p \in Above(x), Exists(run.S, x), dst'[p].kind = "dir"
        PROVE  Matches(dst', p)
    <2>1. src[p].kind = "dir"
      BY <1>1, <1>3, <1>5 DEF SeenUp
    <2>2. QED BY <1>5, <2>1 DEF Matches, Exists
  <1>6. CASE run.pc \in {"mismatch", "remove", "extras"}
    <2>1. /\ x \in Mismatch(run.S, run.D) \/ x \in Extras(run.S, run.D, run.rel)
          /\ IF p \in Subtree(x) THEN dst'[p] = Absent ELSE Same(dst[p], dst'[p])
      BY <1>6 DEF Strikes, Removes
    <2>2. CASE p \notin Subtree(x)
      BY <1>4, <2>1, <2>2
    <2>3. CASE p \in Subtree(x)
      <3>1. ~Exists(dst', p)
        BY <2>1, <2>3, Nodes DEF Exists
      <3>2. SUFFICES ASSUME Exists(src, p) PROVE FALSE
        BY <3>1 DEF Matches
      <3>3. Exists(src, x) /\ Quiet(x) /\ x \notin changed
        BY <1>3, <2>3, <3>2, SourceUp
      <3>4. CASE x \in Mismatch(run.S, run.D)
        <4>1. Matches(run.D, x)
          BY <1>1, <3>3 DEF TrackInv
        <4>2. SeenAs(x)
          BY <1>1, <3>3, <3>4, Kinds DEF SeenRight
        <4>3. QED BY <3>3, <3>4, <4>1, <4>2, Kinds DEF Matches, SeenAs
      <3>5. CASE x \in Extras(run.S, run.D, run.rel)
        <4>1. ~Exists(run.S, x) /\ x \notin Excluded
          BY <3>5, Kinds
        <4>2. Pending(x)
          BY <1>1, <3>3, <4>1 DEF SeenAll
        <4>3. QED BY <1>1, <4>2 DEF Pending
      <3>6. QED BY <2>1, <3>4, <3>5
    <2>4. QED BY <2>2, <2>3
  <1>7. CASE run.pc \in {"mkdir", "mkover"}
    <2>1. run.S[x].kind = "dir" /\ dst'[x].kind = "dir" /\ Writes(x)
      BY <1>7 DEF Strikes
    <2>2. CASE p = x
      <3>1. SeenAs(p)
        BY <1>1, <1>3, <2>1, <2>2 DEF SeenRight, Exists
      <3>2. QED BY <2>1, <2>2, <3>1 DEF SeenAs, Matches, Exists
    <2>3. CASE p # x
      <3>1. \/ Same(dst[p], dst'[p])
            \/ p \in Above(x) /\ ~Exists(dst, p) /\ dst'[p].kind = "dir"
            \/ ~Exists(dst, p) /\ dst'[p] = Absent
        BY <1>1, <2>1, <2>3, DirWrites
      <3>2. CASE p \in Above(x) /\ dst'[p].kind = "dir"
        BY <1>5, <2>1, <3>2 DEF Exists
      <3>3. CASE ~Exists(dst, p) /\ dst'[p] = Absent
        BY <1>2, <3>3, Nodes DEF Matches, Exists
      <3>4. QED BY <1>4, <3>1, <3>2, <3>3
    <2>4. QED BY <2>2, <2>3
  <1>8. CASE run.pc = "copy"
    <2>1. x \in Copies /\ dst'[x] = run.S[x] /\ Writes(x) /\ run.S[x].kind \in {"file", "link"}
      BY <1>8, Kinds DEF Strikes
    <2>2. CASE p = x
      <3>1. SeenAs(p)
        BY <1>1, <1>3, <2>1, <2>2 DEF SeenRight, Exists
      <3>2. QED BY <2>1, <2>2, <3>1 DEF SeenAs, Matches, Exists
    <2>3. CASE p # x /\ p \in Above(x) /\ dst'[p].kind = "dir"
      BY <1>5, <2>1, <2>3 DEF Exists
    <2>4. CASE p # x /\ p \in Subtree(x) /\ dst'[p] = Absent
      <3>1. SUFFICES ASSUME Exists(src, p) PROVE FALSE
        BY <2>4, Nodes DEF Matches, Exists
      <3>2. src[x].kind = "dir" /\ x \notin changed
        BY <1>3, <2>4, <3>1, SourceUp
      <3>3. SeenAs(x)
        BY <1>1, <2>1, <3>2 DEF SeenRight, Exists
      <3>4. QED BY <2>1, <3>2, <3>3 DEF SeenAs
    <2>5. QED BY <1>4, <2>1, <2>2, <2>3, <2>4 DEF Writes
  <1>9. QED BY <1>6, <1>7, <1>8 DEF Strikes

\* What a finished pass leaves is what the source has, where it did not change.
LEMMA Verified ==
  ASSUME TypeInv, SeenInv, LookInv, DoneInv, run.pc = "done", run.result # "err",
         NEW p \in Path \ (changed \cup Excluded), Region(p), p \notin run.changing
  PROVE  /\ Matches(dst, p)
         /\ ByEvents(run) /\ src[p].kind = "file" => dst[p].ver = src[p].ver
         /\ src[p].kind = "dir" /\ (\A q \in changed : Parent[q] # p) => dst[p].ver = src[p].ver
  <1>1. Outcome(p) /\ SeenRight /\ SeenAll
    BY DEF DoneInv, SeenInv
  <1>2. Exists(src, p) => Exists(run.S, p)
    BY <1>1 DEF SeenAll, Pending
  <1>3. CASE ~Exists(src, p)
    <2>1. ~Exists(run.S, p)
      BY <1>1, <1>3 DEF SeenRight, SeenAs, Exists
    <2>2. QED BY <1>1, <1>3, <2>1 DEF Outcome, Matches, Exists
  <1>4. CASE Exists(src, p)
    <2>1. SeenAs(p)
      BY <1>1, <1>2, <1>4 DEF SeenRight
    <2>2. src[p].kind \in {"file", "link", "dir"}
      BY <1>4 DEF TypeInv, BaseInv, IsTree, Node, KindSet, Exists
    <2>3. CASE src[p].kind = "dir"
      BY <1>1, <2>1, <2>3 DEF SeenAs, Outcome, Matches, Exists
    <2>4. CASE src[p].kind \in {"file", "link"}
      <3>1. /\ EntriesMatch(run.S[p], dst[p], ByEvents(run)) /\ ~EntryModeDiffers(run.S[p], dst[p])
            /\ src[p].kind = run.S[p].kind /\ src[p].ver = run.S[p].ver
            /\ src[p].look = run.S[p].look /\ src[p].mode = run.S[p].mode
        BY <1>1, <2>1, <2>4 DEF Outcome, SeenAs
      <3>2. CASE src[p].kind = "link"
        BY <3>1, <3>2 DEF EntriesMatch, Matches, Exists
      <3>3. CASE src[p].kind = "file"
        <4>1. dst[p].kind = "file" /\ dst[p].mode = src[p].mode
          BY <3>1, <3>3 DEF EntriesMatch, EntryModeDiffers
        <4>2. CASE ByEvents(run)
          <5>1. dst[p].ver = src[p].ver
            BY <3>1, <3>3, <4>2 DEF EntriesMatch
          <5>2. dst[p].look = src[p].look
            <6>1. PICK L \in [Nat -> Nat] : Looks(L)
              BY DEF LookInv
            <6>2. QED BY <3>3, <4>1, <5>1, <6>1 DEF Looks, Known
          <5>3. QED BY <3>3, <4>1, <5>1, <5>2 DEF Matches, Exists
        <4>3. CASE ~ByEvents(run)
          <5>1. dst[p].look = src[p].look
            BY <3>1, <3>3, <4>3 DEF EntriesMatch
          <5>2. QED BY <3>3, <4>1, <4>3, <5>1 DEF Matches, Exists
        <4>4. QED BY <4>2, <4>3
      <3>4. QED BY <2>4, <3>2, <3>3
    <2>5. QED BY <2>2, <2>3, <2>4
  <1>5. QED BY <1>3, <1>4

\* The mode and stamp phases keep right what no event is about.
LEMMA TrackModes ==
  ASSUME TypeInv, WalkInv, SeenInv, TrackInv, ~needFull, GoesOn, NEW p \in Path, Quiet(p)
  PROVE  Matches(dst', p)
  <1>1. /\ run.pc # "idle" /\ Busy /\ SeenRight /\ IsTree(dst) /\ run.S \in [Path -> Node]
        /\ dst' = IF run.pc = "modes" THEN Remoded ELSE IF run.pc = "stamp" THEN Restamped ELSE dst
    BY DEF GoesOn, Busy, Active, SeenInv, TypeInv, BaseInv, IsRun
  <1>2. Matches(dst, p) /\ p \notin changed
    BY <1>1, QuietIs DEF TrackInv
  <1>3. CASE run.pc = "modes"
    <2>1. /\ Remoded[p].kind = dst[p].kind /\ Remoded[p].ver = dst[p].ver /\ Remoded[p].look = dst[p].look
          /\ Remoded[p].mode = IF p \in ModeFixes(run.S, run.D, ByEvents(run)) /\ Exists(dst, p)
                               THEN run.S[p].mode ELSE dst[p].mode
      BY <1>1, ModesAre
    <2>2. CASE p \in ModeFixes(run.S, run.D, ByEvents(run))
      <3>1. run.S[p].kind = "file"
        BY <2>2, Kinds DEF EntryModeDiffers
      <3>2. SeenAs(p)
        BY <1>1, <1>2, <3>1 DEF SeenRight, Exists
      <3>3. QED BY <1>1, <1>2, <1>3, <2>1, <3>1, <3>2 DEF SeenAs, Matches, Exists
    <2>3. CASE p \notin ModeFixes(run.S, run.D, ByEvents(run))
      BY <1>1, <1>2, <1>3, <2>1, <2>3 DEF Matches, Exists
    <2>4. QED BY <2>2, <2>3
  <1>4. CASE run.pc = "stamp"
    <2>1. /\ Restamped[p].kind = dst[p].kind
          /\ ~(run.S[p].kind = "dir" /\ Exists(dst, p)) => Restamped[p] = dst[p]
      BY <1>1, StampsAre
    <2>2. CASE run.S[p].kind = "dir"
      <3>1. SeenAs(p)
        BY <1>1, <1>2, <2>2 DEF SeenRight, Exists
      <3>2. QED BY <1>1, <1>2, <1>4, <2>1, <2>2, <3>1 DEF SeenAs, Matches, Exists
    <2>3. CASE run.S[p].kind # "dir"
      BY <1>1, <1>2, <1>4, <2>1, <2>3 DEF Matches, Exists
    <2>4. QED BY <2>2, <2>3
  <1>5. CASE run.pc \notin {"modes", "stamp"}
    BY <1>1, <1>2, <1>5
  <1>6. QED BY <1>3, <1>4, <1>5

\* The end of a pass: what it verified is right, and so is what no event was about.
LEMMA TrackSettles ==
  ASSUME TypeInv, SeenInv, LookInv, DoneInv, TrackInv, Settles
  PROVE  TrackInv'
  <1>1. SUFFICES ASSUME ~needFull', NEW p \in Path, Quiet(p)'
                 PROVE  Matches(dst, p)
    BY DEF TrackInv, Settles, Busy, Active, Matches, Exists
  <1>2. CASE run.result = "err"
    BY <1>1, <1>2 DEF Settles, TrackInv, Quiet
  <1>3. CASE run.result # "err"
    <2>1. /\ p \notin Excluded /\ ~Covers(fresh, p) /\ p \notin run.changing /\ run.pc = "done"
      <3>1. fresh' = fresh \cup run.changing /\ dirty' = {} /\ run.pc = "done"
        BY <1>3 DEF Settles
      <3>2. p \in Subtree(p)
        BY SubtreeIs
      <3>3. QED BY <1>1, <3>1, <3>2 DEF Quiet, Covers
    <2>2. p \notin changed /\ SeenNew
      BY <2>1 DEF SeenInv, SeenNew
    <2>3. CASE Region(p)
      BY <1>3, <2>1, <2>2, <2>3, Verified
    <2>4. CASE ~Region(p)
      <3>1. ~needFull /\ ~Covers(dirty, p)
        BY <2>2, <2>4 DEF Region, SeenNew
      <3>2. Quiet(p)
        BY <2>1, <3>1 DEF Quiet, Covers
      <3>3. QED BY <3>1, <3>2 DEF TrackInv
    <2>5. QED BY <2>3, <2>4
  <1>4. QED BY <1>2, <1>3

\* An edit announces what it changes.
LEMMA TrackEdits ==
  ASSUME TypeInv, TrackInv, NEW x \in Path, Edits(x)
  PROVE  TrackInv'
  <1>1. /\ run' = run /\ dst' = dst /\ mirror' = mirror /\ dirty' = dirty /\ needFull' = needFull
        /\ fresh' = IF x \in Excluded THEN fresh ELSE fresh \cup {x}
        /\ \A q \in Path : q \notin Subtree(x) => Same(src[q], src'[q])
    BY DEF Edits
  <1>2. SUFFICES ASSUME ~needFull, NEW p \in Path, Quiet(p)'
                 PROVE  Matches(dst, p)' /\ (Busy /\ Region(p) => Matches(run.D, p)')
    BY <1>1 DEF TrackInv, Busy, Active, Region, ByEvents
  <1>3. Quiet(p)
    BY <1>1, <1>2 DEF Quiet, Covers
  <1>4. p \notin Subtree(x)
    <2>1. SUFFICES ASSUME p \in Subtree(x) PROVE FALSE
      OBVIOUS
    <2>2. x \notin Excluded
      BY <1>3, <2>1, CoversDown DEF Quiet
    <2>3. QED BY <1>1, <1>2, <2>1, <2>2 DEF Quiet, Covers
  <1>5. Same(src[p], src'[p])
    BY <1>1, <1>4
  <1>6. ASSUME NEW t, Matches(t, p)
        PROVE  IF Exists(src', p)
               THEN /\ src'[p].kind = t[p].kind
                    /\ src'[p].kind = "file" => src'[p].look = t[p].look /\ src'[p].mode = t[p].mode
                    /\ src'[p].kind = "link" => src'[p].ver = t[p].ver
               ELSE mirror => ~Exists(t, p)
    BY <1>5, <1>6 DEF Same, Matches, Exists
  <1>7. Matches(dst, p) /\ (Busy /\ Region(p) => Matches(run.D, p))
    BY <1>2, <1>3 DEF TrackInv
  <1>8. QED BY <1>1, <1>6, <1>7 DEF Matches, Exists

\* What no event is about stays right.
LEMMA TrackStep ==
  ASSUME TypeInv, PlanInv, WalkInv, SeenInv, IdleInv, BusyInv, LookInv, DoneInv, TrackInv, Moves, TypeInv'
  PROVE  TrackInv'
  <1>1. CASE Settles
    BY <1>1, TrackSettles
  <1>2. CASE \E p \in Path : Edits(p)
    BY <1>2, TrackEdits
  <1>3. ASSUME dst' = dst, src' = src, mirror' = mirror, needFull' = needFull, dirty' \cup fresh' = dirty \cup fresh, ~Busy'
        PROVE  TrackInv'
    BY <1>3 DEF TrackInv, Quiet, Covers, Matches, Exists
  <1>4. CASE \E v \in DOMAIN Phases : Begins(v)
    <2>1. dirty' \cup fresh' = dirty \cup fresh
      BY <1>4 DEF Begins, IdleInv
    <2>2. QED BY <1>3, <1>4, <2>1 DEF Begins, Busy, Active
  <1>5. CASE WalksDir \/ Ends \/ Stops \/ \E p \in Path : WalksEntry(p) \/ WalksPast(p)
    <2>1. dst' = dst /\ Others
      BY <1>5 DEF WalksDir, Ends, Stops, WalksEntry, WalksPast
    <2>2. ~Busy'
      BY <1>5 DEF WalksDir, Ends, Stops, WalksEntry, WalksPast, Same4, Busy, Active
    <2>3. QED BY <1>3, <2>1, <2>2 DEF Others
  <1>6. CASE Scans \/ GoesOn \/ Works
    <2>1. Others
      BY <1>6 DEF Scans, GoesOn, Works, Sends, Tidies
    <2>2. SUFFICES ASSUME ~needFull, NEW p \in Path, Quiet(p)
                   PROVE  Matches(dst', p) /\ (Region(p)' => Matches(run'.D, p))
      BY <2>1 DEF TrackInv, Quiet, Covers, Matches, Exists, Others
    <2>3. Matches(dst, p) /\ (Busy /\ Region(p) => Matches(run.D, p))
      BY <2>2 DEF TrackInv
    <2>4. CASE Scans
      BY <2>3, <2>4, ListedIs DEF Matches, Exists
    <2>5. CASE GoesOn
      BY <2>2, <2>3, <2>5, TrackModes, KindsKept
    <2>6. CASE Works
      <3>1. Region(p)' => Matches(run'.D, p)
        BY <2>3, <2>6, WorksKeeps
      <3>2. CASE dst' = dst
        BY <2>3, <3>1, <3>2
      <3>3. CASE \E x \in Path : Strikes(x)
        BY <2>2, <2>6, <3>1, <3>3, TrackStrikes DEF Works, Stays
      <3>4. QED BY <2>6, <3>2, <3>3, StepStrikes DEF Works, Stays, BusyInv
    <2>7. QED BY <1>6, <2>4, <2>5, <2>6
  <1>7. CASE Sends \/ \E p \in Path : Tidies(p)
    <2>1. Works
      BY <1>7 DEF Works, Stays, Sends, Tidies, Same4, Others, Busy, Active
    <2>2. QED BY <1>6, <2>1
  <1>8. QED BY <1>1, <1>2, <1>4, <1>5, <1>6, <1>7 DEF Moves

----------------------------------------------------------------------------
(* What holds of every pass. *)

PassInv ==
    /\ TypeInv /\ PlanInv /\ IdleInv /\ WalkInv /\ SeenInv
    /\ BusyInv /\ DoneInv /\ LookInv /\ TrackInv

\* All of this holds at first,
LEMMA PassInit ==
  ASSUME Init
  PROVE  PassInv
  <1>1. TypeInv /\ PlanInv
    BY TypeInit
  <1>2. run.pc = "idle" /\ changed = {} /\ dirty = {} /\ (~needFull => dst = src)
    BY DEF Init, Idle
  <1>3. IdleInv /\ WalkInv /\ SeenInv /\ DoneInv
    BY <1>2 DEF IdleInv, WalkInv, SeenInv, DoneInv, Active
  <1>4. BusyInv
    BY <1>2 DEF BusyInv, TodoInv, ListInv, DirsInv, AbsentInv, KeptInv, CopyInv, StampInv, Busy, Active
  <1>5. TrackInv
    BY <1>2 DEF TrackInv, Matches, Exists, Busy, Active
  <1>6. QED BY <1>1, <1>3, <1>4, <1>5, LookInit DEF PassInv

\* while nothing happens,
LEMMA PassStutters ==
  ASSUME PassInv, UNCHANGED vars
  PROVE  PassInv'
  <1>1. TypeInv' /\ PlanInv'
    BY TypeStutters DEF PassInv
  <1>2. /\ UNCHANGED <<src, dst, mirror, dirty, fresh, needFull, changed, clock>> /\ run' = run /\ pool' = pool
    BY DEF vars
  <1>3. IdleInv' /\ DoneInv'
    BY <1>2 DEF PassInv, IdleInv, DoneInv, Outcome, Active, Region, ByEvents, Exists
  <1>4. WalkInv'
    BY <1>2 DEF PassInv, WalkInv, Frontier, Snapshot, Held, Region, ByEvents, Exists
  <1>5. SeenInv'
    BY <1>2 DEF PassInv, SeenInv, SeenRight, SeenAs, SeenAll, SeenUp, SeenNew, Pending, Region, ByEvents, Exists
  <1>6. TodoInv' /\ ListInv'
    BY <1>2 DEF PassInv, BusyInv, TodoInv, ListInv, Todo, Mismatch, Extras, Snapshot, Held, Region, ByEvents,
       Exists, Busy, Active
  <1>7. DirsInv' /\ AbsentInv' /\ StampInv'
    BY <1>2 DEF PassInv, BusyInv, DirsInv, AbsentInv, StampInv, Coming, Region, ByEvents, Exists, Busy, Active
  <1>8. KeptInv' /\ CopyInv'
    BY <1>2 DEF PassInv, BusyInv, KeptInv, CopyInv, Coming, Copies, Due, ByEvents, Busy, Active
  <1>9. LookInv'
    BY <1>2 DEF PassInv, LookInv, Looks
  <1>10. TrackInv'
    BY <1>2 DEF PassInv, TrackInv, Quiet, Covers, Matches, Exists, Busy, Active, Region, ByEvents
  <1>11. QED BY <1>1, <1>3, <1>4, <1>5, <1>6, <1>7, <1>8, <1>9, <1>10 DEF PassInv, BusyInv

\* after every step,
LEMMA PassStep ==
  ASSUME PassInv, Next
  PROVE  PassInv'
  <1>1. TypeInv' /\ Moves
    BY MovesTyped DEF PassInv
  <1>2. PlanInv' /\ IdleInv'
    BY <1>1, PlanStep, IdleStep DEF PassInv
  <1>3. WalkInv' /\ SeenInv'
    BY <1>1, <1>2, WalkStep, SeenStep DEF PassInv
  <1>4. BusyInv' /\ DoneInv'
    BY <1>1, <1>2, BusyStep, DoneStep DEF PassInv
  <1>5. LookInv' /\ TrackInv'
    BY <1>1, LookStep, TrackStep DEF PassInv
  <1>6. QED BY <1>1, <1>2, <1>3, <1>4, <1>5 DEF PassInv

\* and so always.
LEMMA PassAlways == Spec => []PassInv
  <1>1. Init => PassInv
    BY PassInit
  <1>2. PassInv /\ [Next]_vars => PassInv'
    BY PassStep, PassStutters
  <1>3. QED BY <1>1, <1>2, PTL DEF Spec

\* Once a destination has been reconciled, whatever differs there is announced by an
\* event of a cycle that is not yet verified: no sequence of failed passes, crashes,
\* retries and edits in the middle of a pass leaves drift that nothing points at.
THEOREM DriftTracked == Spec => []Tracked
  <1>1. PassInv => Tracked
    BY DEF PassInv, TrackInv, Tracked, Quiet, Matches, InSync
  <1>2. QED BY <1>1, PassAlways, PTL

\* A pass that reports success made every path equal that no user touched since it
\* began, whatever order its workers finished in.
THEOREM PassesCorrect == Spec => []PassCorrect
  <1>1. ASSUME PassInv PROVE PassCorrect
    <2>1. SUFFICES ASSUME run.pc = "done", run.result = "ok", NEW p \in Path \ (Excluded \cup changed),
                          ByEvents(run) => Covers(run.rel, p)
                   PROVE  /\ InSync(p)
                          /\ ByEvents(run) /\ src[p].kind = "file" => dst[p].ver = src[p].ver
                          /\ src[p].kind = "dir" /\ (\A q \in changed : Parent[q] # p) => dst[p].ver = src[p].ver
      BY DEF PassCorrect
    <2>2. run.changing = {} /\ Region(p)
      BY <1>1, <2>1 DEF PassInv, DoneInv, Region
    <2>3. /\ Matches(dst, p)
          /\ ByEvents(run) /\ src[p].kind = "file" => dst[p].ver = src[p].ver
          /\ src[p].kind = "dir" /\ (\A q \in changed : Parent[q] # p) => dst[p].ver = src[p].ver
      BY <1>1, <2>1, <2>2, Verified DEF PassInv
    <2>4. QED BY <2>3 DEF Matches, InSync
  <1>2. QED BY <1>1, PassAlways, PTL

=============================================================================
