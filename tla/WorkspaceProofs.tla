-------------------------- MODULE WorkspaceProofs --------------------------
(***************************************************************************)
(* Proofs about the trees of WorkspaceTree: every operation of a store     *)
(* keeps a tree that can be loaded, and the IndexedDB store implements     *)
(* WorkspaceContract, for any callers, changes and stored snapshots; every *)
(* call of a raw WASI run keeps what WasiTree says of its trees and        *)
(* descriptors, and the run keeps what it changed, for any trees, paths    *)
(* and descriptors.                                                        *)
(***************************************************************************)
EXTENDS WorkspaceStore, WasiTree, Integers, SequenceTheorems, WellFoundedInduction, TLAPS

-----------------------------------------------------------------------------
(* Paths *)

LEMMA SamePath ==
    ASSUME NEW a \in Paths, NEW b \in Paths, Len(a) = Len(b), \A i \in 1 .. Len(a) : a[i] = b[i]
    PROVE  a = b
BY DEF Paths

LEMMA RootPath == Root \in Paths /\ Len(Root) = 0 /\ \A p \in Paths : Len(p) \in Nat /\ (Len(p) = 0 <=> p = Root)
BY DEF Root, Paths

LEMMA PrefixPath ==
    ASSUME NEW p \in Paths, NEW n \in 0 .. Len(p)
    PROVE  /\ SubSeq(p, 1, n) \in Paths /\ Len(SubSeq(p, 1, n)) = n
           /\ \A i \in 1 .. n : SubSeq(p, 1, n)[i] = p[i]
<1>1. Len(p) \in Nat /\ n \in Nat /\ n <= Len(p) /\ p \in Seq(STRING)
  BY DEF Paths
<1>2. 1 \in Int /\ n \in Int /\ n - 1 + 1 = n /\ \A i \in 1 .. n : p[i] \in STRING
  BY <1>1
<1>3. /\ SubSeq(p, 1, n) \in Seq(STRING)
      /\ Len(SubSeq(p, 1, n)) = IF 1 <= n THEN n - 1 + 1 ELSE 0
      /\ \A i \in 1 .. n - 1 + 1 : SubSeq(p, 1, n)[i] = p[1 + i - 1]
  BY <1>1, <1>2, SubSeqProperties
<1> QED
  BY <1>1, <1>2, <1>3 DEF Paths

LEMMA ParentFacts ==
    ASSUME NEW p \in Paths, p # Root
    PROVE  /\ Len(p) \in Nat \ {0}
           /\ parentPath(p) \in Paths /\ Len(parentPath(p)) = Len(p) - 1
           /\ \A i \in 1 .. Len(p) - 1 : parentPath(p)[i] = p[i]
<1>1. Len(p) \in Nat \ {0}
  BY RootPath
<1>2. Len(p) - 1 \in 0 .. Len(p)
  BY <1>1
<1> QED
  BY <1>1, <1>2, PrefixPath DEF parentPath

LEMMA PrefixFacts ==
    ASSUME NEW a \in Paths, NEW b \in Paths
    PROVE  IsPrefix(a, b) <=> Len(a) <= Len(b) /\ \A i \in 1 .. Len(a) : a[i] = b[i]
<1>1. Len(a) \in Nat /\ Len(b) \in Nat
  BY RootPath
<1>2. SubSeq(a, 1, Len(a)) = a
  BY DEF Paths
<1>3. ASSUME Len(a) <= Len(b)
      PROVE  SubSeq(b, 1, Len(a)) = a <=> \A i \in 1 .. Len(a) : a[i] = b[i]
  <2>1. Len(a) \in 0 .. Len(b)
    BY <1>1, <1>3
  <2>2. /\ SubSeq(b, 1, Len(a)) \in Paths /\ Len(SubSeq(b, 1, Len(a))) = Len(a)
        /\ \A i \in 1 .. Len(a) : SubSeq(b, 1, Len(a))[i] = b[i]
    BY <2>1, PrefixPath
  <2> QED
    BY <2>2, SamePath
<1> QED
  BY <1>1, <1>2, <1>3 DEF IsPrefix

LEMMA WithinFacts ==
    ASSUME NEW a \in Paths, NEW b \in Paths
    PROVE  /\ Within(a, b) <=> Len(a) <= Len(b) /\ \A i \in 1 .. Len(a) : a[i] = b[i]
           /\ isChildPath(a, b) <=> Len(a) < Len(b) /\ \A i \in 1 .. Len(a) : a[i] = b[i]
<1>1. Len(a) \in Nat /\ Len(b) \in Nat
  BY RootPath
<1>2. IsPrefix(a, b) <=> Len(a) <= Len(b) /\ \A i \in 1 .. Len(a) : a[i] = b[i]
  BY PrefixFacts
<1>3. IsPrefix(a, b) /\ Len(a) = Len(b) => a = b
  BY <1>2, SamePath
<1>4. isChildPath(a, b) <=> IsPrefix(a, b) /\ a # b
  BY DEF isChildPath, IsStrictPrefix
<1>5. a = b => IsPrefix(a, b)
  BY <1>1, <1>2
<1>6. Within(a, b) <=> IsPrefix(a, b)
  BY <1>4, <1>5 DEF Within
<1> QED
  BY <1>1, <1>2, <1>3, <1>4, <1>6

\* What is below a directory has its parent there too.
LEMMA ParentWithin ==
    ASSUME NEW a \in Paths, NEW p \in Paths, p # Root
    PROVE  /\ isChildPath(a, p) <=> Within(a, parentPath(p))
           /\ Within(a, p) <=> a = p \/ Within(a, parentPath(p))
<1>1. isChildPath(a, p) <=> Within(a, parentPath(p))
  BY ParentFacts, WithinFacts, RootPath
<1> QED
  BY <1>1 DEF Within

\* A path moved with the directory it is in.
LEMMA MovedFacts ==
    ASSUME NEW p \in Paths, NEW from \in Paths, NEW to \in Paths, Within(from, p)
    PROVE  /\ replacePathPrefix(p, from, to) \in Paths
           /\ Len(replacePathPrefix(p, from, to)) = Len(to) + Len(p) - Len(from)
           /\ \A i \in 1 .. Len(to) : replacePathPrefix(p, from, to)[i] = to[i]
           /\ \A i \in Len(from) + 1 .. Len(p) :
                 replacePathPrefix(p, from, to)[Len(to) + i - Len(from)] = p[i]
           /\ Within(to, replacePathPrefix(p, from, to))
<1> DEFINE rest == SubSeq(p, Len(from) + 1, Len(p))
           q    == replacePathPrefix(p, from, to)
<1>1. Len(p) \in Nat /\ Len(from) \in Nat /\ Len(to) \in Nat /\ Len(from) <= Len(p)
  BY RootPath, WithinFacts
<1>2. /\ rest \in Paths /\ Len(rest) = Len(p) - Len(from)
      /\ \A j \in 1 .. Len(p) - Len(from) : rest[j] = p[Len(from) + j]
  BY <1>1 DEF Paths
<1>3. q = to \o rest
  BY DEF replacePathPrefix
<1> HIDE DEF rest, q
<1>4. /\ q \in Paths /\ Len(q) = Len(to) + Len(rest)
      /\ \A i \in 1 .. Len(to) : q[i] = to[i]
      /\ \A j \in 1 .. Len(rest) : q[Len(to) + j] = rest[j]
  <2>1. /\ q \in Seq(STRING) /\ Len(q) = Len(to) + Len(rest)
        /\ \A i \in 1 .. Len(to) + Len(rest) :
              q[i] = IF i <= Len(to) THEN to[i] ELSE rest[i - Len(to)]
    BY <1>2, <1>3, ConcatProperties DEF Paths
  <2>2. Len(rest) \in Nat
    BY <1>2, RootPath
  <2>3. \A i \in 1 .. Len(to) : q[i] = to[i]
    BY <1>1, <2>1, <2>2
  <2>4. ASSUME NEW j \in 1 .. Len(rest) PROVE q[Len(to) + j] = rest[j]
    <3>1. Len(to) + j \in 1 .. Len(to) + Len(rest) /\ ~(Len(to) + j <= Len(to)) /\ Len(to) + j - Len(to) = j
      BY <1>1, <2>2
    <3> QED
      BY <3>1, <2>1
  <2> QED
    BY <2>1, <2>3, <2>4 DEF Paths
<1>5. ASSUME NEW i \in Len(from) + 1 .. Len(p)
      PROVE  q[Len(to) + i - Len(from)] = p[i]
  <2>1. i - Len(from) \in 1 .. Len(rest) /\ Len(from) + (i - Len(from)) = i
        /\ Len(to) + (i - Len(from)) = Len(to) + i - Len(from)
    BY <1>1, <1>2
  <2> QED
    BY <2>1, <1>1, <1>2, <1>4
<1>6. Within(to, q)
  BY <1>1, <1>2, <1>4, WithinFacts
<1> QED
  BY <1>1, <1>2, <1>4, <1>5, <1>6 DEF q

LEMMA MovedInjective ==
    ASSUME NEW p \in Paths, NEW r \in Paths, NEW from \in Paths, NEW to \in Paths,
           Within(from, p), Within(from, r),
           replacePathPrefix(p, from, to) = replacePathPrefix(r, from, to)
    PROVE  p = r
<1>1. /\ Len(p) \in Nat /\ Len(r) \in Nat /\ Len(from) \in Nat /\ Len(to) \in Nat
      /\ Len(from) <= Len(p) /\ Len(from) <= Len(r)
      /\ \A i \in 1 .. Len(from) : p[i] = from[i] /\ r[i] = from[i]
  BY RootPath, WithinFacts
<1>7. PICK q : q = replacePathPrefix(p, from, to)
  OBVIOUS
<1>9. /\ Len(replacePathPrefix(p, from, to)) = Len(to) + Len(p) - Len(from)
      /\ \A i \in Len(from) + 1 .. Len(p) :
            replacePathPrefix(p, from, to)[Len(to) + i - Len(from)] = p[i]
  BY MovedFacts
<1>5. /\ Len(q) = Len(to) + Len(p) - Len(from)
      /\ \A i \in Len(from) + 1 .. Len(p) : q[Len(to) + i - Len(from)] = p[i]
  BY <1>7, <1>9
<1>8. /\ Len(replacePathPrefix(r, from, to)) = Len(to) + Len(r) - Len(from)
      /\ \A i \in Len(from) + 1 .. Len(r) :
            replacePathPrefix(r, from, to)[Len(to) + i - Len(from)] = r[i]
  BY MovedFacts
<1>6. /\ Len(q) = Len(to) + Len(r) - Len(from)
      /\ \A i \in Len(from) + 1 .. Len(r) : q[Len(to) + i - Len(from)] = r[i]
  BY <1>7, <1>8
<1>2. Len(p) = Len(r)
  BY <1>1, <1>5, <1>6
<1>3. \A i \in Len(from) + 1 .. Len(p) : p[i] = r[i]
  BY <1>2, <1>5, <1>6
<1>4. \A i \in 1 .. Len(p) : p[i] = r[i]
  BY <1>1, <1>3
<1> QED
  BY <1>2, <1>4, SamePath

LEMMA MovedParent ==
    ASSUME NEW p \in Paths, NEW from \in Paths, NEW to \in Paths, isChildPath(from, p)
    PROVE  /\ p # Root /\ Within(from, parentPath(p))
           /\ replacePathPrefix(p, from, to) # Root
           /\ parentPath(replacePathPrefix(p, from, to)) = replacePathPrefix(parentPath(p), from, to)
<1> DEFINE q == replacePathPrefix(p, from, to)
           u == parentPath(p)
           v == replacePathPrefix(u, from, to)
<1>1. Len(p) \in Nat /\ Len(from) \in Nat /\ Len(to) \in Nat /\ Len(from) < Len(p)
  BY RootPath, WithinFacts
<1>2. p # Root /\ u \in Paths /\ Len(u) = Len(p) - 1 /\ \A i \in 1 .. Len(p) - 1 : u[i] = p[i]
  BY <1>1, RootPath, ParentFacts
<1>3. Within(from, u) /\ Within(from, p)
  BY <1>2, ParentWithin DEF Within
<1>4. /\ q \in Paths /\ Len(q) = Len(to) + Len(p) - Len(from)
      /\ \A i \in 1 .. Len(to) : q[i] = to[i]
      /\ \A i \in Len(from) + 1 .. Len(p) : q[Len(to) + i - Len(from)] = p[i]
  BY <1>3, MovedFacts
<1> HIDE DEF q, u
<1>10. u \in Paths /\ Within(from, u)
  BY <1>2, <1>3
<1>5. /\ v \in Paths /\ Len(v) = Len(to) + Len(u) - Len(from)
      /\ \A i \in 1 .. Len(to) : v[i] = to[i]
      /\ \A i \in Len(from) + 1 .. Len(u) : v[Len(to) + i - Len(from)] = u[i]
  <2>1. ASSUME NEW z \in Paths, Within(from, z), NEW x, x = replacePathPrefix(z, from, to)
        PROVE  /\ x \in Paths /\ Len(x) = Len(to) + Len(z) - Len(from)
               /\ \A i \in 1 .. Len(to) : x[i] = to[i]
               /\ \A i \in Len(from) + 1 .. Len(z) : x[Len(to) + i - Len(from)] = z[i]
    <3>1. /\ replacePathPrefix(z, from, to) \in Paths
          /\ Len(replacePathPrefix(z, from, to)) = Len(to) + Len(z) - Len(from)
      BY <2>1, MovedFacts
    <3>2. \A i \in 1 .. Len(to) : replacePathPrefix(z, from, to)[i] = to[i]
      BY <2>1, MovedFacts
    <3>3. \A i \in Len(from) + 1 .. Len(z) :
             replacePathPrefix(z, from, to)[Len(to) + i - Len(from)] = z[i]
      BY <2>1, MovedFacts
    <3> QED
      BY <2>1, <3>1, <3>2, <3>3
  <2>2. v = replacePathPrefix(u, from, to)
    OBVIOUS
  <2> HIDE DEF v
  <2> QED
    BY <1>10, <2>1, <2>2
<1> HIDE DEF q, u, v
<1>6. q # Root /\ Len(q) # 0
  BY <1>1, <1>4, RootPath
<1>7. parentPath(q) \in Paths /\ Len(parentPath(q)) = Len(q) - 1
      /\ \A i \in 1 .. Len(q) - 1 : parentPath(q)[i] = q[i]
  BY <1>4, <1>6, ParentFacts
<1>8. ASSUME NEW i \in 1 .. Len(v) PROVE q[i] = v[i]
  <2>1. CASE i <= Len(to)
    BY <2>1, <1>1, <1>4, <1>5
  <2>2. CASE i > Len(to)
    <3> DEFINE k == i - Len(to) + Len(from)
    <3>1. k \in Len(from) + 1 .. Len(u) /\ Len(to) + k - Len(from) = i /\ k \in 1 .. Len(p) - 1
          /\ k \in Len(from) + 1 .. Len(p)
      BY <2>2, <1>1, <1>2, <1>5
    <3> HIDE DEF k
    <3> QED
      BY <3>1, <1>2, <1>4, <1>5
  <2> QED
    BY <2>1, <2>2, <1>1, <1>2, <1>5
<1>9. parentPath(q) = v
  <2>1. Len(parentPath(q)) = Len(v)
    BY <1>1, <1>2, <1>4, <1>5, <1>7
  <2>2. \A i \in 1 .. Len(parentPath(q)) : parentPath(q)[i] = v[i]
    BY <2>1, <1>7, <1>8
  <2> QED
    BY <2>1, <2>2, <1>5, <1>7, SamePath
<1> QED
  BY <1>2, <1>3, <1>6, <1>9 DEF q, u, v

-----------------------------------------------------------------------------
(* Trees *)

GoodTree(t) == IsTree(t) /\ WellFormed(t)

LEMMA TreeNodes ==
    ASSUME NEW t, GoodTree(t)
    PROVE  /\ t.dirs \subseteq Paths /\ Files(t) \subseteq Paths /\ Nodes(t) \subseteq Paths
           /\ Root \in t.dirs /\ Files(t) \cap t.dirs = {}
           /\ \A p \in Nodes(t) : p # Root => parentPath(p) \in t.dirs
BY DEF GoodTree, IsTree, WellFormed, Nodes, Files

LEMMA MakeTree ==
    ASSUME NEW D, NEW F, D \subseteq Paths, DOMAIN F \subseteq Paths,
           Root \in D, DOMAIN F \cap D = {},
           \A p \in D \cup DOMAIN F : p # Root => parentPath(p) \in D
    PROVE  GoodTree([dirs |-> D, files |-> F])
BY DEF GoodTree, IsTree, WellFormed, Nodes, Files

LEMMA EmptyTreeGood == GoodTree(EmptyTree)
<1>1. GoodTree([dirs |-> {Root}, files |-> <<>>])
  BY RootPath, MakeTree
<1> QED
  BY <1>1 DEF EmptyTree

\* Without a directory there is nothing below its path: the shortest entry there
\* would have its parent there too.
LEMMA NothingBelow ==
    ASSUME NEW t, GoodTree(t), NEW a \in Paths, a \notin t.dirs
    PROVE  \A p \in Nodes(t) : ~isChildPath(a, p)
<1> SUFFICES ASSUME NEW q \in Nodes(t), isChildPath(a, q) PROVE FALSE
  OBVIOUS
<1> DEFINE Below == {p \in Nodes(t) : isChildPath(a, p)}
           Lens  == {Len(p) : p \in Below}
<1>1. Lens \subseteq Nat /\ Lens # {}
  BY TreeNodes, RootPath
<1>2. PICK m \in Lens : \A k \in Lens : ~(<<k, m>> \in OpToRel(<, Nat))
  BY <1>1, NatLessThanWellFounded, WFMin
<1>3. PICK p \in Below : Len(p) = m
  BY <1>2
<1>4. p \in Paths /\ a # p /\ p # Root /\ Len(p) \in Nat \ {0}
  <2>1. p \in Paths /\ a # p
    BY TreeNodes DEF isChildPath, IsStrictPrefix
  <2>2. Len(a) \in Nat /\ Len(p) \in Nat /\ Len(a) < Len(p)
    BY <2>1, RootPath, WithinFacts
  <2> QED
    BY <2>1, <2>2, RootPath
<1>5. parentPath(p) \in t.dirs /\ parentPath(p) \in Paths /\ Len(parentPath(p)) = Len(p) - 1
  BY <1>4, TreeNodes, ParentFacts
<1>6. isChildPath(a, parentPath(p))
  BY <1>3, <1>4, <1>5, ParentWithin DEF Within
<1>7. Len(p) - 1 \in Lens
  BY <1>5, <1>6 DEF Nodes
<1>8. <<Len(p) - 1, m>> \in OpToRel(<, Nat)
  BY <1>3, <1>4 DEF OpToRel
<1> QED
  BY <1>2, <1>7, <1>8

\* A result is the tree made by the change, or the tree as it was.
Keeps(t, r) == /\ GoodTree(r.tree) /\ r.ok \in BOOLEAN
               /\ ~r.ok => r.tree = t

LEMMA ThrownKeeps == ASSUME NEW t, GoodTree(t) PROVE Keeps(t, Thrown(t)) /\ Keeps(t, Done(t))
BY DEF Keeps, Thrown, Done

LEMMA DoneKeeps == ASSUME NEW t, NEW u, GoodTree(u) PROVE Keeps(t, Done(u))
BY DEF Keeps, Done

LEMMA RecordUpdate ==
    ASSUME NEW t, GoodTree(t), NEW X
    PROVE  /\ [t EXCEPT !.files = X] = [dirs |-> t.dirs, files |-> X]
           /\ [t EXCEPT !.dirs = X] = [dirs |-> X, files |-> t.files]
BY DEF GoodTree, IsTree

LEMMA WriteKeeps ==
    ASSUME NEW t, GoodTree(t), NEW path \in Paths, NEW content
    PROVE  Keeps(t, writeFile(t, path, content))
<1>1. CASE path = Root \/ path \in t.dirs \/ parentPath(path) \notin t.dirs
  BY <1>1, ThrownKeeps DEF writeFile
<1>2. CASE ~(path = Root \/ path \in t.dirs \/ parentPath(path) \notin t.dirs)
  <2> DEFINE F == [p \in Files(t) \cup {path} |-> IF p = path THEN content ELSE t.files[p]]
  <2>1. GoodTree([dirs |-> t.dirs, files |-> F])
    <3> HIDE DEF F
    <3>1. DOMAIN F = Files(t) \cup {path}
      BY DEF F
    <3> QED
      BY <1>2, <3>1, TreeNodes, MakeTree DEF Nodes
  <2>2. writeFile(t, path, content) = Done([dirs |-> t.dirs, files |-> F])
    BY <1>2, RecordUpdate DEF writeFile
  <2> QED
    BY <2>1, <2>2, DoneKeeps
<1> QED
  BY <1>1, <1>2

LEMMA DeleteFileKeeps ==
    ASSUME NEW t, GoodTree(t), NEW path \in Paths
    PROVE  Keeps(t, deleteFile(t, path))
<1>1. CASE path \notin Files(t)
  BY <1>1, ThrownKeeps DEF deleteFile
<1>2. CASE path \in Files(t)
  <2> DEFINE F == Restrict(t.files, Files(t) \ {path})
  <2>1. GoodTree([dirs |-> t.dirs, files |-> F])
    <3>1. DOMAIN F = Files(t) \ {path}
      BY DEF Restrict
    <3> HIDE DEF F
    <3> QED
      BY <3>1, TreeNodes, MakeTree DEF Nodes
  <2>2. deleteFile(t, path) = Done([dirs |-> t.dirs, files |-> F])
    BY <1>2, RecordUpdate DEF deleteFile
  <2> QED
    BY <2>1, <2>2, DoneKeeps
<1> QED
  BY <1>1, <1>2

LEMMA LoadKeeps ==
    ASSUME NEW t, GoodTree(t), NEW snapshot, IsTree(snapshot)
    PROVE  Keeps(t, loadSnapshot(t, snapshot))
BY ThrownKeeps, DoneKeeps DEF loadSnapshot, GoodTree

LEMMA CreateKeeps ==
    ASSUME NEW t, GoodTree(t), NEW path \in Paths, NEW recursive
    PROVE  Keeps(t, createDirectory(t, path, recursive))
<1> DEFINE way == {SubSeq(path, 1, n) : n \in 1 .. Len(path)}
<1>1. CASE path = Root \/ path \in Files(t)
  BY <1>1, ThrownKeeps DEF createDirectory
<1>2. CASE /\ path # Root /\ path \notin Files(t) /\ recursive
           /\ way \cap Files(t) = {}
  <2> DEFINE D == t.dirs \cup way
  <2>1. Len(path) \in Nat
    BY RootPath
  <2>2. ASSUME NEW n \in 1 .. Len(path)
        PROVE  /\ SubSeq(path, 1, n) \in Paths
               /\ parentPath(SubSeq(path, 1, n)) \in D
    <3> DEFINE p == SubSeq(path, 1, n)
               u == SubSeq(path, 1, n - 1)
    <3>1. n \in 0 .. Len(path) /\ n - 1 \in 0 .. Len(path) /\ n # 0
      BY <2>1
    <3>2. p \in Paths /\ Len(p) = n /\ \A i \in 1 .. n : p[i] = path[i]
      BY <3>1, PrefixPath
    <3>3. u \in Paths /\ Len(u) = n - 1 /\ \A i \in 1 .. n - 1 : u[i] = path[i]
      BY <3>1, PrefixPath
    <3>4. u \in D
      <4>1. CASE n = 1
        <5>1. Len(u) = 0
          BY <4>1, <3>3
        <5>2. u = Root
          BY <5>1, <3>3, RootPath
        <5> QED
          BY <5>2, TreeNodes
      <4>2. CASE n # 1
        BY <4>2, <2>1
      <4> QED
        BY <4>1, <4>2
    <3> HIDE DEF p, u, D
    <3>5. p # Root
      BY <3>1, <3>2, RootPath
    <3>6. parentPath(p) \in Paths /\ Len(parentPath(p)) = n - 1 /\ \A i \in 1 .. n - 1 : parentPath(p)[i] = p[i]
      BY <3>2, <3>5, ParentFacts
    <3>7. \A i \in 1 .. n - 1 : p[i] = path[i]
      BY <3>1, <3>2
    <3>8. parentPath(p) = u
      BY <3>3, <3>6, <3>7, SamePath
    <3> QED
      BY <3>2, <3>4, <3>8 DEF p
  <2>3. GoodTree([dirs |-> D, files |-> t.files])
    <3>1. D \subseteq Paths /\ Root \in D /\ Files(t) \cap D = {} /\ Files(t) \subseteq Paths
      BY <1>2, <2>2, TreeNodes
    <3>2. \A p \in D \cup Files(t) : p # Root => parentPath(p) \in D
      BY <2>2, TreeNodes DEF Nodes
    <3> QED
      BY <3>1, <3>2, MakeTree DEF Files
  <2>4. createDirectory(t, path, recursive) = Done([dirs |-> D, files |-> t.files])
    BY <1>2, RecordUpdate DEF createDirectory
  <2> QED
    BY <2>3, <2>4, DoneKeeps
<1>3. CASE path # Root /\ path \notin Files(t) /\ recursive /\ way \cap Files(t) # {}
  BY <1>3, ThrownKeeps DEF createDirectory
<1>4. CASE /\ path # Root /\ path \notin Files(t) /\ ~recursive
           /\ parentPath(path) \notin t.dirs \/ path \in t.dirs
  BY <1>4, ThrownKeeps DEF createDirectory
<1>5. CASE /\ path # Root /\ path \notin Files(t) /\ ~recursive
           /\ ~(parentPath(path) \notin t.dirs \/ path \in t.dirs)
  <2>1. GoodTree([dirs |-> t.dirs \cup {path}, files |-> t.files])
    BY <1>5, TreeNodes, MakeTree DEF Nodes, Files
  <2>2. createDirectory(t, path, recursive) = Done([dirs |-> t.dirs \cup {path}, files |-> t.files])
    BY <1>5, RecordUpdate DEF createDirectory
  <2> QED
    BY <2>1, <2>2, DoneKeeps
<1> QED
  BY <1>1, <1>2, <1>3, <1>4, <1>5

LEMMA DeleteDirectoryKeeps ==
    ASSUME NEW t, GoodTree(t), NEW path \in Paths, NEW recursive
    PROVE  Keeps(t, deleteDirectory(t, path, recursive))
<1>1. CASE path = Root \/ path \notin t.dirs \/ (~recursive /\ hasChildren(t, path))
  BY <1>1, ThrownKeeps DEF deleteDirectory
<1>2. CASE ~(path = Root \/ path \notin t.dirs \/ (~recursive /\ hasChildren(t, path)))
  <2> DEFINE D == {d \in t.dirs : ~Within(path, d)}
             F == Restrict(t.files, {f \in Files(t) : ~Within(path, f)})
  <2>1. GoodTree([dirs |-> D, files |-> F])
    <3>1. DOMAIN F = {f \in Files(t) : ~Within(path, f)}
      BY DEF Restrict
    <3> HIDE DEF F
    <3>2. Root \in D
      BY <1>2, TreeNodes, RootPath, WithinFacts
    <3>3. ASSUME NEW p \in D \cup DOMAIN F, p # Root PROVE parentPath(p) \in D
      <4>1. p \in Nodes(t) /\ p \in Paths /\ ~Within(path, p)
        BY <3>1, TreeNodes DEF Nodes
      <4>2. ~Within(path, parentPath(p))
        BY <4>1, <3>3, ParentWithin
      <4> QED
        BY <4>1, <4>2, <3>3, TreeNodes
    <3>4. D \subseteq Paths /\ DOMAIN F \subseteq Paths /\ DOMAIN F \cap D = {}
      BY <3>1, TreeNodes
    <3> HIDE DEF D
    <3> QED
      BY <3>2, <3>3, <3>4, MakeTree
  <2>2. deleteDirectory(t, path, recursive) = Done([dirs |-> D, files |-> F])
    BY <1>2 DEF deleteDirectory
  <2> QED
    BY <2>1, <2>2, DoneKeeps
<1> QED
  BY <1>1, <1>2

LEMMA RenameDirectoryKeeps ==
    ASSUME NEW t, GoodTree(t), NEW from \in t.dirs, NEW to \in Paths,
           from # Root, to # Root, to \notin Nodes(t), parentPath(to) \in t.dirs,
           ~isChildPath(from, to)
    PROVE  Keeps(t, renameDirectory(t, from, to))
<1> DEFINE Moved(p) == IF Within(from, p) THEN replacePathPrefix(p, from, to) ELSE p
           D == {Moved(d) : d \in t.dirs}
           F == [p \in {Moved(f) : f \in Files(t)} |->
                    t.files[CHOOSE f \in Files(t) : Moved(f) = p]]
<1>1. from \in Paths /\ \A p \in Nodes(t) : p \in Paths
  BY TreeNodes
<1>2. \A p \in Nodes(t) : ~Within(to, p)
  BY NothingBelow DEF Within, Nodes
<1>3. ASSUME NEW p \in Nodes(t) PROVE Moved(p) \in Paths
  BY <1>1, MovedFacts
<1>4. ASSUME NEW p \in Nodes(t), NEW r \in Nodes(t), Moved(p) = Moved(r) PROVE p = r
  <2>1. CASE Within(from, p) /\ Within(from, r)
    BY <2>1, <1>1, <1>4, MovedInjective
  <2>2. CASE Within(from, p) /\ ~Within(from, r)
    BY <2>2, <1>1, <1>2, <1>4, MovedFacts
  <2>3. CASE ~Within(from, p) /\ Within(from, r)
    BY <2>3, <1>1, <1>2, <1>4, MovedFacts
  <2>4. CASE ~Within(from, p) /\ ~Within(from, r)
    BY <2>4, <1>4
  <2> QED
    BY <2>1, <2>2, <2>3, <2>4
<1>5. ~Within(from, Root)
  BY <1>1, RootPath, WithinFacts
<1>6. ~Within(from, parentPath(to))
  BY <1>1, ParentWithin
<1>7. ASSUME NEW p \in Nodes(t), Moved(p) # Root PROVE parentPath(Moved(p)) \in D
  <2>1. CASE p = from
    <3>1. Moved(p) = to
      <4>1. Within(from, from) /\ Len(to) + Len(from) - Len(from) = Len(to)
            /\ Len(to) \in Nat /\ Len(from) \in Nat
        BY <1>1, RootPath DEF Within
      <4> DEFINE q == replacePathPrefix(from, from, to)
      <4>2. q \in Paths /\ Len(q) = Len(to) + Len(from) - Len(from)
            /\ \A i \in 1 .. Len(to) : q[i] = to[i]
        BY <1>1, <4>1, MovedFacts
      <4> HIDE DEF q
      <4>3. q = to
        BY <4>1, <4>2, SamePath
      <4> QED
        BY <2>1, <4>1, <4>3 DEF q
    <3>2. Moved(parentPath(to)) = parentPath(to)
      BY <1>6
    <3> QED
      BY <3>1, <3>2
  <2>2. CASE isChildPath(from, p)
    <3>1. /\ p # Root /\ Within(from, p) /\ Within(from, parentPath(p))
          /\ parentPath(replacePathPrefix(p, from, to)) = replacePathPrefix(parentPath(p), from, to)
      BY <2>2, <1>1, MovedParent DEF Within
    <3>2. parentPath(Moved(p)) = Moved(parentPath(p))
      BY <3>1
    <3>3. parentPath(p) \in t.dirs
      BY <3>1, TreeNodes
    <3> QED
      BY <3>2, <3>3
  <2>3. CASE ~Within(from, p)
    <3>1. Moved(p) = p /\ p # Root
      BY <2>3, <1>7
    <3>2. parentPath(p) \in t.dirs /\ ~Within(from, parentPath(p))
      BY <3>1, <2>3, <1>1, TreeNodes, ParentWithin
    <3>3. Moved(parentPath(p)) = parentPath(p)
      BY <3>2
    <3> QED
      BY <3>1, <3>2, <3>3
  <2> QED
    BY <2>1, <2>2, <2>3 DEF Within
<1>8. Moved(Root) = Root
  BY <1>5
<1> HIDE DEF Moved
<1>9. GoodTree([dirs |-> D, files |-> F])
  <2>1. DOMAIN F = {Moved(f) : f \in Files(t)}
    OBVIOUS
  <2> HIDE DEF F
  <2>2. D \subseteq Paths /\ DOMAIN F \subseteq Paths
    BY <2>1, <1>3 DEF Nodes
  <2>3. Root \in D
    BY <1>8, TreeNodes
  <2>4. DOMAIN F \cap D = {}
    BY <2>1, <1>4, TreeNodes DEF Nodes
  <2>5. \A p \in D \cup DOMAIN F : p # Root => parentPath(p) \in D
    BY <2>1, <1>7 DEF Nodes
  <2> HIDE DEF D
  <2> QED
    BY <2>2, <2>3, <2>4, <2>5, MakeTree
<1>10. renameDirectory(t, from, to) = Done([dirs |-> D, files |-> F])
  BY DEF renameDirectory, Moved
<1> QED
  BY <1>9, <1>10, DoneKeeps

LEMMA RenameKeeps ==
    ASSUME NEW t, GoodTree(t), NEW from \in Paths, NEW to \in Paths
    PROVE  Keeps(t, rename(t, from, to))
<1> DEFINE Refused == from = Root \/ to = Root \/ parentPath(to) \notin t.dirs \/ to \in Nodes(t)
<1>1. CASE Refused
  BY <1>1, ThrownKeeps DEF rename
<1>2. CASE ~Refused /\ from \in Files(t)
  <2> DEFINE F == [p \in (Files(t) \ {from}) \cup {to} |-> t.files[IF p = to THEN from ELSE p]]
  <2>1. GoodTree([dirs |-> t.dirs, files |-> F])
    <3>1. DOMAIN F = (Files(t) \ {from}) \cup {to}
      OBVIOUS
    <3> HIDE DEF F
    <3> QED
      BY <1>2, <3>1, TreeNodes, MakeTree DEF Nodes
  <2>2. rename(t, from, to) = Done([dirs |-> t.dirs, files |-> F])
    BY <1>2, RecordUpdate DEF rename
  <2> QED
    BY <2>1, <2>2, DoneKeeps
<1>3. CASE ~Refused /\ from \notin Files(t) /\ from \in t.dirs /\ ~isChildPath(from, to)
  <2>1. rename(t, from, to) = renameDirectory(t, from, to)
    BY <1>3 DEF rename
  <2> QED
    BY <1>3, <2>1, RenameDirectoryKeeps
<1>4. CASE ~Refused /\ from \notin Files(t) /\ ~(from \in t.dirs /\ ~isChildPath(from, to))
  BY <1>4, ThrownKeeps DEF rename
<1> QED
  BY <1>1, <1>2, <1>3, <1>4

\* Every operation of a store leaves a tree that can be loaded, and one that throws
\* leaves the tree it found.
THEOREM ApplyKeeps ==
    ASSUME NEW t, GoodTree(t), NEW op, IsChange(op)
    PROVE  Keeps(t, Apply(t, op))
<1>1. CASE op.kind = "writeFile"
  BY <1>1, WriteKeeps DEF Apply, IsChange
<1>2. CASE op.kind = "deleteFile"
  BY <1>2, DeleteFileKeeps DEF Apply, IsChange
<1>3. CASE op.kind = "createDirectory"
  BY <1>3, CreateKeeps DEF Apply, IsChange
<1>4. CASE op.kind = "deleteDirectory"
  BY <1>4, DeleteDirectoryKeeps DEF Apply, IsChange
<1>5. CASE op.kind = "rename"
  BY <1>5, RenameKeeps DEF Apply, IsChange
<1>6. CASE op.kind = "importSnapshot"
  BY <1>6, LoadKeeps DEF Apply, IsChange
<1> QED
  BY <1>1, <1>2, <1>3, <1>4, <1>5, <1>6 DEF IsChange

-----------------------------------------------------------------------------
(* Sequences of anything *)

HasSeq(s) == \E S : s \in Seq(S)

LEMMA EmptyHasSeq == HasSeq(<<>>) /\ Len(<<>>) = 0
<1>1. <<>> \in Seq({})
  OBVIOUS
<1> QED
  BY <1>1 DEF HasSeq

LEMMA SeqFacts ==
    ASSUME NEW s, HasSeq(s)
    PROVE  Len(s) \in Nat /\ DOMAIN s = 1 .. Len(s) /\ (s = <<>> <=> Len(s) = 0)
<1>1. PICK S : s \in Seq(S)
  BY DEF HasSeq
<1> QED
  BY <1>1

LEMMA AppendFacts ==
    ASSUME NEW s, HasSeq(s), NEW x
    PROVE  /\ HasSeq(Append(s, x)) /\ Len(Append(s, x)) = Len(s) + 1
           /\ \A i \in 1 .. Len(s) : Append(s, x)[i] = s[i]
           /\ Append(s, x)[Len(s) + 1] = x
<1>1. PICK S : s \in Seq(S)
  BY DEF HasSeq
<1> DEFINE U == S \cup {x}
<1>2. s \in Seq(U)
  BY <1>1
<1>3. x \in U
  OBVIOUS
<1> HIDE DEF U
<1>4. /\ Append(s, x) \in Seq(U) /\ Len(Append(s, x)) = Len(s) + 1
      /\ \A i \in 1 .. Len(s) : Append(s, x)[i] = s[i]
      /\ Append(s, x)[Len(s) + 1] = x
  BY <1>2, <1>3
<1> QED
  BY <1>4 DEF HasSeq

LEMMA FunctionHasSeq ==
    ASSUME NEW m \in Nat, NEW f, f = [i \in 1 .. m |-> f[i]]
    PROVE  HasSeq(f) /\ Len(f) = m
<1> DEFINE S == {f[i] : i \in 1 .. m}
<1>1. f \in [1 .. m -> S]
  OBVIOUS
<1> HIDE DEF S
<1>2. f \in Seq(S) /\ Len(f) = m
  BY <1>1
<1> QED
  BY <1>2 DEF HasSeq

\* What is left of a sequence without its first n elements.
LEMMA RestFacts ==
    ASSUME NEW s, HasSeq(s), NEW n \in 0 .. Len(s)
    PROVE  /\ HasSeq(SubSeq(s, n + 1, Len(s))) /\ Len(SubSeq(s, n + 1, Len(s))) = Len(s) - n
           /\ \A i \in 1 .. Len(s) - n : SubSeq(s, n + 1, Len(s))[i] = s[n + i]
<1>1. PICK S : s \in Seq(S)
  BY DEF HasSeq
<1>2. Len(s) \in Nat /\ n \in Nat /\ n <= Len(s)
  BY <1>1
<1>3. n + 1 \in Int /\ Len(s) \in Int /\ \A i \in n + 1 .. Len(s) : s[i] \in S
  BY <1>1, <1>2
<1> DEFINE r == SubSeq(s, n + 1, Len(s))
<1>4. /\ r \in Seq(S)
      /\ Len(r) = IF n + 1 <= Len(s) THEN Len(s) - (n + 1) + 1 ELSE 0
      /\ \A i \in 1 .. Len(s) - (n + 1) + 1 : r[i] = s[n + 1 + i - 1]
  BY <1>3, SubSeqProperties
<1> HIDE DEF r
<1>5. Len(r) = Len(s) - n
  BY <1>2, <1>4
<1>6. ASSUME NEW i \in 1 .. Len(s) - n PROVE r[i] = s[n + i]
  <2>1. n + 1 + i - 1 = n + i /\ i \in 1 .. Len(s) - (n + 1) + 1
    BY <1>2
  <2> QED
    BY <1>4, <2>1
<1>7. HasSeq(r)
  BY <1>4 DEF HasSeq
<1> QED
  BY <1>5, <1>6, <1>7 DEF r

LEMMA TailFacts ==
    ASSUME NEW s, HasSeq(s), s # <<>>
    PROVE  /\ Len(s) \in Nat \ {0} /\ Head(s) = s[1]
           /\ HasSeq(Tail(s)) /\ Len(Tail(s)) = Len(s) - 1
           /\ \A i \in 1 .. Len(s) - 1 : Tail(s)[i] = s[i + 1]
<1>1. PICK S : s \in Seq(S)
  BY DEF HasSeq
<1>2. /\ Len(s) \in Nat \ {0} /\ Head(s) = s[1]
      /\ Tail(s) \in Seq(S) /\ Len(Tail(s)) = Len(s) - 1
      /\ \A i \in 1 .. Len(s) - 1 : Tail(s)[i] = s[i + 1]
  BY <1>1
<1> QED
  BY <1>2 DEF HasSeq

-----------------------------------------------------------------------------
(* The invariant of the store *)

Opening  == {"opening", "reading"}
InMemory == {"ready", "changed", "persisting", "persisted"}
Places   == {"idle"} \cup Finished \cup Opening \cup InMemory

\* The tree all calls so far have made.
Current == IF unsaved = <<>> THEN Durable ELSE unsaved[Len(unsaved)].tree

TypeInv ==
    /\ pc \in [Callers -> Places]
    /\ loaded \in BOOLEAN
    /\ HasSeq(txns) /\ HasSeq(unsaved)
    /\ GoodTree(memory) /\ (db = NoSnapshot \/ GoodTree(db))
    /\ \A n \in 1 .. Len(unsaved) : unsaved[n].call \in Callers /\ GoodTree(unsaved[n].tree)

\* Until the record is loaded there is one call at most, and nothing in memory.
LoadInv ==
    /\ loaded => /\ \A c \in Callers : pc[c] \notin Opening
                 /\ memory = Current
    /\ ~loaded => /\ \A c \in Callers : pc[c] \notin InMemory
                  /\ \A c, d \in Callers : pc[c] \in Opening /\ pc[d] \in Opening => c = d
                  /\ unsaved = <<>> /\ memory = EmptyTree

\* A transaction t, with the calls at p, the changes u unsaved and the tree d durable:
\* whose it is, and what part of the unsaved changes it will save.
TxnInv(t, p, u, d) ==
    /\ t = [call |-> t.call, kind |-> t.kind, tree |-> t.tree, covers |-> t.covers]
    /\ t.call \in Callers
    /\ t.covers \in 0 .. Len(u)
    /\ \/ t.kind = "read" /\ p[t.call] = "reading"
       \/ /\ t.kind = "write" /\ p[t.call] = "persisting"
          /\ t.tree = IF t.covers = 0 THEN d ELSE u[t.covers].tree
          /\ \A n \in 1 .. Len(u) : u[n].call = t.call => n <= t.covers

\* Transactions are in the order of what they cover, one for a call.
QueueInv ==
    /\ \A i \in 1 .. Len(txns) : TxnInv(txns[i], pc, unsaved, Durable)
    /\ \A i, j \in 1 .. Len(txns) :
          i < j => txns[i].call # txns[j].call /\ txns[i].covers <= txns[j].covers

\* What a call has persisted is not unsaved.
SavedInv ==
    \A c \in Callers : pc[c] = "persisted" =>
        \A n \in 1 .. Len(unsaved) : unsaved[n].call # c

IInv == TypeInv /\ LoadInv /\ QueueInv /\ SavedInv

LEMMA DurableGood ==
    ASSUME TypeInv PROVE GoodTree(Durable)
BY EmptyTreeGood DEF TypeInv, Durable

LEMMA NoSnapshotBad == ~GoodTree(NoSnapshot)
BY DEF GoodTree, WellFormed, NoSnapshot

LEMMA InitInv == WorkspaceInit => IInv
<1> SUFFICES ASSUME WorkspaceInit PROVE IInv
  OBVIOUS
<1>1. TypeInv
  <2>1. pc \in [Callers -> Places] /\ loaded \in BOOLEAN
    BY DEF WorkspaceInit, Places
  <2>2. HasSeq(txns) /\ HasSeq(unsaved) /\ Len(unsaved) = 0
    BY EmptyHasSeq DEF WorkspaceInit
  <2>3. GoodTree(memory) /\ (db = NoSnapshot \/ GoodTree(db))
    BY StoredAssumption, EmptyTreeGood DEF WorkspaceInit, GoodTree
  <2> QED
    BY <2>1, <2>2, <2>3 DEF TypeInv
<1>2. LoadInv
  BY DEF WorkspaceInit, LoadInv, InMemory, Opening
<1>3. QueueInv /\ SavedInv
  BY EmptyHasSeq DEF WorkspaceInit, QueueInv, SavedInv
<1> QED
  BY <1>1, <1>2, <1>3 DEF IInv

\* A step that only moves one call, and not over the end of a transaction.
LEMMA PlaceStep ==
    ASSUME IInv, NEW c \in Callers, NEW to \in Places, Goes(c, to),
           UNCHANGED <<db, loaded, memory, txns, unsaved>>,
           pc[c] \notin {"reading", "persisting"}, to # "persisted",
           to \in Opening => ~loaded /\ \A d \in Callers : d # c => pc[d] \notin Opening,
           to \in InMemory => loaded
    PROVE  IInv'
<1>1. pc' \in [Callers -> Places] /\ pc'[c] = to /\ \A d \in Callers : d # c => pc'[d] = pc[d]
  BY DEF Goes, IInv, TypeInv
<1>2. TypeInv'
  BY <1>1 DEF IInv, TypeInv
<1>3. Durable' = Durable /\ Current' = Current
  BY DEF Durable, Current
<1>4. LoadInv'
  BY <1>1, <1>3 DEF IInv, LoadInv
<1>5. QueueInv'
  <2>1. ASSUME NEW i \in 1 .. Len(txns) PROVE TxnInv(txns[i], pc', unsaved, Durable)
    BY <1>1 DEF IInv, QueueInv, TxnInv
  <2> QED
    BY <2>1, <1>3 DEF IInv, QueueInv
<1>6. SavedInv'
  BY <1>1 DEF IInv, SavedInv
<1> QED
  BY <1>2, <1>4, <1>5, <1>6 DEF IInv

LEMMA StoreCallInv ==
    ASSUME IInv, OneFirstCall = TRUE, NEW c \in Callers, StoreCall(c) PROVE IInv'
<1> DEFINE to == IF loaded THEN "ready" ELSE "opening"
<1>1. to \in Places /\ to # "persisted" /\ Goes(c, to) /\ pc[c] = "idle"
  BY DEF StoreCall, Places, InMemory, Opening
<1>2. to \in Opening => ~loaded /\ \A d \in Callers : d # c => pc[d] \notin Opening
  BY DEF StoreCall, Opening, Finished
<1>3. to \in InMemory => loaded
  BY DEF InMemory
<1>4. UNCHANGED <<db, loaded, memory, txns, unsaved>>
  BY DEF StoreCall
<1> HIDE DEF to
<1> QED
  BY <1>1, <1>2, <1>3, <1>4, PlaceStep

LEMMA OpenSettlesInv ==
    ASSUME IInv, NEW to, OpenSettles(to) PROVE IInv'
BY DEF OpenSettles, IInv, TypeInv, LoadInv, QueueInv, TxnInv, SavedInv, Current, Durable

LEMMA LeaveInv ==
    ASSUME IInv, NEW c \in Callers, OpenRejected(c) \/ ReadMemory(c) \/ StoreResume(c) PROVE IInv'
<1>1. PICK to \in Finished : Goes(c, to)
  BY DEF OpenRejected, ReadMemory, StoreResume, Finished
<1>2. to \in Places /\ to # "persisted" /\ to \notin Opening /\ to \notin InMemory
  BY DEF Places, Finished, Opening, InMemory
<1>3. pc[c] \notin {"reading", "persisting"} /\ UNCHANGED <<db, loaded, memory, txns, unsaved>>
  BY DEF OpenRejected, ReadMemory, StoreResume
<1> QED
  BY <1>1, <1>2, <1>3, PlaceStep

\* A transaction is created.
LEMMA CreateTxn ==
    ASSUME IInv, NEW t, TxnInv(t, pc', unsaved, Durable),
           pc[t.call] \notin {"reading", "persisting"},
           t.covers = Len(unsaved), txns' = Append(txns, t),
           Goes(t.call, IF t.kind = "read" THEN "reading" ELSE "persisting"),
           UNCHANGED <<db, loaded, memory, unsaved>>
    PROVE  HasSeq(txns') /\ QueueInv'
<1> DEFINE n == Len(txns)
<1>1. n \in Nat /\ HasSeq(txns') /\ Len(txns') = n + 1 /\ txns'[n + 1] = t
      /\ \A i \in 1 .. n : txns'[i] = txns[i]
  BY AppendFacts, SeqFacts DEF IInv, TypeInv
<1>2. Len(unsaved) \in Nat
  BY SeqFacts DEF IInv, TypeInv
<1>3. \A d \in Callers : d # t.call => pc'[d] = pc[d]
  BY DEF Goes, IInv, TypeInv
<1>4. Durable' = Durable
  BY DEF Durable
<1>5. ASSUME NEW i \in 1 .. n
      PROVE  /\ txns[i].call # t.call /\ txns[i].covers <= t.covers
             /\ TxnInv(txns[i], pc', unsaved, Durable)
  <2>1. TxnInv(txns[i], pc, unsaved, Durable)
    BY DEF IInv, QueueInv
  <2>2. txns[i].call # t.call /\ txns[i].covers <= t.covers
    BY <2>1, <1>2 DEF TxnInv
  <2>3. TxnInv(txns[i], pc', unsaved, Durable)
    BY <2>1, <2>2, <1>3 DEF TxnInv
  <2> QED
    BY <2>2, <2>3
<1>6. \A i \in 1 .. n + 1 : i \in 1 .. n \/ i = n + 1
  BY <1>1
<1>7. \A i \in 1 .. n + 1 : TxnInv(txns'[i], pc', unsaved, Durable)
  BY <1>1, <1>5, <1>6
<1>8. ASSUME NEW i \in 1 .. n + 1, NEW j \in 1 .. n + 1, i < j
      PROVE  txns'[i].call # txns'[j].call /\ txns'[i].covers <= txns'[j].covers
  <2>1. i \in 1 .. n
    BY <1>1, <1>8
  <2>2. CASE j \in 1 .. n
    BY <1>1, <2>1, <2>2, <1>8 DEF IInv, QueueInv
  <2>3. CASE j = n + 1
    BY <1>1, <1>5, <2>1, <2>3
  <2> QED
    BY <2>2, <2>3, <1>6
<1> QED
  BY <1>1, <1>4, <1>7, <1>8 DEF QueueInv

LEMMA StartReadInv ==
    ASSUME IInv, NEW c \in Callers, StartRead(c) PROVE IInv'
<1> DEFINE t == [call |-> c, kind |-> "read", tree |-> EmptyTree, covers |-> 0]
<1>1. ~loaded /\ pc[c] = "opening" /\ unsaved = <<>> /\ Len(unsaved) = 0
  BY SeqFacts DEF StartRead, IInv, TypeInv, LoadInv, Opening
<1>2. pc' \in [Callers -> Places] /\ pc'[c] = "reading" /\ \A d \in Callers : d # c => pc'[d] = pc[d]
  BY DEF StartRead, Goes, IInv, TypeInv, Places, Opening
<1>3. TxnInv(t, pc', unsaved, Durable)
  BY <1>1, <1>2 DEF TxnInv
<1>4. UNCHANGED <<db, loaded, memory, unsaved>> /\ txns' = Append(txns, t) /\ Goes(c, "reading")
  BY DEF StartRead
<1>5. t.call = c /\ t.kind = "read" /\ t.covers = 0
  OBVIOUS
<1> HIDE DEF t
<1>6. HasSeq(txns') /\ QueueInv'
  BY <1>1, <1>3, <1>4, <1>5, CreateTxn
<1>7. Current' = Current
  BY <1>4 DEF Current, Durable
<1>8. TypeInv' /\ SavedInv'
  BY <1>2, <1>4, <1>6 DEF IInv, TypeInv, SavedInv
<1>9. LoadInv'
  BY <1>1, <1>2, <1>4, <1>7 DEF IInv, LoadInv, Opening, InMemory
<1> QED
  BY <1>6, <1>8, <1>9 DEF IInv

LEMMA PersistInv ==
    ASSUME IInv, NEW c \in Callers, Persist(c) PROVE IInv'
<1> DEFINE t == [call |-> c, kind |-> "write", tree |-> memory, covers |-> Len(unsaved)]
<1>1. loaded /\ pc[c] = "changed" /\ memory = Current
  BY DEF Persist, IInv, TypeInv, LoadInv, InMemory
<1>2. pc' \in [Callers -> Places] /\ pc'[c] = "persisting" /\ \A d \in Callers : d # c => pc'[d] = pc[d]
  BY DEF Persist, Goes, IInv, TypeInv, Places, InMemory
<1>3. Len(unsaved) \in Nat /\ (unsaved = <<>> <=> Len(unsaved) = 0)
  BY SeqFacts DEF IInv, TypeInv
<1>4. TxnInv(t, pc', unsaved, Durable)
  BY <1>1, <1>2, <1>3 DEF TxnInv, Current
<1>5. UNCHANGED <<db, loaded, memory, unsaved>> /\ txns' = Append(txns, t) /\ Goes(c, "persisting")
  BY DEF Persist
<1>6. t.call = c /\ t.kind = "write" /\ t.covers = Len(unsaved)
  OBVIOUS
<1> HIDE DEF t
<1>7. HasSeq(txns') /\ QueueInv'
  BY <1>1, <1>4, <1>5, <1>6, CreateTxn
<1>8. Current' = Current
  BY <1>5 DEF Current, Durable
<1>9. TypeInv' /\ SavedInv'
  BY <1>2, <1>5, <1>7 DEF IInv, TypeInv, SavedInv
<1>10. LoadInv'
  BY <1>1, <1>2, <1>5, <1>8 DEF IInv, LoadInv, Opening, InMemory
<1> QED
  BY <1>7, <1>9, <1>10 DEF IInv

\* The transactions behind the first, and the first one's call.
LEMMA HeadTxn ==
    ASSUME IInv, txns # <<>>
    PROVE  /\ Len(txns) \in Nat \ {0} /\ Head(txns) = txns[1]
           /\ TxnInv(txns[1], pc, unsaved, Durable)
           /\ \A i \in 1 .. Len(txns) - 1 :
                /\ i + 1 \in 1 .. Len(txns)
                /\ TxnInv(txns[i + 1], pc, unsaved, Durable)
                /\ txns[i + 1].call # txns[1].call /\ txns[1].covers <= txns[i + 1].covers
<1>1. Len(txns) \in Nat \ {0} /\ Head(txns) = txns[1]
  BY TailFacts DEF IInv, TypeInv
<1>2. 1 \in 1 .. Len(txns) /\ \A i \in 1 .. Len(txns) - 1 : i + 1 \in 1 .. Len(txns) /\ 1 < i + 1
  BY <1>1
<1> QED
  BY <1>1, <1>2 DEF IInv, QueueInv

LEMMA FinishLoadInv ==
    ASSUME IInv, FinishLoad PROVE IInv'
<1> DEFINE c == txns[1].call
<1>1. txns # <<>> /\ Head(txns) = txns[1] /\ txns[1].kind = "read" /\ c \in Callers /\ pc[c] = "reading"
  BY HeadTxn DEF FinishLoad, TxnInv
<1>2. ~loaded /\ unsaved = <<>> /\ memory = EmptyTree /\ Len(unsaved) = 0
  BY <1>1, SeqFacts DEF IInv, TypeInv, LoadInv, Opening
<1>3. \A d \in Callers : d # c => pc[d] \notin Opening /\ pc[d] \notin InMemory
  BY <1>1, <1>2 DEF IInv, LoadInv, Opening
<1>4. Len(txns) - 1 = 0
  <2>1. ASSUME NEW i \in 1 .. Len(txns) - 1 PROVE FALSE
    <3>1. PICK t : t = txns[i + 1]
      OBVIOUS
    <3>2. TxnInv(t, pc, unsaved, Durable) /\ t.call # c
      BY <1>1, <2>1, <3>1, HeadTxn
    <3>3. t.call \in Callers /\ pc[t.call] \in {"reading", "persisting"}
      BY <3>2 DEF TxnInv
    <3> QED
      BY <1>3, <3>2, <3>3 DEF Opening, InMemory
  <2> QED
    <3>1. Len(txns) \in Nat \ {0}
      BY <1>1, HeadTxn
    <3>2. PICK n \in Nat \ {0} : n = Len(txns)
      BY <3>1
    <3>3. n - 1 # 0 => 1 \in 1 .. n - 1
      OBVIOUS
    <3>4. Len(txns) - 1 = 0
      BY <2>1, <3>2, <3>3
    <3> QED
      BY <3>4
<1>5. HasSeq(txns') /\ Len(txns') = 0
  BY <1>1, <1>4, TailFacts DEF FinishLoad, IInv, TypeInv
<1>6. pc' \in [Callers -> Places] /\ pc'[c] = "ready" /\ \A d \in Callers : d # c => pc'[d] = pc[d]
  BY <1>1 DEF FinishLoad, Goes, IInv, TypeInv, Places, InMemory
<1>7. memory' = Durable
  BY <1>2, NoSnapshotBad DEF FinishLoad, IInv, TypeInv, Durable, loadSnapshot, Done, GoodTree
<1>8. Current' = Durable /\ Durable' = Durable
  BY <1>2 DEF FinishLoad, Current, Durable
<1>9. TypeInv'
  BY <1>5, <1>6, <1>7, DurableGood DEF FinishLoad, IInv, TypeInv
<1>10. LoadInv'
  BY <1>3, <1>6, <1>7, <1>8 DEF FinishLoad, LoadInv, Opening
<1>11. QueueInv'
  BY <1>5 DEF QueueInv
<1>12. SavedInv'
  BY <1>2 DEF FinishLoad, SavedInv
<1> QED
  BY <1>9, <1>10, <1>11, <1>12 DEF IInv

LEMMA ChangeMemoryInv ==
    ASSUME IInv, NEW c \in Callers, NEW op \in Changes, ChangeMemory(c, op) PROVE IInv'
<1> DEFINE r == Apply(memory, op)
<1>1. GoodTree(r.tree) /\ r.ok \in BOOLEAN /\ (~r.ok => r.tree = memory)
  BY ChangesAssumption, ApplyKeeps DEF IInv, TypeInv, Keeps
<1>2. pc[c] = "ready" /\ memory' = r.tree /\ UNCHANGED <<db, loaded, txns>>
      /\ Goes(c, IF r.ok THEN "changed" ELSE "threw")
      /\ unsaved' = IF r.ok THEN Append(unsaved, [call |-> c, tree |-> r.tree]) ELSE unsaved
  BY DEF ChangeMemory
<1> HIDE DEF r
<1>3. loaded /\ memory = Current
  BY <1>2 DEF IInv, TypeInv, LoadInv, InMemory
<1>4. CASE ~r.ok
  <2>1. "threw" \in Places /\ "threw" \notin Opening /\ "threw" \notin InMemory /\ Goes(c, "threw")
    BY <1>2, <1>4 DEF Places, Finished, Opening, InMemory
  <2>2. UNCHANGED <<db, loaded, memory, txns, unsaved>>
    BY <1>1, <1>2, <1>4
  <2> QED
    BY <1>2, <2>1, <2>2, PlaceStep
<1>5. CASE r.ok
  <2> DEFINE e == [call |-> c, tree |-> r.tree]
             m == Len(unsaved)
  <2>1. pc' \in [Callers -> Places] /\ pc'[c] = "changed" /\ \A d \in Callers : d # c => pc'[d] = pc[d]
    BY <1>2, <1>5 DEF Goes, IInv, TypeInv, Places, InMemory
  <2>2. e.call = c /\ e.tree = r.tree /\ unsaved' = Append(unsaved, e)
    BY <1>2, <1>5
  <2> HIDE DEF e
  <2>3. m \in Nat /\ HasSeq(unsaved') /\ Len(unsaved') = m + 1 /\ unsaved'[m + 1] = e
        /\ \A i \in 1 .. m : unsaved'[i] = unsaved[i]
    BY <2>2, AppendFacts, SeqFacts DEF IInv, TypeInv
  <2>4. \A i \in 1 .. m + 1 : i \in 1 .. m \/ i = m + 1
    BY <2>3
  <2>5. Durable' = Durable /\ Current' = r.tree
    BY <1>2, <2>2, <2>3, SeqFacts DEF Durable, Current
  <2>6. TypeInv'
    <3>1. \A i \in 1 .. m + 1 : unsaved'[i].call \in Callers /\ GoodTree(unsaved'[i].tree)
      BY <1>1, <2>2, <2>3, <2>4 DEF IInv, TypeInv
    <3> QED
      BY <3>1, <1>1, <1>2, <2>1, <2>3 DEF IInv, TypeInv
  <2>7. LoadInv'
    BY <1>2, <1>3, <2>1, <2>5 DEF IInv, LoadInv, Opening
  <2>8. ASSUME NEW i \in 1 .. Len(txns) PROVE TxnInv(txns[i], pc', unsaved', Durable)
    <3> DEFINE t == txns[i]
    <3>1. TxnInv(t, pc, unsaved, Durable)
      BY DEF IInv, QueueInv
    <3> HIDE DEF t
    <3>2. t.call # c
      BY <3>1, <1>2 DEF TxnInv
    <3>3. t.covers \in 0 .. Len(unsaved') /\ (t.covers # 0 => unsaved'[t.covers] = unsaved[t.covers])
      BY <3>1, <2>3 DEF TxnInv
    <3>4. (\A n \in 1 .. Len(unsaved) : unsaved[n].call = t.call => n <= t.covers)
            => \A n \in 1 .. Len(unsaved') : unsaved'[n].call = t.call => n <= t.covers
      BY <3>2, <2>2, <2>3, <2>4
    <3>5. TxnInv(t, pc', unsaved', Durable)
      BY <3>1, <3>2, <3>3, <3>4, <2>1 DEF TxnInv
    <3> QED
      BY <3>5 DEF t
  <2>9. QueueInv'
    BY <1>2, <2>5, <2>8 DEF IInv, QueueInv
  <2>10. SavedInv'
    <3> SUFFICES ASSUME NEW d \in Callers, pc'[d] = "persisted", NEW n \in 1 .. Len(unsaved')
                 PROVE  unsaved'[n].call # d
      BY DEF SavedInv
    <3>1. d # c /\ pc[d] = "persisted"
      BY <2>1
    <3> QED
      BY <3>1, <2>2, <2>3, <2>4 DEF IInv, SavedInv
  <2> QED
    BY <2>6, <2>7, <2>9, <2>10 DEF IInv
<1> QED
  BY <1>1, <1>4, <1>5

LEMMA AbortsInv ==
    ASSUME IInv, Aborts PROVE IInv'
<1> DEFINE c == txns[1].call
           n == Len(txns) - 1
<1>1. txns # <<>> /\ Head(txns) = txns[1] /\ txns' = Tail(txns) /\ Goes(c, "threw")
      /\ UNCHANGED <<db, loaded, memory, unsaved>> /\ c \in Callers
  BY HeadTxn DEF Aborts, TxnInv
<1>2. n \in Nat /\ HasSeq(txns') /\ Len(txns') = n /\ \A i \in 1 .. n : txns'[i] = txns[i + 1]
  BY <1>1, TailFacts DEF IInv, TypeInv
<1>3. pc' \in [Callers -> Places] /\ pc'[c] = "threw" /\ \A d \in Callers : d # c => pc'[d] = pc[d]
  BY <1>1 DEF Goes, IInv, TypeInv, Places, Finished
<1>4. Durable' = Durable /\ Current' = Current
  BY <1>1 DEF Durable, Current
<1>5. TypeInv'
  BY <1>1, <1>2, <1>3 DEF IInv, TypeInv
<1>6. LoadInv'
  BY <1>1, <1>3, <1>4 DEF IInv, LoadInv, Opening, InMemory
<1>7. QueueInv'
  <2>1. ASSUME NEW i \in 1 .. n PROVE TxnInv(txns'[i], pc', unsaved, Durable)
    <3> DEFINE t == txns[i + 1]
    <3>1. TxnInv(t, pc, unsaved, Durable) /\ t.call # c /\ txns'[i] = t
      BY <1>1, <1>2, HeadTxn
    <3> HIDE DEF t, c
    <3> QED
      BY <3>1, <1>3 DEF TxnInv
  <2>2. ASSUME NEW i \in 1 .. n, NEW j \in 1 .. n, i < j
        PROVE  txns'[i].call # txns'[j].call /\ txns'[i].covers <= txns'[j].covers
    <3>1. i + 1 \in 1 .. Len(txns) /\ j + 1 \in 1 .. Len(txns) /\ i + 1 < j + 1
      BY <1>1, <1>2, <2>2, HeadTxn
    <3> QED
      BY <3>1, <1>2 DEF IInv, QueueInv
  <2> QED
    BY <1>1, <1>2, <1>4, <2>1, <2>2 DEF QueueInv
<1>8. SavedInv'
  BY <1>1, <1>3 DEF IInv, SavedInv
<1> QED
  BY <1>5, <1>6, <1>7, <1>8 DEF IInv

LEMMA ReloadInv ==
    ASSUME IInv, Reload PROVE IInv'
<1>1. Len(txns') = 0 /\ Len(unsaved') = 0 /\ HasSeq(txns') /\ HasSeq(unsaved') /\ unsaved' = <<>>
  BY EmptyHasSeq DEF Reload
<1>2. pc' \in [Callers -> Places] /\ \A c \in Callers : pc'[c] \in {"idle"} \cup Finished
  BY DEF Reload, Places, Finished
<1>3. TypeInv'
  <2>1. loaded' = FALSE /\ memory' = EmptyTree /\ db' = db
    BY DEF Reload
  <2>2. GoodTree(memory') /\ (db' = NoSnapshot \/ GoodTree(db')) /\ loaded' \in BOOLEAN
    BY <2>1, EmptyTreeGood DEF IInv, TypeInv
  <2>3. \A n \in 1 .. Len(unsaved') : unsaved'[n].call \in Callers /\ GoodTree(unsaved'[n].tree)
    BY <1>1
  <2> QED
    BY <1>1, <1>2, <2>2, <2>3 DEF TypeInv
<1>4. LoadInv'
  BY <1>1, <1>2 DEF Reload, LoadInv, Opening, InMemory, Finished
<1>5. QueueInv' /\ SavedInv'
  BY <1>1 DEF QueueInv, SavedInv
<1> QED
  BY <1>3, <1>4, <1>5 DEF IInv

\* What a write transaction saves, and that all later ones save at least as much.
LEMMA CommitFacts ==
    ASSUME IInv, Commits
    PROVE  LET w == txns[1]
               n == w.covers
               k == Len(txns) - 1
           IN  /\ w.call \in Callers /\ n \in 0 .. Len(unsaved) /\ k \in Nat
               /\ pc[w.call] = "persisting" /\ loaded
               /\ w.tree = IF n = 0 THEN Durable ELSE unsaved[n].tree
               /\ \A m \in 1 .. Len(unsaved) : unsaved[m].call = w.call => m <= n
               /\ GoodTree(w.tree) /\ db' = w.tree /\ Durable' = w.tree
               /\ pc' \in [Callers -> Places] /\ pc'[w.call] = "persisted"
               /\ \A d \in Callers : d # w.call => pc'[d] = pc[d]
               /\ unsaved' = SubSeq(unsaved, n + 1, Len(unsaved))
               /\ HasSeq(unsaved') /\ Len(unsaved') = Len(unsaved) - n
               /\ \A i \in 1 .. Len(unsaved) - n : unsaved'[i] = unsaved[n + i]
               /\ HasSeq(txns') /\ Len(txns') = k
               /\ \A i \in 1 .. k : txns'[i] = [txns[i + 1] EXCEPT !.covers = IF @ > n THEN @ - n ELSE 0]
<1> DEFINE w == txns[1]
           n == w.covers
           k == Len(txns) - 1
<1>1. txns # <<>> /\ Head(txns) = w /\ w.kind = "write" /\ k \in Nat
      /\ TxnInv(w, pc, unsaved, Durable)
  BY HeadTxn DEF Commits
<1>2. /\ w.call \in Callers /\ n \in 0 .. Len(unsaved) /\ pc[w.call] = "persisting"
      /\ w.tree = IF n = 0 THEN Durable ELSE unsaved[n].tree
      /\ \A m \in 1 .. Len(unsaved) : unsaved[m].call = w.call => m <= n
  BY <1>1 DEF TxnInv
<1>3. /\ db' = w.tree
      /\ unsaved' = SubSeq(unsaved, n + 1, Len(unsaved))
      /\ txns' = [i \in 1 .. k |-> [txns[i + 1] EXCEPT !.covers = IF @ > n THEN @ - n ELSE 0]]
      /\ Goes(w.call, "persisted")
  BY <1>1 DEF Commits
<1> HIDE DEF w, n, k
<1>4. loaded
  BY <1>2 DEF IInv, TypeInv, LoadInv, InMemory
<1>5. HasSeq(unsaved) /\ Len(unsaved) \in Nat
  BY SeqFacts DEF IInv, TypeInv
<1>6. GoodTree(w.tree)
  <2>1. n # 0 => n \in 1 .. Len(unsaved)
    BY <1>2, <1>5
  <2> QED
    BY <1>2, <2>1, DurableGood DEF IInv, TypeInv
<1>7. Durable' = w.tree
  BY <1>3, <1>6, NoSnapshotBad DEF Durable
<1>8. pc' \in [Callers -> Places] /\ pc'[w.call] = "persisted"
      /\ \A d \in Callers : d # w.call => pc'[d] = pc[d]
  BY <1>2, <1>3 DEF Goes, IInv, TypeInv, Places, InMemory
<1>9. HasSeq(unsaved') /\ Len(unsaved') = Len(unsaved) - n
      /\ \A i \in 1 .. Len(unsaved) - n : unsaved'[i] = unsaved[n + i]
  BY <1>2, <1>3, <1>5, RestFacts
<1>10. /\ txns' = [i \in 1 .. k |-> txns'[i]]
       /\ \A i \in 1 .. k : txns'[i] = [txns[i + 1] EXCEPT !.covers = IF @ > n THEN @ - n ELSE 0]
  BY <1>3
<1>11. HasSeq(txns') /\ Len(txns') = k
  BY <1>1, <1>10, FunctionHasSeq
<1> QED
  BY <1>1, <1>2, <1>3, <1>4, <1>6, <1>7, <1>8, <1>9, <1>10, <1>11 DEF w, n, k

LEMMA CommitsInv ==
    ASSUME IInv, Commits PROVE IInv'
<1> DEFINE w == txns[1]
           n == w.covers
           k == Len(txns) - 1
           L == Len(unsaved)
<1>1. /\ w.call \in Callers /\ n \in 0 .. L /\ k \in Nat
      /\ pc[w.call] = "persisting" /\ loaded
      /\ w.tree = IF n = 0 THEN Durable ELSE unsaved[n].tree
      /\ \A m \in 1 .. L : unsaved[m].call = w.call => m <= n
      /\ GoodTree(w.tree) /\ db' = w.tree /\ Durable' = w.tree
      /\ pc' \in [Callers -> Places] /\ pc'[w.call] = "persisted"
      /\ \A d \in Callers : d # w.call => pc'[d] = pc[d]
      /\ HasSeq(unsaved') /\ Len(unsaved') = L - n
      /\ \A i \in 1 .. L - n : unsaved'[i] = unsaved[n + i]
      /\ HasSeq(txns') /\ Len(txns') = k
      /\ \A i \in 1 .. k : txns'[i] = [txns[i + 1] EXCEPT !.covers = IF @ > n THEN @ - n ELSE 0]
  BY CommitFacts
<1>2. \A i \in 1 .. k : /\ TxnInv(txns[i + 1], pc, unsaved, Durable)
                        /\ txns[i + 1].call # w.call /\ n <= txns[i + 1].covers
  BY HeadTxn DEF Commits
<1>3. UNCHANGED <<loaded, memory>>
  BY DEF Commits
<1>4. \A i, j \in 1 .. k : i < j =>
        txns[i + 1].call # txns[j + 1].call /\ txns[i + 1].covers <= txns[j + 1].covers
  <2>1. \A i \in 1 .. k : i + 1 \in 1 .. Len(txns)
    BY HeadTxn DEF Commits
  <2>2. \A i, j \in 1 .. k : i < j => i + 1 < j + 1
    BY <1>1
  <2> QED
    BY <2>1, <2>2 DEF IInv, QueueInv
<1>5. L \in Nat /\ (unsaved = <<>> <=> L = 0) /\ (unsaved' = <<>> <=> Len(unsaved') = 0)
  BY <1>1, SeqFacts DEF IInv, TypeInv
<1> HIDE DEF w, n, k, L
<1>6. \A i \in 1 .. L - n : n + i \in 1 .. L
  BY <1>1, <1>5
<1>7. TypeInv'
  <2>1. \A i \in 1 .. Len(unsaved') : unsaved'[i].call \in Callers /\ GoodTree(unsaved'[i].tree)
    BY <1>1, <1>6 DEF IInv, TypeInv, L
  <2>2. GoodTree(memory') /\ loaded' \in BOOLEAN
    BY <1>3 DEF IInv, TypeInv
  <2> QED
    BY <1>1, <2>1, <2>2 DEF TypeInv
<1>8. LoadInv'
  <2>1. Current' = Current
    <3>1. CASE n = L
      BY <3>1, <1>1, <1>5 DEF Current, L
    <3>2. CASE n # L
      <4>1. L - n \in 1 .. L - n /\ n + (L - n) = L /\ L # 0
        BY <3>2, <1>1, <1>5
      <4>2. unsaved'[L - n] = unsaved[L]
        BY <4>1, <1>1
      <4> QED
        BY <4>1, <4>2, <1>1, <1>5 DEF Current, L
    <3> QED
      BY <3>1, <3>2
  <2>2. \A d \in Callers : pc'[d] \notin Opening
    BY <1>1 DEF IInv, LoadInv, Opening
  <2> QED
    BY <2>1, <2>2, <1>1, <1>3 DEF IInv, LoadInv
<1>9. ASSUME NEW i \in 1 .. k
      PROVE  /\ TxnInv(txns'[i], pc', unsaved', Durable')
             /\ txns'[i].call = txns[i + 1].call /\ txns'[i].covers = txns[i + 1].covers - n
  <2> DEFINE t == txns[i + 1]
             u == txns'[i]
  <2>1. TxnInv(t, pc, unsaved, Durable) /\ t.call # w.call /\ n <= t.covers
        /\ u = [t EXCEPT !.covers = IF @ > n THEN @ - n ELSE 0]
    BY <1>1, <1>2
  <2> HIDE DEF t, u
  <2>2. t.covers \in Nat /\ n \in Nat /\ t.covers <= L
    BY <2>1, <1>1, <1>5 DEF TxnInv, L
  <2>3. /\ u = [call |-> t.call, kind |-> t.kind, tree |-> t.tree, covers |-> t.covers - n]
        /\ u.call = t.call /\ u.kind = t.kind /\ u.tree = t.tree /\ u.covers = t.covers - n
    <3>1. t = [call |-> t.call, kind |-> t.kind, tree |-> t.tree, covers |-> t.covers]
      BY <2>1 DEF TxnInv
    <3>2. (IF t.covers > n THEN t.covers - n ELSE 0) = t.covers - n
      BY <2>1, <2>2
    <3> QED
      BY <2>1, <3>1, <3>2
  <2>4. t.kind = "write" /\ pc'[t.call] = "persisting" /\ t.call \in Callers
    BY <2>1, <1>1 DEF TxnInv, IInv, LoadInv, Opening
  <2>5. u.covers \in 0 .. Len(unsaved')
    BY <2>1, <2>2, <2>3, <1>1, <1>5
  <2>6. u.tree = IF u.covers = 0 THEN Durable' ELSE unsaved'[u.covers].tree
    <3>1. t.tree = IF t.covers = 0 THEN Durable ELSE unsaved[t.covers].tree
      BY <2>1, <2>4 DEF TxnInv
    <3>2. CASE t.covers = n
      BY <3>1, <3>2, <2>2, <2>3, <1>1
    <3>3. CASE t.covers # n
      <4>1. t.covers - n \in 1 .. L - n /\ n + (t.covers - n) = t.covers /\ t.covers # 0 /\ t.covers - n # 0
        BY <3>3, <2>1, <2>2, <1>1, <1>5
      <4> QED
        BY <3>1, <4>1, <2>3, <1>1
    <3> QED
      BY <3>2, <3>3
  <2>7. ASSUME NEW m \in 1 .. Len(unsaved'), unsaved'[m].call = u.call PROVE m <= u.covers
    <3>1. n + m \in 1 .. L /\ unsaved'[m] = unsaved[n + m]
      BY <1>1, <1>6
    <3>2. n + m <= t.covers
      BY <3>1, <2>1, <2>3, <2>4, <2>7 DEF TxnInv, L
    <3> QED
      BY <3>2, <2>2, <2>3, <1>1, <1>5
  <2>8. TxnInv(u, pc', unsaved', Durable')
    BY <2>3, <2>4, <2>5, <2>6, <2>7 DEF TxnInv
  <2> QED
    BY <2>3, <2>8 DEF t, u
<1>10. QueueInv'
  <2>1. ASSUME NEW i \in 1 .. k, NEW j \in 1 .. k, i < j
        PROVE  txns'[i].call # txns'[j].call /\ txns'[i].covers <= txns'[j].covers
    <3>0. \A h \in 1 .. k : txns[h + 1].covers \in 0 .. L
      BY <1>2 DEF TxnInv, L
    <3>1. txns[i + 1].covers \in 0 .. L /\ txns[j + 1].covers \in 0 .. L /\ n \in 0 .. L /\ L \in Nat
      BY <1>1, <1>5, <3>0
    <3>2. txns[i + 1].call # txns[j + 1].call /\ txns[i + 1].covers <= txns[j + 1].covers
      BY <1>4, <2>1
    <3>3. txns'[i].call # txns'[j].call
      BY <1>9, <3>2
    <3>4. txns'[i].covers = txns[i + 1].covers - n /\ txns'[j].covers = txns[j + 1].covers - n
      BY <1>9
    <3> QED
      BY <3>1, <3>2, <3>3, <3>4
  <2> QED
    BY <1>1, <1>9, <2>1 DEF QueueInv
<1>11. SavedInv'
  <2> SUFFICES ASSUME NEW d \in Callers, pc'[d] = "persisted", NEW m \in 1 .. Len(unsaved')
               PROVE  unsaved'[m].call # d
    BY DEF SavedInv
  <2>1. n + m \in 1 .. L /\ unsaved'[m] = unsaved[n + m] /\ ~(n + m <= n)
    BY <1>1, <1>5, <1>6
  <2> QED
    BY <2>1, <1>1 DEF IInv, SavedInv, L
<1> QED
  BY <1>7, <1>8, <1>10, <1>11 DEF IInv

\* Every step of a page whose first call is alone keeps the invariant.
LEMMA StepInv ==
    ASSUME OneFirstCall = TRUE PROVE IInv /\ [WorkspaceNext]_storeVars => IInv'
<1> SUFFICES ASSUME IInv, [WorkspaceNext]_storeVars PROVE IInv'
  OBVIOUS
<1>1. CASE UNCHANGED storeVars
  BY <1>1 DEF storeVars, IInv, TypeInv, LoadInv, QueueInv, SavedInv, Current, Durable
<1>2. CASE \E c \in Callers : StoreCall(c)
  BY <1>2, StoreCallInv
<1>3. CASE \E c \in Callers : OpenRejected(c) \/ ReadMemory(c) \/ StoreResume(c)
  BY <1>3, LeaveInv
<1>4. CASE \E c \in Callers : StartRead(c)
  BY <1>4, StartReadInv
<1>5. CASE \E c \in Callers : Persist(c)
  BY <1>5, PersistInv
<1>6. CASE \E c \in Callers : \E op \in Changes : ChangeMemory(c, op)
  BY <1>6, ChangeMemoryInv
<1>7. CASE \E to \in {"open", "rejected"} : OpenSettles(to)
  BY <1>7, OpenSettlesInv
<1>8. CASE FinishLoad
  BY <1>8, FinishLoadInv
<1>9. CASE Commits
  BY <1>9, CommitsInv
<1>10. CASE Aborts
  BY <1>10, AbortsInv
<1>11. CASE Reload
  BY <1>11, ReloadInv
<1> QED
  BY <1>1, <1>2, <1>3, <1>4, <1>5, <1>6, <1>7, <1>8, <1>9, <1>10, <1>11 DEF WorkspaceNext

-----------------------------------------------------------------------------
(* The theorems *)

\* What keeps the trees loadable, however the calls are made.
TreesInv ==
    /\ GoodTree(memory) /\ (db = NoSnapshot \/ GoodTree(db))
    /\ HasSeq(txns)
    /\ \A i \in 1 .. Len(txns) :
        LET t == txns[i]
        IN  /\ t = [call |-> t.call, kind |-> t.kind, tree |-> t.tree, covers |-> t.covers]
            /\ GoodTree(t.tree)

\* Creating a transaction keeps the trees loadable.
LEMMA AppendTree ==
    ASSUME TreesInv, UNCHANGED <<db, memory>>, NEW call, NEW kind, NEW tree, NEW covers, GoodTree(tree),
           txns' = Append(txns, [call |-> call, kind |-> kind, tree |-> tree, covers |-> covers])
    PROVE  TreesInv'
<1> DEFINE t == [call |-> call, kind |-> kind, tree |-> tree, covers |-> covers]
           n == Len(txns)
<1>1. t = [call |-> t.call, kind |-> t.kind, tree |-> t.tree, covers |-> t.covers] /\ GoodTree(t.tree)
  OBVIOUS
<1> HIDE DEF t
<1>2. n \in Nat /\ HasSeq(txns') /\ Len(txns') = n + 1 /\ txns'[n + 1] = t
      /\ \A i \in 1 .. n : txns'[i] = txns[i]
  BY AppendFacts, SeqFacts DEF TreesInv, t
<1>3. \A i \in 1 .. n + 1 : i \in 1 .. n \/ i = n + 1
  BY <1>2
<1> QED
  BY <1>1, <1>2, <1>3 DEF TreesInv

\* Ending the first transaction keeps them, with a loadable memory store and record.
LEMMA TailTree ==
    ASSUME TreesInv, txns # <<>>, txns' = Tail(txns), GoodTree(memory'), UNCHANGED db
    PROVE  TreesInv'
<1>1. /\ Len(txns) \in Nat \ {0} /\ HasSeq(txns') /\ Len(txns') = Len(txns) - 1
      /\ \A i \in 1 .. Len(txns) - 1 : txns'[i] = txns[i + 1]
  BY TailFacts DEF TreesInv
<1>2. \A i \in 1 .. Len(txns) - 1 : i + 1 \in 1 .. Len(txns)
  BY <1>1
<1> QED
  BY <1>1, <1>2 DEF TreesInv

LEMMA CommitTree ==
    ASSUME TreesInv, Commits PROVE TreesInv'
<1> DEFINE n == txns[1].covers
           k == Len(txns) - 1
<1>1. Len(txns) \in Nat \ {0} /\ Head(txns) = txns[1]
  BY TailFacts DEF Commits, TreesInv
<1>2. k \in Nat /\ 1 \in 1 .. Len(txns) /\ \A i \in 1 .. k : i + 1 \in 1 .. Len(txns)
  BY <1>1
<1>3. /\ db' = txns[1].tree /\ memory' = memory
      /\ txns' = [i \in 1 .. k |-> [txns[i + 1] EXCEPT !.covers = IF @ > n THEN @ - n ELSE 0]]
  BY <1>1 DEF Commits
<1> HIDE DEF n, k
<1>4. HasSeq(txns') /\ Len(txns') = k
  <2>1. txns' = [i \in 1 .. k |-> txns'[i]]
    BY <1>3
  <2> QED
    BY <1>2, <2>1, FunctionHasSeq
<1>5. ASSUME NEW i \in 1 .. k
      PROVE  LET u == txns'[i]
             IN  /\ u = [call |-> u.call, kind |-> u.kind, tree |-> u.tree, covers |-> u.covers]
                 /\ GoodTree(u.tree)
  <2> DEFINE t == txns[i + 1]
             x == IF t.covers > n THEN t.covers - n ELSE 0
  <2>1. t = [call |-> t.call, kind |-> t.kind, tree |-> t.tree, covers |-> t.covers] /\ GoodTree(t.tree)
    BY <1>2 DEF TreesInv
  <2>2. txns'[i] = [t EXCEPT !.covers = x]
    BY <1>3
  <2> HIDE DEF t, x
  <2>3. txns'[i] = [call |-> t.call, kind |-> t.kind, tree |-> t.tree, covers |-> x]
    BY <2>1, <2>2
  <2> QED
    BY <2>1, <2>3
<1>6. GoodTree(memory') /\ GoodTree(db')
  BY <1>2, <1>3 DEF TreesInv
<1> QED
  BY <1>4, <1>5, <1>6 DEF TreesInv

LEMMA TreesStep == TreesInv /\ [WorkspaceNext]_storeVars => TreesInv'
<1> SUFFICES ASSUME TreesInv, [WorkspaceNext]_storeVars PROVE TreesInv'
  OBVIOUS
<1>1. CASE UNCHANGED <<db, memory, txns>>
  BY <1>1 DEF TreesInv
<1>2. CASE \E c \in Callers : StartRead(c)
  BY <1>2, EmptyTreeGood, AppendTree DEF StartRead
<1>3. CASE \E c \in Callers : Persist(c)
  BY <1>3, AppendTree DEF Persist, TreesInv
<1>4. ASSUME NEW c \in Callers, NEW op \in Changes, ChangeMemory(c, op) PROVE TreesInv'
  <2>1. GoodTree(memory') /\ UNCHANGED <<db, txns>>
    BY <1>4, ChangesAssumption, ApplyKeeps DEF ChangeMemory, TreesInv, Keeps
  <2> QED
    BY <2>1 DEF TreesInv
<1>5. CASE FinishLoad
  <2>1. GoodTree(memory') /\ txns # <<>> /\ txns' = Tail(txns) /\ UNCHANGED db
    BY <1>5 DEF FinishLoad, TreesInv, GoodTree, loadSnapshot, Done
  <2> QED
    BY <2>1, TailTree
<1>6. CASE Commits
  BY <1>6, CommitTree
<1>7. CASE Aborts
  BY <1>7, TailTree DEF Aborts, TreesInv
<1>8. CASE Reload
  <2>1. GoodTree(memory') /\ UNCHANGED db /\ HasSeq(txns') /\ Len(txns') = 0
    BY <1>8, EmptyTreeGood, EmptyHasSeq DEF Reload
  <2> QED
    BY <2>1 DEF TreesInv
<1>9. CASE \/ \E c \in Callers : StoreCall(c) \/ OpenRejected(c) \/ ReadMemory(c) \/ StoreResume(c)
           \/ \E to \in {"open", "rejected"} : OpenSettles(to)
           \/ UNCHANGED storeVars
  BY <1>1, <1>9 DEF StoreCall, OpenRejected, ReadMemory, StoreResume, OpenSettles, storeVars
<1> QED
  BY <1>2, <1>3, <1>4, <1>5, <1>6, <1>7, <1>8, <1>9 DEF WorkspaceNext

\* The memory store and its record are loadable trees after any sequence of calls,
\* commits, aborts and reloads, concurrent first calls included.
THEOREM TreesLoadableHolds == WorkspaceSpec => []TreesLoadable
<1>1. WorkspaceInit => TreesInv
  BY StoredAssumption, EmptyTreeGood, EmptyHasSeq DEF WorkspaceInit, TreesInv, GoodTree
<1>2. TreesInv => TreesLoadable
  BY EmptyTreeGood DEF TreesInv, GoodTree, TreesLoadable, Durable
<1> QED
  BY <1>1, <1>2, TreesStep, PTL DEF WorkspaceSpec

LEMMA InitRefines == WorkspaceInit => Contract!AbstractInit
<1> SUFFICES ASSUME WorkspaceInit PROVE Contract!AbstractInit
  OBVIOUS
<1>1. WellFormed(Durable)
  BY StoredAssumption, EmptyTreeGood DEF WorkspaceInit, Durable, GoodTree
<1>2. [c \in Callers |-> StatusAt(pc[c])] = [c \in Callers |-> "idle"]
  BY DEF WorkspaceInit, StatusAt
<1> QED
  BY <1>1, <1>2 DEF Contract!AbstractInit, WorkspaceInit

\* What a call that moves comes to for the contract.
LEMMA StatusStep ==
    ASSUME IInv, NEW c \in Callers, NEW to, Goes(c, to)
    PROVE  [d \in Callers |-> StatusAt(pc[d])]'
             = [[d \in Callers |-> StatusAt(pc[d])] EXCEPT ![c] = StatusAt(to)]
<1>1. \A d \in Callers : pc'[d] = IF d = c THEN to ELSE pc[d]
  BY DEF Goes, IInv, TypeInv
<1> QED
  BY <1>1

LEMMA StatusKept ==
    ASSUME IInv, NEW c \in Callers, NEW to, Goes(c, to), StatusAt(to) = StatusAt(pc[c])
    PROVE  [d \in Callers |-> StatusAt(pc[d])]' = [d \in Callers |-> StatusAt(pc[d])]
BY StatusStep

LEMMA StatusValues ==
    /\ StatusAt("idle") = "idle" /\ StatusAt("returned") = "returned" /\ StatusAt("threw") = "threw"
    /\ StatusAt("opening") = "open" /\ StatusAt("reading") = "open" /\ StatusAt("ready") = "open"
    /\ StatusAt("changed") = "changed" /\ StatusAt("persisting") = "changed"
    /\ StatusAt("persisted") = "changed"
BY DEF StatusAt, Finished

LEMMA StoreCallRefines ==
    ASSUME IInv, NEW c \in Callers, StoreCall(c) PROVE Contract!Opens(c)
<1>1. PICK to : Goes(c, to) /\ StatusAt(to) = "open"
  BY StatusValues DEF StoreCall
<1>2. UNCHANGED <<Durable, unsaved, seen>> /\ pc[c] = "idle"
  BY DEF StoreCall, Durable
<1> QED
  BY <1>1, <1>2, StatusStep, StatusValues DEF Contract!Opens

LEMMA ThrowsRefines ==
    ASSUME IInv, NEW c \in Callers, StatusAt(pc[c]) \in {"open", "changed"}, Goes(c, "threw"),
           UNCHANGED <<db, unsaved, seen>>
    PROVE  Contract!Throws(c)
<1>1. UNCHANGED <<Durable, unsaved, seen>>
  BY DEF Durable
<1> QED
  BY <1>1, StatusStep, StatusValues DEF Contract!Throws

LEMMA ReadMemoryRefines ==
    ASSUME IInv, NEW c \in Callers, ReadMemory(c) PROVE Contract!ReadsTree(c)
<1>1. memory = Current /\ pc[c] = "ready"
  BY DEF ReadMemory, IInv, TypeInv, LoadInv, InMemory
<1>2. UNCHANGED <<Durable, unsaved>> /\ Goes(c, "returned") /\ seen' = [seen EXCEPT ![c] = memory]
  BY DEF ReadMemory, Durable
<1> QED
  BY <1>1, <1>2, StatusStep, StatusValues DEF Contract!ReadsTree, Contract!Contents, Current

LEMMA ChangeMemoryRefines ==
    ASSUME IInv, NEW c \in Callers, NEW op \in Changes, ChangeMemory(c, op)
    PROVE  Contract!Alters(c) \/ Contract!Throws(c)
<1> DEFINE r == Apply(memory, op)
<1>1. /\ pc[c] = "ready" /\ Goes(c, IF r.ok THEN "changed" ELSE "threw") /\ UNCHANGED <<db, seen>>
      /\ unsaved' = IF r.ok THEN Append(unsaved, [call |-> c, tree |-> r.tree]) ELSE unsaved
  BY DEF ChangeMemory
<1>2. memory = Current
  BY <1>1 DEF IInv, TypeInv, LoadInv, InMemory
<1>3. r.ok \in BOOLEAN
  BY ChangesAssumption, ApplyKeeps DEF IInv, TypeInv, Keeps
<1>4. CASE ~r.ok
  BY <1>1, <1>4, StatusValues, ThrowsRefines
<1>5. CASE r.ok
  <2>1. /\ UNCHANGED <<Durable, seen>> /\ Goes(c, "changed")
        /\ unsaved' = Append(unsaved, [call |-> c, tree |-> Apply(Current, op).tree])
        /\ Apply(Current, op).ok
    BY <1>1, <1>2, <1>5 DEF Durable
  <2> QED
    BY <1>1, <2>1, StatusStep, StatusValues DEF Contract!Alters, Contract!Contents, Current
<1> QED
  BY <1>3, <1>4, <1>5

\* A commit saves the changes its snapshot holds; it saves none when the same snapshot,
\* taken by a later call, was written before.
LEMMA CommitsRefines ==
    ASSUME IInv, Commits PROVE Contract!Saves \/ UNCHANGED Contract!abstractVars
<1> DEFINE w == txns[1]
           n == w.covers
<1>1. /\ w.call \in Callers /\ n \in 0 .. Len(unsaved)
      /\ w.tree = IF n = 0 THEN Durable ELSE unsaved[n].tree
      /\ Durable' = w.tree /\ pc[w.call] = "persisting"
      /\ unsaved' = SubSeq(unsaved, n + 1, Len(unsaved))
  BY CommitFacts
<1>2. Goes(w.call, "persisted") /\ seen' = seen
  BY HeadTxn DEF Commits
<1> HIDE DEF w, n
<1>3. [d \in Callers |-> StatusAt(pc[d])]' = [d \in Callers |-> StatusAt(pc[d])]
  <2>1. StatusAt("persisted") = StatusAt(pc[w.call])
    BY <1>1, StatusValues
  <2> QED
    BY <1>1, <1>2, <2>1, StatusKept
<1>4. CASE n = 0
  <2>1. unsaved' = unsaved
    <3>1. PICK S : unsaved \in Seq(S)
      BY DEF IInv, TypeInv, HasSeq
    <3> QED
      BY <3>1, <1>1, <1>4
  <2> QED
    BY <1>1, <1>2, <1>3, <1>4, <2>1 DEF Contract!abstractVars
<1>5. CASE n # 0
  <2>1. n \in 1 .. Len(unsaved) /\ Durable' = unsaved[n].tree
    BY <1>1, <1>5
  <2> QED
    BY <2>1, <1>1, <1>2, <1>3 DEF Contract!Saves
<1> QED
  BY <1>4, <1>5

LEMMA StoreResumeRefines ==
    ASSUME IInv, NEW c \in Callers, StoreResume(c) PROVE Contract!Returns(c)
<1>1. DOMAIN unsaved = 1 .. Len(unsaved)
  BY SeqFacts DEF IInv, TypeInv
<1>2. pc[c] = "persisted" /\ Goes(c, "returned") /\ UNCHANGED <<Durable, unsaved, seen>>
  BY DEF StoreResume, Durable
<1>3. \A n \in DOMAIN unsaved : unsaved[n].call # c
  BY <1>1, <1>2 DEF IInv, SavedInv
<1> QED
  BY <1>2, <1>3, StatusStep, StatusValues DEF Contract!Returns

LEMMA ReloadRefines ==
    ASSUME IInv, Reload PROVE Contract!Reloads
<1>1. \A c \in Callers : StatusAt(pc'[c])
        = IF StatusAt(pc[c]) \in {"open", "changed"} THEN "threw" ELSE StatusAt(pc[c])
  BY StatusValues DEF Reload, IInv, TypeInv, Places, Finished, Opening, InMemory
<1>2. unsaved' = <<>> /\ UNCHANGED <<Durable, seen>>
  BY DEF Reload, Durable
<1> QED
  BY <1>1, <1>2 DEF Contract!Reloads

\* The steps that the contract does not see.
LEMMA StutterRefines ==
    ASSUME IInv,
           \/ \E c \in Callers : StartRead(c) \/ Persist(c)
           \/ \E to \in {"open", "rejected"} : OpenSettles(to)
           \/ FinishLoad \/ UNCHANGED storeVars
    PROVE  UNCHANGED Contract!abstractVars
<1>1. UNCHANGED <<Durable, unsaved, seen>>
  BY DEF StartRead, Persist, OpenSettles, FinishLoad, storeVars, Durable
<1>2. [d \in Callers |-> StatusAt(pc[d])]' = [d \in Callers |-> StatusAt(pc[d])]
  <2>1. CASE UNCHANGED pc
    BY <2>1
  <2>2. ASSUME NEW c \in Callers, StartRead(c) \/ Persist(c)
        PROVE  [d \in Callers |-> StatusAt(pc[d])]' = [d \in Callers |-> StatusAt(pc[d])]
    <3>1. PICK to : Goes(c, to) /\ StatusAt(to) = StatusAt(pc[c])
      BY <2>2, StatusValues DEF StartRead, Persist
    <3> QED
      BY <3>1, StatusKept
  <2>3. CASE FinishLoad
    <3>1. /\ txns[1].call \in Callers /\ Goes(txns[1].call, "ready")
          /\ pc[txns[1].call] = "reading"
      BY <2>3, HeadTxn DEF FinishLoad, TxnInv
    <3>2. StatusAt("ready") = StatusAt(pc[txns[1].call])
      BY <3>1, StatusValues
    <3> QED
      BY <3>1, <3>2, StatusKept
  <2> QED
    BY <2>1, <2>2, <2>3 DEF OpenSettles, storeVars
<1> QED
  BY <1>1, <1>2 DEF Contract!abstractVars

\* The IndexedDB store implements the contract of a persistent workspace, for any
\* number of calls, operations and reloads, when the first load is left to one call.
THEOREM StoreKeepsContract ==
    ASSUME OneFirstCall = TRUE PROVE WorkspaceSpec => KeepsContract
<1>1. IInv /\ [WorkspaceNext]_storeVars => [Contract!AbstractNext]_(Contract!abstractVars)
  <2> SUFFICES ASSUME IInv, [WorkspaceNext]_storeVars
               PROVE  Contract!AbstractNext \/ UNCHANGED Contract!abstractVars
    OBVIOUS
  <2>1. CASE \E c \in Callers : StoreCall(c)
    BY <2>1, StoreCallRefines DEF Contract!AbstractNext
  <2>2. CASE \E c \in Callers : OpenRejected(c)
    BY <2>2, StatusValues, ThrowsRefines DEF OpenRejected, Contract!AbstractNext
  <2>3. CASE \E c \in Callers : ReadMemory(c)
    BY <2>3, ReadMemoryRefines DEF Contract!AbstractNext
  <2>4. CASE \E c \in Callers : StoreResume(c)
    BY <2>4, StoreResumeRefines DEF Contract!AbstractNext
  <2>5. CASE \E c \in Callers : \E op \in Changes : ChangeMemory(c, op)
    BY <2>5, ChangeMemoryRefines DEF Contract!AbstractNext
  <2>6. CASE Commits
    BY <2>6, CommitsRefines DEF Contract!AbstractNext
  <2>7. CASE Aborts
    <3>1. /\ txns[1].call \in Callers /\ Goes(txns[1].call, "threw") /\ UNCHANGED <<db, unsaved, seen>>
          /\ pc[txns[1].call] \in {"reading", "persisting"}
      BY <2>7, HeadTxn DEF Aborts, TxnInv
    <3>2. StatusAt(pc[txns[1].call]) \in {"open", "changed"}
      BY <3>1, StatusValues
    <3> QED
      BY <3>1, <3>2, ThrowsRefines DEF Contract!AbstractNext
  <2>8. CASE Reload
    BY <2>8, ReloadRefines DEF Contract!AbstractNext
  <2>9. CASE \/ \E c \in Callers : StartRead(c) \/ Persist(c)
             \/ \E to \in {"open", "rejected"} : OpenSettles(to)
             \/ FinishLoad \/ UNCHANGED storeVars
    BY <2>9, StutterRefines
  <2> QED
    BY <2>1, <2>2, <2>3, <2>4, <2>5, <2>6, <2>7, <2>8, <2>9 DEF WorkspaceNext
<1> QED
  BY <1>1, InitInv, StepInv, InitRefines, PTL DEF WorkspaceSpec, KeepsContract, Contract!AbstractSpec

-----------------------------------------------------------------------------
(* The trees of a WASI run *)

LEMMA RestrictFacts ==
    ASSUME NEW f, NEW S
    PROVE  DOMAIN Restrict(f, S) = S /\ \A x \in S : Restrict(f, S)[x] = f[x]
BY DEF Restrict

\* A file's record says where the file is.
IsRecord(r, p) == r = Record(r.bytes, r.fallback, p) /\ r.fallback \in BOOLEAN
RecordsPlaced(F) == \A p \in DOMAIN F : IsRecord(F[p], p)
GoodMount(t) == GoodTree(t) /\ RecordsPlaced(t.files)

LEMMA OwnRecord ==
    ASSUME NEW r, NEW b, NEW p, r = [bytes |-> b, fallback |-> FALSE, path |-> p]
    PROVE  IsRecord(r, p) /\ ~r.fallback /\ r.bytes = b
BY DEF IsRecord, Record

LEMMA PackageRecord ==
    ASSUME NEW r, NEW b, NEW p, r = [bytes |-> b, fallback |-> TRUE, path |-> p]
    PROVE  IsRecord(r, p) /\ r.fallback
BY DEF IsRecord, Record

LEMMA RecordPath ==
    ASSUME NEW r, NEW p, IsRecord(r, p)
    PROVE  r.path = p
<1>1. PICK b, f : r = Record(b, f, p)
  BY DEF IsRecord
<1> QED
  BY <1>1 DEF Record

\* What the assumption says of the constants.
LEMMA ConstantFacts ==
    /\ GoodTree(Snapshot) /\ GoodTree(PackageRoot)
    /\ Snapshot.files = [p \in Files(Snapshot) |-> Snapshot.files[p]]
    /\ \A text \in Texts : text.names \in Paths
    /\ \A w \in BOOLEAN : \A text \in ScratchTexts[w] : text.names \in Paths
    /\ PackageFiles \subseteq Paths
    /\ \A change \in ChildChanges : IsChange(change)
BY WasiTreeAssumption DEF GoodTree, Range, Files

-----------------------------------------------------------------------------
(* The invariant *)

\* A descriptor.  One through which a file can be written is of /tmp or tells the
\* workspace of it.
Handles == [mount : {"workspace", "tmp", "root", "none"}, tree : {"workspace", "tmp", "root"},
            kind : {"file", "directory"}, path : Paths, at : Paths, may : BOOLEAN]
IsHandle(d) ==
    /\ d \in Handles
    /\ d.mount = "workspace" => d.tree = "workspace"
    /\ d.kind = "file" /\ d.may => d.tree = "tmp" \/ d.mount = "workspace"
HandlesOk(open) ==
    /\ open = [fd \in DOMAIN open |-> open[fd]]
    /\ \A fd \in DOMAIN open : IsHandle(open[fd])

\* The runtime.  A read-only workspace has the package's files and no directories.
Runtime(s) ==
    /\ s = [workspace |-> s.workspace, tmp |-> s.tmp, open |-> s.open, cwd |-> s.cwd, dirty |-> s.dirty]
    /\ s.dirty \in BOOLEAN /\ s.cwd \in Paths
    /\ HandlesOk(s.open)
    /\ GoodMount(s.tmp)
    /\ writable => GoodMount(s.workspace)
    /\ ~writable => s.workspace.dirs = {} /\ Files(s.workspace) = PackageFiles

\* What a call may make of the runtime: it does not forget that it changed the
\* workspace.
Becomes(s) == Runtime(s) /\ (s.dirty \/ (s.workspace = fs.workspace /\ ~fs.dirty))

WasiInv ==
    /\ writable \in BOOLEAN /\ phase \in {"running", "ended", "failed"}
    /\ Runtime(fs)
    /\ writable /\ ~fs.dirty => stored = exportSnapshot(fs.workspace)
    /\ RunKept

-----------------------------------------------------------------------------
(* Where a call looks *)

LEMMA NowherePath == Nowhere \in Paths /\ Len(Nowhere) = 1 /\ Nowhere # Root
BY LiteralAssumption, RootPath DEF Nowhere

LEMMA ResolveFacts ==
    ASSUME NEW base \in Paths, NEW names \in Paths
    PROVE  /\ resolve(base, names) \in Paths
           /\ resolve(base, names) = Root => base = Root /\ names = Root
<1>1. base \o names \in Paths /\ Len(base \o names) = Len(base) + Len(names)
      /\ Len(base) \in Nat /\ Len(names) \in Nat
  BY RootPath, ConcatProperties DEF Paths
<1>2. base \o names = Root => Len(base) + Len(names) = 0
  BY <1>1, RootPath
<1>3. base \o names = Root => base = Root /\ names = Root
  BY <1>1, <1>2, RootPath
<1> QED
  BY <1>1, <1>3, NowherePath DEF resolve

LEMMA MountedPath ==
    ASSUME NEW p \in Paths, NEW m, Mounted(p, m)
    PROVE  p # Root /\ Tail(p) \in Paths
BY HeadTailProperties DEF Mounted, Root, Paths

\* The absolute path of the workspace itself.
NamesRoot(text) == text.abs /\ Mounted(text.names, "workspace") /\ Tail(text.names) = Root

LEMMA ResolveMountedFacts ==
    ASSUME NEW base \in Paths, NEW text, text.names \in Paths, NEW mount
    PROVE  /\ resolveMountedPath(base, text, mount) \in Paths
           /\ resolveMountedPath(base, text, mount) = Root =>
                 NamesRoot(text) \/ base = Root
<1>1. CASE text.abs
  <2>1. CASE mount = "workspace" /\ writable /\ Mounted(text.names, mount)
    BY <1>1, <2>1, MountedPath, ResolveFacts, RootPath DEF resolveMountedPath, NamesRoot
  <2>2. CASE ~(mount = "workspace" /\ writable /\ Mounted(text.names, mount))
    BY <1>1, <2>2, NowherePath DEF resolveMountedPath
  <2> QED
    BY <2>1, <2>2
<1>2. CASE ~text.abs
  BY <1>2, ResolveFacts DEF resolveMountedPath
<1> QED
  BY <1>1, <1>2

LEMMA HandleFields ==
    ASSUME NEW d, IsHandle(d)
    PROVE  d.path \in Paths /\ d.at \in Paths /\ d.may \in BOOLEAN
BY DEF IsHandle, Handles

LEMMA BasePathFacts ==
    ASSUME Runtime(fs), NEW fd, NEW mount
    PROVE  BasePath(fd, mount) \in Paths
BY RootPath, NowherePath, HandleFields DEF BasePath, Runtime, HandlesOk

LEMMA TextNames ==
    ASSUME writable \in BOOLEAN, NEW fd, NEW text \in TextsFor(fd)
    PROVE  text.names \in Paths
BY ConstantFacts DEF TextsFor

LEMMA PlaceFacts ==
    ASSUME Runtime(fs), writable \in BOOLEAN, NEW fd, NEW text \in TextsFor(fd)
    PROVE  /\ Place(fd, text).mount \in {"workspace", "tmp"}
           /\ Place(fd, text).mount = "workspace" => writable
           /\ Place(fd, text).path \in Paths
           /\ Place(fd, text).path = Root =>
                 NamesRoot(text) \/ Place(fd, text).base = Root
<1> DEFINE ws    == mutableWorkspaceBasePath(fd, text)
           mount == IF ws # Nowhere THEN "workspace" ELSE "tmp"
           base  == IF ws # Nowhere THEN ws ELSE BasePath(fd, "tmp")
<1>1. fs.cwd \in Paths
  BY DEF Runtime
<1>2. workspaceCwdBasePath(fd, text) \in Paths
  BY <1>1, RootPath, NowherePath, MountedPath DEF workspaceCwdBasePath
<1>3. ws \in Paths /\ (ws # Nowhere => writable)
  BY <1>2, NowherePath, BasePathFacts DEF mutableWorkspaceBasePath
<1> HIDE DEF ws
<1>4. base \in Paths /\ mount \in {"workspace", "tmp"} /\ (mount = "workspace" => writable)
  BY <1>3, BasePathFacts
<1>5. Place(fd, text) = [mount |-> mount, base |-> base, path |-> resolveMountedPath(base, text, mount)]
  BY DEF Place, ws
<1> HIDE DEF base, mount
<1> QED
  BY <1>4, <1>5, TextNames, ResolveMountedFacts


-----------------------------------------------------------------------------
(* What the calls do to a tree *)

LEMMA MakeMount ==
    ASSUME NEW D, NEW F, D \subseteq Paths, DOMAIN F \subseteq Paths,
           Root \in D, DOMAIN F \cap D = {},
           \A p \in D \cup DOMAIN F : p # Root => parentPath(p) \in D,
           RecordsPlaced(F)
    PROVE  GoodMount([dirs |-> D, files |-> F])
BY MakeTree DEF GoodMount

LEMMA MountUpdate ==
    ASSUME NEW t, GoodMount(t), NEW X
    PROVE  /\ [t EXCEPT !.files = X] = [dirs |-> t.dirs, files |-> X]
           /\ [t EXCEPT !.dirs = X] = [dirs |-> X, files |-> t.files]
BY RecordUpdate DEF GoodMount

LEMMA MountNodes ==
    ASSUME NEW t, GoodMount(t)
    PROVE  /\ GoodTree(t) /\ RecordsPlaced(t.files) /\ DOMAIN t.files = Files(t)
           /\ t.dirs \subseteq Paths /\ Files(t) \subseteq Paths /\ Nodes(t) \subseteq Paths
           /\ Root \in t.dirs /\ Files(t) \cap t.dirs = {}
           /\ \A p \in Nodes(t) : p # Root => parentPath(p) \in t.dirs
           /\ Nodes(t) = t.dirs \cup Files(t)
BY TreeNodes DEF GoodMount, Files, Nodes

LEMMA ParentDirectory ==
    ASSUME NEW t, GoodTree(t), NEW path \in Paths, path # Root, parentOk(t, path)
    PROVE  parentPath(path) \in t.dirs
<1>1. CASE Len(path) > 1
  BY <1>1 DEF parentOk
<1>2. CASE ~(Len(path) > 1)
  <2>1. Len(parentPath(path)) = Len(path) - 1 /\ Len(path) \in Nat \ {0} /\ parentPath(path) \in Paths
    BY ParentFacts
  <2>2. Len(parentPath(path)) = 0
    BY <1>2, <2>1
  <2> QED
    BY <2>1, <2>2, RootPath, TreeNodes
<1> QED
  BY <1>1, <1>2

LEMMA DirectoryIs ==
    ASSUME NEW t, GoodTree(t), NEW path \in Paths
    PROVE  isDirectory(t, path) <=> path \in t.dirs
BY NothingBelow DEF isDirectory, pathHasChildren

LEMMA PutFileKeeps ==
    ASSUME NEW t, GoodMount(t), NEW path \in Paths, path \notin t.dirs, path # Root, parentOk(t, path)
    PROVE  GoodMount([t EXCEPT !.files = Over([p \in {path} |-> Record(Empty, FALSE, p)], @)])
<1> DEFINE N == [p \in {path} |-> Record(Empty, FALSE, p)]
           F == Over(N, t.files)
<1>1. DOMAIN N = {path} /\ N[path] = Record(Empty, FALSE, path)
  OBVIOUS
<1> HIDE DEF N
<1>2. /\ DOMAIN F = {path} \cup Files(t) /\ F[path] = N[path]
      /\ \A p \in Files(t) : p # path => F[p] = t.files[p]
  <2>1. PICK G : G = t.files
    OBVIOUS
  <2>2. F = Over(N, G)
    BY <2>1
  <2> HIDE DEF F
  <2>3. DOMAIN F = DOMAIN N \cup DOMAIN G /\ (\A x \in DOMAIN N : F[x] = N[x])
        /\ \A x \in DOMAIN G : x \notin DOMAIN N => F[x] = G[x]
    BY <2>2 DEF Over
  <2> QED
    BY <1>1, <2>1, <2>3 DEF Files
<1> HIDE DEF F
<1>6. \A p \in Files(t) : IsRecord(t.files[p], p)
  BY MountNodes DEF RecordsPlaced
<1>8. F[path] = [bytes |-> Empty, fallback |-> FALSE, path |-> path]
  BY <1>1, <1>2 DEF Record
<1>7. IsRecord(F[path], path)
  BY <1>8, OwnRecord
<1>3. RecordsPlaced(F)
  BY <1>2, <1>6, <1>7 DEF RecordsPlaced
<1>4. parentPath(path) \in t.dirs
  BY MountNodes, ParentDirectory
<1>5. GoodMount([dirs |-> t.dirs, files |-> F])
  BY <1>2, <1>3, <1>4, MountNodes, MakeMount
<1> QED
  BY <1>5, MountUpdate DEF F, N

LEMMA MakeDirectoryKeeps ==
    ASSUME NEW t, GoodMount(t), NEW path \in Paths, path \notin Nodes(t), parentOk(t, path)
    PROVE  GoodMount([t EXCEPT !.dirs = @ \cup {path}])
<1>1. path # Root /\ parentPath(path) \in t.dirs
  BY MountNodes, ParentDirectory
<1>2. GoodMount([dirs |-> t.dirs \cup {path}, files |-> t.files])
  BY <1>1, MountNodes, MakeMount
<1> QED
  BY <1>2, MountUpdate

LEMMA DropFileKeeps ==
    ASSUME NEW t, GoodMount(t), NEW path
    PROVE  GoodMount([t EXCEPT !.files = Restrict(@, DOMAIN @ \ {path})])
<1> DEFINE F == Restrict(t.files, DOMAIN t.files \ {path})
<1>1. DOMAIN F = Files(t) \ {path} /\ \A p \in DOMAIN F : F[p] = t.files[p]
  BY RestrictFacts DEF Files
<1> HIDE DEF F
<1>2. RecordsPlaced(F)
  BY <1>1, MountNodes DEF RecordsPlaced
<1>3. GoodMount([dirs |-> t.dirs, files |-> F])
  BY <1>1, <1>2, MountNodes, MakeMount
<1> QED
  BY <1>3, MountUpdate DEF F

LEMMA DropDirectoryKeeps ==
    ASSUME NEW t, GoodMount(t), NEW path \in Paths, path # Root, ~pathHasChildren(t, path)
    PROVE  GoodMount([t EXCEPT !.dirs = @ \ {path}])
<1>1. ASSUME NEW p \in Nodes(t), p # Root, p # path PROVE parentPath(p) # path
  <2>1. p \in Paths /\ (isChildPath(path, p) <=> Within(path, parentPath(p)))
    BY <1>1, MountNodes, ParentWithin
  <2> QED
    BY <2>1 DEF pathHasChildren, Within
<1>2. GoodMount([dirs |-> t.dirs \ {path}, files |-> t.files])
  BY <1>1, MountNodes, MakeMount
<1> QED
  BY <1>2, MountUpdate

LEMMA MoveFileKeeps ==
    ASSUME NEW t, GoodMount(t), NEW from \in Files(t), NEW to \in Paths, to # Root,
           to \notin t.dirs, parentPath(to) \in t.dirs
    PROVE  GoodMount([t EXCEPT !.files =
                        [p \in (Files(t) \ {from}) \cup {to} |->
                           IF p = to THEN Record(@[from].bytes, FALSE, to) ELSE @[p]]])
<1> DEFINE F == [p \in (Files(t) \ {from}) \cup {to} |->
                   IF p = to THEN Record(t.files[from].bytes, FALSE, to) ELSE t.files[p]]
<1>1. /\ DOMAIN F = (Files(t) \ {from}) \cup {to}
      /\ F[to] = Record(t.files[from].bytes, FALSE, to)
      /\ \A p \in Files(t) \ {from} : p # to => F[p] = t.files[p]
  OBVIOUS
<1> HIDE DEF F
<1>4. \A p \in Files(t) : IsRecord(t.files[p], p)
  BY MountNodes DEF RecordsPlaced
<1>6. PICK b : b = t.files[from].bytes
  OBVIOUS
<1>7. F[to] = [bytes |-> b, fallback |-> FALSE, path |-> to]
  BY <1>1, <1>6 DEF Record
<1>5. IsRecord(F[to], to)
  BY <1>7, OwnRecord
<1>2. RecordsPlaced(F)
  BY <1>1, <1>4, <1>5 DEF RecordsPlaced
<1>3. GoodMount([dirs |-> t.dirs, files |-> F])
  BY <1>1, <1>2, MountNodes, MakeMount
<1> QED
  BY <1>3, MountUpdate DEF F

LEMMA WriteRecordKeeps ==
    ASSUME NEW t, GoodMount(t), NEW at, NEW bytes
    PROVE  GoodMount([t EXCEPT !.files[at] = Record(bytes, FALSE, @.path)])
<1> DEFINE F == [t.files EXCEPT ![at] = Record(bytes, FALSE, t.files[at].path)]
<1>1. DOMAIN F = Files(t)
  BY DEF Files
<1>2. \A p \in Files(t) : F[p] = IF p = at THEN Record(bytes, FALSE, t.files[at].path) ELSE t.files[p]
  BY DEF Files
<1>3. [t EXCEPT !.files[at] = Record(bytes, FALSE, @.path)] = [t EXCEPT !.files = F]
  OBVIOUS
<1> HIDE DEF F
<1>4. \A p \in Files(t) : t.files[p].path = p
  BY MountNodes, RecordPath DEF RecordsPlaced
<1>7. \A p \in Files(t) : IsRecord(t.files[p], p)
  BY MountNodes DEF RecordsPlaced
<1>8. at \in Files(t) => F[at] = [bytes |-> bytes, fallback |-> FALSE, path |-> at]
  BY <1>2, <1>4 DEF Record
<1>9. at \in Files(t) => IsRecord(F[at], at)
  BY <1>8, OwnRecord
<1>5. RecordsPlaced(F)
  BY <1>1, <1>2, <1>7, <1>9 DEF RecordsPlaced
<1>6. GoodMount([dirs |-> t.dirs, files |-> F])
  BY <1>1, <1>5, MountNodes, MakeMount
<1> QED
  BY <1>3, <1>6, MountUpdate

LEMMA MovePath ==
    ASSUME NEW p \in Paths, NEW from \in Paths, NEW to \in Paths
    PROVE  Move(p, from, to) \in Paths
BY MovedFacts DEF Move

\* The tree a directory's rename makes.
MovedFiles(t, from, to) ==
    [p \in {Move(f, from, to) : f \in Files(t)} |->
       [t.files[CHOOSE f \in Files(t) : Move(f, from, to) = p] EXCEPT !.path = Move(@, from, to)]]

LEMMA MovedRecords ==
    ASSUME NEW t, GoodMount(t), NEW from, NEW to
    PROVE  RecordsPlaced(MovedFiles(t, from, to))
<1> DEFINE F == MovedFiles(t, from, to)
<1> SUFFICES ASSUME NEW p \in DOMAIN F PROVE IsRecord(F[p], p)
  BY DEF RecordsPlaced
<1>1. p \in {Move(f, from, to) : f \in Files(t)}
  BY DEF MovedFiles
<1>2. PICK g : g = CHOOSE f \in Files(t) : Move(f, from, to) = p
  OBVIOUS
<1>3. g \in Files(t) /\ Move(g, from, to) = p
  BY <1>1, <1>2
<1>4. F[p] = [t.files[g] EXCEPT !.path = Move(@, from, to)]
  BY <1>1, <1>2 DEF MovedFiles
<1>5. IsRecord(t.files[g], g)
  BY <1>3, MountNodes DEF RecordsPlaced
<1>6. PICK r : r = t.files[g]
  OBVIOUS
<1>7. r = [bytes |-> r.bytes, fallback |-> r.fallback, path |-> g] /\ r.fallback \in BOOLEAN
  BY <1>5, <1>6 DEF IsRecord, Record
<1>8. F[p] = [r EXCEPT !.path = Move(r.path, from, to)] /\ r.path = g
  BY <1>4, <1>6, <1>7
<1>9. F[p] = [bytes |-> r.bytes, fallback |-> r.fallback, path |-> p]
  BY <1>3, <1>7, <1>8
<1> HIDE DEF F
<1> QED
  BY <1>7, <1>9 DEF IsRecord, Record

LEMMA MoveTreeKeeps ==
    ASSUME NEW t, GoodMount(t), NEW from \in t.dirs, NEW to \in Paths,
           from # Root, to # Root, from # to, to \notin Files(t), parentPath(to) \in t.dirs,
           ~pathHasChildren(t, to), ~isChildPath(from, to)
    PROVE  GoodMount([dirs |-> {Move(d, from, to) : d \in t.dirs \ {to}}, files |-> MovedFiles(t, from, to)])
<1> DEFINE u == [t EXCEPT !.dirs = @ \ {to}]
<1>1. GoodMount(u)
  BY DropDirectoryKeeps
<1>2. u.dirs = t.dirs \ {to} /\ u.files = t.files
  BY MountUpdate
<1> HIDE DEF u
<1>3. Files(u) = Files(t) /\ Nodes(u) = (t.dirs \ {to}) \cup Files(t)
  BY <1>2 DEF Files, Nodes
<1>4. parentPath(to) # to
  <2>1. Len(parentPath(to)) = Len(to) - 1 /\ Len(to) \in Nat \ {0}
    BY ParentFacts
  <2> QED
    BY <2>1
<1>5. Keeps(u, renameDirectory(u, from, to))
  BY <1>1, <1>2, <1>3, <1>4, MountNodes, RenameDirectoryKeeps
<1> DEFINE D == {Move(d, from, to) : d \in t.dirs \ {to}}
           F == MovedFiles(t, from, to)
<1>6. PICK v : v = renameDirectory(u, from, to).tree
  OBVIOUS
<1>7. v.dirs = D
  BY <1>2, <1>6 DEF renameDirectory, Done, Move
<1>8. Files(v) = {Move(f, from, to) : f \in Files(t)}
  BY <1>3, <1>6 DEF renameDirectory, Done, Move, Files
<1>9. DOMAIN F = {Move(f, from, to) : f \in Files(t)}
  BY DEF MovedFiles
<1>10. GoodTree(v)
  BY <1>5, <1>6 DEF Keeps
<1>11. RecordsPlaced(F)
  BY MovedRecords
<1> HIDE DEF D, F
<1>12. /\ D \subseteq Paths /\ DOMAIN F \subseteq Paths
       /\ Root \in D /\ DOMAIN F \cap D = {}
       /\ \A p \in D \cup DOMAIN F : p # Root => parentPath(p) \in D
  BY <1>7, <1>8, <1>9, <1>10, TreeNodes DEF Nodes
<1> QED
  BY <1>11, <1>12, MakeMount DEF D, F

-----------------------------------------------------------------------------
(* Export and import *)

\* The records of a tree's own files.
Own(t) == {p \in Files(t) : ~t.files[p].fallback}

LEMMA ExportFacts ==
    ASSUME NEW t, GoodMount(t)
    PROVE  /\ exportSnapshot(t) = [dirs |-> t.dirs, files |-> [p \in Own(t) |-> t.files[p].bytes]]
           /\ GoodTree(exportSnapshot(t))
<1> DEFINE own == {r \in Range(t.files) : ~r.fallback}
           at(p) == CHOOSE r \in own : r.path = p
<1>1. \A p \in Files(t) : t.files[p].path = p /\ t.files[p] \in Range(t.files)
  BY MountNodes, RecordPath DEF RecordsPlaced, Range
<1>2. \A r \in Range(t.files) : \E p \in Files(t) : r = t.files[p]
  BY DEF Range, Files
<1>3. {r.path : r \in own} = Own(t)
  BY <1>1, <1>2 DEF Own
<1>4. ASSUME NEW p \in Own(t) PROVE at(p) = t.files[p]
  <2>1. t.files[p] \in own /\ t.files[p].path = p
    BY <1>1 DEF Own
  <2>2. \A r \in own : r.path = p => r = t.files[p]
    BY <1>1, <1>2
  <2> QED
    BY <2>1, <2>2
<1>5. t.dirs \cup {Root} = t.dirs
  BY MountNodes
<1>6. exportSnapshot(t) = [dirs |-> t.dirs \cup {Root}, files |-> [p \in {r.path : r \in own} |-> at(p).bytes]]
  BY DEF exportSnapshot
<1> HIDE DEF own, at
<1>7. [p \in {r.path : r \in own} |-> at(p).bytes] = [p \in Own(t) |-> t.files[p].bytes]
  BY <1>3, <1>4
<1>8. exportSnapshot(t) = [dirs |-> t.dirs, files |-> [p \in Own(t) |-> t.files[p].bytes]]
  BY <1>5, <1>6, <1>7
<1> DEFINE F == [p \in Own(t) |-> t.files[p].bytes]
<1>9. DOMAIN F = Own(t) /\ Own(t) \subseteq Files(t)
  BY DEF Own
<1> HIDE DEF F
<1>10. GoodTree([dirs |-> t.dirs, files |-> F])
  BY <1>9, MountNodes, MakeTree
<1> QED
  BY <1>8, <1>10 DEF F

\* The package's files have room in the workspace: none is where it has a
\* directory, and each is in one.
PackageFits ==
    /\ PackageFiles \cap Snapshot.dirs = {}
    /\ \A p \in PackageFiles : parentPath(p) \in Snapshot.dirs

LEMMA MountedSnapshot ==
    ASSUME PackageFits
    PROVE  /\ GoodMount(writableWorkspaceMount(Snapshot))
           /\ exportSnapshot(writableWorkspaceMount(Snapshot)) = Snapshot
<1> DEFINE F == [p \in Files(Snapshot) \cup PackageFiles |->
                  IF p \in Files(Snapshot) THEN Record(Snapshot.files[p], FALSE, p)
                  ELSE Record("package", TRUE, p)]
           w == [dirs |-> Snapshot.dirs, files |-> F]
<1>1. writableWorkspaceMount(Snapshot) = w
  BY DEF writableWorkspaceMount
<1>2. /\ DOMAIN F = Files(Snapshot) \cup PackageFiles
      /\ \A p \in Files(Snapshot) : F[p] = Record(Snapshot.files[p], FALSE, p)
      /\ \A p \in PackageFiles : p \notin Files(Snapshot) => F[p] = Record("package", TRUE, p)
  OBVIOUS
<1> HIDE DEF F
<1>3. /\ \A p \in Files(Snapshot) : IsRecord(F[p], p) /\ ~F[p].fallback /\ F[p].bytes = Snapshot.files[p]
      /\ \A p \in PackageFiles : p \notin Files(Snapshot) => IsRecord(F[p], p) /\ F[p].fallback
  <2>1. ASSUME NEW p \in Files(Snapshot)
        PROVE  IsRecord(F[p], p) /\ ~F[p].fallback /\ F[p].bytes = Snapshot.files[p]
    <3>1. PICK b : b = Snapshot.files[p]
      OBVIOUS
    <3>2. F[p] = [bytes |-> b, fallback |-> FALSE, path |-> p]
      BY <1>2, <3>1 DEF Record
    <3> QED
      BY <3>1, <3>2, OwnRecord
  <2>2. ASSUME NEW p \in PackageFiles, p \notin Files(Snapshot)
        PROVE  IsRecord(F[p], p) /\ F[p].fallback
    <3>1. F[p] = [bytes |-> "package", fallback |-> TRUE, path |-> p]
      BY <1>2, <2>2 DEF Record
    <3> QED
      BY <3>1, PackageRecord
  <2> QED
    BY <2>1, <2>2
<1>4. RecordsPlaced(F)
  BY <1>2, <1>3 DEF RecordsPlaced
<1>5. GoodTree(Snapshot)
  BY ConstantFacts
<1>6. GoodMount(w)
  BY <1>2, <1>4, <1>5, ConstantFacts, TreeNodes, MakeMount DEF PackageFits, Nodes
<1>7. Own(w) = Files(Snapshot)
  BY <1>2, <1>3 DEF Own, Files
<1>8. exportSnapshot(w) = [dirs |-> Snapshot.dirs, files |-> [p \in Files(Snapshot) |-> F[p].bytes]]
  BY <1>6, <1>7, ExportFacts
<1>9. [p \in Files(Snapshot) |-> F[p].bytes] = Snapshot.files
  <2>1. [p \in Files(Snapshot) |-> F[p].bytes] = [p \in Files(Snapshot) |-> Snapshot.files[p]]
    BY <1>3
  <2> QED
    BY <2>1, ConstantFacts
<1>10. Snapshot = [dirs |-> Snapshot.dirs, files |-> Snapshot.files]
  BY <1>5 DEF GoodTree, IsTree
<1> QED
  BY <1>1, <1>6, <1>8, <1>9, <1>10

LEMMA RecordsOver ==
    ASSUME NEW f, NEW g, RecordsPlaced(f), RecordsPlaced(g)
    PROVE  RecordsPlaced(Over(f, g))
<1>1. PICK h : h = Over(f, g)
  OBVIOUS
<1>2. RecordsPlaced(h)
  BY <1>1 DEF RecordsPlaced, Over
<1> QED
  BY <1>1, <1>2

\* The workspace after a child's snapshot was imported and the files that are open
\* have been rebound, if they and the package's files find their directories.
LEMMA ImportKeeps ==
    ASSUME NEW t, GoodMount(t), NEW u, GoodTree(u), NEW P, P \subseteq Paths,
           \A p \in P : p \notin u.dirs /\ parentPath(p) \in u.dirs,
           \A p \in Files(t) : t.files[p].fallback => p \notin u.dirs /\ parentPath(p) \in u.dirs
    PROVE  GoodMount([dirs |-> u.dirs,
                      files |-> Over(Over([p \in Files(u) |-> Record(u.files[p], FALSE, p)],
                                          Restrict(t.files, {p \in Files(t) : t.files[p].fallback})),
                                     [p \in P |-> Record(Empty, FALSE, p)])])
<1> DEFINE B == {p \in Files(t) : t.files[p].fallback}
<1>1. PICK S : S = [p \in Files(u) |-> Record(u.files[p], FALSE, p)]
  OBVIOUS
<1>2. PICK R : R = Restrict(t.files, B)
  OBVIOUS
<1>3. PICK E : E = [p \in P |-> Record(Empty, FALSE, p)]
  OBVIOUS
<1>4. DOMAIN S = Files(u) /\ RecordsPlaced(S)
  <2>1. DOMAIN S = Files(u)
    BY <1>1
  <2>2. ASSUME NEW p \in Files(u) PROVE IsRecord(S[p], p)
    <3>1. PICK b : b = u.files[p]
      OBVIOUS
    <3>2. S[p] = [bytes |-> b, fallback |-> FALSE, path |-> p]
      BY <1>1, <3>1 DEF Record
    <3> QED
      BY <3>2, OwnRecord
  <2> QED
    BY <2>1, <2>2 DEF RecordsPlaced
<1>5. DOMAIN R = B /\ RecordsPlaced(R)
  <2>1. DOMAIN R = B /\ \A p \in B : R[p] = t.files[p]
    BY <1>2 DEF Restrict
  <2>2. \A p \in Files(t) : IsRecord(t.files[p], p)
    BY MountNodes DEF RecordsPlaced
  <2> QED
    BY <2>1, <2>2 DEF RecordsPlaced
<1>6. DOMAIN E = P /\ RecordsPlaced(E)
  <2>1. DOMAIN E = P
    BY <1>3
  <2>2. ASSUME NEW p \in P PROVE IsRecord(E[p], p)
    <3>1. E[p] = [bytes |-> Empty, fallback |-> FALSE, path |-> p]
      BY <1>3 DEF Record
    <3> QED
      BY <3>1, OwnRecord
  <2> QED
    BY <2>1, <2>2 DEF RecordsPlaced
<1>7. PICK F : F = Over(Over(S, R), E)
  OBVIOUS
<1>8. DOMAIN F = Files(u) \cup B \cup P
  <2>1. PICK G : G = Over(S, R)
    OBVIOUS
  <2>2. DOMAIN G = Files(u) \cup B
    BY <2>1, <1>4, <1>5 DEF Over
  <2>3. F = Over(G, E)
    BY <1>7, <2>1
  <2> QED
    BY <2>2, <2>3, <1>6 DEF Over
<1>9. RecordsPlaced(F)
  BY <1>4, <1>5, <1>6, <1>7, RecordsOver
<1>10. GoodMount([dirs |-> u.dirs, files |-> F])
  BY <1>8, <1>9, MountNodes, TreeNodes, MakeMount DEF Nodes
<1> QED
  BY <1>1, <1>2, <1>3, <1>7, <1>10

-----------------------------------------------------------------------------
(* Steps *)

\* A runtime, field by field.
State(w, m, o, c, d) == [workspace |-> w, tmp |-> m, open |-> o, cwd |-> c, dirty |-> d]

LEMMA FsState ==
    ASSUME Runtime(fs)
    PROVE  fs = State(fs.workspace, fs.tmp, fs.open, fs.cwd, fs.dirty)
BY DEF Runtime, State

\* What becomes of the dirty flag.
Marked(mount) == fs.dirty \/ mount = "workspace"

LEMMA ChangedIs ==
    ASSUME Runtime(fs), NEW mount \in {"workspace", "tmp"}, NEW t
    PROVE  /\ mount = "workspace" => Changed(mount, t) = State(t, fs.tmp, fs.open, fs.cwd, Marked(mount))
           /\ mount = "tmp" => Changed(mount, t) = State(fs.workspace, t, fs.open, fs.cwd, Marked(mount))
<1>1. PICK w, m, o, c, d : fs = State(w, m, o, c, d) /\ w = fs.workspace /\ m = fs.tmp /\ o = fs.open /\ c = fs.cwd /\ d = fs.dirty
  BY FsState
<1>2. PICK e : e = Marked(mount)
  OBVIOUS
<1>3. Changed(mount, t) = [[fs EXCEPT ![mount] = t] EXCEPT !.dirty = e]
  BY <1>2 DEF Changed, Marked
<1>4. PICK s : s = [fs EXCEPT ![mount] = t]
  OBVIOUS
<1>5. ASSUME mount = "workspace" PROVE Changed(mount, t) = State(t, m, o, c, e)
  <2>1. s = State(t, m, o, c, d)
    <3>1. s = [fs EXCEPT !.workspace = t]
      BY <1>4, <1>5
    <3> QED
      BY <3>1, <1>1 DEF State
  <2>2. Changed(mount, t) = [s EXCEPT !.dirty = e]
    BY <1>3, <1>4
  <2> QED
    BY <2>1, <2>2 DEF State
<1>6. ASSUME mount = "tmp" PROVE Changed(mount, t) = State(w, t, o, c, e)
  <2>1. s = State(w, t, o, c, d)
    <3>1. s = [fs EXCEPT !.tmp = t]
      BY <1>4, <1>6
    <3> QED
      BY <3>1, <1>1 DEF State
  <2>2. Changed(mount, t) = [s EXCEPT !.dirty = e]
    BY <1>3, <1>4
  <2> QED
    BY <2>1, <2>2 DEF State
<1> QED
  BY <1>1, <1>2, <1>5, <1>6

LEMMA ChangedRuntime ==
    ASSUME Runtime(fs), NEW mount \in {"workspace", "tmp"}, mount = "workspace" => writable,
           NEW t, GoodMount(t), NEW o, HandlesOk(o)
    PROVE  Becomes([Changed(mount, t) EXCEPT !.open = o])
<1>1. PICK s : s = [Changed(mount, t) EXCEPT !.open = o]
  OBVIOUS
<1>2. CASE mount = "workspace"
  <2>1. s = State(t, fs.tmp, o, fs.cwd, Marked(mount))
    <3>1. PICK r, m, p, c, e : r = State(t, m, p, c, e) /\ r = Changed(mount, t)
                               /\ m = fs.tmp /\ c = fs.cwd /\ e = Marked(mount)
      BY <1>2, ChangedIs
    <3>2. s = [r EXCEPT !.open = o]
      BY <1>1, <3>1
    <3>3. s = State(t, m, o, c, e)
      BY <3>1, <3>2 DEF State
    <3> QED
      BY <3>1, <3>3
  <2>2. Marked(mount)
    BY <1>2 DEF Marked
  <2> QED
    <3>1. PICK e \in BOOLEAN : e = Marked(mount)
      BY DEF Marked
    <3>2. s = State(t, fs.tmp, o, fs.cwd, e) /\ e
      BY <2>1, <2>2, <3>1
    <3>3. s.dirty = e /\ s.workspace = t /\ s.tmp = fs.tmp /\ s.open = o /\ s.cwd = fs.cwd
      BY <3>2 DEF State
    <3>4. s = [workspace |-> s.workspace, tmp |-> s.tmp, open |-> s.open, cwd |-> s.cwd, dirty |-> s.dirty]
      BY <3>2, <3>3 DEF State
    <3>5. Runtime(s)
      BY <1>2, <3>3, <3>4 DEF Runtime
    <3> QED
      BY <1>1, <3>2, <3>3, <3>5 DEF Becomes
<1>3. CASE mount = "tmp"
  <2>1. s = State(fs.workspace, t, o, fs.cwd, Marked(mount))
    <3>1. PICK r, w, p, c, e : r = State(w, t, p, c, e) /\ r = Changed(mount, t)
                               /\ w = fs.workspace /\ c = fs.cwd /\ e = Marked(mount)
      BY <1>3, ChangedIs
    <3>2. s = [r EXCEPT !.open = o]
      BY <1>1, <3>1
    <3>3. s = State(w, t, o, c, e)
      BY <3>1, <3>2 DEF State
    <3> QED
      BY <3>1, <3>3
  <2>2. Marked(mount) <=> fs.dirty
    BY <1>3 DEF Marked
  <2> QED
    BY <1>1, <1>3, <2>1, <2>2 DEF Runtime, Becomes, State, Marked
<1> QED
  BY <1>2, <1>3

LEMMA ChangedOpen ==
    ASSUME Runtime(fs), NEW mount \in {"workspace", "tmp"}, NEW t
    PROVE  /\ [Changed(mount, t) EXCEPT !.open = fs.open] = Changed(mount, t)
           /\ Changed(mount, t).open = fs.open
BY DEF Runtime, Changed

LEMMA OpenBecomes ==
    ASSUME Runtime(fs), NEW o, HandlesOk(o)
    PROVE  Becomes([fs EXCEPT !.open = o])
<1>1. [fs EXCEPT !.open = o] =
          [workspace |-> fs.workspace, tmp |-> fs.tmp, open |-> o, cwd |-> fs.cwd, dirty |-> fs.dirty]
  BY DEF Runtime
<1> QED
  BY <1>1 DEF Runtime, Becomes

LEMMA MountGood ==
    ASSUME Runtime(fs), NEW mount \in {"workspace", "tmp"}, mount = "workspace" => writable
    PROVE  GoodMount(fs[mount])
BY DEF Runtime

LEMMA StepInvariant ==
    ASSUME WasiInv, NEW s, Becomes(s), TreeBecomes(s)
    PROVE  WasiInv'
<1>1. /\ fs' = s /\ writable' = writable /\ stored' = stored /\ phase' = phase /\ phase = "running"
  BY DEF TreeBecomes
<1>2. Runtime(fs)'
  BY <1>1 DEF Becomes, Runtime
<1>3. writable' /\ ~fs'.dirty => stored' = exportSnapshot(fs'.workspace)
  BY <1>1 DEF Becomes, WasiInv
<1> QED
  BY <1>1, <1>2, <1>3 DEF WasiInv, RunKept

-----------------------------------------------------------------------------
(* Descriptors *)

LEMMA HandlePath ==
    ASSUME NEW d, IsHandle(d), NEW p \in Paths
    PROVE  IsHandle([d EXCEPT !.path = p]) /\ [d EXCEPT !.path = p].at = d.at /\ [d EXCEPT !.path = p].path = p
BY DEF IsHandle, Handles

LEMMA HandleAt ==
    ASSUME NEW d, IsHandle(d), NEW a \in Paths
    PROVE  IsHandle([d EXCEPT !.at = a]) /\ [d EXCEPT !.at = a].path = d.path /\ [d EXCEPT !.at = a].at = a
BY DEF IsHandle, Handles

LEMMA HandleBoth ==
    ASSUME NEW d, IsHandle(d), NEW p \in Paths, NEW a \in Paths
    PROVE  IsHandle([d EXCEPT !.path = p, !.at = a])
BY DEF IsHandle, Handles

LEMMA AddedHandle ==
    ASSUME NEW o, HandlesOk(o), NEW fd, NEW d, IsHandle(d)
    PROVE  HandlesOk(Over(o, [slot \in {fd} |-> d]))
<1>1. PICK h : h = Over(o, [slot \in {fd} |-> d])
  OBVIOUS
<1>2. h = [x \in DOMAIN h |-> h[x]] /\ \A x \in DOMAIN h : IsHandle(h[x])
  BY <1>1 DEF Over, HandlesOk
<1> QED
  BY <1>1, <1>2 DEF HandlesOk

LEMMA ClosedHandle ==
    ASSUME NEW o, HandlesOk(o), NEW fd
    PROVE  HandlesOk(Restrict(o, DOMAIN o \ {fd}))
BY DEF HandlesOk, Restrict

LEMMA GoneHandles ==
    ASSUME NEW o, HandlesOk(o), NEW tree, NEW path
    PROVE  HandlesOk(Gone(o, tree, path))
<1>1. \A fd \in DOMAIN o : IsHandle(o[fd]) /\ IsHandle([o[fd] EXCEPT !.at = Nowhere])
  BY HandleAt, NowherePath DEF HandlesOk
<1> QED
  BY <1>1 DEF Gone, HandlesOk

LEMMA DetachedHandles ==
    ASSUME NEW o, HandlesOk(o), NEW mount, NEW kind, NEW path
    PROVE  HandlesOk(Detached(o, mount, kind, path))
<1>1. \A fd \in DOMAIN o : IsHandle(o[fd]) /\ IsHandle([o[fd] EXCEPT !.path = Nowhere])
  BY HandlePath, NowherePath DEF HandlesOk
<1> QED
  BY <1>1 DEF Detached, HandlesOk

LEMMA RemovedHandles ==
    ASSUME NEW o, HandlesOk(o), NEW mount, NEW kind, NEW path
    PROVE  HandlesOk(Removed(o, mount, kind, path))
<1>1. CASE mount = "workspace"
  BY <1>1, GoneHandles, DetachedHandles DEF Removed
<1>2. CASE mount # "workspace"
  BY <1>2, GoneHandles DEF Removed
<1> QED
  BY <1>1, <1>2

\* What renameFile and movedTree make of the descriptors.
FileMoved(o, mount, from, to) ==
    LET Holds(d, path) == d.tree = mount /\ d.kind = "file" /\ d.at = path
    IN  [fd \in DOMAIN o |->
           IF Holds(o[fd], from) THEN [o[fd] EXCEPT !.path = to, !.at = to]
           ELSE IF Holds(o[fd], to) THEN [o[fd] EXCEPT !.path = Nowhere, !.at = Nowhere]
           ELSE o[fd]]

HandleMoves(d, mount, from, to) ==
    [d EXCEPT !.path = IF mount = "tmp" \/ d.mount = mount THEN Move(@, from, to) ELSE @,
              !.at = IF d.tree = mount THEN Move(@, from, to) ELSE @]

TreeMoved(o, mount, from, to) == [fd \in DOMAIN o |-> HandleMoves(o[fd], mount, from, to)]

LEMMA FileMovedHandles ==
    ASSUME NEW o, HandlesOk(o), NEW mount, NEW from \in Paths, NEW to \in Paths
    PROVE  HandlesOk(FileMoved(o, mount, from, to))
<1>1. \A fd \in DOMAIN o : /\ IsHandle(o[fd])
                           /\ IsHandle([o[fd] EXCEPT !.path = to, !.at = to])
                           /\ IsHandle([o[fd] EXCEPT !.path = Nowhere, !.at = Nowhere])
  BY HandleBoth, NowherePath DEF HandlesOk
<1> QED
  BY <1>1 DEF FileMoved, HandlesOk

LEMMA HandleMovesIs ==
    ASSUME NEW d, IsHandle(d), NEW mount, NEW from \in Paths, NEW to \in Paths
    PROVE  IsHandle(HandleMoves(d, mount, from, to))
<1>1. PICK p : p = IF mount = "tmp" \/ d.mount = mount THEN Move(d.path, from, to) ELSE d.path
  OBVIOUS
<1>2. PICK a : a = IF d.tree = mount THEN Move(d.at, from, to) ELSE d.at
  OBVIOUS
<1>3. p \in Paths /\ a \in Paths
  BY <1>1, <1>2, HandleFields, MovePath
<1>4. HandleMoves(d, mount, from, to) = [d EXCEPT !.path = p, !.at = a]
  BY <1>1, <1>2 DEF HandleMoves
<1>5. IsHandle([d EXCEPT !.path = p, !.at = a])
  BY <1>3, HandleBoth
<1> QED
  BY <1>4, <1>5

LEMMA TreeMovedHandles ==
    ASSUME NEW o, HandlesOk(o), NEW mount, NEW from \in Paths, NEW to \in Paths
    PROVE  HandlesOk(TreeMoved(o, mount, from, to))
<1>1. \A fd \in DOMAIN o : IsHandle(HandleMoves(o[fd], mount, from, to))
  BY HandleMovesIs DEF HandlesOk
<1> QED
  BY <1>1 DEF TreeMoved, HandlesOk

-----------------------------------------------------------------------------
(* The calls keep the invariant *)

LEMMA BecomesOpen ==
    ASSUME NEW s, Becomes(s), NEW o, HandlesOk(o)
    PROVE  Becomes([s EXCEPT !.open = o])
<1>1. PICK w, m, p, c, d : s = State(w, m, p, c, d)
  BY DEF Becomes, Runtime, State
<1>2. PICK r : r = [s EXCEPT !.open = o]
  OBVIOUS
<1>3. r = State(w, m, o, c, d)
  BY <1>1, <1>2 DEF State
<1>4. /\ s.workspace = w /\ s.tmp = m /\ s.cwd = c /\ s.dirty = d
      /\ r.workspace = w /\ r.tmp = m /\ r.open = o /\ r.cwd = c /\ r.dirty = d
  BY <1>1, <1>3 DEF State
<1>5. r = [workspace |-> r.workspace, tmp |-> r.tmp, open |-> r.open, cwd |-> r.cwd, dirty |-> r.dirty]
  BY <1>3, <1>4 DEF State
<1>6. Runtime(r)
  BY <1>4, <1>5 DEF Becomes, Runtime
<1> QED
  BY <1>2, <1>4, <1>6 DEF Becomes

LEMMA FsBecomes == ASSUME Runtime(fs) PROVE Becomes(fs)
BY DEF Runtime, Becomes

LEMMA OpenedInv ==
    ASSUME WasiInv, NEW s, Becomes(s), NEW fd, NEW d, IsHandle(d),
           TreeBecomes([s EXCEPT !.open = Over(@, [slot \in {fd} |-> d])])
    PROVE  WasiInv'
<1>1. PICK p : p = s.open /\ HandlesOk(p)
  BY DEF Becomes, Runtime
<1>2. PICK o : o = Over(p, [slot \in {fd} |-> d])
  OBVIOUS
<1>3. HandlesOk(o)
  BY <1>1, <1>2, AddedHandle
<1>4. TreeBecomes([s EXCEPT !.open = o])
  BY <1>1, <1>2
<1>5. Becomes([s EXCEPT !.open = o])
  BY <1>3, BecomesOpen
<1> QED
  BY <1>4, <1>5, StepInvariant

LEMMA BecomesChanged ==
    ASSUME Runtime(fs), NEW mount \in {"workspace", "tmp"}, mount = "workspace" => writable,
           NEW t, GoodMount(t)
    PROVE  Becomes(Changed(mount, t))
<1>1. HandlesOk(fs.open)
  BY DEF Runtime
<1>2. Becomes([Changed(mount, t) EXCEPT !.open = fs.open])
  BY <1>1, ChangedRuntime
<1> QED
  BY <1>2, ChangedOpen

LEMMA OpenFileInv ==
    ASSUME WasiInv, NEW mount \in {"workspace", "tmp"}, mount = "workspace" => writable,
           NEW path \in Paths, NEW q, openFile(mount, path, q)
    PROVE  WasiInv'
<1>1. PICK t : t = fs[mount]
  OBVIOUS
<1>2. GoodMount(t) /\ Runtime(fs)
  BY <1>1, MountGood DEF WasiInv
<1>3. path \notin t.dirs /\ path # Root /\ parentOk(t, path)
  BY <1>1, <1>2, MountNodes, DirectoryIs DEF openFile
<1>4. PICK u : u = [t EXCEPT !.files = Over([p \in {path} |-> Record(Empty, FALSE, p)], @)]
  OBVIOUS
<1>5. GoodMount(u)
  BY <1>2, <1>3, <1>4, PutFileKeeps
<1>6. PICK s : s = IF path \notin Files(t) \/ "trunc" \in q THEN Changed(mount, u) ELSE fs
  OBVIOUS
<1>7. Becomes(s)
  BY <1>2, <1>5, <1>6, BecomesChanged, FsBecomes
<1>8. PICK m : m = IF mount = "workspace" THEN mount ELSE "none"
  OBVIOUS
<1>9. PICK d : d = [mount |-> m, tree |-> mount, kind |-> "file", path |-> path, at |-> path, may |-> "write" \in q]
  OBVIOUS
<1>10. IsHandle(d)
  BY <1>8, <1>9 DEF IsHandle, Handles
<1>11. PICK fd : fd = CHOOSE slot \in Slots : slot \notin DOMAIN fs.open
  OBVIOUS
<1>12. TreeBecomes([s EXCEPT !.open = Over(@, [slot \in {fd} |-> d])])
  BY <1>1, <1>4, <1>6, <1>8, <1>9, <1>11 DEF openFile, Opened
<1> QED
  BY <1>7, <1>10, <1>12, OpenedInv

LEMMA OpenDirectoryInv ==
    ASSUME WasiInv, NEW mount \in {"workspace", "tmp"}, NEW path \in Paths, NEW q, openDirectory(mount, path, q)
    PROVE  WasiInv'
<1>1. PICK d : d = [mount |-> mount, tree |-> mount, kind |-> "directory", path |-> path, at |-> path,
                    may |-> "write" \in q /\ (mount = "workspace" => writable)]
  OBVIOUS
<1>2. IsHandle(d)
  BY <1>1 DEF IsHandle, Handles
<1>3. PICK fd : fd = CHOOSE slot \in Slots : slot \notin DOMAIN fs.open
  OBVIOUS
<1>4. TreeBecomes([fs EXCEPT !.open = Over(@, [slot \in {fd} |-> d])])
  BY <1>1, <1>3 DEF openDirectory, Opened
<1>5. Becomes(fs)
  BY FsBecomes DEF WasiInv
<1> QED
  BY <1>2, <1>4, <1>5, OpenedInv

LEMMA OpenOtherInv ==
    ASSUME WasiInv, NEW mount \in {"root", "none"}, NEW tree \in {"workspace", "root"},
           NEW kind \in {"file", "directory"}, NEW path \in Paths,
           Opened(fs, mount, tree, kind, path, FALSE)
    PROVE  WasiInv'
<1>1. PICK d : d = [mount |-> mount, tree |-> tree, kind |-> kind, path |-> path, at |-> path, may |-> FALSE]
  OBVIOUS
<1>2. IsHandle(d)
  BY <1>1 DEF IsHandle, Handles
<1>3. PICK fd : fd = CHOOSE slot \in Slots : slot \notin DOMAIN fs.open
  OBVIOUS
<1>4. TreeBecomes([fs EXCEPT !.open = Over(@, [slot \in {fd} |-> d])])
  BY <1>1, <1>3 DEF Opened
<1>5. Becomes(fs)
  BY FsBecomes DEF WasiInv
<1> QED
  BY <1>2, <1>4, <1>5, OpenedInv

LEMMA OpenPackageRootInv ==
    ASSUME WasiInv, NEW fd, NEW text, text.names \in Paths, NEW q, openPackageRootPath(fd, text, q)
    PROVE  WasiInv'
<1>1. PICK path : path = resolvePackageRootPath(BasePath(fd, "root"), text)
  OBVIOUS
<1>2. path \in Paths
  BY <1>1, BasePathFacts, NowherePath, ResolveFacts DEF resolvePackageRootPath, WasiInv
<1>3. CASE \E mount \in {"workspace", "tmp"} : Mounted(path, mount) /\ openDirectory(mount, Tail(path), q)
  <2>1. PICK mount \in {"workspace", "tmp"} : Mounted(path, mount) /\ openDirectory(mount, Tail(path), q)
    BY <1>3
  <2>2. Tail(path) \in Paths
    BY <2>1, <1>2, MountedPath
  <2> QED
    BY <2>1, <2>2, OpenDirectoryInv
<1>4. CASE Opened(fs, "root", "root", IF "directory" \in q THEN "directory" ELSE "file", path, FALSE)
  <2>1. PICK kind \in {"file", "directory"} : kind = IF "directory" \in q THEN "directory" ELSE "file"
    OBVIOUS
  <2>2. Opened(fs, "root", "root", kind, path, FALSE)
    BY <1>4, <2>1
  <2> QED
    BY <1>2, <2>2, OpenOtherInv
<1> QED
  BY <1>1, <1>3, <1>4 DEF openPackageRootPath

LEMMA OpenReadOnlyInv ==
    ASSUME WasiInv, NEW fd, NEW text, text.names \in Paths, NEW q, openReadOnly(fd, text, q)
    PROVE  WasiInv'
<1>1. PICK path : path = IF text.abs THEN Nowhere ELSE resolve(BasePath(fd, "workspace"), text.names)
  OBVIOUS
<1>2. path \in Paths
  BY <1>1, BasePathFacts, NowherePath, ResolveFacts DEF WasiInv
<1>3. openDirectory("workspace", path, q) \/ Opened(fs, "none", "workspace", "file", path, FALSE)
  BY <1>1 DEF openReadOnly, openReadOnlyWorkspaceDirectory
<1>4. CASE openDirectory("workspace", path, q)
  BY <1>2, <1>4, OpenDirectoryInv
<1>5. CASE Opened(fs, "none", "workspace", "file", path, FALSE)
  BY <1>2, <1>5, OpenOtherInv
<1> QED
  BY <1>3, <1>4, <1>5

LEMMA PathOpenInv ==
    ASSUME WasiInv, NEW fd, NEW text \in TextsFor(fd), NEW q, pathOpen(fd, text, q)
    PROVE  WasiInv'
<1>1. PICK at : at = Place(fd, text)
  OBVIOUS
<1>2. at.path \in Paths /\ at.mount \in {"workspace", "tmp"} /\ (at.mount = "workspace" => writable)
      /\ text.names \in Paths
  BY <1>1, PlaceFacts, TextNames DEF WasiInv
<1>3. CASE at.mount = "workspace" /\ openDirectory("workspace", at.path, q)
  BY <1>2, <1>3, OpenDirectoryInv
<1>4. CASE at.mount = "workspace" /\ openFile("workspace", at.path, q)
  BY <1>2, <1>4, OpenFileInv
<1>5. CASE openDirectory("tmp", at.path, q)
  BY <1>2, <1>5, OpenDirectoryInv
<1>6. CASE openFile("tmp", at.path, q)
  BY <1>2, <1>6, OpenFileInv
<1>7. CASE openPackageRootPath(fd, text, q)
  BY <1>2, <1>7, OpenPackageRootInv
<1>8. CASE openReadOnly(fd, text, q)
  BY <1>2, <1>8, OpenReadOnlyInv
<1> QED
  BY <1>1, <1>3, <1>4, <1>5, <1>6, <1>7, <1>8
     DEF pathOpen, openWorkspaceDirectory, openWorkspaceFile, openScratchDirectory, openScratchFile

LEMMA CloseInv ==
    ASSUME WasiInv, NEW fd, fdClose(fd)
    PROVE  WasiInv'
<1>1. PICK o : o = Restrict(fs.open, DOMAIN fs.open \ {fd})
  OBVIOUS
<1>2. HandlesOk(o) /\ Runtime(fs)
  BY <1>1, ClosedHandle DEF WasiInv, Runtime
<1>3. Becomes([fs EXCEPT !.open = o])
  BY <1>2, OpenBecomes
<1>4. TreeBecomes([fs EXCEPT !.open = o])
  BY <1>1 DEF fdClose
<1> QED
  BY <1>3, <1>4, StepInvariant

LEMMA CreateDirectoryInv ==
    ASSUME WasiInv, NEW fd, NEW text \in TextsFor(fd), pathCreateDirectory(fd, text)
    PROVE  WasiInv'
<1>1. PICK at : at = Place(fd, text)
  OBVIOUS
<1>2. PICK path, mount : path = at.path /\ mount = at.mount
  OBVIOUS
<1>3. path \in Paths /\ mount \in {"workspace", "tmp"} /\ (mount = "workspace" => writable) /\ Runtime(fs)
  BY <1>1, <1>2, PlaceFacts DEF WasiInv
<1>4. PICK t : t = fs[mount]
  OBVIOUS
<1>5. GoodMount(t)
  BY <1>3, <1>4, MountGood
<1>6. PICK u : u = [t EXCEPT !.dirs = @ \cup {path}]
  OBVIOUS
<1>7. path \notin Nodes(t) /\ parentOk(t, path) /\ TreeBecomes(Changed(mount, u))
  BY <1>1, <1>2, <1>4, <1>6 DEF pathCreateDirectory
<1>8. GoodMount(u)
  BY <1>3, <1>5, <1>6, <1>7, MakeDirectoryKeeps
<1> QED
  BY <1>3, <1>7, <1>8, BecomesChanged, StepInvariant

LEMMA UnlinkInv ==
    ASSUME WasiInv, NEW fd, NEW text \in TextsFor(fd), pathUnlinkFile(fd, text)
    PROVE  WasiInv'
<1>1. PICK at : at = Place(fd, text)
  OBVIOUS
<1>2. PICK path, mount : path = at.path /\ mount = at.mount
  OBVIOUS
<1>3. path \in Paths /\ mount \in {"workspace", "tmp"} /\ (mount = "workspace" => writable) /\ Runtime(fs)
  BY <1>1, <1>2, PlaceFacts DEF WasiInv
<1>4. PICK t : t = fs[mount]
  OBVIOUS
<1>5. GoodMount(t)
  BY <1>3, <1>4, MountGood
<1>6. PICK u : u = [t EXCEPT !.files = Restrict(@, DOMAIN @ \ {path})]
  OBVIOUS
<1>7. PICK o : o = Removed(fs.open, mount, "file", path)
  OBVIOUS
<1>8. TreeBecomes([Changed(mount, u) EXCEPT !.open = Removed(@, mount, "file", path)])
  BY <1>1, <1>2, <1>4, <1>6 DEF pathUnlinkFile
<1>9. TreeBecomes([Changed(mount, u) EXCEPT !.open = o])
  BY <1>3, <1>7, <1>8, ChangedOpen
<1>10. GoodMount(u)
  BY <1>5, <1>6, DropFileKeeps
<1>11. HandlesOk(o)
  BY <1>3, <1>7, RemovedHandles DEF Runtime
<1>12. Becomes([Changed(mount, u) EXCEPT !.open = o])
  BY <1>3, <1>10, <1>11, ChangedRuntime
<1> QED
  BY <1>9, <1>12, StepInvariant

\* No path the module passes is that of the workspace itself: with a descriptor of
\* a directory in it, path_remove_directory would remove the root.
RootNotNamed == \A text \in Texts \cup UNION Range(ScratchTexts) : ~NamesRoot(text)

LEMMA NotNamed ==
    ASSUME RootNotNamed, writable \in BOOLEAN, NEW fd, NEW text \in TextsFor(fd)
    PROVE  ~NamesRoot(text)
BY WasiTreeAssumption DEF RootNotNamed, TextsFor, Range

LEMMA RemoveDirectoryInv ==
    ASSUME WasiInv, RootNotNamed, NEW fd, NEW text \in TextsFor(fd), pathRemoveDirectory(fd, text)
    PROVE  WasiInv'
<1>1. PICK at : at = Place(fd, text)
  OBVIOUS
<1>2. PICK path, mount : path = at.path /\ mount = at.mount
  OBVIOUS
<1>3. path \in Paths /\ mount \in {"workspace", "tmp"} /\ (mount = "workspace" => writable) /\ Runtime(fs)
      /\ (path = Root => at.base = Root)
  BY <1>1, <1>2, PlaceFacts, NotNamed DEF WasiInv
<1>4. PICK t : t = fs[mount]
  OBVIOUS
<1>5. GoodMount(t)
  BY <1>3, <1>4, MountGood
<1>6. PICK u : u = [t EXCEPT !.dirs = @ \ {path}]
  OBVIOUS
<1>7. PICK o : o = Removed(fs.open, mount, "directory", path)
  OBVIOUS
<1>8. /\ TreeBecomes([Changed(mount, u) EXCEPT !.open = Removed(@, mount, "directory", path)])
      /\ path # at.base /\ ~pathHasChildren(t, path)
  BY <1>1, <1>2, <1>4, <1>6 DEF pathRemoveDirectory
<1>9. TreeBecomes([Changed(mount, u) EXCEPT !.open = o])
  BY <1>3, <1>7, <1>8, ChangedOpen
<1>10. GoodMount(u)
  BY <1>3, <1>5, <1>6, <1>8, DropDirectoryKeeps
<1>11. HandlesOk(o)
  BY <1>3, <1>7, RemovedHandles DEF Runtime
<1>12. Becomes([Changed(mount, u) EXCEPT !.open = o])
  BY <1>3, <1>10, <1>11, ChangedRuntime
<1> QED
  BY <1>9, <1>12, StepInvariant

\* The tree a file's rename makes.
MovedFile(t, from, to) ==
    [t EXCEPT !.files = [p \in (Files(t) \ {from}) \cup {to} |->
                           IF p = to THEN Record(@[from].bytes, FALSE, to) ELSE @[p]]]

LEMMA RenameFileIs ==
    ASSUME Runtime(fs), NEW mount \in {"workspace", "tmp"}, NEW from, NEW to
    PROVE  renameFile(mount, from, to) =
             [Changed(mount, MovedFile(fs[mount], from, to)) EXCEPT !.open = FileMoved(fs.open, mount, from, to)]
<1> DEFINE v == MovedFile(fs[mount], from, to)
<1>1. renameFile(mount, from, to) =
        [Changed(mount, v) EXCEPT !.open = FileMoved(Changed(mount, v).open, mount, from, to)]
  BY DEF renameFile, FileMoved, MovedFile
<1> HIDE DEF v
<1>2. Changed(mount, v).open = fs.open
  BY ChangedOpen
<1> QED
  BY <1>1, <1>2 DEF v

LEMMA RenameFileInv ==
    ASSUME WasiInv, NEW mount \in {"workspace", "tmp"}, mount = "workspace" => writable,
           NEW from \in Files(fs[mount]), NEW to \in Paths, to # Root, to \notin fs[mount].dirs,
           parentPath(to) \in fs[mount].dirs, TreeBecomes(renameFile(mount, from, to))
    PROVE  WasiInv'
<1>1. PICK t : t = fs[mount]
  OBVIOUS
<1>2. GoodMount(t) /\ Runtime(fs) /\ from \in Paths
  BY <1>1, MountGood, MountNodes DEF WasiInv
<1>3. PICK u : u = MovedFile(t, from, to)
  OBVIOUS
<1>4. PICK o : o = FileMoved(fs.open, mount, from, to)
  OBVIOUS
<1>5. renameFile(mount, from, to) = [Changed(mount, u) EXCEPT !.open = o]
  BY <1>1, <1>2, <1>3, <1>4, RenameFileIs
<1>6. GoodMount(u)
  BY <1>1, <1>2, <1>3, MoveFileKeeps DEF MovedFile
<1>7. HandlesOk(o)
  BY <1>2, <1>4, FileMovedHandles DEF Runtime
<1>8. Becomes([Changed(mount, u) EXCEPT !.open = o])
  BY <1>2, <1>6, <1>7, ChangedRuntime
<1> QED
  BY <1>5, <1>8, StepInvariant

LEMMA RenameTreeInv ==
    ASSUME WasiInv, NEW mount \in {"workspace", "tmp"}, mount = "workspace" => writable,
           NEW from \in fs[mount].dirs, NEW to \in Paths, from # Root, to # Root, from # to,
           to \notin Files(fs[mount]), parentPath(to) \in fs[mount].dirs,
           ~pathHasChildren(fs[mount], to), ~isChildPath(from, to),
           TreeBecomes(renameTree(mount, from, to))
    PROVE  WasiInv'
<1>1. PICK t : t = fs[mount]
  OBVIOUS
<1>2. GoodMount(t) /\ Runtime(fs) /\ from \in Paths
  BY <1>1, MountGood, MountNodes DEF WasiInv
<1>3. PICK u : u = [dirs |-> {Move(d, from, to) : d \in t.dirs \ {to}}, files |-> MovedFiles(t, from, to)]
  OBVIOUS
<1>4. PICK g : g = Gone(Detached(fs.open, mount, "directory", to), mount, to)
  OBVIOUS
<1>5. PICK o : o = TreeMoved(g, mount, from, to)
  OBVIOUS
<1>6. renameTree(mount, from, to) = [Changed(mount, u) EXCEPT !.open = o]
  BY <1>1, <1>3, <1>4, <1>5 DEF renameTree, movedTree, MovedFiles, TreeMoved, HandleMoves
<1>7. GoodMount(u)
  BY <1>1, <1>2, <1>3, MoveTreeKeeps
<1>8. HandlesOk(g)
  BY <1>2, <1>4, GoneHandles, DetachedHandles DEF Runtime
<1>9. HandlesOk(o)
  BY <1>2, <1>5, <1>8, TreeMovedHandles
<1>10. Becomes([Changed(mount, u) EXCEPT !.open = o])
  BY <1>2, <1>7, <1>9, ChangedRuntime
<1> QED
  BY <1>6, <1>10, StepInvariant

\* What pathKind says in a good tree.
LEMMA KindIs ==
    ASSUME NEW t, GoodTree(t), NEW path \in Paths
    PROVE  /\ pathKind(t, path) = "file" <=> path \in Files(t)
           /\ pathKind(t, path) = "directory" <=> path \in t.dirs
           /\ pathKind(t, path) = "none" <=> path \notin Nodes(t)
           /\ pathKind(t, path) \in {"file", "directory", "none"}
BY DirectoryIs, TreeNodes DEF pathKind, Nodes

\* What a rename does, once its paths have been found.
MovesFile(mount, from, to) ==
    /\ mount \in {"workspace", "tmp"} /\ (mount = "workspace" => writable)
    /\ from \in Files(fs[mount]) /\ to \in Paths /\ to # Root /\ to \notin fs[mount].dirs
    /\ parentPath(to) \in fs[mount].dirs
    /\ {from, to} \cap {Nowhere} = {}
    /\ TreeBecomes(renameFile(mount, from, to))
MovesTree(mount, from, to) ==
    /\ mount \in {"workspace", "tmp"} /\ (mount = "workspace" => writable)
    /\ from \in fs[mount].dirs /\ to \in Paths /\ from # Root /\ to # Root /\ from # to
    /\ to \notin Files(fs[mount]) /\ parentPath(to) \in fs[mount].dirs
    /\ ~pathHasChildren(fs[mount], to) /\ ~isChildPath(from, to)
    /\ {from, to} \cap {Nowhere} = {}
    /\ TreeBecomes(renameTree(mount, from, to))

LEMMA RenameIs ==
    ASSUME WasiInv, NEW oldFd, NEW oldText \in TextsFor(oldFd), pathRename(oldFd, oldText)
    PROVE  \E mount, from, to : MovesFile(mount, from, to) \/ MovesTree(mount, from, to)
<1>1. PICK source : source = Place(oldFd, oldText)
  OBVIOUS
<1>2. PICK from, mount : from = source.path /\ mount = source.mount
  OBVIOUS
<1>3. PICK t : t = fs[mount]
  OBVIOUS
<1>4. PICK kind : kind = pathKind(t, from)
  OBVIOUS
<1>14. PICK newFd \in Fds : \E newText \in TextsFor(newFd) :
        LET target == Place(newFd, newText)
            to == target.path
        IN  /\ MayRename(newFd) /\ target.mount = source.mount
            /\ to \notin {Nowhere, Root, from}
            /\ kind = "directory" => ~isChildPath(from, to)
            /\ CASE pathKind(t, to) = "none"      -> parentOk(t, to)
                 [] pathKind(t, to) = "file"      -> kind = "file"
                 [] pathKind(t, to) = "directory" -> kind = "directory" /\ ~pathHasChildren(t, to)
            /\ TreeBecomes(IF kind = "file" THEN renameFile(source.mount, from, to)
                           ELSE renameTree(source.mount, from, to))
  BY <1>1, <1>2, <1>3, <1>4 DEF pathRename
<1>5. PICK newText \in TextsFor(newFd) :
        LET target == Place(newFd, newText)
            to == target.path
        IN  /\ MayRename(newFd) /\ target.mount = source.mount
            /\ to \notin {Nowhere, Root, from}
            /\ kind = "directory" => ~isChildPath(from, to)
            /\ CASE pathKind(t, to) = "none"      -> parentOk(t, to)
                 [] pathKind(t, to) = "file"      -> kind = "file"
                 [] pathKind(t, to) = "directory" -> kind = "directory" /\ ~pathHasChildren(t, to)
            /\ TreeBecomes(IF kind = "file" THEN renameFile(source.mount, from, to)
                           ELSE renameTree(source.mount, from, to))
  BY <1>14
<1>6. PICK to : to = Place(newFd, newText).path
  OBVIOUS
<1>7. /\ from \in Paths /\ mount \in {"workspace", "tmp"} /\ (mount = "workspace" => writable)
      /\ to \in Paths /\ Runtime(fs)
  BY <1>1, <1>2, <1>6, PlaceFacts DEF WasiInv
<1>8. GoodMount(t) /\ GoodTree(t)
  BY <1>3, <1>7, MountGood, MountNodes
<1>9. from # Root /\ from # Nowhere /\ kind # "none"
  BY <1>1, <1>2, <1>3, <1>4 DEF pathRename
<1>10. /\ to # Root /\ to # from /\ to # Nowhere
       /\ kind = "directory" => ~isChildPath(from, to)
       /\ pathKind(t, to) = "none" => parentOk(t, to)
       /\ pathKind(t, to) = "file" => kind = "file"
       /\ pathKind(t, to) = "directory" => kind = "directory" /\ ~pathHasChildren(t, to)
       /\ TreeBecomes(IF kind = "file" THEN renameFile(mount, from, to) ELSE renameTree(mount, from, to))
  BY <1>2, <1>5, <1>6
<1>11. parentPath(to) \in t.dirs
  <2>1. CASE to \in Nodes(t)
    BY <2>1, <1>8, <1>10, MountNodes
  <2>2. CASE to \notin Nodes(t)
    BY <2>2, <1>7, <1>8, <1>10, KindIs, ParentDirectory
  <2> QED
    BY <2>1, <2>2
<1>12. CASE kind = "file"
  <2>1. from \in Files(t) /\ to \notin t.dirs
    BY <1>4, <1>7, <1>8, <1>10, <1>12, KindIs
  <2>2. TreeBecomes(renameFile(mount, from, to))
    BY <1>10, <1>12
  <2> QED
    BY <2>1, <2>2, <1>3, <1>7, <1>9, <1>10, <1>11 DEF MovesFile
<1>13. CASE kind # "file"
  <2>1. from \in t.dirs /\ to \notin Files(t)
    BY <1>4, <1>7, <1>8, <1>9, <1>10, <1>13, KindIs
  <2>2. kind = "directory"
    BY <1>4, <1>7, <1>8, <2>1, KindIs
  <2>3. ~pathHasChildren(t, to)
    <3>1. CASE to \in t.dirs
      BY <3>1, <1>7, <1>8, <1>10, KindIs
    <3>2. CASE to \notin t.dirs
      BY <3>2, <1>7, <1>8, NothingBelow DEF pathHasChildren
    <3> QED
      BY <3>1, <3>2
  <2>4. TreeBecomes(renameTree(mount, from, to))
    BY <1>10, <1>13
  <2> QED
    BY <2>1, <2>2, <2>3, <2>4, <1>3, <1>7, <1>9, <1>10, <1>11 DEF MovesTree
<1> QED
  BY <1>12, <1>13

LEMMA RenameInv ==
    ASSUME WasiInv, NEW oldFd, NEW oldText \in TextsFor(oldFd), pathRename(oldFd, oldText)
    PROVE  WasiInv'
<1>1. PICK mount, from, to : MovesFile(mount, from, to) \/ MovesTree(mount, from, to)
  BY RenameIs
<1>2. CASE MovesFile(mount, from, to)
  BY <1>2, RenameFileInv DEF MovesFile
<1>3. CASE MovesTree(mount, from, to)
  BY <1>3, RenameTreeInv DEF MovesTree
<1> QED
  BY <1>1, <1>2, <1>3

LEMMA StateBecomes ==
    ASSUME Runtime(fs), NEW s, NEW w, NEW m, NEW o, NEW c \in Paths, NEW e \in BOOLEAN,
           s = State(w, m, o, c, e), GoodMount(m), HandlesOk(o),
           writable => GoodMount(w), ~writable => w.dirs = {} /\ Files(w) = PackageFiles,
           e \/ (w = fs.workspace /\ ~fs.dirty)
    PROVE  Becomes(s)
<1>1. s.workspace = w /\ s.tmp = m /\ s.open = o /\ s.cwd = c /\ s.dirty = e
  BY DEF State
<1>2. s = [workspace |-> s.workspace, tmp |-> s.tmp, open |-> s.open, cwd |-> s.cwd, dirty |-> s.dirty]
  BY <1>1 DEF State
<1>3. Runtime(s)
  BY <1>1, <1>2 DEF Runtime
<1> QED
  BY <1>1, <1>3 DEF Becomes

LEMMA WrittenFacts ==
    ASSUME WasiInv, NEW fd \in DOMAIN fs.open, fs.open[fd].kind = "file", fs.open[fd].may, NEW bytes
    PROVE  LET r == Written(fd, bytes)
           IN  /\ Becomes(r) /\ r.open = fs.open
               /\ r.workspace.dirs = fs.workspace.dirs /\ Files(r.workspace) = Files(fs.workspace)
<1>1. PICK d : d = fs.open[fd]
  OBVIOUS
<1>2. IsHandle(d) /\ Runtime(fs)
  BY <1>1 DEF WasiInv, Runtime, HandlesOk
<1>3. (d.tree = "tmp" /\ d.mount # "workspace") \/ (d.tree = "workspace" /\ d.mount = "workspace")
  BY <1>1, <1>2 DEF IsHandle
<1>4. PICK w, m, o, c, x : fs = State(w, m, o, c, x) /\ w = fs.workspace /\ m = fs.tmp /\ o = fs.open /\ c = fs.cwd /\ x = fs.dirty
  BY <1>2, FsState
<1>5. /\ x \in BOOLEAN /\ c \in Paths /\ HandlesOk(o) /\ GoodMount(m)
      /\ (writable => GoodMount(w)) /\ (~writable => w.dirs = {} /\ Files(w) = PackageFiles)
  BY <1>2, <1>4 DEF Runtime
<1>6. PICK k, a : k = d.tree /\ a = d.at
  OBVIOUS
<1>7. PICK s : s = IF a = Nowhere THEN fs ELSE [fs EXCEPT ![k].files[a] = Record(bytes, FALSE, @.path)]
  OBVIOUS
<1>8. PICK r : r = Written(fd, bytes)
  OBVIOUS
<1>9. CASE k = "tmp"
  <2>1. PICK n : n = IF a = Nowhere THEN m ELSE [m EXCEPT !.files[a] = Record(bytes, FALSE, @.path)]
    OBVIOUS
  <2>2. GoodMount(n)
    BY <1>5, <2>1, WriteRecordKeeps
  <2>3. s = State(w, n, o, c, x)
    <3>1. CASE a = Nowhere
      BY <3>1, <2>1, <1>4, <1>7
    <3>2. CASE a # Nowhere
      <4>1. s = [fs EXCEPT !.tmp = [fs.tmp EXCEPT !.files[a] = Record(bytes, FALSE, @.path)]]
        BY <3>2, <1>7, <1>9
      <4>2. s = [fs EXCEPT !.tmp = n]
        BY <3>2, <4>1, <2>1, <1>4
      <4> QED
        BY <4>2, <1>4 DEF State
    <3> QED
      BY <3>1, <3>2
  <2>4. r = [s EXCEPT !.dirty = x]
    <3>1. s.dirty = x
      BY <2>3 DEF State
    <3>2. (x \/ d.mount = "workspace") = x
      BY <1>3, <1>5, <1>6, <1>9
    <3> QED
      BY <3>1, <3>2, <1>1, <1>6, <1>7, <1>8 DEF Written
  <2>5. r = State(w, n, o, c, x)
    BY <2>3, <2>4 DEF State
  <2>6. Becomes(r)
    BY <2>2, <2>5, <1>2, <1>4, <1>5, StateBecomes
  <2>7. r.open = o /\ r.workspace = w
    BY <2>5 DEF State
  <2> QED
    BY <2>6, <2>7, <1>4, <1>8
<1>10. CASE k = "workspace"
  <2>1. PICK n : n = IF a = Nowhere THEN w ELSE [w EXCEPT !.files[a] = Record(bytes, FALSE, @.path)]
    OBVIOUS
  <2>2. writable => GoodMount(n)
    BY <1>5, <2>1, WriteRecordKeeps
  <2>3. ~writable => n.dirs = {} /\ Files(n) = PackageFiles
    BY <1>5, <2>1 DEF Files
  <2>4. s = State(n, m, o, c, x)
    <3>1. CASE a = Nowhere
      BY <3>1, <2>1, <1>4, <1>7
    <3>2. CASE a # Nowhere
      <4>1. s = [fs EXCEPT !.workspace = [fs.workspace EXCEPT !.files[a] = Record(bytes, FALSE, @.path)]]
        BY <3>2, <1>7, <1>10
      <4>2. s = [fs EXCEPT !.workspace = n]
        BY <3>2, <4>1, <2>1, <1>4
      <4> QED
        BY <4>2, <1>4 DEF State
    <3> QED
      BY <3>1, <3>2
  <2>5. r = [s EXCEPT !.dirty = TRUE]
    <3>1. s.dirty = x
      BY <2>4 DEF State
    <3>2. (x \/ d.mount = "workspace") = TRUE
      BY <1>3, <1>5, <1>6, <1>10
    <3> QED
      BY <3>1, <3>2, <1>1, <1>6, <1>7, <1>8 DEF Written
  <2>6. r = State(n, m, o, c, TRUE)
    BY <2>4, <2>5 DEF State
  <2>7. Becomes(r)
    BY <2>2, <2>3, <2>6, <1>2, <1>4, <1>5, StateBecomes
  <2>8. r.open = o /\ r.workspace = n
    BY <2>6 DEF State
  <2>9. n.dirs = w.dirs /\ Files(n) = Files(w)
    BY <2>1 DEF Files
  <2> QED
    BY <2>7, <2>8, <2>9, <1>4, <1>8
<1> QED
  BY <1>3, <1>6, <1>9, <1>10

LEMMA WrittenInv ==
    ASSUME WasiInv, NEW fd \in DOMAIN fs.open, fs.open[fd].kind = "file", fs.open[fd].may, NEW bytes,
           TreeBecomes(Written(fd, bytes))
    PROVE  WasiInv'
BY WrittenFacts, StepInvariant

-----------------------------------------------------------------------------
(* The current directory *)

LEMMA SmallestFailure ==
    ASSUME NEW S, S \subseteq Nat, S # {}
    PROVE  \E m \in S : \A k \in Nat : k < m => k \notin S
<1>1. IsWellFoundedOn(OpToRel(<, Nat), Nat)
  BY NatLessThanWellFounded
<1>2. PICK m \in S : \A y \in S : ~(<<y, m>> \in OpToRel(<, Nat))
  BY <1>1, WFMin
<1> QED
  BY <1>2 DEF OpToRel

\* The steps of resolveWasiVirtualPath, name by name.
WalkStep(path, name) ==
    IF name # ".." THEN Append(path, name)
    ELSE IF path \in {Root, Nowhere} THEN Nowhere ELSE parentPath(path)
Walks(f, start, names, m) ==
    f = [n \in 0 .. m |-> IF n = 0 THEN start ELSE WalkStep(f[n - 1], names[n])]

LEMMA WalksExists ==
    ASSUME NEW start, NEW names, NEW m \in Nat
    PROVE  \E f : Walks(f, start, names, m)
<1> DEFINE S == {k \in Nat : ~\E f : Walks(f, start, names, k)}
<1> SUFFICES ASSUME S # {} PROVE FALSE
  OBVIOUS
<1>1. PICK k \in S : \A j \in Nat : j < k => j \notin S
  BY SmallestFailure
<1>2. CASE k = 0
  <2> DEFINE f == [n \in 0 .. 0 |-> start]
  <2>1. Walks(f, start, names, 0)
    BY DEF Walks
  <2> QED
    BY <1>2, <2>1
<1>3. CASE k # 0
  <2>1. k - 1 \in Nat /\ k - 1 < k
    BY <1>3
  <2>2. PICK f : Walks(f, start, names, k - 1)
    BY <1>1, <2>1
  <2> DEFINE g == [n \in 0 .. k |-> IF n = k THEN WalkStep(f[k - 1], names[k]) ELSE f[n]]
  <2>3. \A n \in 0 .. k : g[n] = IF n = 0 THEN start ELSE WalkStep(g[n - 1], names[n])
    <3> TAKE n \in 0 .. k
    <3>1. CASE n = k
      <4>1. g[n] = WalkStep(f[k - 1], names[k]) /\ g[n - 1] = f[k - 1]
        BY <2>1, <3>1
      <4> QED
        BY <1>3, <3>1, <4>1
    <3>2. CASE n # k
      <4>1. n \in 0 .. k - 1 /\ g[n] = f[n]
        BY <2>1, <3>2
      <4>2. n # 0 => g[n - 1] = f[n - 1]
        BY <2>1, <4>1
      <4>3. f[n] = IF n = 0 THEN start ELSE WalkStep(f[n - 1], names[n])
        BY <2>2, <4>1 DEF Walks
      <4> HIDE DEF g
      <4> QED
        BY <4>1, <4>2, <4>3
    <3> QED
      BY <3>1, <3>2
  <2>4. Walks(g, start, names, k)
    <3>1. g = [n \in 0 .. k |-> g[n]]
      OBVIOUS
    <3> HIDE DEF g
    <3> QED
      BY <2>3, <3>1 DEF Walks
  <2> HIDE DEF g
  <2> QED
    BY <2>4
<1> QED
  BY <1>2, <1>3

LEMMA WalkStepPath ==
    ASSUME NEW p \in Paths, NEW name \in STRING
    PROVE  WalkStep(p, name) \in Paths
<1>1. PICK S : S = STRING
  OBVIOUS
<1>2. p \in Seq(S) /\ name \in S
  BY <1>1 DEF Paths
<1>3. Append(p, name) \in Seq(S)
  BY <1>2, AppendProperties
<1>4. Append(p, name) \in Paths
  BY <1>1, <1>3 DEF Paths
<1> QED
  BY <1>4, NowherePath, ParentFacts DEF WalkStep

LEMMA WalksPath ==
    ASSUME NEW start \in Paths, NEW names \in Paths, NEW f, Walks(f, start, names, Len(names))
    PROVE  f[Len(names)] \in Paths
<1>0. PICK m \in Nat : m = Len(names) /\ \A n \in 1 .. m : names[n] \in STRING
  BY RootPath DEF Paths
<1> DEFINE S == {k \in Nat : k <= m /\ f[k] \notin Paths}
<1> SUFFICES ASSUME S # {} PROVE FALSE
  BY <1>0
<1>1. PICK k \in S : \A j \in Nat : j < k => j \notin S
  BY SmallestFailure
<1>2. CASE k = 0
  BY <1>0, <1>1, <1>2 DEF Walks
<1>3. CASE k # 0
  <2>1. k - 1 \in Nat /\ k - 1 < k /\ k - 1 <= m /\ k \in 0 .. m /\ k \in 1 .. m
    BY <1>3
  <2>2. f[k - 1] \in Paths
    BY <1>1, <2>1
  <2>3. f[k] = WalkStep(f[k - 1], names[k])
    BY <1>0, <1>3, <2>1 DEF Walks
  <2> QED
    BY <1>0, <2>1, <2>2, <2>3, WalkStepPath
<1> QED
  BY <1>2, <1>3

LEMMA VirtualPath ==
    ASSUME fs.cwd \in Paths, NEW text, text.names \in Paths
    PROVE  Virtual(text) \in Paths
<1>1. PICK start \in Paths : start = IF text.abs THEN Root ELSE fs.cwd
  BY RootPath
<1> DEFINE f == CHOOSE f : Walks(f, start, text.names, Len(text.names))
<1>2. Virtual(text) = f[Len(text.names)]
  BY <1>1 DEF Virtual, Walks, WalkStep
<1>3. Walks(f, start, text.names, Len(text.names))
  BY WalksExists, RootPath
<1> HIDE DEF f
<1> QED
  BY <1>2, <1>3, WalksPath

LEMMA ChdirInv ==
    ASSUME WasiInv, NEW text \in Texts, chdir(text)
    PROVE  WasiInv'
<1>1. Runtime(fs)
  BY DEF WasiInv
<1>2. PICK p \in Paths : p = Virtual(text)
  BY <1>1, ConstantFacts, VirtualPath DEF Runtime
<1>3. PICK w, m, o, c, x : fs = State(w, m, o, c, x) /\ w = fs.workspace /\ m = fs.tmp /\ o = fs.open /\ c = fs.cwd /\ x = fs.dirty
  BY <1>1, FsState
<1>4. /\ x \in BOOLEAN /\ HandlesOk(o) /\ GoodMount(m)
      /\ (writable => GoodMount(w)) /\ (~writable => w.dirs = {} /\ Files(w) = PackageFiles)
  BY <1>1, <1>3 DEF Runtime
<1>5. PICK s : s = [fs EXCEPT !.cwd = p]
  OBVIOUS
<1>6. s = State(w, m, o, p, x)
  BY <1>3, <1>5 DEF State
<1>7. Becomes(s)
  BY <1>1, <1>3, <1>4, <1>6, StateBecomes
<1> QED
  BY <1>2, <1>5, <1>7, StepInvariant DEF chdir

-----------------------------------------------------------------------------
(* Child commands *)

\* The descriptors that an import rebinds, and what becomes of them.
Held(o) == {fd \in DOMAIN o : o[fd].mount = "workspace" /\ o[fd].kind = "file" /\ o[fd].path # Nowhere}
HeldPaths(o) == {o[fd].path : fd \in Held(o)}
Rebound(o) == [fd \in DOMAIN o |-> IF fd \in Held(o) THEN [o[fd] EXCEPT !.at = o[fd].path] ELSE o[fd]]

\* The files of the workspace after an import, and after the files that are open
\* have been rebound.
ImportedFiles(t, u) ==
    Over([p \in Files(u) |-> Record(u.files[p], FALSE, p)],
         Restrict(t.files, {p \in Files(t) : t.files[p].fallback}))
ReboundFiles(F, P) == Over(F, [p \in P |-> Record(Empty, FALSE, p)])

LEMMA ReboundIs ==
    ASSUME NEW s, NEW D, NEW F, NEW m, NEW o, NEW c, NEW e,
           s = State([dirs |-> D, files |-> F], m, o, c, e)
    PROVE  rebound(s) = State([dirs |-> D, files |-> ReboundFiles(F, HeldPaths(o))], m, Rebound(o), c, e)
<1>1. PICK w : w = [dirs |-> D, files |-> F]
  OBVIOUS
<1>2. s.open = o /\ s.workspace = w
  BY <1>1 DEF State
<1>3. PICK E : E = [p \in HeldPaths(o) |-> Record(Empty, FALSE, p)]
  OBVIOUS
<1>4. PICK H : H = Held(o)
  OBVIOUS
<1>5. rebound(s) = [s EXCEPT !.workspace.files = Over(@, E),
                             !.open = [fd \in DOMAIN @ |-> IF fd \in H THEN [@[fd] EXCEPT !.at = s.open[fd].path]
                                                           ELSE @[fd]]]
  <2>1. E = [p \in HeldPaths(s.open) |-> Record(Empty, FALSE, p)] /\ H = Held(s.open)
    BY <1>2, <1>3, <1>4
  <2> QED
    BY <2>1 DEF rebound, HeldPaths, Held
<1>6. PICK G : G = Over(F, E)
  OBVIOUS
<1>7. PICK v : v = [dirs |-> D, files |-> G]
  OBVIOUS
<1>8. PICK r : r = [s EXCEPT !.workspace.files = Over(@, E)]
  OBVIOUS
<1>9. r = State(v, m, o, c, e)
  <2>1. w.files = F
    BY <1>1
  <2>2. [w EXCEPT !.files = Over(w.files, E)] = [w EXCEPT !.files = G]
    BY <1>6, <2>1
  <2>3. [w EXCEPT !.files = G] = v
    BY <1>1, <1>7
  <2>4. r = [s EXCEPT !.workspace = [s.workspace EXCEPT !.files = Over(s.workspace.files, E)]]
    BY <1>8
  <2>5. r = [s EXCEPT !.workspace = v]
    BY <1>2, <2>2, <2>3, <2>4
  <2>6. s = State(w, m, o, c, e)
    BY <1>1
  <2> QED
    BY <2>5, <2>6 DEF State
<1>10. r.open = o
  BY <1>9 DEF State
<1>11. PICK q : q = Rebound(o)
  OBVIOUS
<1>12. rebound(s) = [r EXCEPT !.open = q]
  <2>1. rebound(s) = [r EXCEPT !.open = [fd \in DOMAIN r.open |-> IF fd \in H THEN [r.open[fd] EXCEPT !.at = s.open[fd].path]
                                                                  ELSE r.open[fd]]]
    BY <1>5, <1>8
  <2>2. rebound(s) = [r EXCEPT !.open = [fd \in DOMAIN o |-> IF fd \in Held(o) THEN [o[fd] EXCEPT !.at = o[fd].path]
                                                             ELSE o[fd]]]
    BY <2>1, <1>2, <1>4, <1>10
  <2> QED
    BY <2>2, <1>11 DEF Rebound
<1>13. rebound(s) = State(v, m, q, c, e)
  BY <1>9, <1>12 DEF State
<1>14. ReboundFiles(F, HeldPaths(o)) = G
  BY <1>3, <1>6 DEF ReboundFiles
<1> QED
  BY <1>7, <1>11, <1>13, <1>14

LEMMA ReboundHandles ==
    ASSUME NEW o, HandlesOk(o)
    PROVE  HandlesOk(Rebound(o))
<1>1. \A fd \in DOMAIN o : IsHandle(o[fd]) /\ o[fd].path \in Paths
  BY DEF HandlesOk, IsHandle, Handles
<1>2. \A fd \in DOMAIN o : IsHandle([o[fd] EXCEPT !.at = o[fd].path])
  BY <1>1, HandleAt
<1> QED
  BY <1>1, <1>2 DEF Rebound, HandlesOk

\* An import takes the records away; which descriptors hold which paths is not touched.
LEMMA OrphanedHandles ==
    ASSUME NEW o, HandlesOk(o), NEW D
    PROVE  LET q == Orphaned(o, D)
           IN  HandlesOk(q) /\ Held(q) = Held(o) /\ HeldPaths(q) = HeldPaths(o)
<1>1. PICK q : q = Orphaned(o, D)
  OBVIOUS
<1>2. DOMAIN q = DOMAIN o
  BY <1>1 DEF Orphaned
<1>3. \A fd \in DOMAIN o : IsHandle(o[fd]) /\ IsHandle([o[fd] EXCEPT !.at = Nowhere])
  BY HandleAt, NowherePath DEF HandlesOk
<1>4. HandlesOk(q)
  BY <1>1, <1>3 DEF Orphaned, HandlesOk
<1>5. \A fd \in DOMAIN o : q[fd] = o[fd] \/ q[fd] = [o[fd] EXCEPT !.at = Nowhere]
  BY <1>1 DEF Orphaned
<1>6. \A fd \in DOMAIN o : /\ q[fd].mount = o[fd].mount /\ q[fd].kind = o[fd].kind
                          /\ q[fd].path = o[fd].path
  BY <1>3, <1>5 DEF IsHandle, Handles
<1>7. Held(q) = Held(o)
  BY <1>2, <1>6 DEF Held
<1>8. HeldPaths(q) = HeldPaths(o)
  BY <1>6, <1>7 DEF HeldPaths, Held
<1> QED
  BY <1>1, <1>4, <1>7, <1>8

LEMMA ExecInv ==
    ASSUME WasiInv, ChildLeavesOpen, NEW change \in ChildChanges, runProcessExec(change)
    PROVE  /\ WasiInv'
           /\ \E u : /\ LeavesOpen(u) /\ fs'.workspace.dirs = u.dirs
                    /\ fs'.open = Rebound(Orphaned(fs.open, u.dirs))
                    /\ HeldPaths(fs.open) \subseteq Files(fs'.workspace)
<1>1. Runtime(fs) /\ writable
  BY DEF WasiInv, runProcessExec
<1>2. PICK w, m, o, c, x : fs = State(w, m, o, c, x) /\ w = fs.workspace /\ m = fs.tmp /\ o = fs.open /\ c = fs.cwd /\ x = fs.dirty
  BY <1>1, FsState
<1>3. c \in Paths /\ HandlesOk(o) /\ GoodMount(m) /\ GoodMount(w)
  BY <1>1, <1>2 DEF Runtime
<1>4. PICK u : u = Apply(exportSnapshot(fs.workspace), change).tree
  OBVIOUS
<1>5. GoodTree(u)
  <2>1. PICK t : t = exportSnapshot(fs.workspace) /\ GoodTree(t)
    BY <1>2, <1>3, ExportFacts
  <2>2. IsChange(change)
    BY ConstantFacts
  <2>3. Keeps(t, Apply(t, change))
    BY <2>1, <2>2, ApplyKeeps
  <2> QED
    BY <1>4, <2>1, <2>3 DEF Keeps
<1>6. LeavesOpen(u) /\ TreeBecomes(rebound(imported(fs, u)))
  BY <1>4 DEF runProcessExec
<1>7. PICK P : P = HeldPaths(o)
  OBVIOUS
<1>8. P \subseteq Paths /\ \A p \in P : p \notin u.dirs /\ parentPath(p) \in u.dirs
  <2>1. \A fd \in DOMAIN o : o[fd].path \in Paths
    BY <1>3 DEF HandlesOk, IsHandle, Handles
  <2>2. \A fd \in Held(o) : o[fd].path \notin u.dirs /\ parentPath(o[fd].path) \in u.dirs
    BY <1>2, <1>6 DEF LeavesOpen, Held
  <2> QED
    BY <1>7, <2>1, <2>2 DEF HeldPaths, Held
<1>9. \A p \in Files(w) : w.files[p].fallback => p \notin u.dirs /\ parentPath(p) \in u.dirs
  <2>1. \A p \in Files(w) : w.files[p].path = p /\ w.files[p] \in Range(w.files)
    BY <1>3, MountNodes, RecordPath DEF RecordsPlaced, Range
  <2>2. \A r \in Range(w.files) : r.fallback => r.path \notin u.dirs /\ parentPath(r.path) \in u.dirs
    BY <1>2, <1>6 DEF LeavesOpen
  <2>3. ASSUME NEW p \in Files(w), w.files[p].fallback PROVE p \notin u.dirs /\ parentPath(p) \in u.dirs
    BY <2>1, <2>2, <2>3
  <2> QED
    BY <2>3
<1>10. PICK F : F = ImportedFiles(w, u)
  OBVIOUS
<1>11. PICK v : v = [dirs |-> u.dirs, files |-> ReboundFiles(F, P)]
  OBVIOUS
<1>12. GoodMount(v)
  BY <1>3, <1>5, <1>8, <1>9, <1>10, <1>11, ImportKeeps DEF ImportedFiles, ReboundFiles
<1>13. PICK s : s = rebound(imported(fs, u))
  OBVIOUS
<1>0. PICK e : e = TRUE
  OBVIOUS
<1>14. PICK h : h = Orphaned(o, u.dirs)
  OBVIOUS
<1>15. HandlesOk(h) /\ HeldPaths(h) = P
  BY <1>3, <1>7, <1>14, OrphanedHandles
<1>16. s = State(v, m, Rebound(h), c, e)
  <2>1. PICK r : r = imported(fs, u)
    OBVIOUS
  <2>2. r = State([dirs |-> u.dirs, files |-> F], m, h, c, e)
    <3>1. PICK t : t = [dirs |-> u.dirs, files |-> F]
      OBVIOUS
    <3>2. r = [fs EXCEPT !.workspace = t, !.open = h, !.dirty = e]
      BY <1>0, <1>2, <1>10, <1>14, <2>1, <3>1 DEF imported, ImportedFiles
    <3>3. PICK q : q = [fs EXCEPT !.workspace = t, !.open = h]
      OBVIOUS
    <3>4. q = State(t, m, h, c, x)
      BY <1>2, <3>3 DEF State
    <3>5. r = [q EXCEPT !.dirty = e]
      BY <3>2, <3>3
    <3>6. r = State(t, m, h, c, e)
      BY <3>4, <3>5 DEF State
    <3> QED
      BY <3>1, <3>6
  <2>3. rebound(r) = State([dirs |-> u.dirs, files |-> ReboundFiles(F, HeldPaths(h))], m, Rebound(h), c, e)
    BY <2>2, ReboundIs
  <2> QED
    BY <2>1, <2>3, <1>11, <1>13, <1>15
<1>17. Becomes(s)
  <2>1. PICK q : q = Rebound(h) /\ HandlesOk(q)
    BY <1>15, ReboundHandles
  <2>2. s = State(v, m, q, c, e)
    BY <1>16, <2>1
  <2>3. e \in BOOLEAN /\ e
    BY <1>0
  <2> QED
    BY <2>1, <2>2, <2>3, <1>1, <1>3, <1>12, StateBecomes
<1>18. s.open = Rebound(h) /\ s.workspace = v
  BY <1>16 DEF State
<1>19. v.dirs = u.dirs /\ P \subseteq Files(v)
  <2>1. PICK G : G = ReboundFiles(F, P)
    OBVIOUS
  <2>2. P \subseteq DOMAIN G
    BY <2>1 DEF ReboundFiles, Over
  <2>3. v.dirs = u.dirs /\ v.files = G
    BY <1>11, <2>1
  <2> QED
    BY <2>2, <2>3 DEF Files
<1>20. fs' = s
  BY <1>6, <1>13 DEF TreeBecomes
<1>21. WasiInv'
  BY <1>6, <1>13, <1>17, StepInvariant
<1> QED
  BY <1>2, <1>6, <1>7, <1>18, <1>19, <1>20, <1>21, <1>14

-----------------------------------------------------------------------------
(* The whole run *)

LEMMA EmptyHandles == HandlesOk(<<>>) /\ DOMAIN <<>> = {}
BY DEF HandlesOk

LEMMA EmptyMount == GoodMount(EmptyTree)
BY EmptyTreeGood DEF GoodMount, EmptyTree, RecordsPlaced

LEMMA TreeInitInv ==
    ASSUME TreeInit, PackageFits
    PROVE  WasiInv
<1>1. PICK w, o, c : /\ w = IF writable THEN writableWorkspaceMount(Snapshot) ELSE readOnlyWorkspaceMount
                     /\ o = <<>> /\ c = <<"workspace">>
  OBVIOUS
<1>2. fs = [workspace |-> w, tmp |-> EmptyTree, open |-> o, cwd |-> c, dirty |-> FALSE]
  BY <1>1 DEF TreeInit
<1>3. /\ fs.workspace = w /\ fs.tmp = EmptyTree /\ fs.open = o /\ fs.cwd = c /\ fs.dirty = FALSE
      /\ fs = [workspace |-> fs.workspace, tmp |-> fs.tmp, open |-> fs.open, cwd |-> fs.cwd, dirty |-> fs.dirty]
  BY <1>2
<1>4. writable => GoodMount(w) /\ exportSnapshot(w) = Snapshot
  BY <1>1, MountedSnapshot
<1>5. ~writable => w.dirs = {} /\ Files(w) = PackageFiles
  BY <1>1 DEF readOnlyWorkspaceMount, Files
<1>6. c \in Paths /\ HandlesOk(o) /\ GoodMount(EmptyTree)
  BY <1>1, LiteralAssumption, EmptyHandles, EmptyMount
<1>7. Runtime(fs)
  BY <1>3, <1>4, <1>5, <1>6 DEF Runtime
<1>8. writable \in BOOLEAN /\ phase = "running" /\ stored = Snapshot
  BY DEF TreeInit
<1> QED
  BY <1>3, <1>4, <1>7, <1>8 DEF WasiInv, RunKept

LEMMA FlushInv ==
    ASSUME WasiInv, phase = "running", Flush
    PROVE  WasiInv'
<1>1. PICK w : w = fs.workspace
  OBVIOUS
<1>2. writable \in BOOLEAN /\ Runtime(fs) /\ (writable => GoodMount(w))
      /\ (writable /\ ~fs.dirty => stored = exportSnapshot(w))
  BY <1>1 DEF WasiInv, Runtime
<1>3. fs' = fs /\ writable' = writable
  BY DEF Flush
<1>4. Runtime(fs)'
  BY <1>2, <1>3 DEF Runtime
<1>5. writable => WellFormed(exportSnapshot(w))
  BY <1>2, ExportFacts DEF GoodTree
<1>6. phase' \in {"ended", "failed"} /\ (writable => phase' = "ended" /\ stored' = exportSnapshot(w))
  BY <1>1, <1>2, <1>5 DEF Flush, loadSnapshot, Done, Thrown
<1> QED
  BY <1>1, <1>2, <1>3, <1>4, <1>6 DEF WasiInv, RunKept

\* What is asked of the package, of the paths the module passes and of its children.
Ordinary == PackageFits /\ RootNotNamed /\ ChildLeavesOpen

LEMMA TreeStepInv ==
    ASSUME WasiInv, Ordinary, [TreeNext]_treeVars
    PROVE  WasiInv'
<1>1. CASE UNCHANGED treeVars
  BY <1>1 DEF treeVars, WasiInv, Runtime, RunKept
<1>2. CASE TreeNext /\ Flush
  BY <1>2, FlushInv DEF TreeNext
<1>3. ASSUME NEW fd, NEW text \in TextsFor(fd), NEW q, pathOpen(fd, text, q) PROVE WasiInv'
  BY <1>3, PathOpenInv
<1>4. ASSUME NEW fd, NEW text \in TextsFor(fd),
             pathCreateDirectory(fd, text) \/ pathUnlinkFile(fd, text) \/ pathRemoveDirectory(fd, text)
               \/ pathRename(fd, text)
      PROVE  WasiInv'
  BY <1>4, CreateDirectoryInv, UnlinkInv, RemoveDirectoryInv, RenameInv DEF Ordinary
<1>5. ASSUME NEW text \in Texts, chdir(text) PROVE WasiInv'
  BY <1>5, ChdirInv
<1>6. ASSUME NEW fd \in DOMAIN fs.open, fdWrite(fd) \/ fdTruncate(fd) \/ fdClose(fd) PROVE WasiInv'
  BY <1>6, WrittenInv, CloseInv DEF fdWrite, fdTruncate
<1>7. ASSUME NEW change \in ChildChanges, runProcessExec(change) PROVE WasiInv'
  BY <1>7, ExecInv DEF Ordinary
<1>8. CASE TreeNext /\ FileCalls
  BY <1>8, <1>3, <1>4, <1>5, <1>6, <1>7 DEF FileCalls
<1> QED
  BY <1>1, <1>2, <1>8 DEF TreeNext

LEMMA WasiInvHolds ==
    ASSUME Ordinary
    PROVE  TreeSpec => []WasiInv
<1>1. TreeInit => WasiInv
  BY TreeInitInv DEF Ordinary
<1>2. WasiInv /\ [TreeNext]_treeVars => WasiInv'
  BY TreeStepInv
<1> QED
  BY <1>1, <1>2, PTL DEF TreeSpec

\* What a raw WASI run did to its workspace is what the store holds once the run
\* has ended: whatever files and directories the module makes, writes, truncates,
\* renames and removes through whichever descriptors, and whatever its children
\* change, no call forgets to mark the workspace and none leaves a graph that
\* validateWorkspaceGraph refuses, which would lose all of it.
THEOREM RunKeptHolds ==
    ASSUME Ordinary
    PROVE  TreeSpec => []RunKept
<1>1. WasiInv => RunKept
  BY DEF WasiInv
<1> QED
  BY <1>1, WasiInvHolds, PTL

-----------------------------------------------------------------------------
(* What the calls say of a path *)

\* A tree in which nothing is below a path that is no directory.
Plain(t) ==
    /\ Nodes(t) \subseteq Paths /\ Files(t) \cap t.dirs = {}
    /\ \A p \in Files(t) : p # Root => \A x \in Nodes(t) : ~isChildPath(p, x)

LEMMA EntryFacts ==
    ASSUME NEW t, Plain(t), NEW p \in Nodes(t), p # Root
    PROVE  LET entries == directoryEntries(t, parentPath(p))
           IN  /\ Last(p) \in DOMAIN entries
               /\ entries[Last(p)] = IF p \in t.dirs THEN "directory" ELSE "file"
<1>1. PICK q : q = parentPath(p)
  OBVIOUS
<1>2. PICK n : n = Len(p)
  OBVIOUS
<1>3. /\ p \in Paths /\ q \in Paths /\ n \in Nat \ {0} /\ Len(q) = n - 1
      /\ \A i \in 1 .. n - 1 : q[i] = p[i]
  BY <1>1, <1>2, ParentFacts DEF Plain
<1>4. Len(q) + 1 = n /\ Last(p) = p[n]
  BY <1>2, <1>3 DEF Last
<1>5. PICK below : below = {x \in Nodes(t) : isChildPath(q, x)}
  OBVIOUS
<1>6. p \in below
  BY <1>2, <1>3, <1>5, WithinFacts
<1>7. ASSUME NEW x \in below, x[n] = p[n], p \notin t.dirs
      PROVE  ~(Len(x) > n \/ x \in t.dirs)
  <2>1. x \in Paths /\ x \in Nodes(t) /\ Len(x) \in Nat
    BY <1>5, RootPath DEF Plain
  <2>2. Len(q) < Len(x) /\ \A i \in 1 .. Len(q) : q[i] = x[i]
    BY <1>3, <1>5, <2>1, WithinFacts
  <2>3. \A i \in 1 .. n : p[i] = x[i]
    BY <1>3, <1>7, <2>2
  <2>4. p \in Files(t)
    BY <1>7 DEF Nodes
  <2>5. ~isChildPath(p, x)
    BY <2>1, <2>4 DEF Plain
  <2>6. Len(x) = n
    BY <1>2, <1>3, <2>1, <2>2, <2>3, <2>5, WithinFacts
  <2>7. x = p
    BY <1>2, <1>3, <2>1, <2>3, <2>6, SamePath
  <2> QED
    BY <1>7, <2>6, <2>7, <1>3
<1>8. PICK entries : entries = directoryEntries(t, q)
  OBVIOUS
<1>9. entries = [k \in {x[n] : x \in below} |->
                   IF \E x \in below : x[n] = k /\ (Len(x) > n \/ x \in t.dirs) THEN "directory" ELSE "file"]
  BY <1>4, <1>5, <1>8 DEF directoryEntries
<1>10. p[n] \in DOMAIN entries
  BY <1>6, <1>9
<1>11. entries[p[n]] = IF \E x \in below : x[n] = p[n] /\ (Len(x) > n \/ x \in t.dirs) THEN "directory" ELSE "file"
  BY <1>6, <1>9
<1>12. CASE p \in t.dirs
  BY <1>1, <1>4, <1>6, <1>8, <1>10, <1>11, <1>12
<1>13. CASE p \notin t.dirs
  BY <1>1, <1>4, <1>7, <1>8, <1>10, <1>11, <1>13
<1> QED
  BY <1>12, <1>13

LEMMA PlainViews ==
    ASSUME NEW t, Plain(t), NEW p \in Nodes(t), p # Root
    PROVE  LET kind    == statPath(t, p)
               entries == directoryEntries(t, parentPath(p))
           IN  pathKind(t, p) = kind /\ Last(p) \in DOMAIN entries /\ entries[Last(p)] = kind
<1>1. PICK kind : kind = IF p \in t.dirs THEN "directory" ELSE "file"
  OBVIOUS
<1>2. p \in t.dirs \/ p \in Files(t)
  BY DEF Nodes
<1>3. isDirectory(t, p) <=> p \in t.dirs
  BY <1>2 DEF isDirectory, pathHasChildren, Plain
<1>4. statPath(t, p) = kind /\ pathKind(t, p) = kind
  BY <1>1, <1>2, <1>3 DEF statPath, pathKind, Plain
<1> QED
  BY <1>1, <1>4, EntryFacts

LEMMA MountPlain ==
    ASSUME NEW t, GoodMount(t)
    PROVE  Plain(t) /\ \A p \in Nodes(t) : p # Root => parentOk(t, p)
<1>1. \A p \in Files(t) : p \in Paths /\ p \notin t.dirs
  BY MountNodes
<1>2. \A p \in Files(t) : \A x \in Nodes(t) : ~isChildPath(p, x)
  BY <1>1, MountNodes, NothingBelow
<1> QED
  BY <1>2, MountNodes DEF Plain, parentOk

LEMMA PackagePlain ==
    ASSUME PackageFits, NEW t, t.dirs = {}, Files(t) = PackageFiles
    PROVE  Plain(t)
<1>1. PICK w : w = writableWorkspaceMount(Snapshot) /\ GoodMount(w)
  BY MountedSnapshot
<1>2. w.dirs = Snapshot.dirs /\ PackageFiles \subseteq Files(w)
  BY <1>1 DEF writableWorkspaceMount, Files
<1>3. \A p \in PackageFiles : p \in Paths /\ p \notin w.dirs
  BY <1>2, ConstantFacts DEF PackageFits
<1>4. \A p \in PackageFiles : \A x \in PackageFiles : ~isChildPath(p, x)
  BY <1>1, <1>2, <1>3, MountNodes, NothingBelow
<1> QED
  BY <1>3, <1>4 DEF Plain, Nodes

\* What open, rename, stat and readdir take a path of the workspace or of /tmp for
\* is the same at every moment of a run: no path is a file and a directory, a
\* directory's listing has each of its entries with its kind, and every entry can be
\* reached through its parent.
THEOREM ViewsAgreeHolds ==
    ASSUME Ordinary
    PROVE  TreeSpec => []ViewsAgree
<1>1. ASSUME WasiInv PROVE ViewsAgree
  <2>1. Runtime(fs) /\ writable \in BOOLEAN
    BY <1>1 DEF WasiInv
  <2>2. \A t \in {fs.workspace, fs.tmp} : Plain(t) /\ (writable => \A p \in Nodes(t) : p # Root => parentOk(t, p))
    <3>1. GoodMount(fs.tmp) /\ (writable => GoodMount(fs.workspace))
      BY <2>1 DEF Runtime
    <3>2. ~writable => Plain(fs.workspace)
      BY <2>1, PackagePlain DEF Runtime, Ordinary
    <3> QED
      BY <3>1, <3>2, <2>1, MountPlain
  <2> SUFFICES ASSUME NEW t \in {fs.workspace, fs.tmp}, NEW p \in Nodes(t) \ {Root}
               PROVE  LET kind    == statPath(t, p)
                          entries == directoryEntries(t, parentPath(p))
                      IN  /\ pathKind(t, p) = kind
                          /\ Last(p) \in DOMAIN entries /\ entries[Last(p)] = kind
                          /\ writable => parentOk(t, p)
    BY DEF ViewsAgree
  <2> QED
    BY <2>2, PlainViews
<1> QED
  BY <1>1, WasiInvHolds, PTL

-----------------------------------------------------------------------------
(* Descriptors of the workspace *)

\* What is at the place of a descriptor of the workspace that can be changed: a
\* descriptor that is told of the wrong kind of removal would part from its object.
Placed(d, w) ==
    d.mount = "workspace" /\ writable /\ d.at # Nowhere =>
      (d.kind = "file" => d.at \in Files(w)) /\ (d.kind = "directory" => d.at \in w.dirs)
AllPlaced(o, w) == \A fd \in DOMAIN o : Placed(o[fd], w)
PlacedInv == AllPlaced(fs.open, fs.workspace)

\* A descriptor d of the workspace that becomes e goes with its object.
GoesAlong(d, e) == d.mount = "workspace" /\ d.path = d.at => e.path = e.at
Along(o, q) == \A fd \in DOMAIN o \cap DOMAIN q : GoesAlong(o[fd], q[fd])

\* One step of DescriptorsFollow.
Followed ==
    \A fd \in DOMAIN fs.open \cap DOMAIN fs'.open :
      \/ GoesAlong(fs.open[fd], fs'.open[fd])
      \/ ScratchRewrote(fs.open[fd].path, fs'.open[fd].path)
FollowsNext == PlacedInv' /\ Followed

LEMMA AlongSame ==
    ASSUME NEW o
    PROVE  Along(o, o)
BY DEF Along, GoesAlong

LEMMA PlacedStep ==
    ASSUME NEW s, TreeBecomes(s), AllPlaced(s.open, s.workspace)
    PROVE  PlacedInv'
<1>1. fs' = s /\ writable' = writable
  BY DEF TreeBecomes
<1> QED
  BY <1>1 DEF PlacedInv, AllPlaced, Placed

LEMMA FollowStep ==
    ASSUME NEW s, TreeBecomes(s), AllPlaced(s.open, s.workspace), Along(fs.open, s.open)
    PROVE  FollowsNext
<1>1. fs' = s
  BY DEF TreeBecomes
<1>2. PlacedInv'
  BY PlacedStep
<1>3. Followed
  BY <1>1 DEF Followed, Along
<1> QED
  BY <1>2, <1>3 DEF FollowsNext

LEMMA PlacedMore ==
    ASSUME NEW o, NEW w, NEW u, AllPlaced(o, w), Files(w) \subseteq Files(u), w.dirs \subseteq u.dirs
    PROVE  AllPlaced(o, u)
BY DEF AllPlaced, Placed

LEMMA FollowsSame ==
    ASSUME NEW o, NEW q, NEW w, AllPlaced(o, w), DOMAIN q = DOMAIN o,
           \A fd \in DOMAIN o : "workspace" \in {o[fd].mount, q[fd].mount} => o[fd] = q[fd]
    PROVE  AllPlaced(q, w) /\ Along(o, q)
<1>1. AllPlaced(q, w)
  BY DEF AllPlaced, Placed
<1>2. Along(o, q)
  BY DEF Along, GoesAlong
<1> QED
  BY <1>1, <1>2

LEMMA ChangedFields ==
    ASSUME Runtime(fs), NEW mount \in {"workspace", "tmp"}, NEW t
    PROVE  /\ Changed(mount, t).open = fs.open
           /\ Changed(mount, t).workspace = IF mount = "workspace" THEN t ELSE fs.workspace
           /\ \A o : /\ [Changed(mount, t) EXCEPT !.open = o].open = o
                     /\ [Changed(mount, t) EXCEPT !.open = o].workspace =
                          IF mount = "workspace" THEN t ELSE fs.workspace
                     /\ [Changed(mount, t) EXCEPT !.open = o].tmp = IF mount = "tmp" THEN t ELSE fs.tmp
<1>1. PICK w, m, o, c, e, r : /\ r = Changed(mount, t) /\ r = State(w, m, o, c, e) /\ o = fs.open
                              /\ w = IF mount = "workspace" THEN t ELSE fs.workspace
                              /\ m = IF mount = "tmp" THEN t ELSE fs.tmp
  BY ChangedIs
<1>2. /\ r.open = o /\ r.workspace = w
      /\ \A q : LET x == [r EXCEPT !.open = q] IN x.open = q /\ x.workspace = w /\ x.tmp = m
  BY <1>1 DEF State
<1> QED
  BY <1>1, <1>2

LEMMA OpenedFollows ==
    ASSUME WasiInv, PlacedInv, NEW s, Becomes(s), s.open = fs.open,
           Files(fs.workspace) \subseteq Files(s.workspace), fs.workspace.dirs \subseteq s.workspace.dirs,
           NEW fd, NEW d, Placed(d, s.workspace),
           TreeBecomes([s EXCEPT !.open = Over(@, [slot \in {fd} |-> d])])
    PROVE  FollowsNext
<1>1. PICK p : p = fs.open /\ p = s.open
  OBVIOUS
<1>2. PICK o : o = Over(p, [slot \in {fd} |-> d])
  OBVIOUS
<1>3. AllPlaced(p, s.workspace)
  BY <1>1, PlacedMore DEF PlacedInv
<1>4. AllPlaced(o, s.workspace) /\ Along(p, o)
  <2>1. DOMAIN o = DOMAIN p \cup {fd} /\ \A x \in DOMAIN o : o[x] = IF x \in DOMAIN p THEN p[x] ELSE d
    BY <1>2 DEF Over
  <2>2. AllPlaced(o, s.workspace)
    BY <1>3, <2>1 DEF AllPlaced
  <2>3. Along(p, o)
    BY <2>1 DEF Along, GoesAlong
  <2> QED
    BY <2>2, <2>3
<1>5. PICK r : r = [s EXCEPT !.open = o]
  OBVIOUS
<1>6. r.open = o /\ r.workspace = s.workspace
  BY <1>5 DEF Becomes, Runtime
<1>7. TreeBecomes(r)
  BY <1>1, <1>2, <1>5
<1> QED
  BY <1>1, <1>4, <1>6, <1>7, FollowStep

LEMMA OpenFileFollows ==
    ASSUME WasiInv, PlacedInv, NEW mount \in {"workspace", "tmp"}, mount = "workspace" => writable,
           NEW path \in Paths, NEW q, openFile(mount, path, q)
    PROVE  FollowsNext
<1>1. PICK t : t = fs[mount]
  OBVIOUS
<1>2. GoodMount(t) /\ Runtime(fs)
  BY <1>1, MountGood DEF WasiInv
<1>3. path \notin t.dirs /\ path # Root /\ parentOk(t, path)
  BY <1>1, <1>2, MountNodes, DirectoryIs DEF openFile
<1>4. PICK u : u = [t EXCEPT !.files = Over([p \in {path} |-> Record(Empty, FALSE, p)], @)]
  OBVIOUS
<1>5. GoodMount(u) /\ u.dirs = t.dirs /\ Files(u) = Files(t) \cup {path}
  <2>1. GoodMount(u)
    BY <1>2, <1>3, <1>4, PutFileKeeps
  <2>2. PICK F : F = Over([p \in {path} |-> Record(Empty, FALSE, p)], t.files)
    OBVIOUS
  <2>3. DOMAIN F = {path} \cup DOMAIN t.files
    BY <2>2 DEF Over
  <2>4. u.dirs = t.dirs /\ u.files = F
    BY <1>2, <1>4, <2>2 DEF GoodMount, GoodTree, IsTree
  <2> QED
    BY <2>1, <2>3, <2>4 DEF Files
<1>6. PICK s : s = IF path \notin Files(t) \/ "trunc" \in q THEN Changed(mount, u) ELSE fs
  OBVIOUS
<1>7. Becomes(s)
  BY <1>2, <1>5, <1>6, BecomesChanged, FsBecomes
<1>8. /\ s.open = fs.open
      /\ Files(fs.workspace) \subseteq Files(s.workspace) /\ fs.workspace.dirs \subseteq s.workspace.dirs
      /\ mount = "workspace" => path \in Files(s.workspace)
  <2>1. mount = "workspace" => t = fs.workspace
    BY <1>1
  <2>2. CASE s = fs /\ path \in Files(t)
    BY <2>1, <2>2
  <2>3. CASE s = Changed(mount, u)
    BY <1>2, <1>5, <2>1, <2>3, ChangedFields
  <2> QED
    BY <1>6, <2>2, <2>3
<1>9. PICK m : m = IF mount = "workspace" THEN mount ELSE "none"
  OBVIOUS
<1>10. PICK d : d = [mount |-> m, tree |-> mount, kind |-> "file", path |-> path, at |-> path, may |-> "write" \in q]
  OBVIOUS
<1>11. Placed(d, s.workspace)
  BY <1>8, <1>9, <1>10 DEF Placed
<1>12. PICK fd : fd = CHOOSE slot \in Slots : slot \notin DOMAIN fs.open
  OBVIOUS
<1>13. TreeBecomes([s EXCEPT !.open = Over(@, [slot \in {fd} |-> d])])
  BY <1>1, <1>4, <1>6, <1>9, <1>10, <1>12 DEF openFile, Opened
<1> QED
  BY <1>7, <1>8, <1>11, <1>13, OpenedFollows

LEMMA OpenDirectoryFollows ==
    ASSUME WasiInv, PlacedInv, NEW mount \in {"workspace", "tmp"}, NEW path \in Paths, NEW q,
           openDirectory(mount, path, q)
    PROVE  FollowsNext
<1>1. PICK d : d = [mount |-> mount, tree |-> mount, kind |-> "directory", path |-> path, at |-> path,
                    may |-> "write" \in q /\ (mount = "workspace" => writable)]
  OBVIOUS
<1>2. PICK w : w = fs.workspace
  OBVIOUS
<1>3. writable /\ mount = "workspace" => path \in w.dirs
  <2> SUFFICES ASSUME writable, mount = "workspace" PROVE path \in w.dirs
    OBVIOUS
  <2>1. GoodMount(w)
    BY <1>2 DEF WasiInv, Runtime
  <2>2. isDirectory(w, path) \/ path = Root
    BY <1>2 DEF openDirectory
  <2> QED
    BY <2>1, <2>2, MountNodes, DirectoryIs
<1>4. Placed(d, w)
  BY <1>1, <1>3 DEF Placed
<1>5. PICK fd : fd = CHOOSE slot \in Slots : slot \notin DOMAIN fs.open
  OBVIOUS
<1>6. TreeBecomes([fs EXCEPT !.open = Over(@, [slot \in {fd} |-> d])])
  BY <1>1, <1>5 DEF openDirectory, Opened
<1>7. Becomes(fs)
  BY FsBecomes DEF WasiInv
<1> QED
  BY <1>2, <1>4, <1>6, <1>7, OpenedFollows

LEMMA OpenOtherFollows ==
    ASSUME WasiInv, PlacedInv, NEW mount \in {"root", "none"}, NEW tree, NEW kind, NEW path,
           Opened(fs, mount, tree, kind, path, FALSE)
    PROVE  FollowsNext
<1>1. PICK d : d = [mount |-> mount, tree |-> tree, kind |-> kind, path |-> path, at |-> path, may |-> FALSE]
  OBVIOUS
<1>2. Placed(d, fs.workspace)
  BY <1>1 DEF Placed
<1>3. PICK fd : fd = CHOOSE slot \in Slots : slot \notin DOMAIN fs.open
  OBVIOUS
<1>4. TreeBecomes([fs EXCEPT !.open = Over(@, [slot \in {fd} |-> d])])
  BY <1>1, <1>3 DEF Opened
<1>5. Becomes(fs)
  BY FsBecomes DEF WasiInv
<1> QED
  BY <1>2, <1>4, <1>5, OpenedFollows

LEMMA OpenPackageRootFollows ==
    ASSUME WasiInv, PlacedInv, NEW fd, NEW text, text.names \in Paths, NEW q, openPackageRootPath(fd, text, q)
    PROVE  FollowsNext
<1>1. PICK path : path = resolvePackageRootPath(BasePath(fd, "root"), text)
  OBVIOUS
<1>2. path \in Paths
  BY <1>1, BasePathFacts, NowherePath, ResolveFacts DEF resolvePackageRootPath, WasiInv
<1>3. CASE \E mount \in {"workspace", "tmp"} : Mounted(path, mount) /\ openDirectory(mount, Tail(path), q)
  <2>1. PICK mount \in {"workspace", "tmp"} : Mounted(path, mount) /\ openDirectory(mount, Tail(path), q)
    BY <1>3
  <2>2. Tail(path) \in Paths
    BY <2>1, <1>2, MountedPath
  <2> QED
    BY <2>1, <2>2, OpenDirectoryFollows
<1>4. CASE Opened(fs, "root", "root", IF "directory" \in q THEN "directory" ELSE "file", path, FALSE)
  BY <1>4, OpenOtherFollows
<1> QED
  BY <1>1, <1>3, <1>4 DEF openPackageRootPath

LEMMA OpenReadOnlyFollows ==
    ASSUME WasiInv, PlacedInv, NEW fd, NEW text, text.names \in Paths, NEW q, openReadOnly(fd, text, q)
    PROVE  FollowsNext
<1>1. PICK path : path = IF text.abs THEN Nowhere ELSE resolve(BasePath(fd, "workspace"), text.names)
  OBVIOUS
<1>2. path \in Paths
  BY <1>1, BasePathFacts, NowherePath, ResolveFacts DEF WasiInv
<1>3. openDirectory("workspace", path, q) \/ Opened(fs, "none", "workspace", "file", path, FALSE)
  BY <1>1 DEF openReadOnly, openReadOnlyWorkspaceDirectory
<1>4. CASE openDirectory("workspace", path, q)
  BY <1>2, <1>4, OpenDirectoryFollows
<1>5. CASE Opened(fs, "none", "workspace", "file", path, FALSE)
  BY <1>5, OpenOtherFollows
<1> QED
  BY <1>3, <1>4, <1>5

LEMMA PathOpenFollows ==
    ASSUME WasiInv, PlacedInv, NEW fd, NEW text \in TextsFor(fd), NEW q, pathOpen(fd, text, q)
    PROVE  FollowsNext
<1>1. PICK at : at = Place(fd, text)
  OBVIOUS
<1>2. at.path \in Paths /\ at.mount \in {"workspace", "tmp"} /\ (at.mount = "workspace" => writable)
      /\ text.names \in Paths
  BY <1>1, PlaceFacts, TextNames DEF WasiInv
<1>3. CASE at.mount = "workspace" /\ openDirectory("workspace", at.path, q)
  BY <1>2, <1>3, OpenDirectoryFollows
<1>4. CASE at.mount = "workspace" /\ openFile("workspace", at.path, q)
  BY <1>2, <1>4, OpenFileFollows
<1>5. CASE openDirectory("tmp", at.path, q)
  BY <1>2, <1>5, OpenDirectoryFollows
<1>6. CASE openFile("tmp", at.path, q)
  BY <1>2, <1>6, OpenFileFollows
<1>7. CASE openPackageRootPath(fd, text, q)
  BY <1>2, <1>7, OpenPackageRootFollows
<1>8. CASE openReadOnly(fd, text, q)
  BY <1>2, <1>8, OpenReadOnlyFollows
<1> QED
  BY <1>1, <1>3, <1>4, <1>5, <1>6, <1>7, <1>8
     DEF pathOpen, openWorkspaceDirectory, openWorkspaceFile, openScratchDirectory, openScratchFile

LEMMA CloseFollows ==
    ASSUME WasiInv, PlacedInv, NEW fd, fdClose(fd)
    PROVE  FollowsNext
<1>1. PICK o : o = Restrict(fs.open, DOMAIN fs.open \ {fd})
  OBVIOUS
<1>2. AllPlaced(o, fs.workspace) /\ Along(fs.open, o)
  <2>1. DOMAIN o \subseteq DOMAIN fs.open /\ \A x \in DOMAIN o : o[x] = fs.open[x]
    BY <1>1 DEF Restrict
  <2> QED
    BY <2>1 DEF PlacedInv, AllPlaced, Along, GoesAlong
<1>3. PICK s : s = [fs EXCEPT !.open = o]
  OBVIOUS
<1>4. s.open = o /\ s.workspace = fs.workspace
  BY <1>3 DEF WasiInv, Runtime
<1>5. TreeBecomes(s)
  BY <1>1, <1>3 DEF fdClose
<1> QED
  BY <1>2, <1>4, <1>5, FollowStep

LEMMA CreateDirectoryFollows ==
    ASSUME WasiInv, PlacedInv, NEW fd, NEW text \in TextsFor(fd), pathCreateDirectory(fd, text)
    PROVE  FollowsNext
<1>1. PICK at : at = Place(fd, text)
  OBVIOUS
<1>2. PICK path, mount : path = at.path /\ mount = at.mount
  OBVIOUS
<1>3. mount \in {"workspace", "tmp"} /\ (mount = "workspace" => writable) /\ Runtime(fs)
  BY <1>1, <1>2, PlaceFacts DEF WasiInv
<1>4. PICK t : t = fs[mount]
  OBVIOUS
<1>5. PICK u : u = [t EXCEPT !.dirs = @ \cup {path}]
  OBVIOUS
<1>6. Files(t) = Files(u) /\ t.dirs \subseteq u.dirs
  BY <1>3, <1>4, <1>5, MountGood DEF GoodMount, GoodTree, IsTree, Files
<1>7. PICK s : s = Changed(mount, u)
  OBVIOUS
<1>8. s.open = fs.open /\ s.workspace = IF mount = "workspace" THEN u ELSE fs.workspace
  BY <1>3, <1>7, ChangedFields
<1>9. AllPlaced(s.open, s.workspace)
  BY <1>4, <1>6, <1>8, PlacedMore DEF PlacedInv
<1>10. TreeBecomes(s)
  BY <1>1, <1>2, <1>4, <1>5, <1>7 DEF pathCreateDirectory
<1> QED
  BY <1>8, <1>9, <1>10, AlongSame, FollowStep

\* A descriptor of the workspace is told of the removal of its own object only.
LEMMA RemovedFollows ==
    ASSUME NEW o, HandlesOk(o), NEW w, AllPlaced(o, w), writable, NEW u, NEW path,
           NEW kind \in {"file", "directory"},
           kind = "file" => path \notin w.dirs /\ Files(w) \ {path} \subseteq Files(u) /\ w.dirs \subseteq u.dirs,
           kind = "directory" => path \notin Files(w) /\ Files(w) \subseteq Files(u) /\ w.dirs \ {path} \subseteq u.dirs
    PROVE  LET q == Removed(o, "workspace", kind, path) IN AllPlaced(q, u) /\ Along(o, q)
<1>1. PICK e : e = Detached(o, "workspace", kind, path)
  OBVIOUS
<1>2. PICK q : q = Gone(e, "workspace", path)
  OBVIOUS
<1>3. Removed(o, "workspace", kind, path) = q
  BY <1>1, <1>2 DEF Removed
<1>4. DOMAIN e = DOMAIN o /\ DOMAIN q = DOMAIN o
  BY <1>1, <1>2 DEF Detached, Gone
<1>5. ASSUME NEW fd \in DOMAIN o PROVE Placed(q[fd], u) /\ GoesAlong(o[fd], q[fd])
  <2>1. PICK d : d = o[fd]
    OBVIOUS
  <2>2. PICK b : b = e[fd]
    OBVIOUS
  <2>3. PICK c : c = q[fd]
    OBVIOUS
  <2>4. IsHandle(d) /\ Placed(d, w)
    BY <2>1 DEF HandlesOk, AllPlaced
  <2>5. b = IF d.mount = "workspace" /\ d.kind = kind /\ d.path = path THEN [d EXCEPT !.path = Nowhere] ELSE d
    BY <1>1, <2>1, <2>2 DEF Detached
  <2>6. c = IF b.tree = "workspace" /\ b.at = path THEN [b EXCEPT !.at = Nowhere] ELSE b
    BY <1>2, <1>4, <2>2, <2>3 DEF Gone
  <2>7. /\ b.mount = d.mount /\ b.kind = d.kind /\ b.tree = d.tree /\ b.at = d.at
        /\ b.path = IF d.mount = "workspace" /\ d.kind = kind /\ d.path = path THEN Nowhere ELSE d.path
        /\ IsHandle(b)
    BY <2>4, <2>5, NowherePath DEF IsHandle, Handles
  <2>8. /\ c.mount = b.mount /\ c.kind = b.kind /\ c.path = b.path
        /\ c.at = IF b.tree = "workspace" /\ b.at = path THEN Nowhere ELSE b.at
    BY <2>6, <2>7 DEF IsHandle, Handles
  <2> SUFFICES ASSUME c.mount = "workspace" PROVE Placed(c, u) /\ GoesAlong(d, c)
    BY <2>1, <2>3, <2>7, <2>8 DEF Placed, GoesAlong
  <2>9. d.mount = "workspace" /\ d.tree = "workspace" /\ d.kind \in {"file", "directory"}
    BY <2>4, <2>7, <2>8 DEF IsHandle, Handles
  <2>10. CASE d.at = path
    <3>1. path # Nowhere => d.kind = kind
      BY <2>4, <2>9, <2>10 DEF Placed
    <3>2. c.at = Nowhere /\ (d.path = d.at => c.path = Nowhere)
      BY <2>7, <2>8, <2>9, <2>10, <3>1
    <3> QED
      BY <3>2 DEF Placed, GoesAlong
  <2>11. CASE d.at # path
    <3>1. c.at = d.at /\ (d.path = d.at => c.path = d.at) /\ c.kind = d.kind
      BY <2>7, <2>8, <2>9, <2>11
    <3> QED
      BY <2>4, <2>9, <2>11, <3>1 DEF Placed, GoesAlong
  <2> QED
    BY <2>10, <2>11
<1> QED
  BY <1>3, <1>4, <1>5 DEF AllPlaced, Along

LEMMA RemovedMounts ==
    ASSUME NEW o, HandlesOk(o), NEW kind, NEW path
    PROVE  LET q == Removed(o, "workspace", kind, path)
           IN  \A fd \in DOMAIN o : fd \in DOMAIN q /\ q[fd].mount = o[fd].mount
<1>1. PICK e : e = Detached(o, "workspace", kind, path)
  OBVIOUS
<1>2. PICK q : q = Gone(e, "workspace", path)
  OBVIOUS
<1>3. Removed(o, "workspace", kind, path) = q
  BY <1>1, <1>2 DEF Removed
<1>4. HandlesOk(e)
  BY <1>1, DetachedHandles
<1>5. \A fd \in DOMAIN o : /\ fd \in DOMAIN e
                           /\ e[fd] = o[fd] \/ e[fd] = [o[fd] EXCEPT !.path = Nowhere]
  BY <1>1 DEF Detached
<1>6. \A fd \in DOMAIN e : /\ fd \in DOMAIN q
                           /\ q[fd] = e[fd] \/ q[fd] = [e[fd] EXCEPT !.at = Nowhere]
  BY <1>2 DEF Gone
<1>7. ASSUME NEW fd \in DOMAIN o PROVE fd \in DOMAIN q /\ q[fd].mount = o[fd].mount
  <2>1. PICK d, b : d = o[fd] /\ b = e[fd] /\ IsHandle(d) /\ IsHandle(b)
    BY <1>4, <1>5 DEF HandlesOk
  <2>2. b.mount = d.mount
    BY <1>5, <2>1 DEF IsHandle, Handles
  <2>3. q[fd].mount = b.mount
    <3>1. q[fd] = b \/ q[fd] = [b EXCEPT !.at = Nowhere]
      BY <1>5, <1>6, <2>1
    <3>2. [b EXCEPT !.at = Nowhere].mount = b.mount
      BY <2>1 DEF IsHandle, Handles
    <3> QED
      BY <3>1, <3>2
  <2> QED
    BY <1>5, <1>6, <2>1, <2>2, <2>3
<1> QED
  BY <1>3, <1>7

\* What is removed from /tmp is nothing to them.
LEMMA ScratchRemoved ==
    ASSUME NEW o, HandlesOk(o), NEW w, AllPlaced(o, w), NEW kind, NEW path
    PROVE  LET q == Removed(o, "tmp", kind, path) IN AllPlaced(q, w) /\ Along(o, q)
<1>1. PICK q : q = Gone(o, "tmp", path)
  OBVIOUS
<1>2. Removed(o, "tmp", kind, path) = q
  BY <1>1 DEF Removed
<1>3. DOMAIN q = DOMAIN o
  BY <1>1 DEF Gone
<1>4. ASSUME NEW fd \in DOMAIN o, "workspace" \in {o[fd].mount, q[fd].mount} PROVE o[fd] = q[fd]
  <2>1. PICK d : d = o[fd] /\ IsHandle(d)
    BY DEF HandlesOk
  <2>2. q[fd] = IF d.tree = "tmp" /\ d.at = path THEN [d EXCEPT !.at = Nowhere] ELSE d
    BY <1>1, <2>1 DEF Gone
  <2>3. [d EXCEPT !.at = Nowhere].mount = d.mount
    BY <2>1 DEF IsHandle, Handles
  <2>4. d.tree = "workspace"
    BY <1>4, <2>1, <2>2, <2>3 DEF IsHandle
  <2> QED
    BY <2>1, <2>2, <2>4
<1> QED
  BY <1>2, <1>3, <1>4, FollowsSame

LEMMA UnlinkFollows ==
    ASSUME WasiInv, PlacedInv, NEW fd, NEW text \in TextsFor(fd), pathUnlinkFile(fd, text)
    PROVE  FollowsNext
<1>1. PICK at : at = Place(fd, text)
  OBVIOUS
<1>2. PICK path, mount : path = at.path /\ mount = at.mount
  OBVIOUS
<1>3. mount \in {"workspace", "tmp"} /\ (mount = "workspace" => writable) /\ Runtime(fs) /\ HandlesOk(fs.open)
  BY <1>1, <1>2, PlaceFacts DEF WasiInv, Runtime
<1>4. PICK t : t = fs[mount]
  OBVIOUS
<1>5. GoodMount(t)
  BY <1>3, <1>4, MountGood
<1>6. PICK u : u = [t EXCEPT !.files = Restrict(@, DOMAIN @ \ {path})]
  OBVIOUS
<1>7. PICK o : o = Removed(fs.open, mount, "file", path)
  OBVIOUS
<1>8. /\ TreeBecomes([Changed(mount, u) EXCEPT !.open = Removed(@, mount, "file", path)])
      /\ path \in Files(t)
  BY <1>1, <1>2, <1>4, <1>6 DEF pathUnlinkFile
<1>9. PICK s : s = [Changed(mount, u) EXCEPT !.open = o]
  OBVIOUS
<1>10. TreeBecomes(s)
  BY <1>3, <1>7, <1>8, <1>9, ChangedOpen
<1>11. s.open = o /\ s.workspace = IF mount = "workspace" THEN u ELSE fs.workspace
  BY <1>3, <1>9, ChangedFields
<1>12. u.dirs = t.dirs /\ Files(u) = Files(t) \ {path} /\ path \notin t.dirs
  <2>1. PICK F : F = Restrict(t.files, DOMAIN t.files \ {path})
    OBVIOUS
  <2>2. DOMAIN F = DOMAIN t.files \ {path}
    BY <2>1 DEF Restrict
  <2>3. u.dirs = t.dirs /\ u.files = F
    BY <1>5, <1>6, <2>1 DEF GoodMount, GoodTree, IsTree
  <2> QED
    BY <1>5, <1>8, <2>2, <2>3, MountNodes DEF Files
<1>13. CASE mount = "workspace"
  BY <1>3, <1>4, <1>7, <1>10, <1>11, <1>12, <1>13, RemovedFollows, FollowStep DEF PlacedInv
<1>14. CASE mount = "tmp"
  BY <1>3, <1>7, <1>10, <1>11, <1>14, ScratchRemoved, FollowStep DEF PlacedInv
<1> QED
  BY <1>3, <1>13, <1>14

LEMMA RemoveDirectoryFollows ==
    ASSUME WasiInv, PlacedInv, NEW fd, NEW text \in TextsFor(fd), pathRemoveDirectory(fd, text)
    PROVE  FollowsNext
<1>1. PICK at : at = Place(fd, text)
  OBVIOUS
<1>2. PICK path, mount : path = at.path /\ mount = at.mount
  OBVIOUS
<1>3. mount \in {"workspace", "tmp"} /\ (mount = "workspace" => writable) /\ Runtime(fs) /\ HandlesOk(fs.open)
  BY <1>1, <1>2, PlaceFacts DEF WasiInv, Runtime
<1>4. PICK t : t = fs[mount]
  OBVIOUS
<1>5. GoodMount(t)
  BY <1>3, <1>4, MountGood
<1>6. PICK u : u = [t EXCEPT !.dirs = @ \ {path}]
  OBVIOUS
<1>7. PICK o : o = Removed(fs.open, mount, "directory", path)
  OBVIOUS
<1>8. /\ TreeBecomes([Changed(mount, u) EXCEPT !.open = Removed(@, mount, "directory", path)])
      /\ path \notin Files(t)
  BY <1>1, <1>2, <1>4, <1>6 DEF pathRemoveDirectory
<1>9. PICK s : s = [Changed(mount, u) EXCEPT !.open = o]
  OBVIOUS
<1>10. TreeBecomes(s)
  BY <1>3, <1>7, <1>8, <1>9, ChangedOpen
<1>11. s.open = o /\ s.workspace = IF mount = "workspace" THEN u ELSE fs.workspace
  BY <1>3, <1>9, ChangedFields
<1>12. u.dirs = t.dirs \ {path} /\ Files(u) = Files(t)
  BY <1>5, <1>6 DEF GoodMount, GoodTree, IsTree, Files
<1>13. CASE mount = "workspace"
  BY <1>3, <1>4, <1>7, <1>8, <1>10, <1>11, <1>12, <1>13, RemovedFollows, FollowStep DEF PlacedInv
<1>14. CASE mount = "tmp"
  BY <1>3, <1>7, <1>10, <1>11, <1>14, ScratchRemoved, FollowStep DEF PlacedInv
<1> QED
  BY <1>3, <1>13, <1>14

LEMMA FileMovedFollows ==
    ASSUME NEW o, HandlesOk(o), NEW w, AllPlaced(o, w), writable, NEW u, NEW from, NEW to,
           from \notin w.dirs, to \notin w.dirs, w.dirs \subseteq u.dirs,
           (Files(w) \ {from}) \cup {to} \subseteq Files(u)
    PROVE  LET q == FileMoved(o, "workspace", from, to) IN AllPlaced(q, u) /\ Along(o, q)
<1>1. PICK q : q = FileMoved(o, "workspace", from, to)
  OBVIOUS
<1>2. DOMAIN q = DOMAIN o
  BY <1>1 DEF FileMoved
<1>3. ASSUME NEW fd \in DOMAIN o PROVE Placed(q[fd], u) /\ GoesAlong(o[fd], q[fd])
  <2>1. PICK d : d = o[fd] /\ IsHandle(d) /\ Placed(d, w)
    BY DEF HandlesOk, AllPlaced
  <2>2. PICK c : c = q[fd]
    OBVIOUS
  <2>3. c = IF d.tree = "workspace" /\ d.kind = "file" /\ d.at = from THEN [d EXCEPT !.path = to, !.at = to]
            ELSE IF d.tree = "workspace" /\ d.kind = "file" /\ d.at = to
            THEN [d EXCEPT !.path = Nowhere, !.at = Nowhere] ELSE d
    BY <1>1, <2>1, <2>2 DEF FileMoved
  <2>4. \A p : [d EXCEPT !.path = p, !.at = p].path = p /\ [d EXCEPT !.path = p, !.at = p].at = p
               /\ [d EXCEPT !.path = p, !.at = p].mount = d.mount /\ [d EXCEPT !.path = p, !.at = p].kind = d.kind
    BY <2>1 DEF IsHandle, Handles
  <2>10. c.mount = d.mount /\ c.kind = d.kind
    BY <2>3, <2>4
  <2> SUFFICES ASSUME c.mount = "workspace" PROVE Placed(c, u) /\ GoesAlong(d, c)
    BY <2>1, <2>2, <2>10 DEF Placed, GoesAlong
  <2>5. d.mount = "workspace" /\ d.tree = "workspace" /\ d.kind \in {"file", "directory"}
    BY <2>1, <2>10 DEF IsHandle, Handles
  <2>6. CASE d.kind = "directory"
    BY <2>1, <2>3, <2>5, <2>6 DEF Placed, GoesAlong
  <2>7. CASE d.kind = "file" /\ d.at = from
    <3>1. c.path = to /\ c.at = to /\ c.kind = "file"
      BY <2>3, <2>4, <2>5, <2>7
    <3> QED
      BY <3>1 DEF Placed, GoesAlong
  <2>8. CASE d.kind = "file" /\ d.at # from /\ d.at = to
    <3>1. c.path = Nowhere /\ c.at = Nowhere
      BY <2>3, <2>4, <2>5, <2>8
    <3> QED
      BY <3>1 DEF Placed, GoesAlong
  <2>9. CASE d.kind = "file" /\ d.at # from /\ d.at # to
    BY <2>1, <2>3, <2>5, <2>9 DEF Placed, GoesAlong
  <2> QED
    BY <2>5, <2>6, <2>7, <2>8, <2>9
<1> QED
  BY <1>1, <1>2, <1>3 DEF AllPlaced, Along

LEMMA ScratchFileMoved ==
    ASSUME NEW o, HandlesOk(o), NEW w, AllPlaced(o, w), NEW from, NEW to
    PROVE  LET q == FileMoved(o, "tmp", from, to) IN AllPlaced(q, w) /\ Along(o, q)
<1>1. PICK q : q = FileMoved(o, "tmp", from, to)
  OBVIOUS
<1>2. DOMAIN q = DOMAIN o
  BY <1>1 DEF FileMoved
<1>3. ASSUME NEW fd \in DOMAIN o, "workspace" \in {o[fd].mount, q[fd].mount} PROVE o[fd] = q[fd]
  <2>1. PICK d : d = o[fd] /\ IsHandle(d)
    BY DEF HandlesOk
  <2>2. q[fd] = IF d.tree = "tmp" /\ d.kind = "file" /\ d.at = from THEN [d EXCEPT !.path = to, !.at = to]
                ELSE IF d.tree = "tmp" /\ d.kind = "file" /\ d.at = to
                THEN [d EXCEPT !.path = Nowhere, !.at = Nowhere] ELSE d
    BY <1>1, <2>1 DEF FileMoved
  <2>3. \A p : [d EXCEPT !.path = p, !.at = p].mount = d.mount
    BY <2>1 DEF IsHandle, Handles
  <2>4. d.tree = "workspace"
    BY <1>3, <2>1, <2>2, <2>3 DEF IsHandle
  <2> QED
    BY <2>1, <2>2, <2>4
<1> QED
  BY <1>1, <1>2, <1>3, FollowsSame

LEMMA MoveNowhere ==
    ASSUME NEW from \in Paths, from # Root, from # Nowhere, NEW to
    PROVE  Move(Nowhere, from, to) = Nowhere
<1>1. Len(from) \in Nat /\ Len(from) # 0 /\ Len(Nowhere) = 1
  BY RootPath, NowherePath
<1>2. ~isChildPath(from, Nowhere)
  BY <1>1, NowherePath, WithinFacts
<1> QED
  BY <1>2 DEF Move, Within

\* The fields of a descriptor after a directory's rename.
LEMMA HandleMovesFields ==
    ASSUME NEW d, IsHandle(d), NEW mount, NEW from, NEW to
    PROVE  LET c == HandleMoves(d, mount, from, to)
           IN  /\ c.mount = d.mount /\ c.kind = d.kind
               /\ c.path = IF mount = "tmp" \/ d.mount = mount THEN Move(d.path, from, to) ELSE d.path
               /\ c.at = IF d.tree = mount THEN Move(d.at, from, to) ELSE d.at
<1>1. PICK p : p = IF mount = "tmp" \/ d.mount = mount THEN Move(d.path, from, to) ELSE d.path
  OBVIOUS
<1>2. PICK a : a = IF d.tree = mount THEN Move(d.at, from, to) ELSE d.at
  OBVIOUS
<1>3. HandleMoves(d, mount, from, to) = [d EXCEPT !.path = p, !.at = a]
  BY <1>1, <1>2 DEF HandleMoves
<1>4. LET c == [d EXCEPT !.path = p, !.at = a]
      IN  c.mount = d.mount /\ c.kind = d.kind /\ c.path = p /\ c.at = a
  BY DEF IsHandle, Handles
<1> QED
  BY <1>1, <1>2, <1>3, <1>4

LEMMA TreeMovedFollows ==
    ASSUME NEW o, HandlesOk(o), NEW w, AllPlaced(o, w), NEW u, NEW from \in Paths, NEW to,
           from # Root, from # Nowhere,
           u.dirs = {Move(d, from, to) : d \in w.dirs}, Files(u) = {Move(f, from, to) : f \in Files(w)}
    PROVE  LET q == TreeMoved(o, "workspace", from, to) IN AllPlaced(q, u) /\ Along(o, q)
<1>1. PICK q : q = TreeMoved(o, "workspace", from, to)
  OBVIOUS
<1>2. DOMAIN q = DOMAIN o
  BY <1>1 DEF TreeMoved
<1>3. ASSUME NEW fd \in DOMAIN o PROVE Placed(q[fd], u) /\ GoesAlong(o[fd], q[fd])
  <2>1. PICK d : d = o[fd] /\ IsHandle(d) /\ Placed(d, w)
    BY DEF HandlesOk, AllPlaced
  <2>2. PICK c : c = q[fd]
    OBVIOUS
  <2>3. c = HandleMoves(d, "workspace", from, to)
    BY <1>1, <2>1, <2>2 DEF TreeMoved
  <2>4. /\ c.mount = d.mount /\ c.kind = d.kind
        /\ c.path = IF d.mount = "workspace" THEN Move(d.path, from, to) ELSE d.path
        /\ c.at = IF d.tree = "workspace" THEN Move(d.at, from, to) ELSE d.at
    BY <2>1, <2>3, HandleMovesFields
  <2> SUFFICES ASSUME c.mount = "workspace" PROVE Placed(c, u) /\ GoesAlong(d, c)
    BY <2>1, <2>2, <2>4 DEF Placed, GoesAlong
  <2>5. d.mount = "workspace" /\ d.tree = "workspace"
    BY <2>1, <2>4 DEF IsHandle
  <2>6. c.path = Move(d.path, from, to) /\ c.at = Move(d.at, from, to)
    BY <2>4, <2>5
  <2>7. CASE d.at = Nowhere
    BY <2>6, <2>7, MoveNowhere DEF Placed, GoesAlong
  <2>8. CASE d.at # Nowhere
    BY <2>1, <2>4, <2>5, <2>6, <2>8 DEF Placed, GoesAlong
  <2> QED
    BY <2>7, <2>8
<1> QED
  BY <1>1, <1>2, <1>3 DEF AllPlaced, Along

\* Where a directory moves to, which is not above it, and that nothing is left
\* where it was.
LEMMA MovedAway ==
    ASSUME NEW from \in Paths, NEW to \in Paths, from # to, ~isChildPath(to, from)
    PROVE  Move(from, from, to) = to /\ \A d \in Paths : Move(d, from, to) # from
<1>1. Within(from, from)
  BY DEF Within
<1>2. PICK p : p = replacePathPrefix(from, from, to)
  OBVIOUS
<1>3. p \in Paths /\ Len(p) = Len(to) /\ \A i \in 1 .. Len(to) : p[i] = to[i]
  <2>1. Len(from) \in Nat /\ Len(to) \in Nat
    BY RootPath
  <2>2. /\ p \in Paths /\ Len(p) = Len(to) + Len(from) - Len(from)
        /\ \A i \in 1 .. Len(to) : p[i] = to[i]
    BY <1>1, <1>2, MovedFacts
  <2>3. Len(p) = Len(to)
    BY <2>1, <2>2
  <2> QED
    BY <2>2, <2>3
<1>4. Move(from, from, to) = to
  BY <1>1, <1>2, <1>3, SamePath DEF Move
<1>5. ASSUME NEW d \in Paths, Move(d, from, to) = from PROVE FALSE
  <2>1. CASE ~Within(from, d)
    BY <1>1, <1>5, <2>1 DEF Move
  <2>2. CASE Within(from, d)
    BY <1>5, <2>2, MovedFacts DEF Move, Within
  <2> QED
    BY <2>1, <2>2
<1> QED
  BY <1>4, <1>5

\* The rename of a scratch directory rewrites the paths of all descriptors that begin
\* like it, those of the workspace too; where these are does not change.
LEMMA ScratchTreeMoved ==
    ASSUME NEW o, HandlesOk(o), NEW w, AllPlaced(o, w), NEW from, NEW to
    PROVE  LET q == TreeMoved(o, "tmp", from, to)
           IN  /\ AllPlaced(q, w) /\ DOMAIN q = DOMAIN o
               /\ \A fd \in DOMAIN o : o[fd].mount = "workspace" =>
                    /\ q[fd].at = o[fd].at
                    /\ q[fd].path = Move(o[fd].path, from, to)
<1>1. PICK q : q = TreeMoved(o, "tmp", from, to)
  OBVIOUS
<1>2. DOMAIN q = DOMAIN o
  BY <1>1 DEF TreeMoved
<1>3. ASSUME NEW fd \in DOMAIN o
      PROVE  /\ Placed(q[fd], w)
             /\ o[fd].mount = "workspace" =>
                  q[fd].at = o[fd].at /\ q[fd].path = Move(o[fd].path, from, to)
  <2>1. PICK d : d = o[fd] /\ IsHandle(d) /\ Placed(d, w)
    BY DEF HandlesOk, AllPlaced
  <2>2. PICK c : c = q[fd]
    OBVIOUS
  <2>3. c = HandleMoves(d, "tmp", from, to)
    BY <1>1, <2>1, <2>2 DEF TreeMoved
  <2>4. /\ c.mount = d.mount /\ c.kind = d.kind /\ c.path = Move(d.path, from, to)
        /\ c.at = IF d.tree = "tmp" THEN Move(d.at, from, to) ELSE d.at
    BY <2>1, <2>3, HandleMovesFields
  <2>5. d.mount = "workspace" => d.tree = "workspace"
    BY <2>1 DEF IsHandle
  <2> QED
    BY <2>1, <2>2, <2>4, <2>5 DEF Placed
<1> QED
  BY <1>1, <1>2, <1>3 DEF AllPlaced

LEMMA MovesFileFollows ==
    ASSUME WasiInv, PlacedInv, NEW mount, NEW from, NEW to, MovesFile(mount, from, to)
    PROVE  FollowsNext
<1>1. /\ mount \in {"workspace", "tmp"} /\ (mount = "workspace" => writable) /\ Runtime(fs) /\ HandlesOk(fs.open)
      /\ from \in Files(fs[mount]) /\ to \notin fs[mount].dirs /\ TreeBecomes(renameFile(mount, from, to))
  BY DEF MovesFile, WasiInv, Runtime
<1>2. PICK t : t = fs[mount]
  OBVIOUS
<1>3. PICK u : u = MovedFile(t, from, to)
  OBVIOUS
<1>4. PICK o : o = FileMoved(fs.open, mount, from, to)
  OBVIOUS
<1>5. PICK s : s = [Changed(mount, u) EXCEPT !.open = o]
  OBVIOUS
<1>6. TreeBecomes(s)
  BY <1>1, <1>2, <1>3, <1>4, <1>5, RenameFileIs
<1>7. s.open = o /\ s.workspace = IF mount = "workspace" THEN u ELSE fs.workspace
  BY <1>1, <1>5, ChangedFields
<1>8. CASE mount = "workspace"
  <2>1. GoodMount(t) /\ t = fs.workspace
    BY <1>1, <1>2, <1>8, MountGood
  <2>2. u.dirs = t.dirs /\ Files(u) = (Files(t) \ {from}) \cup {to} /\ from \notin t.dirs
    BY <1>1, <1>2, <1>3, <2>1, MountNodes DEF MovedFile, GoodMount, GoodTree, IsTree, Files
  <2> QED
    BY <1>1, <1>2, <1>4, <1>6, <1>7, <1>8, <2>1, <2>2, FileMovedFollows, FollowStep DEF PlacedInv
<1>9. CASE mount = "tmp"
  BY <1>1, <1>4, <1>6, <1>7, <1>9, ScratchFileMoved, FollowStep DEF PlacedInv
<1> QED
  BY <1>1, <1>8, <1>9

\* The descriptors of a scratch directory that is replaced are told; those of the
\* workspace are none of them.
LEMMA ScratchTold ==
    ASSUME NEW o, HandlesOk(o), NEW to
    PROVE  LET g == Gone(Detached(o, "tmp", "directory", to), "tmp", to)
           IN  /\ DOMAIN g = DOMAIN o
               /\ \A fd \in DOMAIN o : "workspace" \in {o[fd].mount, g[fd].mount} => o[fd] = g[fd]
<1>1. PICK e : e = Detached(o, "tmp", "directory", to)
  OBVIOUS
<1>2. PICK g : g = Gone(e, "tmp", to)
  OBVIOUS
<1>3. DOMAIN e = DOMAIN o /\ DOMAIN g = DOMAIN o
  BY <1>1, <1>2 DEF Detached, Gone
<1>4. ASSUME NEW fd \in DOMAIN o, "workspace" \in {o[fd].mount, g[fd].mount} PROVE o[fd] = g[fd]
  <2>1. PICK d : d = o[fd] /\ IsHandle(d)
    BY DEF HandlesOk
  <2>2. PICK b : b = e[fd]
    OBVIOUS
  <2>3. b = IF d.mount = "tmp" /\ d.kind = "directory" /\ d.path = to THEN [d EXCEPT !.path = Nowhere] ELSE d
    BY <1>1, <2>1, <2>2 DEF Detached
  <2>4. IsHandle(b) /\ b.mount = d.mount /\ b.tree = d.tree
    BY <2>1, <2>3, NowherePath DEF IsHandle, Handles
  <2>5. g[fd] = IF b.tree = "tmp" /\ b.at = to THEN [b EXCEPT !.at = Nowhere] ELSE b
    BY <1>2, <1>3, <2>2 DEF Gone
  <2>6. [b EXCEPT !.at = Nowhere].mount = b.mount
    BY <2>4 DEF IsHandle, Handles
  <2>7. d.mount = "workspace" /\ d.tree = "workspace"
    BY <1>4, <2>1, <2>4, <2>5, <2>6 DEF IsHandle
  <2> QED
    BY <2>1, <2>3, <2>4, <2>5, <2>7
<1> QED
  BY <1>1, <1>2, <1>3, <1>4

LEMMA MovesTreeFollows ==
    ASSUME WasiInv, PlacedInv, NEW mount, NEW from, NEW to, MovesTree(mount, from, to)
    PROVE  FollowsNext
<1>1. /\ mount \in {"workspace", "tmp"} /\ (mount = "workspace" => writable) /\ Runtime(fs) /\ HandlesOk(fs.open)
      /\ from \in fs[mount].dirs /\ from # Root /\ from # Nowhere /\ to \in Paths
      /\ from # to /\ ~pathHasChildren(fs[mount], to) /\ to # Root
      /\ to \notin Files(fs[mount]) /\ TreeBecomes(renameTree(mount, from, to))
  BY DEF MovesTree, WasiInv, Runtime
<1>2. PICK t : t = fs[mount]
  OBVIOUS
<1>3. GoodMount(t) /\ from \in Paths
  BY <1>1, <1>2, MountGood, MountNodes
<1>4. PICK D, F : D = {Move(d, from, to) : d \in t.dirs \ {to}} /\ F = MovedFiles(t, from, to)
  OBVIOUS
<1>5. PICK u : u = [dirs |-> D, files |-> F]
  OBVIOUS
<1>6. PICK g : g = Gone(Detached(fs.open, mount, "directory", to), mount, to)
  OBVIOUS
<1>7. PICK o : o = TreeMoved(g, mount, from, to)
  OBVIOUS
<1>8. PICK s : s = [Changed(mount, u) EXCEPT !.open = o]
  OBVIOUS
<1>9. TreeBecomes(s)
  <2>1. renameTree(mount, from, to) = s
    BY <1>2, <1>4, <1>5, <1>6, <1>7, <1>8 DEF renameTree, movedTree, MovedFiles, TreeMoved, HandleMoves
  <2> QED
    BY <1>1, <2>1
<1>10. /\ s.open = o /\ s.workspace = IF mount = "workspace" THEN u ELSE fs.workspace
       /\ s.tmp = IF mount = "tmp" THEN u ELSE fs.tmp
  BY <1>1, <1>8, ChangedFields
<1>11. HandlesOk(g)
  BY <1>1, <1>6, GoneHandles, DetachedHandles
<1>12. CASE mount = "workspace"
  <2>1. t = fs.workspace
    BY <1>2, <1>12
  <2>2. PICK v : v = [t EXCEPT !.dirs = @ \ {to}]
    OBVIOUS
  <2>3. v.dirs = t.dirs \ {to} /\ v.files = t.files
    BY <1>3, <2>2, MountUpdate
  <2>4. Files(v) = Files(t)
    BY <2>3 DEF Files
  <2>5. g = Removed(fs.open, "workspace", "directory", to)
    BY <1>6, <1>12 DEF Removed
  <2>6. AllPlaced(g, v) /\ Along(fs.open, g)
    BY <1>1, <1>2, <1>12, <2>1, <2>3, <2>4, <2>5, RemovedFollows DEF PlacedInv
  <2>7. u.dirs = {Move(d, from, to) : d \in v.dirs}
    BY <1>4, <1>5, <2>3
  <2>8. Files(u) = {Move(f, from, to) : f \in Files(v)}
    BY <1>4, <1>5, <2>4 DEF Files, MovedFiles
  <2>9. AllPlaced(o, u) /\ Along(g, o)
    BY <1>1, <1>3, <1>7, <1>11, <1>12, <2>6, <2>7, <2>8, TreeMovedFollows
  <2>10. \A fd \in DOMAIN fs.open : fd \in DOMAIN g /\ g[fd].mount = fs.open[fd].mount
    BY <1>1, <2>5, RemovedMounts
  <2>11. Along(fs.open, o)
    <3>1. DOMAIN o = DOMAIN g
      BY <1>7 DEF TreeMoved
    <3> QED
      BY <2>6, <2>9, <2>10, <3>1 DEF Along, GoesAlong
  <2> QED
    BY <1>9, <1>10, <1>12, <2>9, <2>11, FollowStep
<1>13. CASE mount = "tmp"
  <2>1. /\ DOMAIN g = DOMAIN fs.open
        /\ \A fd \in DOMAIN fs.open : "workspace" \in {fs.open[fd].mount, g[fd].mount} => fs.open[fd] = g[fd]
    BY <1>1, <1>6, <1>13, ScratchTold
  <2>2. AllPlaced(g, fs.workspace)
    BY <2>1, FollowsSame DEF PlacedInv
  <2>3. /\ AllPlaced(o, fs.workspace) /\ DOMAIN o = DOMAIN g
        /\ \A fd \in DOMAIN g : g[fd].mount = "workspace" =>
             o[fd].at = g[fd].at /\ o[fd].path = Move(g[fd].path, from, to)
    BY <1>7, <1>11, <1>13, <2>2, ScratchTreeMoved
  <2>4. PlacedInv'
    BY <1>9, <1>10, <1>13, <2>3, PlacedStep
  <2>5. fs'.open = o /\ fs'.tmp.dirs = D
    BY <1>5, <1>9, <1>10, <1>13 DEF TreeBecomes
  <2>6. from \in fs.tmp.dirs \ fs'.tmp.dirs /\ to \in fs'.tmp.dirs
    <3>1. t.dirs \subseteq Paths
      BY <1>3, MountNodes
    <3>2. from \in t.dirs /\ t = fs.tmp
      BY <1>1, <1>2, <1>13
    <3>3. ~isChildPath(to, from)
      BY <1>1, <1>2, <3>2 DEF pathHasChildren, Nodes
    <3>4. to \in D /\ from \notin D
      BY <1>1, <1>3, <1>4, <3>1, <3>2, <3>3, MovedAway
    <3> QED
      BY <2>5, <3>2, <3>4
  <2>7. ASSUME NEW fd \in DOMAIN fs.open, ~GoesAlong(fs.open[fd], o[fd])
        PROVE  ScratchRewrote(fs.open[fd].path, o[fd].path)
    <3>1. PICK p : p = fs.open[fd].path
      OBVIOUS
    <3>2. fs.open[fd].mount = "workspace" /\ p = fs.open[fd].at /\ o[fd].path # o[fd].at
      BY <2>7, <3>1 DEF GoesAlong
    <3>3. o[fd].at = p /\ o[fd].path = Move(p, from, to)
      BY <2>1, <2>3, <3>1, <3>2
    <3>4. Within(from, p) /\ o[fd].path = replacePathPrefix(p, from, to)
      BY <3>2, <3>3 DEF Move
    <3> QED
      BY <2>6, <3>1, <3>4 DEF ScratchRewrote
  <2>8. Followed
    BY <2>5, <2>7 DEF Followed
  <2> QED
    BY <2>4, <2>8 DEF FollowsNext
<1> QED
  BY <1>1, <1>12, <1>13

LEMMA WrittenFollows ==
    ASSUME WasiInv, PlacedInv, NEW fd \in DOMAIN fs.open, fs.open[fd].kind = "file", fs.open[fd].may, NEW bytes,
           TreeBecomes(Written(fd, bytes))
    PROVE  FollowsNext
<1>1. PICK r : r = Written(fd, bytes)
  OBVIOUS
<1>2. r.open = fs.open /\ r.workspace.dirs = fs.workspace.dirs /\ Files(r.workspace) = Files(fs.workspace)
  BY <1>1, WrittenFacts
<1>3. AllPlaced(r.open, r.workspace) /\ Along(fs.open, r.open)
  BY <1>2, PlacedMore, AlongSame DEF PlacedInv
<1> QED
  BY <1>1, <1>3, FollowStep

LEMMA ChdirFollows ==
    ASSUME WasiInv, PlacedInv, NEW text, chdir(text)
    PROVE  FollowsNext
<1>1. PICK p : p = Virtual(text)
  OBVIOUS
<1>2. PICK s : s = [fs EXCEPT !.cwd = p]
  OBVIOUS
<1>3. s.open = fs.open /\ s.workspace = fs.workspace
  BY <1>2 DEF WasiInv, Runtime
<1>4. TreeBecomes(s)
  BY <1>1, <1>2 DEF chdir
<1> QED
  BY <1>3, <1>4, AlongSame, FollowStep DEF PlacedInv

\* A child's result replaces every record, and the descriptors are bound to what is
\* at their paths then.
LEMMA ExecFollows ==
    ASSUME WasiInv, PlacedInv, ChildLeavesOpen, NEW change \in ChildChanges, runProcessExec(change)
    PROVE  FollowsNext
<1>1. PICK u : /\ LeavesOpen(u) /\ fs'.workspace.dirs = u.dirs
               /\ fs'.open = Rebound(Orphaned(fs.open, u.dirs))
               /\ HeldPaths(fs.open) \subseteq Files(fs'.workspace)
  BY ExecInv
<1>2. PICK o, h, q, w : o = fs.open /\ h = Orphaned(o, u.dirs) /\ q = Rebound(h) /\ w = fs'.workspace
  OBVIOUS
<1>3. fs'.open = q /\ writable' = writable
  BY <1>1, <1>2 DEF runProcessExec, TreeBecomes
<1>4. HandlesOk(o) /\ HandlesOk(h) /\ Held(h) = Held(o)
  BY <1>2, OrphanedHandles DEF WasiInv, Runtime
<1>5. DOMAIN h = DOMAIN o /\ DOMAIN q = DOMAIN o
  BY <1>2 DEF Orphaned, Rebound
<1>6. ASSUME NEW fd \in DOMAIN o PROVE Placed(q[fd], w) /\ GoesAlong(o[fd], q[fd])
  <2>1. PICK d : d = o[fd] /\ IsHandle(d)
    BY <1>4 DEF HandlesOk
  <2>2. PICK b : b = h[fd] /\ IsHandle(b)
    BY <1>4, <1>5 DEF HandlesOk
  <2>3. PICK c : c = q[fd]
    OBVIOUS
  <2>4. b = IF d.tree = "workspace" /\ (d.kind = "file" \/ d.at \notin u.dirs)
            THEN [d EXCEPT !.at = Nowhere] ELSE d
    BY <1>2, <2>1, <2>2 DEF Orphaned
  <2>5. /\ b.mount = d.mount /\ b.kind = d.kind /\ b.path = d.path
        /\ b.at = IF d.tree = "workspace" /\ (d.kind = "file" \/ d.at \notin u.dirs) THEN Nowhere ELSE d.at
    BY <2>1, <2>4 DEF IsHandle, Handles
  <2>6. c = IF fd \in Held(o) THEN [b EXCEPT !.at = b.path] ELSE b
    BY <1>2, <1>4, <1>5, <2>2, <2>3 DEF Rebound
  <2>7. /\ c.mount = d.mount /\ c.kind = d.kind /\ c.path = d.path
        /\ c.at = IF fd \in Held(o) THEN d.path ELSE b.at
    BY <2>2, <2>5, <2>6 DEF IsHandle, Handles
  <2> SUFFICES ASSUME c.mount = "workspace" PROVE Placed(c, w) /\ GoesAlong(d, c)
    BY <2>1, <2>3, <2>7 DEF Placed, GoesAlong
  <2>8. d.mount = "workspace" /\ d.tree = "workspace" /\ d.kind \in {"file", "directory"}
    BY <2>1, <2>7 DEF IsHandle, Handles
  <2>9. CASE d.kind = "file"
    <3>1. fd \in Held(o) <=> d.path # Nowhere
      BY <2>1, <2>8, <2>9 DEF Held
    <3>2. c.at = d.path
      BY <2>5, <2>7, <2>8, <2>9, <3>1
    <3>3. d.path # Nowhere => d.path \in Files(w)
      BY <1>1, <1>2, <2>1, <3>1 DEF HeldPaths
    <3> QED
      BY <2>7, <2>9, <3>2, <3>3 DEF Placed, GoesAlong
  <2>10. CASE d.kind = "directory"
    <3>1. c.at = IF d.at \notin u.dirs THEN Nowhere ELSE d.at
      BY <2>1, <2>5, <2>7, <2>8, <2>10 DEF Held
    <3>2. d.path # Nowhere => d.path \in u.dirs
      BY <1>1, <1>2, <2>1, <2>8, <2>10 DEF LeavesOpen
    <3>3. d.path = d.at => c.at = d.path
      BY <3>1, <3>2
    <3> QED
      BY <1>1, <1>2, <2>7, <2>10, <3>1, <3>3 DEF Placed, GoesAlong
  <2> QED
    BY <2>8, <2>9, <2>10
<1>7. PlacedInv'
  BY <1>2, <1>3, <1>5, <1>6 DEF PlacedInv, AllPlaced, Placed
<1>8. Followed
  BY <1>2, <1>3, <1>5, <1>6 DEF Followed
<1> QED
  BY <1>7, <1>8 DEF FollowsNext

LEMMA FollowNext ==
    ASSUME WasiInv, PlacedInv, Ordinary, [TreeNext]_treeVars
    PROVE  FollowsNext
<1>1. CASE UNCHANGED treeVars
  BY <1>1 DEF treeVars, PlacedInv, AllPlaced, Placed, FollowsNext, Followed, GoesAlong
<1>2. CASE TreeNext /\ Flush
  <2>1. fs' = fs /\ writable' = writable
    BY <1>2 DEF Flush
  <2> QED
    BY <2>1 DEF PlacedInv, AllPlaced, Placed, FollowsNext, Followed, GoesAlong
<1>3. ASSUME NEW fd, NEW text \in TextsFor(fd), NEW q, pathOpen(fd, text, q) PROVE FollowsNext
  BY <1>3, PathOpenFollows
<1>4. ASSUME NEW fd, NEW text \in TextsFor(fd),
             pathCreateDirectory(fd, text) \/ pathUnlinkFile(fd, text) \/ pathRemoveDirectory(fd, text)
      PROVE  FollowsNext
  BY <1>4, CreateDirectoryFollows, UnlinkFollows, RemoveDirectoryFollows
<1>5. ASSUME NEW fd, NEW text \in TextsFor(fd), pathRename(fd, text) PROVE FollowsNext
  <2>1. PICK mount, from, to : MovesFile(mount, from, to) \/ MovesTree(mount, from, to)
    BY <1>5, RenameIs
  <2> QED
    BY <2>1, MovesFileFollows, MovesTreeFollows
<1>6. ASSUME NEW text \in Texts, chdir(text) PROVE FollowsNext
  BY <1>6, ChdirFollows
<1>7. ASSUME NEW fd \in DOMAIN fs.open, fdWrite(fd) \/ fdTruncate(fd) \/ fdClose(fd) PROVE FollowsNext
  BY <1>7, WrittenFollows, CloseFollows DEF fdWrite, fdTruncate
<1>8. ASSUME NEW change \in ChildChanges, runProcessExec(change) PROVE FollowsNext
  BY <1>8, ExecFollows DEF Ordinary
<1>9. CASE TreeNext /\ FileCalls
  BY <1>9, <1>3, <1>4, <1>5, <1>6, <1>7, <1>8 DEF FileCalls
<1> QED
  BY <1>1, <1>2, <1>9 DEF TreeNext

\* A descriptor of the workspace goes with its file or directory, and is given up
\* when that is gone, whatever call renames, replaces, removes or imports it, through
\* whichever descriptor: the one call that parts a descriptor from its object is the
\* rename of a directory of /tmp that the descriptor's path begins with
\* (renameScratchDirectory rewrites the paths of all descriptors).
THEOREM DescriptorsFollowHolds ==
    ASSUME Ordinary
    PROVE  TreeSpec => DescriptorsFollow
<1>1. TreeInit => PlacedInv
  <2>1. TreeInit => fs.open = <<>>
    BY DEF TreeInit
  <2> QED
    BY <2>1, EmptyHandles DEF PlacedInv, AllPlaced
<1>2. WasiInv /\ PlacedInv /\ [TreeNext]_treeVars => PlacedInv' /\ Followed
  BY FollowNext DEF FollowsNext
<1>3. DescriptorsFollow <=> [][Followed]_treeVars
  <2>1. Followed <=> \A fd \in DOMAIN fs.open \cap DOMAIN fs'.open :
                       LET old == fs.open[fd]
                           new == fs'.open[fd]
                       IN  old.mount = "workspace" /\ old.path = old.at =>
                             new.path = new.at \/ ScratchRewrote(old.path, new.path)
    BY DEF Followed, GoesAlong
  <2> QED
    BY <2>1, PTL DEF DescriptorsFollow
<1> QED
  BY <1>1, <1>2, <1>3, WasiInvHolds, PTL DEF TreeSpec
=============================================================================
