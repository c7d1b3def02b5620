--------------------------- MODULE FileStoreProofs ---------------------------
(***************************************************************************)
(* The shared file tree for any set of sessions, any names and any bound:  *)
(* it stays a tree below its root, STOU gives no name twice, and stored    *)
(* data is lost only by the commands that say so or in a race for a path.  *)
(***************************************************************************)
EXTENDS FileStore, SequenceTheorems, TLAPS

-----------------------------------------------------------------------------
(* Paths *)

LEMMA PathFacts ==
  /\ \A p : p \in Paths <=> p \in Seq(AllNames) /\ Len(p) <= MaxDepth
  /\ Root \in Paths /\ NoPath \notin Paths /\ Outside \notin Paths
<1>1. MaxDepth \in Nat
  BY BoundsAssumption
<1>2. ASSUME NEW p \in Paths PROVE p \in Seq(AllNames) /\ Len(p) <= MaxDepth
  <2>1. PICK n \in 0 .. MaxDepth : p \in [1 .. n -> AllNames]
    BY DEF Paths
  <2>. QED
    BY <1>1, <2>1
<1>3. ASSUME NEW p \in Seq(AllNames), Len(p) <= MaxDepth PROVE p \in Paths
  <2>1. Len(p) \in 0 .. MaxDepth /\ p \in [1 .. Len(p) -> AllNames]
    BY <1>1, <1>3, LenProperties
  <2>. QED
    BY <2>1 DEF Paths
<1>4. Root \in Paths
  <2>1. Root \in Seq(AllNames) /\ Len(Root) = 0
    BY EmptySeq DEF Root
  <2>2. Len(Root) <= MaxDepth
    BY <1>1, <2>1
  <2>. QED
    BY <1>3, <2>1, <2>2
<1>5. NoPath \notin Seq(AllNames) /\ Outside \notin Seq(AllNames)
  <2>1. "none" \notin AllNames /\ ".." \notin AllNames
    BY NamesAssumption
  <2>2. NoPath[1] = "none" /\ Outside[1] = ".." /\ Len(NoPath) = 1 /\ Len(Outside) = 1
    BY DEF NoPath, Outside
  <2>3. ASSUME NEW p \in Seq(AllNames), Len(p) = 1 PROVE p[1] \in AllNames
    BY <2>3, ElementOfSeq
  <2>. QED
    BY <2>1, <2>2, <2>3
<1>. QED
  BY <1>2, <1>3, <1>4, <1>5

\* The parent is the path without its last name, and the nearest of its ancestors.
LEMMA ParentFacts ==
  ASSUME NEW p \in Seq(AllNames), p # Root
  PROVE  /\ Parent(p) \in Seq(AllNames) /\ Len(Parent(p)) = Len(p) - 1
         /\ \A i \in 1 .. Len(p) - 1 : Parent(p)[i] = p[i]
         /\ Within(p, Parent(p)) /\ Parent(p) # p
         /\ \A d \in Seq(AllNames) : Within(p, d) /\ d # p => Within(Parent(p), d)
<1>1. Len(p) \in Nat \ {0} /\ \A i \in 1 .. Len(p) : p[i] \in AllNames
  BY EmptySeq, ElementOfSeq DEF Root
<1>2. \A i \in 1 .. Len(p) - 1 : p[i] \in AllNames
  BY <1>1
<1>3. /\ Parent(p) \in Seq(AllNames) /\ Len(Parent(p)) = Len(p) - 1
      /\ \A i \in 1 .. Len(p) - 1 : Parent(p)[i] = p[i]
  <2>. DEFINE n == Len(p) - 1
              front == SubSeq(p, 1, n)
  <2>1. n \in Nat
    BY <1>1
  <2>2. /\ front \in Seq(AllNames) /\ Len(front) = IF 1 <= n THEN n - 1 + 1 ELSE 0
        /\ \A i \in 1 .. n - 1 + 1 : front[i] = p[1 + i - 1]
    BY <1>2, <2>1, SubSeqProperties
  <2>3. Parent(p) = front
    BY DEF Parent
  <2>. HIDE DEF n, front
  <2>4. Len(front) = n /\ \A i \in 1 .. n : front[i] = p[i]
    BY <2>1, <2>2
  <2>5. Len(front) = Len(p) - 1 /\ \A i \in 1 .. Len(p) - 1 : front[i] = p[i]
    BY <2>4 DEF n
  <2>. QED
    BY <2>2, <2>3, <2>5
<1>4. Within(p, Parent(p)) /\ Parent(p) # p
  BY <1>1, <1>3 DEF Within
<1>5. ASSUME NEW d \in Seq(AllNames), Within(p, d), d # p
      PROVE  Within(Parent(p), d)
  <2>1. Len(d) \in Nat /\ Len(d) # Len(p)
    BY <1>5, SeqEqual DEF Within
  <2>. QED
    BY <1>1, <1>3, <1>5, <2>1 DEF Within
<1>. QED
  BY <1>3, <1>4, <1>5

\* Being within is a partial order.
LEMMA WithinFacts ==
  ASSUME NEW p \in Seq(AllNames), NEW q \in Seq(AllNames), NEW r \in Seq(AllNames)
  PROVE  /\ Within(p, p) /\ Within(p, Root)
         /\ Within(p, q) /\ Within(q, r) => Within(p, r)
         /\ Within(p, q) /\ Within(q, p) => p = q
         /\ Within(p, q) /\ Within(p, r) => Within(q, r) \/ Within(r, q)
<1>1. Len(p) \in Nat /\ Len(q) \in Nat /\ Len(r) \in Nat
  OBVIOUS
<1>2. Within(p, p) /\ Within(p, Root)
  BY <1>1 DEF Within, Root
<1>3. Within(p, q) /\ Within(q, r) => Within(p, r)
  BY <1>1 DEF Within
<1>4. Within(p, q) /\ Within(q, p) => p = q
  BY <1>1, SeqEqual DEF Within
<1>5. Within(p, q) /\ Within(p, r) => Within(q, r) \/ Within(r, q)
  BY <1>1 DEF Within
<1>. QED
  BY <1>2, <1>3, <1>4, <1>5

\* On the way from a directory to anything in it there is a path just below the
\* directory.
LEMMA ChildFacts ==
  ASSUME NEW q \in Paths, NEW p \in Paths, Within(q, p), q # p
  PROVE  \E c \in Paths \ {Root} : Within(q, c) /\ Parent(c) = p
<1>1. /\ q \in Seq(AllNames) /\ p \in Seq(AllNames)
      /\ Len(q) \in Nat /\ Len(p) \in Nat /\ Len(q) <= MaxDepth /\ MaxDepth \in Nat
  BY PathFacts, BoundsAssumption
<1>2. Len(p) < Len(q)
  BY <1>1, SeqEqual DEF Within
<1>3. PICK c \in Seq(AllNames) : /\ Len(c) = Len(p) + 1
                                 /\ \A i \in 1 .. Len(p) + 1 : c[i] = q[i]
  <2>1. \A i \in 1 .. Len(p) + 1 : q[i] \in AllNames
    BY <1>1, <1>2, ElementOfSeq
  <2>2. /\ SubSeq(q, 1, Len(p) + 1) \in Seq(AllNames)
        /\ Len(SubSeq(q, 1, Len(p) + 1)) = Len(p) + 1
        /\ \A i \in 1 .. Len(p) + 1 - 1 + 1 : SubSeq(q, 1, Len(p) + 1)[i] = q[1 + i - 1]
    BY <1>1, <2>1, SubSeqProperties
  <2>3. \A i \in 1 .. Len(p) + 1 : SubSeq(q, 1, Len(p) + 1)[i] = q[i]
    <3>1. Len(p) + 1 - 1 + 1 = Len(p) + 1
      BY <1>1
    <3>2. \A i \in 1 .. Len(p) + 1 : 1 + i - 1 = i
      OBVIOUS
    <3>. QED
      BY <2>2, <3>1, <3>2
  <2>. QED
    BY <2>2, <2>3
<1>4. Within(q, c) /\ c \in Paths /\ c # Root
  BY <1>1, <1>2, <1>3, PathFacts DEF Within, Root
<1>5. Parent(c) = p
  <2>1. /\ Parent(c) \in Seq(AllNames) /\ Len(Parent(c)) = Len(p)
        /\ \A i \in 1 .. Len(p) : Parent(c)[i] = c[i]
    BY <1>1, <1>3, <1>4, ParentFacts
  <2>2. \A i \in 1 .. Len(p) : Parent(c)[i] = p[i]
    BY <1>1, <1>3, <2>1 DEF Within
  <2>. QED
    BY <1>1, <2>1, <2>2, SeqEqual
<1>. QED
  BY <1>4, <1>5

\* A path in p, once p is renamed to q, is in q, and the way back leads to it.
LEMMA MovedFacts ==
  ASSUME NEW p \in Seq(AllNames), NEW q \in Seq(AllNames), NEW r \in Seq(AllNames),
         Within(r, p)
  PROVE  /\ Moved(r, p, q) \in Seq(AllNames)
         /\ Len(Moved(r, p, q)) = Len(q) + Len(r) - Len(p)
         /\ \A i \in 1 .. Len(q) : Moved(r, p, q)[i] = q[i]
         /\ \A i \in Len(q) + 1 .. Len(q) + Len(r) - Len(p) :
              Moved(r, p, q)[i] = r[i - Len(q) + Len(p)]
         /\ Within(Moved(r, p, q), q)
<1>. DEFINE rest == SubSeq(r, Len(p) + 1, Len(r))
<1>1. Len(p) \in Nat /\ Len(q) \in Nat /\ Len(r) \in Nat /\ Len(p) <= Len(r)
  BY DEF Within
<1>2. \A i \in Len(p) + 1 .. Len(r) : r[i] \in AllNames
  BY <1>1, ElementOfSeq
<1>3. /\ rest \in Seq(AllNames)
      /\ Len(rest) = IF Len(p) + 1 <= Len(r) THEN Len(r) - (Len(p) + 1) + 1 ELSE 0
      /\ \A i \in 1 .. Len(r) - (Len(p) + 1) + 1 : rest[i] = r[Len(p) + 1 + i - 1]
  BY <1>1, <1>2, SubSeqProperties
<1>4. Len(rest) = Len(r) - Len(p)
  BY <1>1, <1>3
<1>5. \A i \in 1 .. Len(r) - Len(p) : rest[i] = r[Len(p) + i]
  <2>1. Len(r) - (Len(p) + 1) + 1 = Len(r) - Len(p)
    BY <1>1
  <2>2. \A i \in 1 .. Len(r) - Len(p) : Len(p) + 1 + i - 1 = Len(p) + i
    BY <1>1
  <2>. QED
    BY <1>3, <2>1, <2>2
<1>6. Moved(r, p, q) = q \o rest
  BY DEF Moved
<1>7. /\ q \o rest \in Seq(AllNames) /\ Len(q \o rest) = Len(q) + Len(rest)
      /\ \A i \in 1 .. Len(q) + Len(rest) :
           (q \o rest)[i] = IF i <= Len(q) THEN q[i] ELSE rest[i - Len(q)]
  BY <1>3, ConcatProperties
<1>. HIDE DEF rest
<1>8. \A i \in Len(q) + 1 .. Len(q) + Len(r) - Len(p) :
        (q \o rest)[i] = r[i - Len(q) + Len(p)]
  <2>1. ASSUME NEW i \in Len(q) + 1 .. Len(q) + Len(r) - Len(p)
        PROVE  (q \o rest)[i] = r[i - Len(q) + Len(p)]
    <3>1. i \in 1 .. Len(q) + Len(rest) /\ ~(i <= Len(q))
      BY <1>1, <1>4
    <3>2. i - Len(q) \in 1 .. Len(r) - Len(p)
      BY <1>1
    <3>3. (q \o rest)[i] = rest[i - Len(q)]
      BY <1>7, <3>1
    <3>4. rest[i - Len(q)] = r[Len(p) + (i - Len(q))]
      BY <1>5, <3>2
    <3>5. Len(p) + (i - Len(q)) = i - Len(q) + Len(p)
      BY <1>1
    <3>. QED
      BY <3>3, <3>4, <3>5
  <2>. QED
    BY <2>1
<1>9. \A i \in 1 .. Len(q) : (q \o rest)[i] = q[i]
  BY <1>1, <1>4, <1>7
<1>10. Len(q \o rest) = Len(q) + Len(r) - Len(p)
  BY <1>1, <1>4, <1>7
<1>11. Within(q \o rest, q)
  BY <1>1, <1>9, <1>10 DEF Within
<1>. QED
  BY <1>6, <1>7, <1>8, <1>9, <1>10, <1>11, Zenon

LEMMA MovedBack ==
  ASSUME NEW p \in Seq(AllNames), NEW q \in Seq(AllNames), NEW r \in Seq(AllNames),
         Within(r, p)
  PROVE  Moved(Moved(r, p, q), q, p) = r
<1>. DEFINE m == Moved(r, p, q)
<1>1. /\ m \in Seq(AllNames) /\ Len(m) = Len(q) + Len(r) - Len(p) /\ Within(m, q)
      /\ \A i \in Len(q) + 1 .. Len(q) + Len(r) - Len(p) : m[i] = r[i - Len(q) + Len(p)]
  BY MovedFacts
<1>. HIDE DEF m
<1>2. /\ Moved(m, q, p) \in Seq(AllNames)
      /\ Len(Moved(m, q, p)) = Len(p) + Len(m) - Len(q)
      /\ \A i \in 1 .. Len(p) : Moved(m, q, p)[i] = p[i]
      /\ \A i \in Len(p) + 1 .. Len(p) + Len(m) - Len(q) :
           Moved(m, q, p)[i] = m[i - Len(p) + Len(q)]
      /\ Within(Moved(m, q, p), p)
  BY <1>1, MovedFacts, Zenon
<1>3. Len(p) \in Nat /\ Len(q) \in Nat /\ Len(r) \in Nat /\ Len(p) <= Len(r)
  BY DEF Within
<1>4. Len(Moved(m, q, p)) = Len(r)
  BY <1>1, <1>2, <1>3
<1>5. ASSUME NEW i \in 1 .. Len(r) PROVE Moved(m, q, p)[i] = r[i]
  <2>1. CASE i <= Len(p)
    BY <1>2, <1>3, <2>1 DEF Within
  <2>2. CASE i > Len(p)
    <3>1. i \in Len(p) + 1 .. Len(p) + Len(m) - Len(q)
      BY <1>1, <1>3, <2>2
    <3>2. i - Len(p) + Len(q) \in Len(q) + 1 .. Len(q) + Len(r) - Len(p)
      BY <1>3, <2>2
    <3>3. (i - Len(p) + Len(q)) - Len(q) + Len(p) = i
      BY <1>3
    <3>. QED
      BY <1>1, <1>2, <3>1, <3>2, <3>3
  <2>. QED
    BY <1>3, <2>1, <2>2
<1>6. Moved(m, q, p) = r
  BY <1>2, <1>4, <1>5, SeqEqual
<1>. QED
  BY <1>6 DEF m

LEMMA MovedSelf ==
  ASSUME NEW p \in Seq(AllNames), NEW q \in Seq(AllNames)
  PROVE  Moved(p, p, q) = q
<1>1. Within(p, p)
  BY WithinFacts
<1>2. /\ Moved(p, p, q) \in Seq(AllNames)
      /\ Len(Moved(p, p, q)) = Len(q) + Len(p) - Len(p)
      /\ \A i \in 1 .. Len(q) : Moved(p, p, q)[i] = q[i]
  BY <1>1, MovedFacts
<1>3. Len(Moved(p, p, q)) = Len(q)
  BY <1>2
<1>. QED
  BY <1>2, <1>3, SeqEqual

\* Moving keeps the order of paths.
LEMMA MovedMonotonic ==
  ASSUME NEW p \in Seq(AllNames), NEW q \in Seq(AllNames), NEW a \in Seq(AllNames),
         NEW b \in Seq(AllNames), Within(a, b), Within(b, p)
  PROVE  /\ Within(Moved(a, p, q), Moved(b, p, q))
         /\ Len(Moved(b, p, q)) <= Len(Moved(a, p, q))
<1>1. Within(a, p)
  BY WithinFacts
<1>2. /\ Len(p) \in Nat /\ Len(q) \in Nat /\ Len(a) \in Nat /\ Len(b) \in Nat
      /\ Len(p) <= Len(b) /\ Len(b) <= Len(a)
  BY DEF Within
<1>. DEFINE ma == Moved(a, p, q)
            mb == Moved(b, p, q)
<1>3. /\ ma \in Seq(AllNames)
      /\ Len(ma) = Len(q) + Len(a) - Len(p)
      /\ \A i \in 1 .. Len(q) : ma[i] = q[i]
      /\ \A i \in Len(q) + 1 .. Len(q) + Len(a) - Len(p) : ma[i] = a[i - Len(q) + Len(p)]
      /\ Within(ma, q)
  BY <1>1, MovedFacts, Zenon
<1>4. /\ mb \in Seq(AllNames)
      /\ Len(mb) = Len(q) + Len(b) - Len(p)
      /\ \A i \in 1 .. Len(q) : mb[i] = q[i]
      /\ \A i \in Len(q) + 1 .. Len(q) + Len(b) - Len(p) : mb[i] = b[i - Len(q) + Len(p)]
      /\ Within(mb, q)
  BY MovedFacts, Zenon
<1>. HIDE DEF ma, mb
<1>5. Len(mb) <= Len(ma)
  BY <1>2, <1>3, <1>4
<1>6. ASSUME NEW i \in 1 .. Len(mb) PROVE ma[i] = mb[i]
  <2>1. CASE i <= Len(q)
    BY <1>2, <1>3, <1>4, <2>1
  <2>2. CASE i > Len(q)
    <3>1. /\ i \in Len(q) + 1 .. Len(q) + Len(b) - Len(p)
          /\ i \in Len(q) + 1 .. Len(q) + Len(a) - Len(p)
          /\ i - Len(q) + Len(p) \in 1 .. Len(b)
      BY <1>2, <1>4, <2>2
    <3>2. a[i - Len(q) + Len(p)] = b[i - Len(q) + Len(p)]
      BY <3>1 DEF Within
    <3>. QED
      BY <1>3, <1>4, <3>1, <3>2
  <2>. QED
    BY <1>2, <1>4, <2>1, <2>2
<1>7. Within(ma, mb)
  BY <1>5, <1>6 DEF Within
<1>. QED
  BY <1>5, <1>7 DEF ma, mb

-----------------------------------------------------------------------------
(* Trees *)

\* The first two parts of TreeStands, of any tree.
IsTree(t) ==
  /\ t \in [Paths -> Nodes]
  /\ t[Root] = Dir
  /\ \A p, q \in Paths : t[p] # Absent /\ Within(p, q) /\ p # q => t[q] = Dir

\* The three kinds of nodes exclude each other, and only files have data.
LEMMA NodeFacts ==
  /\ Absent \in Nodes /\ Dir \in Nodes /\ Absent # Dir
  /\ Absent.kind = "absent" /\ Dir.kind = "dir"
  /\ Absent.data = <<>> /\ Dir.data = <<>>
  /\ \A n \in Nodes : n.data \in Seq(Int) /\ (n.kind = "file" \/ n = Absent \/ n = Dir)
  /\ \A n \in Nodes : n.kind = "file" => n # Absent /\ n # Dir
  /\ \A d \in Seq(Int) : File(d) \in Nodes /\ File(d).kind = "file" /\ File(d).data = d
<1>1. <<>> \in Seq(Int)
  BY EmptySeq
<1>2. /\ Absent.kind = "absent" /\ Dir.kind = "dir"
      /\ Absent.data = <<>> /\ Dir.data = <<>>
  BY DEF Absent, Dir
<1>3. Absent \in Nodes /\ Dir \in Nodes
  BY DEF Nodes
<1>4. ASSUME NEW n \in Nodes
      PROVE  n.data \in Seq(Int) /\ (n.kind = "file" \/ n = Absent \/ n = Dir)
  BY <1>1, <1>2 DEF Nodes
<1>5. ASSUME NEW d \in Seq(Int)
      PROVE  File(d) \in Nodes /\ File(d).kind = "file" /\ File(d).data = d
  BY DEF Nodes, File
<1>. QED
  BY <1>2, <1>3, <1>4, <1>5

\* A file is put into a directory, for a file or for nothing.
LEMMA PutFile ==
  ASSUME NEW t, IsTree(t), NEW p \in Paths \ {Root}, t[Parent(p)] = Dir, t[p] # Dir,
         NEW n \in Nodes, n.kind = "file"
  PROVE  IsTree([t EXCEPT ![p] = n])
<1>. DEFINE u == [t EXCEPT ![p] = n]
<1>1. /\ p \in Seq(AllNames) /\ Parent(p) \in Paths /\ Parent(p) # p
  BY PathFacts, ParentFacts, BoundsAssumption
<1>2. u \in [Paths -> Nodes] /\ u[p] = n /\ \A r \in Paths : r # p => u[r] = t[r]
  BY DEF IsTree
<1>3. u[Root] = Dir
  BY <1>2, PathFacts DEF IsTree
<1>4. ASSUME NEW a \in Paths, NEW b \in Paths, u[a] # Absent, Within(a, b), a # b
      PROVE  u[b] = Dir
  <2>0. a \in Seq(AllNames) /\ b \in Seq(AllNames)
    BY PathFacts
  <2>1. CASE a = p
    <3>1. Within(Parent(p), b)
      BY <1>1, <1>4, <2>0, <2>1, ParentFacts
    <3>2. t[b] = Dir
      BY <1>1, <1>4, <3>1, NodeFacts DEF IsTree
    <3>. QED
      BY <1>2, <1>4, <2>1, <3>2
  <2>2. CASE a # p
    <3>1. t[b] = Dir
      BY <1>2, <1>4, <2>2 DEF IsTree
    <3>. QED
      BY <1>2, <3>1
  <2>. QED
    BY <2>1, <2>2
<1>. HIDE DEF u
<1>5. IsTree(u)
  BY <1>2, <1>3, <1>4 DEF IsTree
<1>. QED
  BY <1>5 DEF u

\* A file, or a directory without anything in it, is taken away.
LEMMA TakeAway ==
  ASSUME NEW t, IsTree(t), NEW p \in Paths \ {Root},
         \/ t[p].kind = "file"
         \/ \A c \in Paths \ {Root} : t[c] # Absent => Parent(c) # p
  PROVE  IsTree([t EXCEPT ![p] = Absent])
<1>. DEFINE u == [t EXCEPT ![p] = Absent]
<1>1. u \in [Paths -> Nodes] /\ u[p] = Absent /\ \A r \in Paths : r # p => u[r] = t[r]
  BY NodeFacts DEF IsTree
<1>2. u[Root] = Dir
  BY <1>1, PathFacts DEF IsTree
<1>3. ASSUME NEW a \in Paths, NEW b \in Paths, u[a] # Absent, Within(a, b), a # b
      PROVE  u[b] = Dir
  <2>1. t[a] # Absent /\ t[b] = Dir
    BY <1>1, <1>3 DEF IsTree
  <2>2. b # p
    <3>1. SUFFICES ASSUME b = p PROVE FALSE
      OBVIOUS
    <3>2. CASE t[p].kind = "file"
      BY <2>1, <3>1, <3>2, NodeFacts DEF IsTree
    <3>3. CASE \A c \in Paths \ {Root} : t[c] # Absent => Parent(c) # p
      <4>1. PICK c \in Paths \ {Root} : Within(a, c) /\ Parent(c) = p
        BY <1>3, <3>1, ChildFacts
      <4>2. t[c] # Absent
        <5>1. CASE c = a
          BY <2>1, <5>1
        <5>2. CASE c # a
          BY <2>1, <4>1, <5>2, NodeFacts DEF IsTree
        <5>. QED
          BY <5>1, <5>2
      <4>. QED
        BY <3>3, <4>1, <4>2
    <3>. QED
      BY <3>2, <3>3
  <2>. QED
    BY <1>1, <2>1, <2>2
<1>. HIDE DEF u
<1>4. IsTree(u)
  BY <1>1, <1>2, <1>3 DEF IsTree
<1>. QED
  BY <1>4 DEF u

\* A directory is made with its ancestors.
LEMMA MakeDirs ==
  ASSUME NEW t, IsTree(t), NEW p \in Paths,
         \A r \in Paths : Within(p, r) => t[r].kind # "file"
  PROVE  IsTree([r \in Paths |-> IF Within(p, r) THEN Dir ELSE t[r]])
<1>. DEFINE u == [r \in Paths |-> IF Within(p, r) THEN Dir ELSE t[r]]
<1>1. u \in [Paths -> Nodes]
  BY NodeFacts DEF IsTree
<1>2. \A r \in Paths : u[r] = IF Within(p, r) THEN Dir ELSE t[r]
  OBVIOUS
<1>. HIDE DEF u
<1>3. u[Root] = Dir
  BY <1>2, PathFacts DEF IsTree
<1>4. ASSUME NEW a \in Paths, NEW b \in Paths, u[a] # Absent, Within(a, b), a # b
      PROVE  u[b] = Dir
  <2>0. a \in Seq(AllNames) /\ b \in Seq(AllNames) /\ p \in Seq(AllNames)
    BY PathFacts
  <2>1. CASE Within(p, a)
    <3>1. Within(p, b)
      BY <1>4, <2>0, <2>1, WithinFacts
    <3>. QED
      BY <1>2, <3>1
  <2>2. CASE ~Within(p, a)
    BY <1>2, <1>4, <2>2 DEF IsTree
  <2>. QED
    BY <2>1, <2>2
<1>5. IsTree(u)
  BY <1>1, <1>3, <1>4 DEF IsTree
<1>. QED
  BY <1>5 DEF u

\* What a directory rename makes of a tree: three kinds of paths.
LEMMA RenamedDir ==
  ASSUME IsTree(tree), NEW p \in Paths, NEW q \in Paths \ {Root, p},
         tree[Parent(q)] = Dir, tree[p] = Dir, tree[q] = Absent, ~Within(q, p)
  PROVE  /\ \A r \in Paths : ~(Within(r, p) /\ Within(r, q))
         /\ \A r \in Paths : Within(r, q) => tree[r] = Absent
         /\ \A r \in Paths : Within(r, q) /\ Moved(r, q, p) \in Paths
              => Renamed(p, q)[r] = tree[Moved(r, q, p)]
         /\ \A r \in Paths : Within(r, q) /\ Moved(r, q, p) \notin Paths
              => Renamed(p, q)[r] = Absent
         /\ \A r \in Paths : Within(r, p) => Renamed(p, q)[r] = Absent
         /\ \A r \in Paths : ~Within(r, p) /\ ~Within(r, q) => Renamed(p, q)[r] = tree[r]
<1>0. \A r \in Paths : r \in Seq(AllNames)
  BY PathFacts
<1>1. ~Within(p, q)
  BY NodeFacts DEF IsTree
<1>2. ASSUME NEW r \in Paths, Within(r, p), Within(r, q) PROVE FALSE
  BY <1>0, <1>1, <1>2, WithinFacts
<1>3. ASSUME NEW r \in Paths, Within(r, q), tree[r] # Absent PROVE FALSE
  BY <1>3, NodeFacts DEF IsTree
<1>4. \A r \in Paths : Renamed(p, q)[r] =
        IF Within(r, q) /\ Moved(r, q, p) \in Paths THEN tree[Moved(r, q, p)]
        ELSE IF Within(r, p) THEN Absent ELSE tree[r]
  BY DEF Renamed
<1>. QED
  BY <1>2, <1>3, <1>4

LEMMA RenamedDirIsTree ==
  ASSUME IsTree(tree), NEW p \in Paths, NEW q \in Paths \ {Root, p},
         tree[Parent(q)] = Dir, tree[p] = Dir, tree[q] = Absent, ~Within(q, p)
  PROVE  IsTree(Renamed(p, q))
<1>. DEFINE u == Renamed(p, q)
<1>0. /\ \A r \in Paths : r \in Seq(AllNames)
      /\ Parent(q) \in Paths /\ Parent(q) \in Seq(AllNames)
  BY PathFacts, ParentFacts, BoundsAssumption
<1>1. u \in [Paths -> Nodes]
  BY NodeFacts DEF Renamed, IsTree
<1>2. /\ \A r \in Paths : ~(Within(r, p) /\ Within(r, q))
      /\ \A r \in Paths : Within(r, q) /\ Moved(r, q, p) \in Paths
           => u[r] = tree[Moved(r, q, p)]
      /\ \A r \in Paths : Within(r, q) /\ Moved(r, q, p) \notin Paths => u[r] = Absent
      /\ \A r \in Paths : Within(r, p) => u[r] = Absent
      /\ \A r \in Paths : ~Within(r, p) /\ ~Within(r, q) => u[r] = tree[r]
  BY RenamedDir
<1>. HIDE DEF u
<1>3. u[Root] = Dir
  <2>1. p # Root
    BY <1>0, WithinFacts
  <2>2. ~Within(Root, p) /\ ~Within(Root, q)
    BY <1>0, <2>1, PathFacts, WithinFacts
  <2>. QED
    BY <1>2, <2>2, PathFacts DEF IsTree
<1>4. ASSUME NEW a \in Paths, NEW b \in Paths, u[a] # Absent, Within(a, b), a # b
      PROVE  u[b] = Dir
  <2>1. CASE Within(a, q)
    <3>. DEFINE ma == Moved(a, q, p)
                mb == Moved(b, q, p)
    <3>1. ma \in Paths /\ tree[ma] # Absent
      BY <1>2, <1>4, <2>1
    <3>2. CASE Within(b, q)
      <4>1. /\ mb \in Seq(AllNames) /\ Within(ma, mb) /\ Len(mb) <= Len(ma)
        BY <1>0, <1>4, <3>2, MovedMonotonic, MovedFacts
      <4>2. ma # mb
        BY <1>0, <1>4, <2>1, <3>2, MovedBack
      <4>3. mb \in Paths
        BY <3>1, <4>1, PathFacts, BoundsAssumption
      <4>4. tree[mb] = Dir
        BY <3>1, <4>1, <4>2, <4>3 DEF IsTree
      <4>. QED
        BY <1>2, <3>2, <4>3, <4>4
    <3>3. CASE ~Within(b, q)
      <4>1. Within(q, b) /\ b # q
        BY <1>0, <1>4, <2>1, <3>3, WithinFacts
      <4>2. Within(Parent(q), b)
        BY <1>0, <4>1, ParentFacts
      <4>3. tree[b] = Dir
        BY <1>0, <4>2, NodeFacts DEF IsTree
      <4>4. ~Within(b, p)
        BY <1>0, <4>1, WithinFacts
      <4>. QED
        BY <1>2, <3>3, <4>3, <4>4
    <3>. QED
      BY <3>2, <3>3
  <2>2. CASE ~Within(a, q)
    <3>1. ~Within(a, p) /\ tree[a] # Absent
      BY <1>2, <1>4, <2>2
    <3>2. ~Within(b, p) /\ ~Within(b, q)
      BY <1>0, <1>4, <2>2, <3>1, WithinFacts
    <3>3. tree[b] = Dir
      BY <1>4, <3>1 DEF IsTree
    <3>. QED
      BY <1>2, <3>2, <3>3
  <2>. QED
    BY <2>1, <2>2
<1>5. IsTree(u)
  BY <1>1, <1>3, <1>4 DEF IsTree
<1>. QED
  BY <1>5 DEF u

\* A file rename takes the file from one path and puts it at the other.
LEMMA RenamedFile ==
  ASSUME IsTree(tree), NEW p \in Paths, NEW q \in Paths \ {Root, p},
         tree[p].kind = "file", tree[q] # Dir
  PROVE  Renamed(p, q) = [[tree EXCEPT ![p] = Absent] EXCEPT ![q] = tree[p]]
<1>0. \A r \in Paths : r \in Seq(AllNames)
  BY PathFacts
<1>1. ASSUME NEW r \in Paths, NEW d \in Paths, Within(r, d), r # d, tree[d] # Dir
      PROVE  tree[r] = Absent
  BY <1>1 DEF IsTree
<1>2. tree[p] # Dir /\ tree \in [Paths -> Nodes]
  BY NodeFacts DEF IsTree
<1>3. ASSUME NEW r \in Paths
      PROVE  Renamed(p, q)[r] = IF r = q THEN tree[p] ELSE IF r = p THEN Absent
                                ELSE tree[r]
  <2>0. Renamed(p, q)[r] =
          IF Within(r, q) /\ Moved(r, q, p) \in Paths THEN tree[Moved(r, q, p)]
          ELSE IF Within(r, p) THEN Absent ELSE tree[r]
    BY DEF Renamed
  <2>1. CASE r = q
    <3>1. Within(q, q)
      BY <1>0, WithinFacts
    <3>2. Moved(q, q, p) = p
      BY <1>0, MovedSelf
    <3>. QED
      BY <2>0, <2>1, <3>1, <3>2
  <2>2. CASE r # q /\ Within(r, q) /\ Moved(r, q, p) \in Paths
    <3>1. Within(Moved(r, q, p), p) /\ Moved(r, q, p) # p
      <4>1. Within(Moved(r, q, p), p) /\ Moved(Moved(r, q, p), p, q) = r
        BY <1>0, <2>2, MovedFacts, MovedBack
      <4>2. Moved(p, p, q) = q
        BY <1>0, MovedSelf
      <4>. QED
        BY <2>2, <4>1, <4>2
    <3>2. tree[Moved(r, q, p)] = Absent /\ tree[r] = Absent
      BY <1>1, <1>2, <2>2, <3>1
    <3>. QED
      BY <2>0, <2>2, <3>2
  <2>3. CASE r # q /\ ~(Within(r, q) /\ Moved(r, q, p) \in Paths)
    <3>1. Within(p, p)
      BY <1>0, WithinFacts
    <3>2. CASE r = p
      BY <2>0, <2>3, <3>1, <3>2
    <3>3. CASE r # p
      BY <1>1, <1>2, <2>0, <2>3, <3>3
    <3>. QED
      BY <3>2, <3>3
  <2>. QED
    BY <2>1, <2>2, <2>3
<1>4. Renamed(p, q) = [r \in Paths |-> Renamed(p, q)[r]]
  BY DEF Renamed
<1>5. [[tree EXCEPT ![p] = Absent] EXCEPT ![q] = tree[p]] =
        [r \in Paths |-> IF r = q THEN tree[p] ELSE IF r = p THEN Absent ELSE tree[r]]
  BY <1>2
<1>. QED
  BY <1>3, <1>4, <1>5

LEMMA RenamedFileIsTree ==
  ASSUME IsTree(tree), NEW p \in Paths, NEW q \in Paths \ {Root, p},
         tree[Parent(q)] = Dir, tree[p].kind = "file", tree[q] # Dir
  PROVE  IsTree(Renamed(p, q))
<1>. DEFINE t == [tree EXCEPT ![p] = Absent]
<1>0. tree \in [Paths -> Nodes] /\ tree[p] # Dir /\ Parent(q) \in Paths
  BY NodeFacts, PathFacts, ParentFacts, BoundsAssumption DEF IsTree
<1>1. p # Root
  BY <1>0 DEF IsTree
<1>2. IsTree(t)
  BY <1>1, TakeAway
<1>3. t[Parent(q)] = Dir /\ t[q] # Dir
  BY <1>0, NodeFacts
<1>. HIDE DEF t
<1>4. IsTree([t EXCEPT ![q] = tree[p]])
  BY <1>0, <1>2, <1>3, PutFile
<1>. QED
  BY <1>4, RenamedFile DEF t

-----------------------------------------------------------------------------
(* The inductive invariant *)

\* CommandsInStep and LeftAlone, of one session.
InStepAt(s) ==
  /\ step[s] # "idle" => target[s] \in Seq(AllNames) \ {Root}
  /\ step[s] \in {"act", "open", "receive", "append", "move"} => target[s] \in Paths
  /\ step[s] = "receive" => temp[s] = Parent(target[s])
  /\ step[s] \in {"append", "move"} => cmd[s] = "APPE"

AloneAt(s) ==
  ~raced[s] =>
    /\ cmd[s] = "RMD" /\ step[s] = "act" => tree[target[s]] = Dir
    /\ cmd[s] = "STOU" /\ step[s] \in {"open", "receive"} => tree[target[s]] = File(<<>>)
    /\ step[s] = "move" => tree[target[s]].data = seen[s]

LEMMA InvParts ==
  Inv <=> /\ TypeOK /\ IsTree(tree)
          /\ \A p \in Paths : HasTemporary(p) => tree[p] = Dir
          /\ \A s \in Sessions : InStepAt(s) /\ AloneAt(s)
          /\ NumbersInStep
  BY DEF Inv, TreeStands, IsTree, CommandsInStep, LeftAlone, InStepAt, AloneAt, TypeOK

LEMMA InitInv == Init => Inv
<1>. SUFFICES ASSUME Init PROVE Inv
  OBVIOUS
<1>1. TypeOK
  <2>1. tree \in [Paths -> Nodes]
    BY InitialTreeAssumption DEF Init
  <2>2. cwd \in [Sessions -> Paths] /\ rename \in [Sessions -> Paths \cup {NoPath}]
        /\ temp \in [Sessions -> Paths \cup {NoPath}]
    BY PathFacts DEF Init
  <2>3. nextId \in 1 .. Len(UniqueName) + 1 /\ commands \in 0 .. MaxCommands
        /\ uploads \in Nat
    BY UniqueNameAssumption, BoundsAssumption DEF Init
  <2>4. seen \in [Sessions -> Seq(Int)]
    BY EmptySeq DEF Init
  <2>5. /\ litter \subseteq Paths
        /\ cmd \in [Sessions -> {"none", "MKD", "RMD", "DELE", "STOR", "STOU", "APPE"}]
        /\ step \in [Sessions -> {"idle", "act", "reserve", "taken", "open", "receive",
                                  "append", "move"}]
        /\ target \in [Sessions -> Seq(AllNames) \cup {NoPath}]
        /\ raced \in [Sessions -> BOOLEAN] /\ stale \in BOOLEAN
    BY DEF Init
  <2>. QED
    BY <2>1, <2>2, <2>3, <2>4, <2>5 DEF TypeOK
<1>2. IsTree(tree)
  BY InitialTreeAssumption DEF Init, IsTree
<1>3. \A p \in Paths : ~HasTemporary(p)
  BY PathFacts DEF Init, HasTemporary
<1>4. \A s \in Sessions : step[s] = "idle"
  BY DEF Init
<1>5. (\A s \in Sessions : InStepAt(s) /\ AloneAt(s)) /\ NumbersInStep
  BY <1>4 DEF InStepAt, AloneAt, NumbersInStep, Reserving
<1>. QED
  BY <1>1, <1>2, <1>3, <1>5, InvParts

\* What a step of session s has to show.  The others keep what they have, and know of
\* the changes to their targets.
LEMMA StepOf ==
  ASSUME Inv, NEW s \in Sessions, TypeOK', IsTree(tree'),
         \A p \in Paths : HasTemporary(p)' => tree'[p] = Dir,
         \A r \in Sessions \ {s} :
           /\ cmd'[r] = cmd[r] /\ step'[r] = step[r] /\ target'[r] = target[r]
           /\ seen'[r] = seen[r] /\ (step[r] = "receive" => temp'[r] = temp[r])
           /\ ~raced'[r] =>
                ~raced[r] /\ (target[r] \in Paths => tree'[target[r]] = tree[target[r]]),
         InStepAt(s)', AloneAt(s)', nextId' = nextId,
         Reserving(s)' => Reserving(s) /\ target'[s] = target[s]
  PROVE  Inv'
<1>0. /\ \A r \in Sessions : InStepAt(r) /\ AloneAt(r)
      /\ NumbersInStep
  BY InvParts
<1>1. ASSUME NEW r \in Sessions \ {s} PROVE InStepAt(r)' /\ AloneAt(r)'
  BY <1>0 DEF InStepAt, AloneAt
<1>2. \A r \in Sessions : InStepAt(r)' /\ AloneAt(r)'
  BY <1>1
<1>3. \A r \in Sessions : Reserving(r)' => Reserving(r) /\ target'[r] = target[r]
  BY DEF Reserving
<1>4. NumbersInStep'
  BY <1>0, <1>3 DEF NumbersInStep
<1>5. TreeStands'
  BY DEF TreeStands, IsTree
<1>6. CommandsInStep' /\ LeftAlone'
  BY <1>2 DEF CommandsInStep, LeftAlone, InStepAt, AloneAt
<1>. QED
  BY <1>4, <1>5, <1>6 DEF Inv

\* A step that leaves the tree alone.
LEMMA QuietStep ==
  ASSUME Inv, NEW s \in Sessions, TypeOK', tree' = tree,
         \A p \in Paths : HasTemporary(p)' => HasTemporary(p) \/ tree[p] = Dir,
         \A r \in Sessions \ {s} :
           /\ cmd'[r] = cmd[r] /\ step'[r] = step[r] /\ target'[r] = target[r]
           /\ seen'[r] = seen[r] /\ temp'[r] = temp[r] /\ raced'[r] = raced[r],
         InStepAt(s)', AloneAt(s)', nextId' = nextId,
         Reserving(s)' => Reserving(s) /\ target'[s] = target[s]
  PROVE  Inv'
<1>1. /\ IsTree(tree) /\ \A p \in Paths : HasTemporary(p) => tree[p] = Dir
  BY InvParts
<1>2. IsTree(tree') /\ \A p \in Paths : HasTemporary(p)' => tree'[p] = Dir
  BY <1>1
<1>. QED
  BY <1>2, StepOf

\* What the helpers of the actions do.
LEMMA EndsFacts ==
  ASSUME TypeOK, NEW s \in Sessions, Ends(s)
  PROVE  /\ cmd' \in [Sessions -> {"none", "MKD", "RMD", "DELE", "STOR", "STOU", "APPE"}]
         /\ step' \in [Sessions -> {"idle", "act", "reserve", "taken", "open",
                                    "receive", "append", "move"}]
         /\ target' \in [Sessions -> Seq(AllNames) \cup {NoPath}]
         /\ step'[s] = "idle" /\ cmd'[s] = "none"
         /\ \A r \in Sessions \ {s} :
              cmd'[r] = cmd[r] /\ step'[r] = step[r] /\ target'[r] = target[r]
  BY DEF TypeOK, Ends

LEMMA RacesFacts ==
  ASSUME TypeOK, NEW s \in Sessions, Races(s)
  PROVE  /\ raced' \in [Sessions -> BOOLEAN]
         /\ \A r \in Sessions \ {s} : ~raced'[r] =>
              ~raced[r] /\ (target[r] \in Paths => tree'[target[r]] = tree[target[r]])
  BY DEF TypeOK, Races

LEMMA LooksFacts ==
  ASSUME TypeOK, NEW s \in Sessions, Looks(s)
  PROVE  /\ raced' \in [Sessions -> BOOLEAN] /\ ~raced'[s]
         /\ \A r \in Sessions \ {s} : raced'[r] = raced[r]
  BY DEF TypeOK, Looks

\* The last step of a command that may change the tree.
LEMMA EndedStep ==
  ASSUME Inv, NEW s \in Sessions, Ends(s), Races(s), IsTree(tree'),
         \A p \in Paths : HasTemporary(p)' => tree'[p] = Dir,
         UNCHANGED <<nextId, cwd, rename, commands>>, litter' \subseteq Paths,
         temp' \in [Sessions -> Paths \cup {NoPath}], seen' \in [Sessions -> Seq(Int)],
         uploads' \in Nat, stale' \in BOOLEAN,
         \A r \in Sessions \ {s} : temp'[r] = temp[r] /\ seen'[r] = seen[r]
  PROVE  Inv'
<1>0. TypeOK
  BY DEF Inv
<1>1. TypeOK'
  <2>1. tree' \in [Paths -> Nodes]
    BY DEF IsTree
  <2>. QED
    BY <1>0, <2>1, EndsFacts, RacesFacts DEF TypeOK
<1>2. InStepAt(s)' /\ AloneAt(s)' /\ ~Reserving(s)'
  BY <1>0, EndsFacts DEF InStepAt, AloneAt, Reserving
<1>3. \A r \in Sessions \ {s} :
        /\ cmd'[r] = cmd[r] /\ step'[r] = step[r] /\ target'[r] = target[r]
        /\ ~raced'[r] =>
             ~raced[r] /\ (target[r] \in Paths => tree'[target[r]] = tree[target[r]])
  BY <1>0, EndsFacts, RacesFacts
<1>. QED
  BY <1>1, <1>2, <1>3, StepOf

\* CWD, CDUP and RNFR.
LEMMA WalkInv ==
  ASSUME Inv, NEW s \in Sessions,
         Cdup(s) \/ \E i \in Inputs : Cwd(s, i) \/ Rnfr(s, i)
  PROVE  Inv'
<1>0. TypeOK /\ InStepAt(s) /\ AloneAt(s) /\ commands < MaxCommands
  BY InvParts DEF Cdup, Cwd, Rnfr, Idle
<1>1. UNCHANGED <<tree, litter, nextId, cmd, step, target, temp, seen, uploads, raced,
                  stale>>
  BY DEF Cdup, Cwd, Rnfr
<1>2. commands' \in 0 .. MaxCommands
  BY <1>0, BoundsAssumption DEF TypeOK, Cdup, Cwd, Rnfr
<1>3. cwd' \in [Sessions -> Paths] /\ rename' \in [Sessions -> Paths \cup {NoPath}]
  <2>1. CASE Cdup(s)
    <3>1. cwd[s] \in Paths /\ Resolve(cwd[s], "..") # Outside
      BY <1>0, <2>1 DEF TypeOK, Cdup
    <3>2. Resolve(cwd[s], "..") = Parent(cwd[s]) /\ cwd[s] # Root
      BY <3>1 DEF Resolve
    <3>3. Parent(cwd[s]) \in Paths
      BY <3>1, <3>2, PathFacts, ParentFacts, BoundsAssumption
    <3>4. cwd' = [cwd EXCEPT ![s] = Parent(cwd[s])] /\ rename' = rename
      BY <2>1, <3>2 DEF Cdup
    <3>5. cwd \in [Sessions -> Paths] /\ rename \in [Sessions -> Paths \cup {NoPath}]
      BY <1>0 DEF TypeOK
    <3>. QED
      BY <3>3, <3>4, <3>5
  <2>2. CASE \E i \in Inputs : Cwd(s, i) \/ Rnfr(s, i)
    <3>0. cwd \in [Sessions -> Paths] /\ rename \in [Sessions -> Paths \cup {NoPath}]
      BY <1>0 DEF TypeOK
    <3>1. PICK i \in Inputs : Cwd(s, i) \/ Rnfr(s, i)
      BY <2>2
    <3>2. CASE Cwd(s, i)
      <4>1. \E p \in Paths : cwd' = [cwd EXCEPT ![s] = p] /\ rename' = rename
        BY <3>2 DEF Cwd, IsDir
      <4>. QED
        BY <3>0, <4>1
    <3>3. CASE Rnfr(s, i)
      <4>1. \E p \in Paths \cup {NoPath} : rename' = [rename EXCEPT ![s] = p] /\ cwd' = cwd
        BY <3>3 DEF Rnfr, Exists, IsDir, IsFile
      <4>. QED
        BY <3>0, <4>1
    <3>. QED
      BY <3>1, <3>2, <3>3
  <2>. QED
    BY <2>1, <2>2
<1>4. TypeOK'
  BY <1>0, <1>1, <1>2, <1>3 DEF TypeOK
<1>5. InStepAt(s)' /\ AloneAt(s)' /\ (Reserving(s)' <=> Reserving(s))
  BY <1>0, <1>1 DEF InStepAt, AloneAt, Reserving
<1>6. \A p \in Paths : HasTemporary(p)' => HasTemporary(p)
  BY <1>1 DEF HasTemporary
<1>. QED
  BY <1>1, <1>4, <1>5, <1>6, QuietStep

LEMMA LookInv ==
  ASSUME Inv, NEW s \in Sessions, NEW i \in Inputs,
         NEW c \in {"MKD", "RMD", "DELE", "STOR", "APPE"}, Look(s, c, i)
  PROVE  Inv'
<1>. DEFINE p == Resolve(cwd[s], i)
            st == IF c \in {"STOR", "APPE"} THEN "open" ELSE "act"
<1>0. TypeOK /\ IsTree(tree) /\ commands < MaxCommands
  BY InvParts DEF Look, Idle
<1>1. /\ Accepts(c, p) /\ Begins(s, c, p, st) /\ Looks(s)
      /\ temp' = IF c = "APPE" THEN [temp EXCEPT ![s] = Parent(p)] ELSE temp
      /\ UNCHANGED <<tree, litter, nextId, cwd, rename, seen, uploads, stale>>
  BY DEF Look
<1>. HIDE DEF p
<1>2. /\ p \in Paths /\ p # Root
      /\ c = "RMD" => tree[p] = Dir
      /\ c = "APPE" => Parent(p) \in Paths /\ tree[Parent(p)] = Dir
  BY <1>0, <1>1, PathFacts, NodeFacts DEF Accepts, IsDir, IsFile, Exists, IsTree
<1>. HIDE DEF st
<1>3. st \in {"open", "act"} /\ (st = "open" => c # "RMD")
  BY DEF st
<1>4. /\ cmd' = [cmd EXCEPT ![s] = c] /\ target' = [target EXCEPT ![s] = p]
      /\ step' = [step EXCEPT ![s] = st] /\ commands' = commands + 1
  BY <1>1 DEF Begins
<1>5. TypeOK'
  <2>1. commands' \in 0 .. MaxCommands
    BY <1>0, <1>4, BoundsAssumption DEF TypeOK
  <2>2. temp' \in [Sessions -> Paths \cup {NoPath}]
    BY <1>0, <1>1, <1>2 DEF TypeOK
  <2>3. /\ cmd' \in [Sessions -> {"none", "MKD", "RMD", "DELE", "STOR", "STOU", "APPE"}]
        /\ step' \in [Sessions -> {"idle", "act", "reserve", "taken", "open", "receive",
                                   "append", "move"}]
    BY <1>0, <1>3, <1>4 DEF TypeOK
  <2>4. target' \in [Sessions -> Seq(AllNames) \cup {NoPath}]
    BY <1>0, <1>2, <1>4, PathFacts DEF TypeOK
  <2>. QED
    BY <1>0, <1>1, <2>1, <2>2, <2>3, <2>4, LooksFacts DEF TypeOK
<1>6. \A r \in Sessions \ {s} :
        /\ cmd'[r] = cmd[r] /\ step'[r] = step[r] /\ seen'[r] = seen[r]
        /\ temp'[r] = temp[r] /\ target'[r] = target[r] /\ raced'[r] = raced[r]
  BY <1>0, <1>1, <1>4, LooksFacts DEF TypeOK
<1>7. /\ cmd'[s] = c /\ step'[s] = st /\ target'[s] = p
      /\ temp'[s] = IF c = "APPE" THEN Parent(p) ELSE temp[s]
  BY <1>0, <1>1, <1>4 DEF TypeOK
<1>8. InStepAt(s)' /\ AloneAt(s)' /\ ~Reserving(s)'
  BY <1>1, <1>2, <1>3, <1>7, PathFacts DEF InStepAt, AloneAt, Reserving
<1>9. \A x \in Paths : HasTemporary(x)' => HasTemporary(x) \/ tree[x] = Dir
  BY <1>1, <1>2, <1>6, <1>7 DEF HasTemporary
<1>. QED
  BY <1>1, <1>5, <1>6, <1>8, <1>9, QuietStep

\* A session goes on to the next step of its command.
LEMMA GoesFacts ==
  ASSUME TypeOK, NEW s \in Sessions, NEW st, Goes(s, st),
         st \in {"idle", "act", "reserve", "taken", "open", "receive", "append", "move"}
  PROVE  /\ step' \in [Sessions -> {"idle", "act", "reserve", "taken", "open",
                                    "receive", "append", "move"}]
         /\ step'[s] = st /\ \A r \in Sessions \ {s} : step'[r] = step[r]
  BY DEF TypeOK, Goes

LEMMA ActFailsInv ==
  ASSUME Inv, NEW s \in Sessions, Ends(s), Looks(s),
         UNCHANGED <<tree, litter, nextId, cwd, rename, temp, seen, commands, uploads,
                     stale>>
  PROVE  Inv'
<1>0. TypeOK
  BY DEF Inv
<1>1. TypeOK'
  BY <1>0, EndsFacts, LooksFacts DEF TypeOK
<1>2. InStepAt(s)' /\ AloneAt(s)' /\ ~Reserving(s)'
  BY <1>0, EndsFacts DEF InStepAt, AloneAt, Reserving
<1>3. \A p \in Paths : HasTemporary(p)' => HasTemporary(p)
  BY DEF HasTemporary
<1>4. \A r \in Sessions \ {s} :
        /\ cmd'[r] = cmd[r] /\ step'[r] = step[r] /\ target'[r] = target[r]
        /\ raced'[r] = raced[r]
  BY <1>0, EndsFacts, LooksFacts
<1>. QED
  BY <1>1, <1>2, <1>3, <1>4, QuietStep

LEMMA StagedInv ==
  ASSUME Inv, NEW s \in Sessions, Staged(s)
  PROVE  Inv'
<1>0. TypeOK /\ InStepAt(s)
  BY InvParts
<1>1. /\ step[s] = "receive" /\ cmd[s] = "APPE" /\ Goes(s, "append")
      /\ UNCHANGED <<tree, litter, nextId, cwd, rename, cmd, target, temp, seen,
                     commands, uploads, raced, stale>>
  BY DEF Staged
<1>2. TypeOK'
  BY <1>0, <1>1, GoesFacts DEF TypeOK
<1>3. step'[s] = "append" /\ \A r \in Sessions \ {s} : step'[r] = step[r]
  BY <1>0, <1>1, GoesFacts
<1>4. InStepAt(s)' /\ AloneAt(s)' /\ ~Reserving(s)'
  BY <1>0, <1>1, <1>3 DEF InStepAt, AloneAt, Reserving
<1>5. \A p \in Paths : HasTemporary(p)' => HasTemporary(p)
  BY <1>1 DEF HasTemporary
<1>. QED
  BY <1>1, <1>2, <1>3, <1>4, <1>5, QuietStep

LEMMA ReadExistingInv ==
  ASSUME Inv, NEW s \in Sessions, ReadExisting(s)
  PROVE  Inv'
<1>0. TypeOK /\ InStepAt(s)
  BY InvParts
<1>1. /\ step[s] = "append" /\ Goes(s, "move") /\ Looks(s)
      /\ seen' = [seen EXCEPT ![s] = tree[target[s]].data]
      /\ UNCHANGED <<tree, litter, nextId, cwd, rename, cmd, target, temp,
                     commands, uploads, stale>>
  BY DEF ReadExisting
<1>2. target[s] \in Paths /\ cmd[s] = "APPE" /\ target[s] # Root
  BY <1>0, <1>1 DEF InStepAt
<1>3. tree[target[s]].data \in Seq(Int)
  BY <1>0, <1>2, NodeFacts DEF TypeOK
<1>4. seen' \in [Sessions -> Seq(Int)] /\ seen'[s] = tree[target[s]].data
      /\ \A r \in Sessions \ {s} : seen'[r] = seen[r]
  BY <1>0, <1>1, <1>3 DEF TypeOK
<1>5. TypeOK'
  BY <1>0, <1>1, <1>4, GoesFacts, LooksFacts DEF TypeOK
<1>6. step'[s] = "move" /\ \A r \in Sessions \ {s} :
        step'[r] = step[r] /\ raced'[r] = raced[r]
  BY <1>0, <1>1, GoesFacts, LooksFacts
<1>7. InStepAt(s)' /\ AloneAt(s)' /\ ~Reserving(s)'
  BY <1>0, <1>1, <1>2, <1>4, <1>6 DEF InStepAt, AloneAt, Reserving
<1>8. \A p \in Paths : HasTemporary(p)' => HasTemporary(p)
  BY <1>1 DEF HasTemporary
<1>. QED
  BY <1>1, <1>4, <1>5, <1>6, <1>7, <1>8, QuietStep

LEMMA OpenWriterInv ==
  ASSUME Inv, NEW s \in Sessions, OpenWriter(s)
  PROVE  Inv'
<1>. DEFINE d == Parent(target[s])
<1>0. TypeOK /\ InStepAt(s) /\ AloneAt(s)
  BY InvParts
<1>1. /\ step[s] = "open" /\ Goes(s, "receive") /\ IsDir(d)
      /\ temp' = [temp EXCEPT ![s] = d]
      /\ litter' = litter \cup ({temp[s]} \ {NoPath, d})
      /\ UNCHANGED <<tree, nextId, cwd, rename, cmd, target, seen, commands, uploads,
                     raced, stale>>
  BY DEF OpenWriter
<1>2. d = Parent(target[s])
  OBVIOUS
<1>. HIDE DEF d
<1>3. d \in Paths /\ tree[d] = Dir
  BY <1>1 DEF IsDir
<1>4. temp' \in [Sessions -> Paths \cup {NoPath}] /\ litter' \subseteq Paths
      /\ temp'[s] = d /\ \A r \in Sessions \ {s} : temp'[r] = temp[r]
  BY <1>0, <1>1, <1>3 DEF TypeOK
<1>5. TypeOK'
  BY <1>0, <1>1, <1>4, GoesFacts DEF TypeOK
<1>6. step'[s] = "receive" /\ \A r \in Sessions \ {s} : step'[r] = step[r]
  BY <1>0, <1>1, GoesFacts
<1>7. /\ InStepAt(s)' /\ AloneAt(s)'
      /\ Reserving(s)' => Reserving(s) /\ target'[s] = target[s]
  BY <1>0, <1>1, <1>2, <1>4, <1>6 DEF InStepAt, AloneAt, Reserving
<1>8. \A p \in Paths : HasTemporary(p)' => HasTemporary(p) \/ tree[p] = Dir
  BY <1>1, <1>3, <1>4 DEF HasTemporary
<1>. QED
  BY <1>1, <1>4, <1>5, <1>6, <1>7, <1>8, QuietStep

LEMMA TakeIdInv ==
  ASSUME Inv, NEW s \in Sessions, TakeId(s)
  PROVE  Inv'
<1>. DEFINE p == Append(cwd[s], UniqueName[nextId])
<1>0. /\ TypeOK /\ IsTree(tree) /\ NumbersInStep
      /\ \A x \in Paths : HasTemporary(x) => tree[x] = Dir
      /\ \A r \in Sessions : InStepAt(r) /\ AloneAt(r)
  BY InvParts
<1>1. /\ nextId \in DOMAIN UniqueName /\ nextId' = nextId + 1
      /\ cmd' = [cmd EXCEPT ![s] = "STOU"] /\ target' = [target EXCEPT ![s] = p]
      /\ Goes(s, "reserve")
      /\ UNCHANGED <<tree, litter, cwd, rename, temp, seen, uploads, raced, stale>>
  BY DEF TakeId
<1>2. DOMAIN UniqueName = 1 .. Len(UniqueName) /\ Len(UniqueName) \in Nat
  BY UniqueNameAssumption
<1>3. /\ p \in Seq(AllNames) \ {Root} /\ p[Len(p)] = UniqueName[nextId]
  <2>1. UniqueName[nextId] \in AllNames
    BY <1>1 DEF AllNames
  <2>2. cwd[s] \in Seq(AllNames)
    BY <1>0, PathFacts DEF TypeOK
  <2>3. /\ p \in Seq(AllNames) /\ Len(p) = Len(cwd[s]) + 1
        /\ p[Len(cwd[s]) + 1] = UniqueName[nextId]
    BY <2>1, <2>2, AppendProperties
  <2>4. p # Root
    BY <2>2, <2>3, EmptySeq DEF Root
  <2>. QED
    BY <2>3, <2>4
<1>. HIDE DEF p
<1>4. commands' \in 0 .. MaxCommands
  BY <1>0, BoundsAssumption DEF TakeId, Idle, TypeOK
<1>5. /\ target' \in [Sessions -> Seq(AllNames) \cup {NoPath}] /\ target'[s] = p
      /\ cmd' \in [Sessions -> {"none", "MKD", "RMD", "DELE", "STOR", "STOU", "APPE"}]
      /\ cmd'[s] = "STOU"
      /\ \A r \in Sessions \ {s} : target'[r] = target[r] /\ cmd'[r] = cmd[r]
  BY <1>0, <1>1, <1>3 DEF TypeOK
<1>6. nextId' \in 1 .. Len(UniqueName) + 1
  BY <1>1, <1>2
<1>7. TypeOK'
  BY <1>0, <1>1, <1>4, <1>5, <1>6, GoesFacts DEF TypeOK
<1>8. step'[s] = "reserve" /\ \A r \in Sessions \ {s} : step'[r] = step[r]
  BY <1>0, <1>1, GoesFacts
<1>9. InStepAt(s)' /\ AloneAt(s)'
  BY <1>3, <1>5, <1>8 DEF InStepAt, AloneAt
<1>10. ASSUME NEW r \in Sessions \ {s} PROVE InStepAt(r)' /\ AloneAt(r)'
  BY <1>0, <1>1, <1>5, <1>8 DEF InStepAt, AloneAt
<1>11. \A r \in Sessions \ {s} : Reserving(r)' <=> Reserving(r)
  BY <1>5, <1>8 DEF Reserving
<1>12. ASSUME NEW r \in Sessions, Reserving(r)'
       PROVE  \E i \in DOMAIN UniqueName :
                i < nextId' /\ target'[r][Len(target'[r])] = UniqueName[i]
  <2>0. nextId \in Nat
    BY <1>1, <1>2
  <2>1. CASE r = s
    <3>1. nextId < nextId' /\ target'[r][Len(target'[r])] = UniqueName[nextId]
      BY <1>1, <1>3, <1>5, <2>0, <2>1
    <3>. QED
      BY <1>1, <3>1
  <2>2. CASE r # s
    <3>1. PICK i \in DOMAIN UniqueName :
            i < nextId /\ target[r][Len(target[r])] = UniqueName[i]
      BY <1>0, <1>11, <1>12, <2>2 DEF NumbersInStep
    <3>2. i < nextId'
      BY <1>1, <1>2, <2>0, <3>1
    <3>. QED
      BY <1>5, <2>2, <3>1, <3>2
  <2>. QED
    BY <2>1, <2>2
<1>13. ASSUME NEW r \in Sessions \ {s}, Reserving(r)'
       PROVE  target'[r][Len(target'[r])] # target'[s][Len(target'[s])]
  <2>1. PICK i \in DOMAIN UniqueName :
          i < nextId /\ target[r][Len(target[r])] = UniqueName[i]
    BY <1>0, <1>11, <1>13 DEF NumbersInStep
  <2>2. i # nextId
    BY <1>1, <1>2, <2>1
  <2>3. UniqueName[i] # UniqueName[nextId]
    BY <1>1, <2>1, <2>2, UniqueNameAssumption
  <2>. QED
    BY <1>3, <1>5, <2>1, <2>3
<1>14. ASSUME NEW r \in Sessions, NEW t \in Sessions, r # t, Reserving(r)', Reserving(t)'
       PROVE  target'[r][Len(target'[r])] # target'[t][Len(target'[t])]
  <2>1. CASE r = s
    BY <1>13, <1>14, <2>1
  <2>2. CASE t = s
    BY <1>13, <1>14, <2>2
  <2>3. CASE r # s /\ t # s
    BY <1>0, <1>5, <1>11, <1>14, <2>3 DEF NumbersInStep
  <2>. QED
    BY <2>1, <2>2, <2>3
<1>15. NumbersInStep'
  BY <1>12, <1>14 DEF NumbersInStep
<1>16. TreeStands'
  BY <1>0, <1>1 DEF TreeStands, IsTree, HasTemporary
<1>17. \A r \in Sessions : InStepAt(r)' /\ AloneAt(r)'
  BY <1>9, <1>10
<1>18. CommandsInStep' /\ LeftAlone'
  BY <1>17 DEF CommandsInStep, LeftAlone, InStepAt, AloneAt
<1>. QED
  BY <1>7, <1>15, <1>16, <1>18 DEF Inv

LEMMA ReserveInv ==
  ASSUME Inv, NEW s \in Sessions, Reserve(s)
  PROVE  Inv'
<1>. DEFINE p == target[s]
<1>0. /\ TypeOK /\ IsTree(tree) /\ InStepAt(s) /\ step[s] = "reserve"
      /\ \A x \in Paths : HasTemporary(x) => tree[x] = Dir
  BY InvParts DEF Reserve
<1>1. UNCHANGED <<litter, nextId, cwd, rename, temp, seen, commands, uploads, stale>>
  BY DEF Reserve
<1>2. p # Root
  BY <1>0 DEF InStepAt
<1>3. CASE /\ p \in Paths /\ IsDir(Parent(p)) /\ ~Exists(p)
           /\ Put(p, File(<<>>)) /\ Races(s)
           /\ Goes(s, "open") /\ UNCHANGED <<cmd, target>>
  <2>1. /\ tree[Parent(p)] = Dir /\ tree[p] # Dir
        /\ File(<<>>) \in Nodes /\ File(<<>>).kind = "file"
    BY <1>3, NodeFacts, EmptySeq DEF IsDir, Exists
  <2>2. tree' = [tree EXCEPT ![p] = File(<<>>)]
    BY <1>3 DEF Put
  <2>3. IsTree(tree')
    BY <1>0, <1>2, <1>3, <2>1, <2>2, PutFile
  <2>4. \A x \in Paths : HasTemporary(x)' => tree'[x] = Dir
    BY <1>0, <1>1, <2>1, <2>2 DEF HasTemporary, IsTree
  <2>5. TypeOK'
    BY <1>0, <1>1, <1>3, <2>3, GoesFacts, RacesFacts DEF TypeOK, IsTree
  <2>6. step'[s] = "open" /\ \A r \in Sessions \ {s} : step'[r] = step[r]
    BY <1>0, <1>3, GoesFacts
  <2>7. tree'[p] = File(<<>>) /\ target'[s] = p
    BY <1>0, <1>3, <2>2 DEF IsTree
  <2>8. InStepAt(s)'
    BY <1>0, <1>3, <2>6 DEF InStepAt
  <2>9. AloneAt(s)'
    BY <2>6, <2>7 DEF AloneAt
  <2>10. Reserving(s)' => Reserving(s)
    BY <1>0, <1>3 DEF Reserving
  <2>. QED
    BY <1>0, <1>1, <1>3, <2>3, <2>4, <2>5, <2>6, <2>8, <2>9, <2>10, RacesFacts, StepOf
<1>4. CASE Goes(s, "taken") /\ UNCHANGED <<tree, raced, cmd, target>>
  <2>1. TypeOK'
    BY <1>0, <1>1, <1>4, GoesFacts DEF TypeOK
  <2>2. step'[s] = "taken" /\ \A r \in Sessions \ {s} : step'[r] = step[r]
    BY <1>0, <1>4, GoesFacts
  <2>3. InStepAt(s)' /\ AloneAt(s)' /\ ~Reserving(s)'
    BY <1>0, <1>4, <2>2 DEF InStepAt, AloneAt, Reserving
  <2>4. \A x \in Paths : HasTemporary(x)' => HasTemporary(x)
    BY <1>1 DEF HasTemporary
  <2>. QED
    BY <1>1, <1>4, <2>1, <2>2, <2>3, <2>4, QuietStep
<1>5. CASE Ends(s) /\ Looks(s) /\ UNCHANGED tree
  BY <1>1, <1>5, ActFailsInv
<1>. QED
  BY <1>3, <1>4, <1>5 DEF Reserve

LEMMA MakeDirInv ==
  ASSUME Inv, NEW s \in Sessions, MakeDir(s)
  PROVE  Inv'
<1>. DEFINE p == target[s]
<1>0. /\ TypeOK /\ IsTree(tree) /\ InStepAt(s) /\ step[s] = "act"
      /\ \A x \in Paths : HasTemporary(x) => tree[x] = Dir
  BY InvParts DEF MakeDir
<1>1. /\ \A q \in Paths : Within(p, q) => ~IsFile(q)
      /\ tree' = [q \in Paths |-> IF Within(p, q) THEN Dir ELSE tree[q]]
      /\ Ends(s) /\ Races(s)
      /\ UNCHANGED <<litter, nextId, cwd, rename, temp, seen, commands, uploads, stale>>
  BY DEF MakeDir
<1>2. p \in Paths
  BY <1>0 DEF InStepAt
<1>3. IsTree(tree')
  BY <1>0, <1>1, <1>2, MakeDirs DEF IsFile
<1>4. \A x \in Paths : HasTemporary(x)' => tree'[x] = Dir
  BY <1>0, <1>1 DEF HasTemporary
<1>. QED
  BY <1>0, <1>1, <1>3, <1>4, EndedStep DEF TypeOK

\* Taking away a path that fs::remove takes.
LEMMA RemovedFacts ==
  ASSUME Inv, NEW p \in Paths \ {Root}, CanRemove(p), Put(p, Absent)
  PROVE  IsTree(tree') /\ \A x \in Paths : HasTemporary(x) => tree'[x] = Dir
<1>0. IsTree(tree) /\ \A x \in Paths : HasTemporary(x) => tree[x] = Dir
  BY InvParts
<1>1. tree' = [tree EXCEPT ![p] = Absent]
  BY DEF Put
<1>2. \/ tree[p].kind = "file"
      \/ ~HasTemporary(p) /\ \A c \in Paths \ {Root} : tree[c] # Absent => Parent(c) # p
  BY DEF CanRemove, IsFile, IsEmpty
<1>3. IsTree(tree')
  BY <1>0, <1>1, <1>2, TakeAway
<1>4. ~HasTemporary(p)
  BY <1>0, <1>2, NodeFacts DEF IsTree
<1>5. \A x \in Paths : HasTemporary(x) => tree'[x] = Dir
  BY <1>0, <1>1, <1>4 DEF IsTree
<1>. QED
  BY <1>3, <1>5

LEMMA RemoveInv ==
  ASSUME Inv, NEW s \in Sessions, Remove(s)
  PROVE  Inv'
<1>0. TypeOK /\ InStepAt(s) /\ step[s] = "act"
  BY InvParts DEF Remove
<1>1. /\ CanRemove(target[s]) /\ Put(target[s], Absent) /\ Ends(s) /\ Races(s)
      /\ UNCHANGED <<litter, nextId, cwd, rename, temp, seen, commands, uploads, stale>>
  BY DEF Remove
<1>2. target[s] \in Paths \ {Root}
  BY <1>0 DEF InStepAt
<1>3. IsTree(tree') /\ \A x \in Paths : HasTemporary(x) => tree'[x] = Dir
  BY <1>1, <1>2, RemovedFacts
<1>4. \A x \in Paths : HasTemporary(x)' => tree'[x] = Dir
  BY <1>1, <1>3 DEF HasTemporary
<1>. QED
  BY <1>0, <1>1, <1>3, <1>4, EndedStep DEF TypeOK

\* Putting a file at a path that is free or a file, in a directory that is there.
LEMMA StoredFacts ==
  ASSUME Inv, NEW p \in Paths \ {Root}, NEW d \in Seq(Int), ~IsDir(p),
         tree[Parent(p)] = Dir, Put(p, File(d))
  PROVE  IsTree(tree') /\ \A x \in Paths : HasTemporary(x) => tree'[x] = Dir
<1>0. IsTree(tree) /\ \A x \in Paths : HasTemporary(x) => tree[x] = Dir
  BY InvParts
<1>1. tree' = [tree EXCEPT ![p] = File(d)] /\ tree[p] # Dir
  BY DEF Put, IsDir
<1>2. File(d) \in Nodes /\ File(d).kind = "file"
  BY NodeFacts
<1>3. IsTree(tree')
  BY <1>0, <1>1, <1>2, PutFile
<1>4. \A x \in Paths : HasTemporary(x) => tree'[x] = Dir
  BY <1>0, <1>1 DEF IsTree
<1>. QED
  BY <1>3, <1>4

LEMMA StoreInv ==
  ASSUME Inv, NEW s \in Sessions, Store(s)
  PROVE  Inv'
<1>0. /\ TypeOK /\ InStepAt(s) /\ step[s] = "receive"
      /\ \A x \in Paths : HasTemporary(x) => tree[x] = Dir
  BY InvParts DEF Store
<1>1. /\ ~IsDir(target[s]) /\ Put(target[s], File(<<uploads + 1>>))
      /\ uploads' = uploads + 1 /\ temp' = [temp EXCEPT ![s] = NoPath]
      /\ Ends(s) /\ Races(s)
      /\ UNCHANGED <<litter, nextId, cwd, rename, seen, commands, stale>>
  BY DEF Store
<1>2. target[s] \in Paths \ {Root} /\ temp[s] = Parent(target[s])
  BY <1>0 DEF InStepAt
<1>3. Parent(target[s]) \in Paths
  BY <1>2, PathFacts, ParentFacts, BoundsAssumption
<1>4. tree[Parent(target[s])] = Dir
  BY <1>0, <1>2, <1>3 DEF HasTemporary
<1>5. uploads + 1 \in Nat /\ <<uploads + 1>> \in Seq(Int)
  BY <1>0 DEF TypeOK
<1>6. IsTree(tree') /\ \A x \in Paths : HasTemporary(x) => tree'[x] = Dir
  BY <1>1, <1>2, <1>4, <1>5, StoredFacts
<1>7. /\ temp' \in [Sessions -> Paths \cup {NoPath}] /\ temp'[s] = NoPath
      /\ \A r \in Sessions \ {s} : temp'[r] = temp[r]
  BY <1>0, <1>1 DEF TypeOK
<1>8. \A x \in Paths : HasTemporary(x)' => tree'[x] = Dir
  BY <1>1, <1>6, <1>7, PathFacts DEF HasTemporary
<1>. QED
  BY <1>0, <1>1, <1>5, <1>6, <1>7, <1>8, EndedStep DEF TypeOK

LEMMA MoveOverInv ==
  ASSUME Inv, NEW s \in Sessions, MoveOver(s)
  PROVE  Inv'
<1>0. TypeOK /\ InStepAt(s) /\ step[s] = "move"
  BY InvParts DEF MoveOver
<1>1. /\ IsDir(Parent(target[s])) /\ ~IsDir(target[s])
      /\ Put(target[s], File(Append(seen[s], uploads + 1)))
      /\ uploads' = uploads + 1 /\ stale' = (stale \/ raced[s])
      /\ temp' = [temp EXCEPT ![s] = NoPath] /\ seen' = [seen EXCEPT ![s] = <<>>]
      /\ Ends(s) /\ Races(s)
      /\ UNCHANGED <<litter, nextId, cwd, rename, commands>>
  BY DEF MoveOver
<1>2. target[s] \in Paths \ {Root} /\ tree[Parent(target[s])] = Dir
  BY <1>0, <1>1 DEF InStepAt, IsDir
<1>3. uploads + 1 \in Nat /\ Append(seen[s], uploads + 1) \in Seq(Int)
  BY <1>0, AppendProperties DEF TypeOK
<1>4. IsTree(tree') /\ \A x \in Paths : HasTemporary(x) => tree'[x] = Dir
  BY <1>1, <1>2, <1>3, StoredFacts
<1>5. /\ temp' \in [Sessions -> Paths \cup {NoPath}] /\ temp'[s] = NoPath
      /\ \A r \in Sessions \ {s} : temp'[r] = temp[r]
  BY <1>0, <1>1 DEF TypeOK
<1>6. /\ seen' \in [Sessions -> Seq(Int)]
      /\ \A r \in Sessions \ {s} : seen'[r] = seen[r]
  BY <1>0, <1>1, EmptySeq DEF TypeOK
<1>7. stale' \in BOOLEAN
  BY <1>0, <1>1 DEF TypeOK
<1>8. \A x \in Paths : HasTemporary(x)' => tree'[x] = Dir
  BY <1>1, <1>4, <1>5, PathFacts DEF HasTemporary
<1>. QED
  BY <1>0, <1>1, <1>3, <1>4, <1>5, <1>6, <1>7, <1>8, EndedStep DEF TypeOK

LEMMA UploadFailsInv ==
  ASSUME Inv, NEW s \in Sessions, UploadFails(s)
  PROVE  Inv'
<1>0. /\ TypeOK /\ InStepAt(s) /\ step[s] \in {"open", "receive", "append", "move"}
      /\ IsTree(tree) /\ \A x \in Paths : HasTemporary(x) => tree[x] = Dir
  BY InvParts DEF UploadFails
<1>1. /\ (CanRemove(target[s]) /\ Put(target[s], Absent)) \/ UNCHANGED tree
      /\ litter' = litter \cup ({temp[s]} \ {NoPath, Parent(target[s])})
      /\ temp' = [temp EXCEPT ![s] = NoPath] /\ seen' = [seen EXCEPT ![s] = <<>>]
      /\ Ends(s) /\ Races(s)
      /\ UNCHANGED <<nextId, cwd, rename, commands, uploads, stale>>
  BY DEF UploadFails
<1>2. target[s] \in Paths \ {Root}
  BY <1>0 DEF InStepAt
<1>3. IsTree(tree') /\ \A x \in Paths : HasTemporary(x) => tree'[x] = Dir
  <2>1. CASE CanRemove(target[s]) /\ Put(target[s], Absent)
    BY <1>2, <2>1, RemovedFacts
  <2>2. CASE UNCHANGED tree
    BY <1>0, <2>2
  <2>. QED
    BY <1>1, <2>1, <2>2
<1>4. /\ temp' \in [Sessions -> Paths \cup {NoPath}] /\ temp'[s] = NoPath
      /\ \A r \in Sessions \ {s} : temp'[r] = temp[r]
      /\ litter' \subseteq Paths
  BY <1>0, <1>1 DEF TypeOK
<1>5. /\ seen' \in [Sessions -> Seq(Int)]
      /\ \A r \in Sessions \ {s} : seen'[r] = seen[r]
  BY <1>0, <1>1, EmptySeq DEF TypeOK
<1>6. \A x \in Paths : HasTemporary(x)' => tree'[x] = Dir
  BY <1>1, <1>3, <1>4, PathFacts DEF HasTemporary
<1>. QED
  BY <1>0, <1>1, <1>3, <1>4, <1>5, <1>6, EndedStep DEF TypeOK

\* A directory that holds a temporary file goes along with a rename and stays a
\* directory; one in which a worker has a file open is not moved.
LEMMA RenameFacts ==
  ASSUME Inv, NEW p \in Paths, NEW q, CanRename(p, q), Fits(p, q)
  PROVE  /\ IsTree(Renamed(p, q))
         /\ Moved(NoPath, p, q) = NoPath
         /\ \A d \in Paths : tree[d] = Dir =>
              Moved(d, p, q) \in Paths /\ Renamed(p, q)[Moved(d, p, q)] = Dir
         /\ \A d \in Paths : HasTemporary(d) /\ Open(d) => Moved(d, p, q) = d
<1>0. /\ IsTree(tree) /\ \A x \in Paths : HasTemporary(x) => tree[x] = Dir
      /\ \A r \in Paths : r \in Seq(AllNames)
  BY InvParts, PathFacts
<1>1. q \in Paths \ {Root, p} /\ IsDir(Parent(q)) /\ tree[Parent(q)] = Dir
  BY DEF CanRename, IsDir
<1>2. p # Root
  <2>1. CASE tree[p].kind = "file"
    BY <1>0, <2>1, NodeFacts DEF IsTree
  <2>2. CASE ~Within(q, p)
    BY <1>0, <1>1, <2>2, WithinFacts
  <2>. QED
    BY <2>1, <2>2 DEF CanRename, IsFile
<1>3. Moved(NoPath, p, q) = NoPath
  <2>1. Len(p) \in Nat \ {0} /\ p[1] \in AllNames
    BY <1>0, <1>2, EmptySeq, ElementOfSeq DEF Root
  <2>2. NoPath[1] = "none" /\ "none" \notin AllNames
    BY NamesAssumption DEF NoPath
  <2>3. ~Within(NoPath, p)
    BY <2>1, <2>2 DEF Within
  <2>. QED
    BY <2>3 DEF Moved
<1>4. \A d \in Paths : ~Within(d, p) => Moved(d, p, q) = d
  BY DEF Moved
<1>5. CASE IsFile(p) /\ ~IsDir(q)
  <2>0. tree[p].kind = "file" /\ tree[p] # Dir /\ tree[q] # Dir
    BY <1>0, <1>1, <1>5, NodeFacts DEF IsFile, IsDir, IsTree
  <2>1. IsTree(Renamed(p, q))
    BY <1>0, <1>1, <2>0, RenamedFileIsTree
  <2>2. ASSUME NEW d \in Paths, tree[d] = Dir
        PROVE  Moved(d, p, q) = d /\ Renamed(p, q)[d] = Dir
    <3>1. d # p /\ d # q
      BY <2>0, <2>2
    <3>2. ~Within(d, p)
      BY <1>0, <2>0, <2>2, <3>1, NodeFacts DEF IsTree
    <3>3. Renamed(p, q) = [[tree EXCEPT ![p] = Absent] EXCEPT ![q] = tree[p]]
      BY <1>0, <1>1, <2>0, RenamedFile
    <3>. QED
      BY <1>0, <1>4, <2>2, <3>1, <3>2, <3>3 DEF IsTree
  <2>. QED
    BY <1>0, <1>3, <2>1, <2>2
<1>6. CASE IsDir(p) /\ ~Exists(q) /\ ~Within(q, p) /\ \A r \in Paths : Within(r, p) => ~Open(r)
  <2>0. tree[p] = Dir /\ tree[q] = Absent
    BY <1>0, <1>1, <1>6, NodeFacts DEF IsDir, IsFile, Exists, IsTree
  <2>1. IsTree(Renamed(p, q))
    BY <1>0, <1>1, <1>6, <2>0, RenamedDirIsTree
  <2>2. /\ \A r \in Paths : Within(r, q) => tree[r] = Absent
        /\ \A r \in Paths : Within(r, q) /\ Moved(r, q, p) \in Paths
             => Renamed(p, q)[r] = tree[Moved(r, q, p)]
        /\ \A r \in Paths : ~Within(r, p) /\ ~Within(r, q) => Renamed(p, q)[r] = tree[r]
    BY <1>0, <1>1, <1>6, <2>0, RenamedDir
  <2>3. ASSUME NEW d \in Paths, tree[d] = Dir
        PROVE  Moved(d, p, q) \in Paths /\ Renamed(p, q)[Moved(d, p, q)] = Dir
    <3>1. CASE Within(d, p)
      <4>1. Moved(d, p, q) \in Paths
        BY <2>3, <3>1, NodeFacts DEF Fits
      <4>2. Within(Moved(d, p, q), q) /\ Moved(Moved(d, p, q), q, p) = d
        BY <1>0, <1>1, <3>1, MovedFacts, MovedBack
      <4>. QED
        BY <2>2, <2>3, <4>1, <4>2
    <3>2. CASE ~Within(d, p)
      <4>1. ~Within(d, q)
        BY <2>2, <2>3, NodeFacts
      <4>. QED
        BY <1>4, <2>2, <2>3, <3>2, <4>1
    <3>. QED
      BY <3>1, <3>2
  <2>. QED
    BY <1>3, <1>4, <1>6, <2>1, <2>3
<1>. QED
  BY <1>5, <1>6 DEF CanRename

LEMMA RntoInv ==
  ASSUME Inv, NEW s \in Sessions, NEW i \in Inputs, Rnto(s, i)
  PROVE  Inv'
<1>. DEFINE p == rename[s]
            q == Resolve(cwd[s], i)
<1>0. /\ TypeOK /\ IsTree(tree) /\ step[s] = "idle" /\ commands < MaxCommands
      /\ \A x \in Paths : HasTemporary(x) => tree[x] = Dir
      /\ \A r \in Sessions : InStepAt(r)
  BY InvParts DEF Rnto, Idle
<1>1. /\ p # NoPath /\ rename' = [rename EXCEPT ![s] = NoPath]
      /\ commands' = commands + 1 /\ Races(s)
      /\ UNCHANGED <<nextId, cwd, cmd, step, target, seen, uploads, stale>>
  BY DEF Rnto
<1>2. p \in Paths
  BY <1>0, <1>1 DEF TypeOK
<1>3. /\ commands' \in 0 .. MaxCommands
      /\ rename' \in [Sessions -> Paths \cup {NoPath}]
  BY <1>0, <1>1, BoundsAssumption DEF TypeOK
<1>4. /\ IsTree(tree') /\ litter' \subseteq Paths
      /\ temp' \in [Sessions -> Paths \cup {NoPath}]
      /\ \A x \in Paths : HasTemporary(x)' => tree'[x] = Dir
      /\ \A r \in Sessions : step[r] = "receive" => temp'[r] = temp[r]
  <2>1. CASE /\ CanRename(p, q) /\ Fits(p, q)
             /\ tree' = Renamed(p, q)
             /\ temp' = [r \in Sessions |-> Moved(temp[r], p, q)]
             /\ litter' = {Moved(d, p, q) : d \in litter}
    <3>. HIDE DEF p, q
    <3>1. /\ IsTree(tree') /\ Moved(NoPath, p, q) = NoPath
          /\ \A d \in Paths : tree[d] = Dir =>
               Moved(d, p, q) \in Paths /\ tree'[Moved(d, p, q)] = Dir
          /\ \A d \in Paths : HasTemporary(d) /\ Open(d) => Moved(d, p, q) = d
      BY <1>2, <2>1, RenameFacts
    <3>2. \A d \in litter : d \in Paths /\ tree[d] = Dir
      BY <1>0 DEF TypeOK, HasTemporary
    <3>3. \A r \in Sessions : temp[r] = NoPath \/ (temp[r] \in Paths /\ tree[temp[r]] = Dir)
      BY <1>0 DEF TypeOK, HasTemporary
    <3>4. litter' \subseteq Paths /\ \A x \in litter' : tree'[x] = Dir
      BY <2>1, <3>1, <3>2
    <3>5. ASSUME NEW r \in Sessions
          PROVE  \/ temp'[r] = NoPath
                 \/ temp'[r] \in Paths /\ tree'[temp'[r]] = Dir
      BY <2>1, <3>1, <3>3
    <3>6. temp' \in [Sessions -> Paths \cup {NoPath}]
      BY <2>1, <3>5
    <3>7. \A x \in Paths : HasTemporary(x)' => tree'[x] = Dir
      BY <3>4, <3>5, PathFacts DEF HasTemporary
    <3>8. ASSUME NEW r \in Sessions, step[r] = "receive" PROVE temp'[r] = temp[r]
      <4>1. temp'[r] = Moved(temp[r], p, q)
        BY <2>1
      <4>2. temp[r] \in Paths => HasTemporary(temp[r]) /\ Open(temp[r])
        BY <3>8 DEF HasTemporary, Open
      <4>. QED
        BY <3>1, <3>3, <4>1, <4>2
    <3>. QED
      BY <3>1, <3>4, <3>6, <3>7, <3>8
  <2>2. CASE UNCHANGED <<tree, temp, litter>>
    BY <1>0, <2>2 DEF TypeOK, HasTemporary
  <2>. QED
    BY <2>1, <2>2 DEF Rnto
<1>5. TypeOK'
  BY <1>0, <1>1, <1>3, <1>4, RacesFacts DEF TypeOK, IsTree
<1>6. InStepAt(s)' /\ AloneAt(s)' /\ ~Reserving(s)'
  BY <1>0, <1>1 DEF InStepAt, AloneAt, Reserving
<1>. QED
  BY <1>0, <1>1, <1>4, <1>5, <1>6, RacesFacts, StepOf

LEMMA NextInv == Inv /\ [Next]_vars => Inv'
<1>. SUFFICES ASSUME Inv, [Next]_vars PROVE Inv'
  OBVIOUS
<1>1. CASE UNCHANGED vars
  BY <1>1 DEF vars, Inv, TypeOK, TreeStands, CommandsInStep, NumbersInStep, LeftAlone,
     HasTemporary, Reserving
<1>2. CASE Done
  BY <1>1, <1>2 DEF Done
<1>3. ASSUME NEW s \in Sessions, Command(s) PROVE Inv'
  <2>1. CASE Cdup(s) \/ \E i \in Inputs : Cwd(s, i) \/ Rnfr(s, i)
    BY <2>1, WalkInv
  <2>2. CASE TakeId(s)
    BY <2>2, TakeIdInv
  <2>3. CASE \E i \in Inputs : Rnto(s, i)
    BY <2>3, RntoInv
  <2>4. CASE \E i \in Inputs, c \in {"MKD", "RMD", "DELE", "STOR", "APPE"} : Look(s, c, i)
    BY <2>4, LookInv
  <2>. QED
    BY <1>3, <2>1, <2>2, <2>3, <2>4 DEF Command
<1>4. ASSUME NEW s \in Sessions, Act(s) PROVE Inv'
  BY <1>4, MakeDirInv, RemoveInv, ActFailsInv DEF Act, ActFails
<1>5. ASSUME NEW s \in Sessions, Upload(s) PROVE Inv'
  BY <1>5, ReserveInv, OpenWriterInv, StoreInv, StagedInv, ReadExistingInv, MoveOverInv,
     UploadFailsInv DEF Upload
<1>. QED
  BY <1>1, <1>2, <1>3, <1>4, <1>5 DEF Next

\* The inductive invariant holds for any number of sessions, names and commands.
THEOREM Invariance == Spec => []Inv
<1>. QED
  BY InitInv, NextInv, PTL DEF Spec

\* Types: no session leaves the server root, whatever others do to its directory.
THEOREM TypeCorrect == Spec => []TypeOK
<1>1. Inv => TypeOK
  BY DEF Inv
<1>. QED
  BY <1>1, Invariance, PTL

\* The server root stays a tree, although RMD, RNTO, MKD and the uploads of other
\* sessions act on paths that were looked at earlier.
THEOREM StaysTree == Spec => []TreeStands
<1>1. Inv => TreeStands
  BY DEF Inv
<1>. QED
  BY <1>1, Invariance, PTL

\* reserveUniqueUpload never gives one name to two uploads under way.
THEOREM UniqueUploads == Spec => []GivenOnce
<1>1. Inv => GivenOnce
  BY DEF Inv, GivenOnce, NumbersInStep
<1>. QED
  BY <1>1, Invariance, PTL

-----------------------------------------------------------------------------
(* What is lost *)

\* The body of NothingLostUnasked.
Kept == \A u \in Held \ Held' :
          \E s \in Sessions, p \in Paths : u \in Data(tree[p]) /\ MayLose(s, p)

LEMMA DataFacts ==
  /\ Data(Absent) = {} /\ Data(Dir) = {} /\ Data(File(<<>>)) = {}
  /\ \A u : u \in Held <=> \E p \in Paths : u \in Data(tree[p])
  /\ \A u : u \in Held' <=> \E p \in Paths : u \in Data(tree'[p])
<1>1. Absent.data = <<>> /\ Dir.data = <<>> /\ File(<<>>).data = <<>>
  BY DEF Absent, Dir, File
<1>2. \A n : n.data = <<>> => Data(n) = {}
  BY DEF Data
<1>3. \A u : u \in Held <=> \E p \in Paths : u \in Data(tree[p])
  BY DEF Held
<1>4. \A u : u \in Held' <=> \E p \in Paths : u \in Data(tree'[p])
  BY DEF Held
<1>. QED
  BY <1>1, <1>2, <1>3, <1>4

\* A step that changes one path loses what was there, if anything.
LEMMA OnePathKept ==
  ASSUME NEW p \in Paths, NEW s \in Sessions, NEW n, tree \in [Paths -> Nodes],
         tree' = [tree EXCEPT ![p] = n],
         Data(tree[p]) \subseteq Data(n) \/ MayLose(s, p)
  PROVE  Kept
<1>1. SUFFICES ASSUME NEW u \in Held \ Held'
               PROVE  u \in Data(tree[p]) /\ MayLose(s, p)
  BY DEF Kept
<1>2. PICK x \in Paths : u \in Data(tree[x])
  BY DataFacts
<1>3. u \notin Data(tree'[x]) /\ u \notin Data(tree'[p])
  BY <1>2, DataFacts
<1>4. x = p
  BY <1>2, <1>3
<1>5. u \notin Data(n)
  BY <1>3
<1>. QED
  BY <1>2, <1>4, <1>5

LEMMA RntoKept ==
  ASSUME Inv, NEW s \in Sessions, NEW p \in Paths, NEW q, p = rename[s], p # NoPath,
         CanRename(p, q), Fits(p, q), tree' = Renamed(p, q)
  PROVE  Kept
<1>0. IsTree(tree) /\ \A r \in Paths : r \in Seq(AllNames)
  BY InvParts, PathFacts
<1>1. q \in Paths \ {Root, p} /\ tree[Parent(q)] = Dir
  BY DEF CanRename, IsDir
<1>2. SUFFICES ASSUME NEW u \in Held \ Held'
               PROVE  \E x \in Paths : u \in Data(tree[x]) /\ MayLose(s, x)
  BY DEF Kept
<1>3. PICK x \in Paths : u \in Data(tree[x])
  BY DataFacts
<1>4. \A y \in Paths : u \notin Data(tree'[y])
  BY DataFacts
<1>5. CASE IsFile(p) /\ ~IsDir(q)
  <2>0. tree[p].kind = "file" /\ tree[q] # Dir
    BY <1>1, <1>5 DEF IsFile, IsDir
  <2>1. tree' = [[tree EXCEPT ![p] = Absent] EXCEPT ![q] = tree[p]]
    BY <1>0, <1>1, <2>0, RenamedFile
  <2>2. /\ tree'[q] = tree[p]
        /\ \A y \in Paths : y # p /\ y # q => tree'[y] = tree[y]
    BY <1>0, <1>1, <2>1 DEF IsTree
  <2>3. x = q
    BY <1>1, <1>3, <1>4, <2>2
  <2>4. MayLose(s, q)
    BY <1>5, <2>2 DEF MayLose
  <2>. QED
    BY <1>3, <2>3, <2>4
<1>6. CASE IsDir(p) /\ ~Exists(q) /\ ~Within(q, p)
  <2>0. tree[p] = Dir /\ tree[q] = Absent
    BY <1>0, <1>1, <1>6, NodeFacts DEF IsDir, IsFile, Exists, IsTree
  <2>1. /\ \A r \in Paths : Within(r, q) => tree[r] = Absent
        /\ \A r \in Paths : Within(r, q) /\ Moved(r, q, p) \in Paths
             => tree'[r] = tree[Moved(r, q, p)]
        /\ \A r \in Paths : ~Within(r, p) /\ ~Within(r, q) => tree'[r] = tree[r]
    BY <1>0, <1>1, <1>6, <2>0, RenamedDir
  <2>2. tree[x] # Absent /\ ~Within(x, q)
    BY <1>3, <2>1, DataFacts
  <2>3. CASE Within(x, p)
    <3>1. Moved(x, p, q) \in Paths
      BY <2>2, <2>3 DEF Fits
    <3>2. Within(Moved(x, p, q), q) /\ Moved(Moved(x, p, q), q, p) = x
      BY <1>0, <1>1, <2>3, MovedFacts, MovedBack
    <3>3. tree'[Moved(x, p, q)] = tree[x]
      BY <2>1, <3>1, <3>2
    <3>. QED
      BY <1>3, <1>4, <3>1, <3>3
  <2>4. CASE ~Within(x, p)
    BY <1>3, <1>4, <2>1, <2>2, <2>4
  <2>. QED
    BY <2>3, <2>4
<1>. QED
  BY <1>5, <1>6 DEF CanRename

LEMMA AppendData ==
  ASSUME NEW n \in Nodes, NEW e \in Int
  PROVE  Data(n) \subseteq Data(File(Append(n.data, e)))
<1>1. n.data \in Seq(Int)
  BY NodeFacts
<1>. DEFINE a == Append(n.data, e)
<1>2. /\ a \in Seq(Int) /\ Len(a) = Len(n.data) + 1
      /\ \A i \in 1 .. Len(n.data) : a[i] = n.data[i]
  BY <1>1, AppendProperties
<1>. HIDE DEF a
<1>3. File(a).data = a
  BY <1>2, NodeFacts
<1>4. \A i \in DOMAIN n.data : i \in DOMAIN a /\ a[i] = n.data[i]
  <2>1. /\ Len(n.data) \in Nat /\ DOMAIN n.data = 1 .. Len(n.data)
        /\ DOMAIN a = 1 .. Len(a)
    BY <1>1, <1>2, LenProperties
  <2>2. 1 .. Len(n.data) \subseteq 1 .. Len(a)
    BY <1>2, <2>1
  <2>. QED
    BY <1>2, <2>1, <2>2
<1>5. Data(n) \subseteq Data(File(a))
  BY <1>3, <1>4 DEF Data
<1>. QED
  BY <1>5 DEF a

LEMMA NextKept == Inv /\ [Next]_vars => Kept
<1>. SUFFICES ASSUME Inv, [Next]_vars PROVE Kept
  OBVIOUS
<1>0. TypeOK /\ tree \in [Paths -> Nodes] /\ \A s \in Sessions : InStepAt(s) /\ AloneAt(s)
  BY InvParts DEF TypeOK
<1>1. CASE UNCHANGED tree
  BY <1>1, DataFacts DEF Kept
<1>2. ASSUME NEW s \in Sessions, MakeDir(s) PROVE Kept
  <2>1. SUFFICES ASSUME NEW u \in Held \ Held' PROVE FALSE
    BY DEF Kept
  <2>2. PICK x \in Paths : u \in Data(tree[x])
    BY DataFacts
  <2>3. /\ Within(target[s], x) => tree[x].kind # "file"
        /\ ~Within(target[s], x) => tree'[x] = tree[x]
    BY <1>2 DEF MakeDir, IsFile
  <2>4. tree[x].kind = "file"
    BY <1>0, <2>2, NodeFacts, DataFacts
  <2>. QED
    BY <2>2, <2>3, <2>4, DataFacts
<1>3. ASSUME NEW s \in Sessions, Remove(s) PROVE Kept
  <2>1. /\ step[s] = "act" /\ cmd[s] \in {"RMD", "DELE"}
        /\ tree' = [tree EXCEPT ![target[s]] = Absent]
    BY <1>3 DEF Remove, Put
  <2>2. target[s] \in Paths
    BY <1>0, <2>1 DEF InStepAt
  <2>3. tree[target[s]] = Dir \/ MayLose(s, target[s])
    BY <1>0, <2>1 DEF AloneAt, MayLose
  <2>. QED
    BY <1>0, <2>1, <2>2, <2>3, DataFacts, OnePathKept
<1>4. ASSUME NEW s \in Sessions, Reserve(s) PROVE Kept
  <2>1. CASE /\ target[s] \in Paths /\ ~Exists(target[s])
             /\ tree' = [tree EXCEPT ![target[s]] = File(<<>>)]
    <3>1. Data(tree[target[s]]) = {}
      BY <1>0, <2>1, NodeFacts, DataFacts DEF Exists, IsDir, IsFile
    <3>. QED
      BY <1>0, <2>1, <3>1, OnePathKept
  <2>. QED
    BY <1>1, <1>4, <2>1 DEF Reserve, Put
<1>5. ASSUME NEW s \in Sessions, Store(s) PROVE Kept
  <2>1. /\ step[s] = "receive" /\ cmd[s] \in {"STOR", "STOU"}
        /\ tree' = [tree EXCEPT ![target[s]] = File(<<uploads + 1>>)]
    BY <1>5 DEF Store, Put
  <2>2. target[s] \in Paths
    BY <1>0, <2>1 DEF InStepAt
  <2>3. tree[target[s]] = File(<<>>) \/ MayLose(s, target[s])
    BY <1>0, <2>1 DEF AloneAt, MayLose
  <2>. QED
    BY <1>0, <2>1, <2>2, <2>3, DataFacts, OnePathKept
<1>6. ASSUME NEW s \in Sessions, MoveOver(s) PROVE Kept
  <2>1. /\ step[s] = "move"
        /\ tree' = [tree EXCEPT ![target[s]] = File(Append(seen[s], uploads + 1))]
    BY <1>6 DEF MoveOver, Put
  <2>2. target[s] \in Paths /\ uploads + 1 \in Nat
    BY <1>0, <2>1 DEF InStepAt, TypeOK
  <2>3. tree[target[s]].data = seen[s] \/ MayLose(s, target[s])
    BY <1>0, <2>1 DEF AloneAt, MayLose
  <2>4. tree[target[s]].data = seen[s] =>
          Data(tree[target[s]]) \subseteq Data(File(Append(seen[s], uploads + 1)))
    BY <1>0, <2>2, AppendData
  <2>. QED
    BY <1>0, <2>1, <2>2, <2>3, <2>4, OnePathKept
<1>7. ASSUME NEW s \in Sessions, UploadFails(s) PROVE Kept
  <2>1. CASE cmd[s] = "STOU" /\ Put(target[s], Absent)
    <3>1. /\ step[s] \in {"open", "receive", "append", "move"}
          /\ tree' = [tree EXCEPT ![target[s]] = Absent]
      BY <1>7, <2>1 DEF UploadFails, Put
    <3>2. target[s] \in Paths /\ step[s] \in {"open", "receive"}
      BY <1>0, <2>1, <3>1 DEF InStepAt
    <3>3. tree[target[s]] = File(<<>>) \/ MayLose(s, target[s])
      BY <1>0, <2>1, <3>2 DEF AloneAt, MayLose
    <3>. QED
      BY <1>0, <3>1, <3>2, <3>3, DataFacts, OnePathKept
  <2>. QED
    BY <1>1, <1>7, <2>1 DEF UploadFails
<1>8. ASSUME NEW s \in Sessions, NEW i \in Inputs, Rnto(s, i) PROVE Kept
  <2>1. rename[s] \in Paths /\ rename[s] # NoPath
    BY <1>0, <1>8 DEF Rnto, TypeOK
  <2>2. CASE \E q : /\ CanRename(rename[s], q) /\ Fits(rename[s], q)
                    /\ tree' = Renamed(rename[s], q)
    BY <2>1, <2>2, RntoKept
  <2>. QED
    BY <1>1, <1>8, <2>2 DEF Rnto
<1>9. ASSUME NEW s \in Sessions, Command(s) PROVE Kept
  <2>1. CASE \E i \in Inputs : Rnto(s, i)
    BY <1>8, <2>1
  <2>2. CASE ~\E i \in Inputs : Rnto(s, i)
    <3>1. UNCHANGED tree
      BY <1>9, <2>2 DEF Command, Cdup, TakeId, Cwd, Rnfr, Look
    <3>. QED
      BY <1>1, <3>1
  <2>. QED
    BY <2>1, <2>2
<1>10. ASSUME NEW s \in Sessions, Act(s) \/ Upload(s) PROVE Kept
  <2>1. CASE ActFails(s) \/ OpenWriter(s) \/ Staged(s) \/ ReadExisting(s)
    BY <1>1, <2>1 DEF ActFails, OpenWriter, Staged, ReadExisting
  <2>. QED
    BY <1>2, <1>3, <1>4, <1>5, <1>6, <1>7, <1>10, <2>1 DEF Act, Upload
<1>11. CASE UNCHANGED vars \/ Done
  BY <1>1, <1>11 DEF vars, Done
<1>. QED
  BY <1>9, <1>10, <1>11 DEF Next

\* An upload that is stored disappears only by a DELE, STOR or RNTO of its own path,
\* or when two sessions race for that path.
THEOREM NothingLost == Spec => NothingLostUnasked
<1>1. Inv /\ [Next]_vars =>
        [\A u \in Held \ Held' :
           \E s \in Sessions, p \in Paths : u \in Data(tree[p]) /\ MayLose(s, p)]_vars
  BY NextKept DEF Kept
<1>. QED
  BY <1>1, Invariance, PTL DEF Spec, NothingLostUnasked

-----------------------------------------------------------------------------
(* What is in the store twice *)

Tidy(t, n) == HoldsOnce(t) /\ NoneAfter(t, n)

\* A step that only takes data from other paths, from no path twice.
LEMMA CarriedOver ==
  ASSUME NEW t \in [Paths -> Nodes], NEW u \in [Paths -> Nodes], NEW n,
         Tidy(t, n), NEW f \in [Paths -> Paths],
         \A p \in Paths : u[p].data = <<>> \/ u[p].data = t[f[p]].data,
         \A p, q \in Paths :
           u[p].data # <<>> /\ u[q].data # <<>> /\ f[p] = f[q] => p = q
  PROVE  Tidy(u, n)
<1>0. DOMAIN <<>> = {}
  OBVIOUS
<1>1. ASSUME NEW p \in Paths, NEW q \in Paths,
             NEW i \in DOMAIN u[p].data, NEW j \in DOMAIN u[q].data,
             u[p].data[i] = u[q].data[j]
      PROVE  p = q /\ i = j
  <2>1. u[p].data # <<>> /\ u[q].data # <<>>
    BY <1>0
  <2>2. u[p].data = t[f[p]].data /\ u[q].data = t[f[q]].data
    BY <2>1
  <2>3. f[p] = f[q] /\ i = j
    BY <1>1, <2>2 DEF Tidy, HoldsOnce
  <2>. QED
    BY <2>1, <2>3
<1>2. ASSUME NEW p \in Paths, NEW i \in DOMAIN u[p].data PROVE u[p].data[i] <= n
  <2>1. u[p].data = t[f[p]].data
    BY <1>0
  <2>. QED
    BY <2>1 DEF Tidy, NoneAfter
<1>. QED
  BY <1>1, <1>2 DEF Tidy, HoldsOnce, NoneAfter

\* A path that loses its data, or all the paths of some set.
LEMMA DataDropped ==
  ASSUME NEW t \in [Paths -> Nodes], NEW u \in [Paths -> Nodes], NEW n, Tidy(t, n),
         \A p \in Paths : u[p].data = <<>> \/ u[p] = t[p]
  PROVE  Tidy(u, n)
<1>. DEFINE f == [p \in Paths |-> p]
<1>1. f \in [Paths -> Paths] /\ \A p \in Paths : f[p] = p
  OBVIOUS
<1>. HIDE DEF f
<1>2. \A p \in Paths : u[p].data = <<>> \/ u[p].data = t[f[p]].data
  BY <1>1
<1>3. \A p, q \in Paths : u[p].data # <<>> /\ u[q].data # <<>> /\ f[p] = f[q] => p = q
  BY <1>1
<1>. QED
  BY <1>1, <1>2, <1>3, CarriedOver

\* A file takes up one new upload, after what it held or instead of it.
LEMMA DataAdded ==
  ASSUME NEW t \in [Paths -> Nodes], NEW n \in Nat, Tidy(t, n), NEW p \in Paths,
         NEW d \in Seq(Int),
         \A i \in DOMAIN d : \/ d[i] = n + 1
                             \/ i \in DOMAIN t[p].data /\ d[i] = t[p].data[i],
         \A i, j \in DOMAIN d : d[i] = n + 1 /\ d[j] = n + 1 => i = j
  PROVE  Tidy([t EXCEPT ![p] = File(d)], n + 1)
<1>. DEFINE u == [t EXCEPT ![p] = File(d)]
<1>1. /\ u[p].data = d /\ \A q \in Paths : q # p => u[q] = t[q]
  BY NodeFacts
<1>2. \A q \in Paths : \A i \in DOMAIN t[q].data : t[q].data[i] \in Int
  BY NodeFacts, ElementOfSeq
<1>3. \A q \in Paths : \A i \in DOMAIN t[q].data : t[q].data[i] <= n
  BY DEF Tidy, NoneAfter
<1>4. \A q \in Paths : \A i \in DOMAIN t[q].data : t[q].data[i] # n + 1
  BY <1>2, <1>3
<1>. HIDE DEF u
<1>5. ASSUME NEW q \in Paths, NEW i \in DOMAIN u[q].data
      PROVE  \/ q = p /\ u[q].data[i] = n + 1
             \/ i \in DOMAIN t[q].data /\ u[q].data[i] = t[q].data[i]
  BY <1>1, <1>5
<1>6. ASSUME NEW q \in Paths, NEW i \in DOMAIN u[q].data PROVE u[q].data[i] <= n + 1
  <2>1. CASE u[q].data[i] = n + 1
    BY <2>1
  <2>2. CASE i \in DOMAIN t[q].data /\ u[q].data[i] = t[q].data[i]
    BY <1>2, <1>3, <2>2
  <2>. QED
    BY <1>5, <2>1, <2>2
<1>7. ASSUME NEW q \in Paths, NEW r \in Paths,
             NEW i \in DOMAIN u[q].data, NEW j \in DOMAIN u[r].data,
             u[q].data[i] = u[r].data[j]
      PROVE  q = r /\ i = j
  <2>1. CASE u[q].data[i] = n + 1
    <3>0. u[r].data[j] = n + 1
      BY <1>7, <2>1, Zenon
    <3>1. \/ q = p
          \/ i \in DOMAIN t[q].data /\ u[q].data[i] = t[q].data[i]
      BY <1>5
    <3>2. q = p
      BY <1>4, <2>1, <3>1
    <3>3. \/ r = p
          \/ j \in DOMAIN t[r].data /\ u[r].data[j] = t[r].data[j]
      BY <1>5
    <3>4. r = p
      BY <1>4, <3>0, <3>3
    <3>. QED
      BY <1>1, <2>1, <3>0, <3>2, <3>4
  <2>2. CASE u[q].data[i] # n + 1
    <3>1. i \in DOMAIN t[q].data /\ u[q].data[i] = t[q].data[i]
      BY <1>5, <2>2
    <3>2. j \in DOMAIN t[r].data /\ u[r].data[j] = t[r].data[j]
      BY <1>5, <1>7, <2>2
    <3>3. t[q].data[i] = t[r].data[j]
      BY <1>7, <3>1, <3>2
    <3>. QED
      BY <3>1, <3>2, <3>3 DEF Tidy, HoldsOnce
  <2>. QED
    BY <2>1, <2>2
<1>8. Tidy(u, n + 1)
  BY <1>6, <1>7 DEF Tidy, HoldsOnce, NoneAfter
<1>. QED
  BY <1>8 DEF u

\* A rename takes a file or a whole directory along; every path of the new tree has
\* its data from one path of the old.
LEMMA RenamedTidy ==
  ASSUME Inv, NEW p \in Paths, NEW q, CanRename(p, q), Fits(p, q), NEW n,
         Tidy(tree, n)
  PROVE  Tidy(Renamed(p, q), n)
<1>0. /\ IsTree(tree) /\ tree \in [Paths -> Nodes] /\ IsTree(Renamed(p, q))
      /\ \A r \in Paths : r \in Seq(AllNames)
  BY InvParts, PathFacts, RenameFacts DEF IsTree
<1>1. q \in Paths \ {Root, p} /\ tree[Parent(q)] = Dir
  BY DEF CanRename, IsDir
<1>2. Renamed(p, q) \in [Paths -> Nodes]
  BY <1>0 DEF IsTree
<1>3. Absent.data = <<>>
  BY NodeFacts
<1>4. CASE IsFile(p) /\ ~IsDir(q)
  <2>0. tree[p].kind = "file" /\ tree[q] # Dir
    BY <1>1, <1>4 DEF IsFile, IsDir
  <2>1. Renamed(p, q) = [[tree EXCEPT ![p] = Absent] EXCEPT ![q] = tree[p]]
    BY <1>0, <1>1, <2>0, RenamedFile
  <2>2. /\ Renamed(p, q)[q] = tree[p] /\ Renamed(p, q)[p] = Absent
        /\ \A y \in Paths : y # p /\ y # q => Renamed(p, q)[y] = tree[y]
    BY <1>0, <1>1, <2>1
  <2>. DEFINE f == [r \in Paths |-> IF r = q THEN p ELSE r]
  <2>3. f \in [Paths -> Paths] /\ \A r \in Paths : f[r] = IF r = q THEN p ELSE r
    OBVIOUS
  <2>. HIDE DEF f
  <2>4. \A r \in Paths :
          Renamed(p, q)[r].data = <<>> \/ Renamed(p, q)[r].data = tree[f[r]].data
    BY <1>1, <1>3, <2>2, <2>3
  <2>5. ASSUME NEW r \in Paths, NEW x \in Paths, Renamed(p, q)[r].data # <<>>,
               Renamed(p, q)[x].data # <<>>, f[r] = f[x]
        PROVE  r = x
    <3>1. r # p /\ x # p
      BY <1>3, <2>2, <2>5
    <3>. QED
      BY <2>3, <2>5, <3>1
  <2>. DEFINE u == Renamed(p, q)
  <2>7. /\ u \in [Paths -> Nodes] /\ f \in [Paths -> Paths]
        /\ \A r \in Paths : u[r].data = <<>> \/ u[r].data = tree[f[r]].data
        /\ \A r, x \in Paths :
             u[r].data # <<>> /\ u[x].data # <<>> /\ f[r] = f[x] => r = x
    BY <1>2, <2>3, <2>4, <2>5
  <2>. HIDE DEF u
  <2>8. Tidy(u, n)
    BY <1>0, <2>7, CarriedOver
  <2>. QED
    BY <2>8 DEF u
<1>5. CASE IsDir(p) /\ ~Exists(q) /\ ~Within(q, p)
  <2>0. tree[p] = Dir /\ tree[q] = Absent
    BY <1>0, <1>1, <1>5, NodeFacts DEF IsDir, IsFile, Exists
  <2>1. /\ \A r \in Paths : Within(r, q) /\ Moved(r, q, p) \in Paths
             => Renamed(p, q)[r] = tree[Moved(r, q, p)]
        /\ \A r \in Paths : Within(r, q) /\ Moved(r, q, p) \notin Paths
             => Renamed(p, q)[r] = Absent
        /\ \A r \in Paths : Within(r, p) => Renamed(p, q)[r] = Absent
        /\ \A r \in Paths : ~Within(r, p) /\ ~Within(r, q) => Renamed(p, q)[r] = tree[r]
    BY <1>0, <1>1, <1>5, <2>0, RenamedDir
  <2>. DEFINE f == [r \in Paths |-> IF Within(r, q) /\ Moved(r, q, p) \in Paths
                                    THEN Moved(r, q, p) ELSE r]
  <2>2. /\ f \in [Paths -> Paths]
        /\ \A r \in Paths : f[r] = IF Within(r, q) /\ Moved(r, q, p) \in Paths
                                   THEN Moved(r, q, p) ELSE r
    OBVIOUS
  <2>. HIDE DEF f
  <2>3. \A r \in Paths :
          Renamed(p, q)[r].data = <<>> \/ Renamed(p, q)[r].data = tree[f[r]].data
    BY <1>3, <2>1, <2>2
  <2>4. ASSUME NEW r \in Paths, Within(r, q)
        PROVE  Within(Moved(r, q, p), p) /\ Moved(Moved(r, q, p), p, q) = r
    BY <1>0, <1>1, <2>4, MovedFacts, MovedBack
  <2>5. ASSUME NEW r \in Paths, Renamed(p, q)[r].data # <<>>
        PROVE  \/ Within(r, q) /\ f[r] = Moved(r, q, p)
               \/ ~Within(r, p) /\ f[r] = r
    BY <1>3, <2>1, <2>2, <2>5
  <2>6. ASSUME NEW r \in Paths, NEW x \in Paths, Renamed(p, q)[r].data # <<>>,
               Renamed(p, q)[x].data # <<>>, f[r] = f[x]
        PROVE  r = x
    BY <2>4, <2>5, <2>6
  <2>. DEFINE u == Renamed(p, q)
  <2>7. /\ u \in [Paths -> Nodes] /\ f \in [Paths -> Paths]
        /\ \A r \in Paths : u[r].data = <<>> \/ u[r].data = tree[f[r]].data
        /\ \A r, x \in Paths :
             u[r].data # <<>> /\ u[x].data # <<>> /\ f[r] = f[x] => r = x
    BY <1>2, <2>2, <2>3, <2>6
  <2>. HIDE DEF u
  <2>8. Tidy(u, n)
    BY <1>0, <2>7, CarriedOver
  <2>. QED
    BY <2>8 DEF u
<1>. QED
  BY <1>4, <1>5 DEF CanRename

\* What an append writes when it was not raced: all that the file holds, and itself.
LEMMA AppendedData ==
  ASSUME NEW d \in Seq(Int), NEW n \in Nat, \A i \in DOMAIN d : d[i] <= n
  PROVE  /\ Append(d, n + 1) \in Seq(Int)
         /\ \A i \in DOMAIN Append(d, n + 1) : \/ Append(d, n + 1)[i] = n + 1
                                               \/ /\ i \in DOMAIN d
                                                  /\ Append(d, n + 1)[i] = d[i]
         /\ \A i, j \in DOMAIN Append(d, n + 1) :
              Append(d, n + 1)[i] = n + 1 /\ Append(d, n + 1)[j] = n + 1 => i = j
<1>. DEFINE a == Append(d, n + 1)
<1>1. /\ a \in Seq(Int) /\ Len(a) = Len(d) + 1
      /\ \A i \in 1 .. Len(d) : a[i] = d[i]
      /\ a[Len(d) + 1] = n + 1
  BY AppendProperties
<1>2. Len(d) \in Nat /\ DOMAIN d = 1 .. Len(d) /\ DOMAIN a = 1 .. Len(a)
  BY <1>1, LenProperties
<1>3. \A i \in DOMAIN d : d[i] \in Int
  BY ElementOfSeq
<1>. HIDE DEF a
<1>4. \A i \in DOMAIN a : i = Len(d) + 1 \/ i \in DOMAIN d
  BY <1>1, <1>2
<1>5. \A i \in DOMAIN d : a[i] = d[i] /\ a[i] # n + 1
  BY <1>1, <1>2, <1>3
<1>6. /\ \A i \in DOMAIN a : a[i] = n + 1 \/ (i \in DOMAIN d /\ a[i] = d[i])
      /\ \A i, j \in DOMAIN a : a[i] = n + 1 /\ a[j] = n + 1 => i = j
  BY <1>1, <1>4, <1>5
<1>. QED
  BY <1>1, <1>6 DEF a

\* One step keeps the store tidy, unless an append has replaced a file that it had
\* not read.
LEMMA NextTidy ==
  ASSUME Inv, [Next]_vars, ~stale => Tidy(tree, uploads), ~stale'
  PROVE  Tidy(tree', uploads')
<1>0. /\ TypeOK /\ tree \in [Paths -> Nodes] /\ uploads \in Nat
      /\ \A s \in Sessions : InStepAt(s) /\ AloneAt(s)
  BY InvParts DEF TypeOK
<1>1. tree' \in [Paths -> Nodes]
  BY NextInv DEF Inv, TypeOK
<1>2. CASE UNCHANGED <<tree, uploads, stale>>
  BY <1>2
<1>3. ASSUME UNCHANGED <<uploads, stale>>,
             \A p \in Paths : tree'[p].data = <<>> \/ tree'[p] = tree[p]
      PROVE  Tidy(tree', uploads')
  BY <1>0, <1>1, <1>3, DataDropped
<1>4. ASSUME NEW p \in Paths, NEW m, tree' = [tree EXCEPT ![p] = m], m.data = <<>>,
             UNCHANGED <<uploads, stale>>
      PROVE  Tidy(tree', uploads')
  BY <1>0, <1>3, <1>4
<1>5. Absent.data = <<>> /\ Dir.data = <<>> /\ File(<<>>).data = <<>>
  BY DEF Absent, Dir, File
<1>6. ASSUME NEW s \in Sessions, Command(s) PROVE Tidy(tree', uploads')
  <2>1. ASSUME NEW i \in Inputs, Rnto(s, i) PROVE Tidy(tree', uploads')
    <3>1. rename[s] \in Paths /\ UNCHANGED <<uploads, stale>>
      BY <1>0, <2>1 DEF Rnto, TypeOK
    <3>2. CASE \E q : /\ CanRename(rename[s], q) /\ Fits(rename[s], q)
                      /\ tree' = Renamed(rename[s], q)
      BY <3>1, <3>2, RenamedTidy
    <3>. QED
      BY <1>2, <2>1, <3>1, <3>2 DEF Rnto
  <2>2. CASE ~\E i \in Inputs : Rnto(s, i)
    <3>1. UNCHANGED <<tree, uploads, stale>>
      BY <1>6, <2>2 DEF Command, Cdup, TakeId, Cwd, Rnfr, Look
    <3>. QED
      BY <1>2, <3>1
  <2>. QED
    BY <2>1, <2>2
<1>7. ASSUME NEW s \in Sessions, MakeDir(s) PROVE Tidy(tree', uploads')
  <2>1. /\ UNCHANGED <<uploads, stale>>
        /\ \A p \in Paths : tree'[p] = Dir \/ tree'[p] = tree[p]
    BY <1>7 DEF MakeDir
  <2>. QED
    BY <1>3, <1>5, <2>1
<1>8. ASSUME NEW s \in Sessions, Remove(s) PROVE Tidy(tree', uploads')
  <2>1. /\ step[s] = "act" /\ UNCHANGED <<uploads, stale>>
        /\ tree' = [tree EXCEPT ![target[s]] = Absent]
    BY <1>8 DEF Remove, Put
  <2>2. target[s] \in Paths
    BY <1>0, <2>1 DEF InStepAt
  <2>. QED
    BY <1>4, <1>5, <2>1, <2>2
<1>9. ASSUME NEW s \in Sessions, Reserve(s) PROVE Tidy(tree', uploads')
  <2>1. UNCHANGED <<uploads, stale>>
    BY <1>9 DEF Reserve
  <2>2. CASE target[s] \in Paths /\ Put(target[s], File(<<>>))
    BY <1>4, <1>5, <2>1, <2>2 DEF Put
  <2>. QED
    BY <1>2, <1>9, <2>1, <2>2 DEF Reserve
<1>10. ASSUME NEW s \in Sessions, UploadFails(s) PROVE Tidy(tree', uploads')
  <2>1. UNCHANGED <<uploads, stale>> /\ step[s] \in {"open", "receive", "append", "move"}
    BY <1>10 DEF UploadFails
  <2>2. target[s] \in Paths
    BY <1>0, <2>1 DEF InStepAt
  <2>3. CASE Put(target[s], Absent)
    BY <1>4, <1>5, <2>1, <2>2, <2>3 DEF Put
  <2>. QED
    BY <1>2, <1>10, <2>1, <2>3 DEF UploadFails
<1>11. ASSUME NEW s \in Sessions, Store(s) PROVE Tidy(tree', uploads')
  <2>1. /\ step[s] = "receive" /\ uploads' = uploads + 1 /\ UNCHANGED stale
        /\ tree' = [tree EXCEPT ![target[s]] = File(<<uploads + 1>>)]
    BY <1>11 DEF Store, Put
  <2>2. target[s] \in Paths
    BY <1>0, <2>1 DEF InStepAt
  <2>3. /\ <<uploads + 1>> \in Seq(Int) /\ DOMAIN <<uploads + 1>> = {1}
        /\ <<uploads + 1>>[1] = uploads + 1
    BY <1>0
  <2>. QED
    BY <1>0, <2>1, <2>2, <2>3, DataAdded
<1>12. ASSUME NEW s \in Sessions, MoveOver(s) PROVE Tidy(tree', uploads')
  <2>1. /\ step[s] = "move" /\ uploads' = uploads + 1 /\ stale' = (stale \/ raced[s])
        /\ tree' = [tree EXCEPT ![target[s]] = File(Append(seen[s], uploads + 1))]
    BY <1>12 DEF MoveOver, Put
  <2>2. target[s] \in Paths
    BY <1>0, <2>1 DEF InStepAt
  <2>3. ~stale /\ ~raced[s]
    BY <2>1
  <2>4. seen[s] = tree[target[s]].data
    BY <1>0, <2>1, <2>3 DEF AloneAt
  <2>5. seen[s] \in Seq(Int) /\ \A i \in DOMAIN seen[s] : seen[s][i] <= uploads
    BY <1>0, <2>2, <2>3, <2>4 DEF TypeOK, Tidy, NoneAfter
  <2>. DEFINE d == Append(seen[s], uploads + 1)
  <2>6. /\ d \in Seq(Int)
        /\ \A i \in DOMAIN d : \/ d[i] = uploads + 1
                               \/ i \in DOMAIN seen[s] /\ d[i] = seen[s][i]
        /\ \A i, j \in DOMAIN d : d[i] = uploads + 1 /\ d[j] = uploads + 1 => i = j
    BY <1>0, <2>5, AppendedData
  <2>7. tree' = [tree EXCEPT ![target[s]] = File(d)]
    BY <2>1
  <2>. HIDE DEF d
  <2>8. \A i \in DOMAIN d : \/ d[i] = uploads + 1
                            \/ /\ i \in DOMAIN tree[target[s]].data
                               /\ d[i] = tree[target[s]].data[i]
    BY <2>4, <2>6
  <2>9. Tidy([tree EXCEPT ![target[s]] = File(d)], uploads + 1)
    BY <1>0, <2>2, <2>3, <2>6, <2>8, DataAdded
  <2>. QED
    BY <2>1, <2>7, <2>9
<1>13. ASSUME NEW s \in Sessions, Act(s) \/ Upload(s) PROVE Tidy(tree', uploads')
  <2>1. CASE ActFails(s) \/ OpenWriter(s) \/ Staged(s) \/ ReadExisting(s)
    BY <1>2, <2>1 DEF ActFails, OpenWriter, Staged, ReadExisting
  <2>. QED
    BY <1>7, <1>8, <1>9, <1>10, <1>11, <1>12, <1>13, <2>1 DEF Act, Upload
<1>14. CASE UNCHANGED vars \/ Done
  BY <1>2, <1>14 DEF vars, Done
<1>. QED
  BY <1>6, <1>13, <1>14 DEF Next

\* The numbers of the uploads in the store are all used ones, and no number is there
\* twice: the invariant that an append needs to add a number of its own.
THEOREM InventoryKept == Spec => []Inventory
<1>0. Inventory <=> Inv /\ (stale \/ Tidy(tree, uploads))
  BY DEF Inventory, OneCopy, Tidy
<1>1. Init => Inventory
  <2>. SUFFICES ASSUME Init PROVE Inventory
    OBVIOUS
  <2>1. Tidy(tree, uploads)
    BY InitialDataAssumption DEF Init, Tidy
  <2>. QED
    BY <1>0, <2>1, InitInv
<1>2. Inventory /\ [Next]_vars => Inventory'
  <2>. SUFFICES ASSUME Inventory, [Next]_vars PROVE Inventory'
    OBVIOUS
  <2>1. Inv /\ Inv' /\ (~stale => Tidy(tree, uploads))
    BY <1>0, NextInv
  <2>2. ~stale' => Tidy(tree', uploads')
    BY <2>1, NextTidy
  <2>. QED
    BY <2>1, <2>2 DEF Inventory, OneCopy, Tidy
<1>. QED
  BY <1>1, <1>2, PTL DEF Spec

\* Whatever is renamed, removed, replaced and appended to by however many sessions, an
\* upload is in the store at most once until an append replaces a file that another
\* session changed after it was read.
THEOREM SingleCopy == Spec => []OneCopy
<1>1. Inventory => OneCopy
  BY DEF Inventory
<1>. QED
  BY <1>1, InventoryKept, PTL

=============================================================================
