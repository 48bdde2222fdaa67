---------------------------- MODULE StorageProofs ----------------------------
(***************************************************************************)
(* Theorems about Storage for every set of names, inodes, bytes, uploads   *)
(* and requests, and the lemmas about the operators of FileTree they rest  *)
(* on, for trees of any size and depth.                                    *)
(***************************************************************************)
EXTENDS Storage, SequenceTheorems, TLAPS

-----------------------------------------------------------------------------
(* Paths and their prefixes. *)

LEMMA PrefixFacts ==
  ASSUME NEW p \in Path, NEW n \in 0..Len(p)
  PROVE  /\ SubSeq(p, 1, n) \in Path
         /\ Len(SubSeq(p, 1, n)) = n
         /\ \A m \in 0..n : SubSeq(SubSeq(p, 1, n), 1, m) = SubSeq(p, 1, m)
BY DEF Path

LEMMA SubtreeIsPrefix ==
  ASSUME NEW d \in Path, NEW p \in Path
  PROVE  InSubtree(d, p) <=> Len(d) <= Len(p) /\ SubSeq(p, 1, Len(d)) = d
BY SubSeqFull DEF Path, InSubtree, Under

LEMMA AncestorsArePrefixes ==
  ASSUME NEW p \in Path
  PROVE  /\ Ancestors(p) = { SubSeq(p, 1, n) : n \in 0..(Len(p) - 1) }
         /\ SubSeq(p, 1, Len(p)) = p
<1>1. SubSeq(p, 1, Len(p)) = p /\ Len(p) \in Nat
  BY SubSeqFull DEF Path
<1>2. ASSUME NEW n \in 0..(Len(p) - 1) PROVE SubSeq(p, 1, n) # p
  <2>1. n \in 0..Len(p) /\ n # Len(p)
    <3>1. Len(p) \in Nat
      BY <1>1
    <3> QED
      BY <1>2, <3>1
  <2>2. Len(SubSeq(p, 1, n)) = n
    BY <2>1, PrefixFacts
  <2> QED
    BY <2>1, <2>2
<1>3. 0..Len(p) = 0..(Len(p) - 1) \union {Len(p)}
  BY <1>1
<1> QED
  BY <1>1, <1>2, <1>3 DEF Ancestors, PathAndAncestors

LEMMA ProperPrefix ==
  ASSUME NEW p \in Path, NEW n \in 0..(Len(p) - 1)
  PROVE  SubSeq(p, 1, n) \in Ancestors(p)
<1>1. SubSeq(p, 1, n) \in { SubSeq(p, 1, m) : m \in 0..(Len(p) - 1) }
  OBVIOUS
<1> QED
  BY <1>1, AncestorsArePrefixes

LEMMA RebaseElements ==
  ASSUME NEW p \in Path, NEW from \in Path, NEW to \in Path,
         Len(from) <= Len(p)
  PROVE  LET q == Rebase(p, from, to) IN
         /\ q \in Path /\ Len(q) = Len(p) - Len(from) + Len(to)
         /\ \A j \in 1..Len(q) :
              q[j] = IF j <= Len(to) THEN to[j] ELSE p[Len(from) + j - Len(to)]
<1> DEFINE tail == SubSeq(p, Len(from) + 1, Len(p))
           q == Rebase(p, from, to)
<1>1. Len(p) \in Nat /\ Len(from) \in Nat /\ Len(to) \in Nat
  BY DEF Path
<1>2. /\ tail \in Path /\ Len(tail) = Len(p) - Len(from)
      /\ \A j \in 1..(Len(p) - Len(from)) : tail[j] = p[Len(from) + j]
  BY <1>1 DEF Path
<1>3. q = to \o tail
  BY DEF Rebase
<1> HIDE DEF tail, q
<1>4. /\ q \in Path /\ Len(q) = Len(to) + Len(tail)
      /\ \A j \in 1..Len(q) : q[j] = IF j <= Len(to) THEN to[j] ELSE tail[j - Len(to)]
  <2>1. to \in Seq(Name) /\ tail \in Seq(Name)
    BY <1>2 DEF Path
  <2>2. /\ to \o tail \in Seq(Name) /\ Len(to \o tail) = Len(to) + Len(tail)
        /\ \A j \in 1..(Len(to) + Len(tail)) :
             (to \o tail)[j] = IF j <= Len(to) THEN to[j] ELSE tail[j - Len(to)]
    BY <2>1, ConcatProperties, Zenon
  <2> QED
    BY <1>3, <2>2 DEF Path
<1>5. ASSUME NEW j \in 1..Len(q), ~(j <= Len(to))
      PROVE  tail[j - Len(to)] = p[Len(from) + j - Len(to)]
  <2>1. /\ j - Len(to) \in 1..(Len(p) - Len(from))
        /\ Len(from) + (j - Len(to)) = Len(from) + j - Len(to)
    BY <1>1, <1>2, <1>4, <1>5
  <2> QED
    BY <1>2, <2>1
<1>6. Len(q) = Len(p) - Len(from) + Len(to)
  BY <1>1, <1>2, <1>4
<1> QED
  BY <1>4, <1>5, <1>6 DEF q

LEMMA RebaseFacts ==
  ASSUME NEW p \in Path, NEW from \in Path, NEW to \in Path,
         InSubtree(from, p)
  PROVE  LET q == Rebase(p, from, to) IN
         /\ q \in Path /\ Len(q) = Len(p) - Len(from) + Len(to)
         /\ Len(from) <= Len(p)
         /\ InSubtree(to, q)
         /\ Rebase(q, to, from) = p
         /\ \A n \in 0..Len(to) : SubSeq(q, 1, n) = SubSeq(to, 1, n)
         /\ \A n \in Len(to)..Len(q) :
              SubSeq(q, 1, n)
                = Rebase(SubSeq(p, 1, n - Len(to) + Len(from)), from, to)
<1> DEFINE q == Rebase(p, from, to)
<1>1. Len(from) <= Len(p) /\ SubSeq(p, 1, Len(from)) = from
  BY SubtreeIsPrefix
<1>2. q \in Path /\ Len(q) = Len(p) - Len(from) + Len(to)
  BY <1>1 DEF Path, Rebase
<1>3. Rebase(q, to, from) = p
  <2>1. PICK r : r = Rebase(q, to, from)
    OBVIOUS
  <2>2. /\ r \in Path /\ Len(r) = Len(q) - Len(to) + Len(from)
        /\ \A j \in 1..Len(r) :
             r[j] = IF j <= Len(from) THEN from[j] ELSE q[Len(to) + j - Len(from)]
    <3>1. Len(to) <= Len(q)
      BY <1>1, <1>2 DEF Path
    <3> HIDE DEF q
    <3> QED
      BY <1>2, <2>1, <3>1, RebaseElements
  <2>3. \A j \in 1..Len(q) :
          q[j] = IF j <= Len(to) THEN to[j] ELSE p[Len(from) + j - Len(to)]
    BY <1>1, RebaseElements
  <2>4. /\ Len(p) \in Nat /\ Len(from) \in Nat /\ Len(to) \in Nat
        /\ \A j \in 1..Len(from) : p[j] = from[j]
    BY <1>1 DEF Path
  <2>5. Len(r) = Len(p) /\ Len(q) = Len(p) - Len(from) + Len(to)
    BY <1>2, <2>2, <2>4
  <2> HIDE DEF q
  <2>6. ASSUME NEW j \in 1..Len(p) PROVE r[j] = p[j]
    <3>1. CASE j <= Len(from)
      BY <2>2, <2>4, <2>5, <3>1
    <3>2. CASE ~(j <= Len(from))
      <4>1. PICK i : i = Len(to) + j - Len(from)
        OBVIOUS
      <4>2. i \in 1..Len(q) /\ ~(i <= Len(to)) /\ Len(from) + i - Len(to) = j
        BY <1>1, <2>4, <2>5, <3>2, <4>1
      <4>3. r[j] = q[i]
        BY <2>2, <2>5, <3>2, <4>1
      <4> QED
        BY <2>3, <4>2, <4>3
    <3> QED
      BY <3>1, <3>2
  <2> QED
    BY <2>1, <2>2, <2>5, <2>6, SeqEqual DEF Path
<1>4. ASSUME NEW n \in 0..Len(to) PROVE SubSeq(q, 1, n) = SubSeq(to, 1, n)
  BY <1>1, <1>4 DEF Path, Rebase
<1>5. InSubtree(to, q)
  <2>1. Len(to) \in Nat /\ Len(to) <= Len(q)
    BY <1>1, <1>2 DEF Path
  <2>2. SubSeq(q, 1, Len(to)) = to
    BY <1>4, <2>1, SubSeqFull DEF Path
  <2> QED
    BY <1>2, <2>1, <2>2, SubtreeIsPrefix
<1>6. ASSUME NEW n \in Len(to)..Len(q)
      PROVE  SubSeq(q, 1, n)
               = Rebase(SubSeq(p, 1, n - Len(to) + Len(from)), from, to)
  <2> DEFINE k == n - Len(to) + Len(from)
             m == SubSeq(p, 1, k)
             r == Rebase(m, from, to)
  <2>1. /\ Len(to) \in Nat /\ Len(from) \in Nat /\ Len(p) \in Nat
        /\ n \in Nat /\ k \in Len(from)..Len(p)
    BY <1>1, <1>2, <1>6 DEF Path
  <2>2. m \in Path /\ Len(m) = k /\ \A j \in 1..k : m[j] = p[j]
    BY <2>1 DEF Path
  <2>3. r \in Path /\ Len(r) = n
        /\ \A j \in 1..n :
             r[j] = IF j <= Len(to) THEN to[j] ELSE p[Len(from) + j - Len(to)]
    <3>1. /\ r \in Path /\ Len(r) = Len(m) - Len(from) + Len(to)
          /\ \A j \in 1..Len(r) :
               r[j] = IF j <= Len(to) THEN to[j] ELSE m[Len(from) + j - Len(to)]
      <4> HIDE DEF k, m
      <4>1. m \in Path /\ Len(from) <= Len(m)
        BY <2>1, <2>2
      <4> QED
        BY <4>1, RebaseElements
    <3> HIDE DEF k, m, r
    <3>2. Len(r) = n
      BY <2>1, <2>2, <3>1 DEF k
    <3>3. ASSUME NEW j \in 1..n, ~(j <= Len(to))
          PROVE  m[Len(from) + j - Len(to)] = p[Len(from) + j - Len(to)]
      <4>1. Len(from) + j - Len(to) \in 1..k
        BY <2>1, <3>3 DEF k
      <4> QED
        BY <2>2, <4>1
    <3> QED
      BY <3>1, <3>2, <3>3
  <2>4. \A j \in 1..n :
          q[j] = IF j <= Len(to) THEN to[j] ELSE p[Len(from) + j - Len(to)]
    <3>1. \A j \in 1..Len(q) :
            q[j] = IF j <= Len(to) THEN to[j] ELSE p[Len(from) + j - Len(to)]
      BY <1>1, RebaseElements
    <3> HIDE DEF q
    <3> QED  BY <1>2, <2>1, <3>1
  <2>5. SubSeq(q, 1, n) \in Path /\ Len(SubSeq(q, 1, n)) = n
        /\ \A j \in 1..n : SubSeq(q, 1, n)[j] = q[j]
    BY <1>2, <2>1 DEF Path
  <2>6. SubSeq(q, 1, n) = r
    <3> HIDE DEF q, r
    <3> QED  BY <2>1, <2>3, <2>4, <2>5, SeqEqual DEF Path
  <2> QED
    BY <2>6
<1>7. Len(from) <= Len(p)
  BY <1>1
<1> HIDE DEF q
<1> QED
  BY <1>2, <1>3, <1>4, <1>5, <1>6, <1>7 DEF q
-----------------------------------------------------------------------------
(* Typing. *)

LEMMA ParentIsPath ==
  ASSUME NEW p \in Path, p # Root
  PROVE  Parent(p) \in Path /\ Len(Parent(p)) = Len(p) - 1
<1>1. p \in Seq(Name) /\ Len(p) \in Nat \ {0}
  BY EmptySeq DEF Path, Root
<1> QED
  BY <1>1 DEF Path, Parent

LEMMA AncestorsArePaths ==
  ASSUME NEW p \in Path
  PROVE  PathAndAncestors(p) \subseteq Path
BY DEF Path, PathAndAncestors

LEMMA RebaseIsPath ==
  ASSUME NEW p \in Path, NEW from \in Path, NEW to \in Path,
         Len(from) <= Len(p)
  PROVE  Rebase(p, from, to) \in Path
BY DEF Path, Rebase

IsTyped(t) ==
  DOMAIN t \subseteq Path /\ \A p \in DOMAIN t : t[p] \in Inode \union {Dir}

LEMMA MoveIsTyped ==
  ASSUME NEW t, IsTyped(t), NEW src \in Path, NEW dst \in Path
  PROVE  IsTyped(Move(t, src, dst))
<1> DEFINE moved == { p \in DOMAIN t : InSubtree(src, p) }
           lands == { Rebase(p, src, dst) : p \in moved }
<1>1. \A p \in moved : p \in Path /\ Len(src) <= Len(p)
  BY DEF IsTyped, InSubtree, Under, Path
<1>2. \A p \in moved : Rebase(p, src, dst) \in Path
  BY <1>1, RebaseIsPath
<1>3. \A q \in lands : \E p \in moved : Rebase(q, dst, src) = p
  <2> SUFFICES ASSUME NEW p \in moved
               PROVE  Rebase(Rebase(p, src, dst), dst, src) = p
    OBVIOUS
  <2> QED
    BY RebaseFacts DEF IsTyped
<1> QED
  BY <1>2, <1>3 DEF IsTyped, Move

LEMMA TreeEditsAreTyped ==
  ASSUME NEW t, IsTyped(t), NEW p \in Path, NEW i \in Inode
  PROVE  /\ IsTyped(RemoveEntry(t, p))
         /\ IsTyped(CreateDirectories(t, p))
         /\ IsTyped(PutFile(t, p, i))
BY AncestorsArePaths DEF IsTyped, RemoveEntry, CreateDirectories, PutFile

-----------------------------------------------------------------------------
(* Edits of a tree leave a tree. *)

LEMMA TypedEntries ==
  ASSUME NEW t, IsTyped(t), NEW p \in DOMAIN t
  PROVE  p \in Path /\ t[p] \in Inode \union {Dir}
BY DEF IsTyped

LEMMA RemoveKeepsTree ==
  ASSUME NEW t, IsTyped(t), IsTree(t), NEW p \in Path, CanRemove(t, p)
  PROVE  IsTree(RemoveEntry(t, p))
<1> DEFINE r == RemoveEntry(t, p)
<1>1. /\ DOMAIN r = DOMAIN t \ {p}
      /\ \A q \in DOMAIN r : r[q] = t[q]
  BY DEF RemoveEntry
<1>2. ASSUME NEW q \in DOMAIN r, NEW d \in Ancestors(q)
      PROVE  IsDirectory(r, d)
  <2>1. q \in Path /\ IsDirectory(t, d)
    BY <1>1, <1>2, TypedEntries DEF IsTree
  <2>2. d # p
    <3> SUFFICES ASSUME d = p PROVE FALSE
      OBVIOUS
    <3>1. PICK n \in 0..(Len(q) - 1) : d = SubSeq(q, 1, n)
      BY <1>2, <2>1, AncestorsArePrefixes
    <3>2. Len(q) \in Nat /\ n + 1 \in 0..Len(q) /\ n \in 0..(n + 1)
      BY <2>1 DEF Path
    <3> DEFINE c == SubSeq(q, 1, n + 1)
    <3>3. c \in Path /\ Len(c) = n + 1 /\ SubSeq(c, 1, n) = p
      BY <2>1, <3>1, <3>2, PrefixFacts
    <3>4. c \in DOMAIN t
      <4>1. CASE n + 1 = Len(q)
        BY <1>1, <2>1, <4>1, AncestorsArePrefixes
      <4>2. CASE n + 1 \in 0..(Len(q) - 1)
        <5>1. c \in Ancestors(q)
          BY <2>1, <4>2, ProperPrefix
        <5> QED
          BY <1>1, <5>1 DEF IsTree, IsDirectory, Exists
      <4> QED
        BY <3>2, <4>1, <4>2
    <3>5. c # Root /\ Parent(c) = p
      <4>1. Len(Root) = 0
        BY EmptySeq DEF Root
      <4> QED
        BY <3>2, <3>3, <4>1 DEF Parent
    <3> QED
      BY <3>4, <3>5 DEF CanRemove, Children
  <2> QED
    BY <1>1, <2>1, <2>2 DEF IsDirectory, Exists
<1>3. IsDirectory(r, Root)
  BY <1>1 DEF IsTree, IsDirectory, Exists, CanRemove
<1>4. \A q1, q2 \in DOMAIN r : IsFile(r, q1) /\ r[q1] = r[q2] => q1 = q2
  BY <1>1 DEF IsTree, IsFile, Exists
<1> QED
  BY <1>2, <1>3, <1>4 DEF IsTree

LEMMA CreateKeepsTree ==
  ASSUME NEW t, IsTyped(t), IsTree(t), NEW p \in Path,
         CanCreateDirectories(t, p)
  PROVE  IsTree(CreateDirectories(t, p))
<1> DEFINE r == CreateDirectories(t, p)
<1>1. /\ DOMAIN r = DOMAIN t \union PathAndAncestors(p)
      /\ \A q \in DOMAIN t : r[q] = t[q]
      /\ \A q \in DOMAIN r \ DOMAIN t : r[q] = Dir
  BY DEF CreateDirectories
<1>2. \A q \in PathAndAncestors(p) : IsDirectory(r, q)
  BY <1>1 DEF CanCreateDirectories, IsDirectory, Exists
<1>3. ASSUME NEW q \in DOMAIN r, NEW d \in Ancestors(q)
      PROVE  IsDirectory(r, d)
  <2>1. CASE q \in DOMAIN t
    BY <1>1, <1>3, <2>1 DEF IsTree, IsDirectory, Exists
  <2>2. CASE q \in PathAndAncestors(p)
    <3>1. PICK n \in 0..Len(p) : q = SubSeq(p, 1, n)
      BY <2>2 DEF PathAndAncestors
    <3>2. q \in Path /\ Len(q) = n /\ Len(p) \in Nat
      BY <3>1, PrefixFacts DEF Path
    <3>3. PICK m \in 0..(n - 1) : d = SubSeq(q, 1, m)
      BY <1>3, <3>2, AncestorsArePrefixes
    <3>4. m \in 0..n /\ m \in 0..Len(p)
      BY <3>1, <3>2, <3>3
    <3>5. d = SubSeq(p, 1, m)
      BY <3>1, <3>3, <3>4, PrefixFacts
    <3> QED
      BY <1>2, <3>4, <3>5 DEF PathAndAncestors
  <2> QED
    BY <1>1, <2>1, <2>2
<1>4. IsDirectory(r, Root)
  BY <1>1 DEF IsTree, IsDirectory, Exists
<1>5. \A q1, q2 \in DOMAIN r : IsFile(r, q1) /\ r[q1] = r[q2] => q1 = q2
  BY <1>1 DEF IsTree, IsFile, Exists
<1> QED
  BY <1>3, <1>4, <1>5 DEF IsTree

\* The directories above the parent of p, and the parent, are all that is above p.
LEMMA AboveParent ==
  ASSUME NEW t, IsTyped(t), IsTree(t), NEW p \in Path, p # Root,
         IsDirectory(t, Parent(p)), NEW d \in Ancestors(p)
  PROVE  IsDirectory(t, d)
<1>1. Len(p) \in Nat /\ Len(p) > 0
  BY EmptySeq DEF Path, Root
<1>2. PICK n \in 0..(Len(p) - 1) : d = SubSeq(p, 1, n)
  BY AncestorsArePrefixes
<1>3. CASE n = Len(p) - 1
  BY <1>2, <1>3 DEF Parent
<1>4. CASE n # Len(p) - 1
  <2>1. /\ Len(p) - 1 \in 0..Len(p) /\ n \in 0..(Len(p) - 1)
        /\ n \in 0..((Len(p) - 1) - 1)
    BY <1>1, <1>2, <1>4
  <2>2. /\ Parent(p) \in Path /\ Len(Parent(p)) = Len(p) - 1
        /\ SubSeq(Parent(p), 1, n) = SubSeq(p, 1, n)
    BY <2>1, PrefixFacts DEF Parent
  <2>3. d \in Ancestors(Parent(p))
    BY <1>2, <2>1, <2>2, ProperPrefix
  <2> QED
    BY <2>3 DEF IsTree, IsDirectory, Exists
<1> QED
  BY <1>3, <1>4

LEMMA PutKeepsTree ==
  ASSUME NEW t, IsTyped(t), IsTree(t), NEW p \in Path, p # Root,
         CanOpen(t, p), NEW i \in Inode,
         \/ IsFile(t, p) /\ t[p] = i
         \/ ~Exists(t, p) /\ \A q \in DOMAIN t : t[q] # i
  PROVE  IsTree(PutFile(t, p, i))
<1> DEFINE r == PutFile(t, p, i)
<1>1. /\ DOMAIN r = DOMAIN t \union {p} /\ r[p] = i
      /\ \A q \in DOMAIN t \ {p} : r[q] = t[q]
  BY DEF PutFile
<1>2. \A d : IsDirectory(t, d) => IsDirectory(r, d)
  BY <1>1 DEF IsDirectory, Exists, CanOpen
<1>3. \A q \in DOMAIN r : \A d \in Ancestors(q) : IsDirectory(r, d)
  BY <1>1, <1>2, AboveParent DEF IsTree, CanOpen
<1>4. \A q1, q2 \in DOMAIN r : IsFile(r, q1) /\ r[q1] = r[q2] => q1 = q2
  BY <1>1 DEF IsTree, IsFile, Exists
<1> QED
  BY <1>2, <1>3, <1>4 DEF IsTree

(***************************************************************************)
(* A rename moves a subtree to a place that does not exist yet, below a    *)
(* directory that does not move with it.                                   *)
(***************************************************************************)
\* Every entry is still there after a rename, under its old name or a new one.
LEMMA MoveKeepsEntries ==
  ASSUME NEW t, IsTyped(t), IsTree(t), NEW src \in Path, NEW dst \in Path,
         ~Exists(t, dst), NEW p \in DOMAIN t
  PROVE  \E q \in DOMAIN Move(t, src, dst) : Move(t, src, dst)[q] = t[p]
<1> DEFINE moved == { q \in DOMAIN t : InSubtree(src, q) }
           stays == DOMAIN t \ moved
           lands == { Rebase(q, src, dst) : q \in moved }
           r     == Move(t, src, dst)
<1>1. /\ DOMAIN r = stays \union lands
      /\ \A q \in lands : r[q] = t[Rebase(q, dst, src)]
      /\ \A q \in stays \ lands : r[q] = t[q]
  BY DEF Move
<1>2. \A q \in moved : InSubtree(dst, Rebase(q, src, dst))
                      /\ Rebase(Rebase(q, src, dst), dst, src) = q
  BY RebaseFacts DEF IsTyped
<1>3. CASE p \in moved
  BY <1>1, <1>2, <1>3
<1>4. CASE p \in stays
  <2>1. p \in Path /\ Len(dst) \in Nat /\ Len(p) \in Nat
    BY DEF IsTyped, Path
  <2>2. ~InSubtree(dst, p)
    <3> SUFFICES ASSUME InSubtree(dst, p) PROVE FALSE
      OBVIOUS
    <3>1. p # dst
      BY DEF Exists
    <3>2. Len(dst) \in 0..(Len(p) - 1) /\ dst = SubSeq(p, 1, Len(dst))
      BY <2>1, <3>1 DEF InSubtree, Under
    <3>3. dst \in Ancestors(p)
      BY <2>1, <3>2, AncestorsArePrefixes
    <3> QED
      BY <3>3 DEF IsTree, IsDirectory
  <2> QED
    BY <1>1, <1>2, <1>4, <2>2
<1> QED
  BY <1>3, <1>4

LEMMA MoveKeepsTree ==
  ASSUME NEW t, IsTyped(t), IsTree(t), NEW src \in Path, NEW dst \in Path,
         src # Root, dst # Root, Exists(t, src), ~Exists(t, dst),
         IsDirectory(t, Parent(dst)), ~Under(src, dst)
  PROVE  IsTree(Move(t, src, dst))
<1> DEFINE moved == { p \in DOMAIN t : InSubtree(src, p) }
           stays == DOMAIN t \ moved
           lands == { Rebase(p, src, dst) : p \in moved }
           r     == Move(t, src, dst)
<1>1. DOMAIN t \subseteq Path
  BY DEF IsTyped
<1>2. /\ DOMAIN r = stays \union lands
      /\ \A q \in lands : r[q] = t[Rebase(q, dst, src)]
      /\ \A q \in stays \ lands : r[q] = t[q]
  BY DEF Move
<1>3. \A p \in moved : p \in Path /\ Rebase(p, src, dst) \in Path
                      /\ InSubtree(dst, Rebase(p, src, dst))
                      /\ Rebase(Rebase(p, src, dst), dst, src) = p
  BY <1>1, RebaseFacts
\* Nothing lies at or below dst before the rename.
<1>4. ASSUME NEW q \in DOMAIN t PROVE ~InSubtree(dst, q)
  <2> SUFFICES ASSUME InSubtree(dst, q) PROVE FALSE
    BY <1>4
  <2>1. q \in Path /\ Len(dst) \in Nat /\ Len(q) \in Nat
    BY <1>1, <1>4 DEF Path
  <2>2. q # dst
    BY <1>4 DEF Exists
  <2>3. Len(dst) \in 0..(Len(q) - 1) /\ dst = SubSeq(q, 1, Len(dst))
    BY <2>1, <2>2 DEF InSubtree, Under
  <2>4. dst \in Ancestors(q)
    BY <2>1, <2>3, AncestorsArePrefixes
  <2> QED
    BY <1>4, <2>4 DEF IsTree, IsDirectory
<1>5. /\ \A q \in lands : q \notin DOMAIN t
      /\ \A p \in moved : r[Rebase(p, src, dst)] = t[p]
      /\ \A q \in stays : r[q] = t[q]
  BY <1>2, <1>3, <1>4
\* A directory that does not move is one afterwards.
<1>6. ASSUME NEW d, IsDirectory(t, d), ~InSubtree(src, d)
      PROVE  IsDirectory(r, d)
  BY <1>2, <1>5, <1>6 DEF IsDirectory, Exists
<1>7. ASSUME NEW q \in stays, NEW d \in Ancestors(q)
      PROVE  IsDirectory(r, d)
  <2>1. IsDirectory(t, d) /\ q \in Path
    BY <1>1, <1>7 DEF IsTree
  <2>2. PICK n \in 0..(Len(q) - 1) : d = SubSeq(q, 1, n)
    BY <1>7, <2>1, AncestorsArePrefixes
  <2>3. n \in 0..Len(q) /\ Len(q) \in Nat /\ Len(src) \in Nat
    BY <2>1, <2>2 DEF Path
  <2>4. d \in Path /\ Len(d) = n
        /\ \A m \in 0..n : SubSeq(d, 1, m) = SubSeq(q, 1, m)
    BY <2>1, <2>2, <2>3, PrefixFacts
  <2>5. ~InSubtree(src, d)
    <3> SUFFICES ASSUME InSubtree(src, d) PROVE InSubtree(src, q)
      BY <1>7
    <3>1. Len(src) <= n /\ SubSeq(d, 1, Len(src)) = src
      BY <2>4, SubtreeIsPrefix
    <3>2. Len(src) <= Len(q) /\ SubSeq(q, 1, Len(src)) = src
      BY <2>2, <2>3, <2>4, <3>1
    <3> QED
      BY <2>1, <3>2, SubtreeIsPrefix
  <2> QED
    BY <1>6, <2>1, <2>5
<1>8. ASSUME NEW p \in moved, NEW d \in Ancestors(Rebase(p, src, dst))
      PROVE  IsDirectory(r, d)
  <2> DEFINE q == Rebase(p, src, dst)
  <2>1. /\ p \in Path /\ q \in Path /\ Len(q) = Len(p) - Len(src) + Len(dst)
        /\ Len(src) <= Len(p)
        /\ \A n \in 0..Len(dst) : SubSeq(q, 1, n) = SubSeq(dst, 1, n)
        /\ \A n \in Len(dst)..Len(q) :
             SubSeq(q, 1, n)
               = Rebase(SubSeq(p, 1, n - Len(dst) + Len(src)), src, dst)
    BY <1>1, <1>8, RebaseFacts
  <2>2. PICK n \in 0..(Len(q) - 1) : d = SubSeq(q, 1, n)
    <3> HIDE DEF q
    <3>1. d \in Ancestors(q)
      BY <1>8 DEF q
    <3>2. q \in Path
      BY <2>1
    <3> QED
      BY <3>1, <3>2, AncestorsArePrefixes
  <2>3. /\ Len(q) \in Nat /\ Len(p) \in Nat /\ Len(src) \in Nat
        /\ Len(dst) \in Nat
    BY <2>1 DEF Path
  <2>4. CASE n < Len(dst)
    <3>1. n \in 0..Len(dst) /\ n \in 0..(Len(dst) - 1)
      BY <2>2, <2>3, <2>4
    <3>2. d = SubSeq(dst, 1, n)
      BY <2>1, <2>2, <3>1
    <3>3. d \in Ancestors(dst)
      BY <3>1, <3>2, AncestorsArePrefixes
    <3>4. IsDirectory(t, d)
      BY <3>3, AboveParent
    <3>5. d \in Path /\ Len(d) = n
          /\ \A m \in 0..n : SubSeq(d, 1, m) = SubSeq(dst, 1, m)
      BY <3>1, <3>2, PrefixFacts
    <3>6. ~InSubtree(src, d)
      <4> SUFFICES ASSUME InSubtree(src, d) PROVE Under(src, dst)
        OBVIOUS
      <4>1. Len(src) <= n /\ SubSeq(d, 1, Len(src)) = src
        BY <3>5, SubtreeIsPrefix
      <4> QED
        BY <2>3, <2>4, <3>5, <4>1 DEF Under
    <3> QED
      BY <1>6, <3>4, <3>6
  <2>5. CASE n >= Len(dst)
    <3> DEFINE k == n - Len(dst) + Len(src)
               c == SubSeq(p, 1, k)
    <3>1. /\ n \in Len(dst)..Len(q) /\ k \in 0..(Len(p) - 1)
          /\ k \in 0..Len(p) /\ Len(src) \in 0..k
      BY <2>1, <2>2, <2>3, <2>5
    <3>2. d = Rebase(c, src, dst)
      BY <2>1, <2>2, <3>1
    <3>3. c \in Ancestors(p)
      BY <2>1, <3>1, AncestorsArePrefixes
    <3>4. IsDirectory(t, c)
      BY <1>8, <3>3 DEF IsTree
    <3>5. InSubtree(src, c)
      <4> HIDE DEF k
      <4>1. c \in Path /\ Len(c) = k
            /\ SubSeq(c, 1, Len(src)) = SubSeq(p, 1, Len(src))
        BY <2>1, <3>1, PrefixFacts
      <4>2. SubSeq(p, 1, Len(src)) = src
        BY <1>8, <2>1, SubtreeIsPrefix
      <4>3. Len(src) <= Len(c) /\ SubSeq(c, 1, Len(src)) = src
        BY <3>1, <4>1, <4>2
      <4> QED
        BY <4>1, <4>3, SubtreeIsPrefix, Zenon
    <3>6. c \in moved
      BY <3>4, <3>5 DEF IsDirectory, Exists
    <3> QED
      BY <1>2, <1>5, <3>2, <3>4, <3>6 DEF IsDirectory, Exists
  <2> QED
    BY <2>2, <2>3, <2>4, <2>5
<1>9. \A q \in DOMAIN r : \A d \in Ancestors(q) : IsDirectory(r, d)
  BY <1>2, <1>7, <1>8
<1>10. IsDirectory(r, Root)
  <2>1. ~InSubtree(src, Root)
    BY EmptySeq DEF InSubtree, Under, Root, Path
  <2> QED
    BY <1>6, <2>1 DEF IsTree
\* Every entry after the rename is an entry before it under one name.
<1>11. ASSUME NEW q1 \in DOMAIN r, NEW q2 \in DOMAIN r,
              IsFile(r, q1), r[q1] = r[q2]
       PROVE  q1 = q2
  <2>1. \A q \in DOMAIN r : \E p \in DOMAIN t :
          /\ r[q] = t[p]
          /\ \/ q = p /\ p \in stays
             \/ q = Rebase(p, src, dst) /\ p \in moved
    BY <1>2, <1>5
  <2>2. PICK p1 \in DOMAIN t :
          /\ r[q1] = t[p1]
          /\ \/ q1 = p1 /\ p1 \in stays
             \/ q1 = Rebase(p1, src, dst) /\ p1 \in moved
    BY <1>11, <2>1
  <2>3. PICK p2 \in DOMAIN t :
          /\ r[q2] = t[p2]
          /\ \/ q2 = p2 /\ p2 \in stays
             \/ q2 = Rebase(p2, src, dst) /\ p2 \in moved
    BY <1>11, <2>1
  <2>4. p1 = p2
    BY <1>11, <2>2, <2>3 DEF IsTree, IsFile, Exists
  <2> QED
    BY <2>2, <2>3, <2>4
<1> QED
  BY <1>9, <1>10, <1>11 DEF IsTree

-----------------------------------------------------------------------------
(* Files and sessions keep their types. *)

LEMMA WriteOutIsFile ==
  ASSUME NEW file \in Seq(Byte), NEW r \in Seq(Byte),
         NEW from \in Nat, NEW to \in Nat, to <= Len(r)
  PROVE  WriteOut(file, r, from, to) \in Seq(Byte)
<1> DEFINE len == IF Len(file) > to THEN Len(file) ELSE to
           e(n) == CASE from < n /\ n <= to          -> r[n]
                     [] n <= from /\ n > Len(file)   -> Hole
                     [] OTHER                        -> file[n]
<1>1. len \in Nat /\ Len(file) \in Nat /\ Len(r) \in Nat
  OBVIOUS
<1>2. \A n \in 1..len : e(n) \in Byte
  BY <1>1, ElementOfSeq, StorageAssumption
<1>3. [n \in 1..len |-> e(n)] \in Seq(Byte)
  <2> HIDE DEF e, len
  <2> QED  BY <1>1, <1>2, IsASeq
<1> QED
  BY <1>3 DEF WriteOut

LEMMA ReclaimIsTyped ==
  ASSUME NEW d \in [Inode -> Seq(Byte)], NEW t, NEW s
  PROVE  Reclaim(d, t, s) \in [Inode -> Seq(Byte)]
BY DEF Reclaim

IsSessionMap(s) ==
  DOMAIN s \subseteq UploadId /\ \A u \in DOMAIN s : s[u] \in Session

LEMMA OpenSessionIsTyped ==
  ASSUME IsSessionMap(sessions), NEW u \in UploadId, NEW target \in Path,
         NEW i \in Inode, NEW begin,
         begin.size \in Nat, begin.digest \in {NoDigest} \union Seq(Byte)
  PROVE  /\ IsSessionMap(Disturbed(i))
         /\ IsSessionMap(OpenSession(u, target, i, begin))
         /\ IsSessionMap(DropSession(u))
<1>1. IsSessionMap(Disturbed(i))
  BY DEF IsSessionMap, Disturbed, Session
<1>2. [ target |-> target, inode |-> i, expected |-> begin.size,
        digest |-> begin.digest, received |-> << >>, flushed |-> 0,
        failed |-> FALSE,
        alone |-> \A v \in DOMAIN sessions : sessions[v].inode # i ] \in Session
  BY DEF Session
<1>3. DOMAIN Disturbed(i) = DOMAIN sessions
  BY DEF Disturbed
<1>4. IsSessionMap(OpenSession(u, target, i, begin))
  BY <1>1, <1>2, <1>3 DEF IsSessionMap, OpenSession
<1> QED
  BY <1>1, <1>4 DEF IsSessionMap, DropSession

LEMMA TypeParts ==
  /\ TypeOK <=> /\ IsTyped(tree) /\ data \in [Inode -> Seq(Byte)]
               /\ IsSessionMap(sessions) /\ reply \in BOOLEAN
  /\ TypeOK' <=> /\ IsTyped(tree') /\ data' \in [Inode -> Seq(Byte)]
                /\ IsSessionMap(sessions') /\ reply' \in BOOLEAN
BY DEF TypeOK, IsTyped, IsSessionMap

\* What BeginOnDisk works on once the request has passed its checks.
LEMMA BeginTypes ==
  ASSUME TypeOK, NEW u \in UploadId, NEW begin \in UploadBegin,
         begin.name # BadName, begin.dir # Outside
  PROVE  /\ begin.dir \in Path /\ begin.name \in Name
         /\ begin.size \in Nat /\ begin.digest \in {NoDigest} \union Seq(Byte)
         /\ Append(begin.dir, begin.name) \in Path
         /\ IsTyped(WithTargetDirectory(begin.dir))
<1>1. /\ begin.dir \in Path /\ begin.name \in Name
      /\ begin.size \in Nat /\ begin.digest \in {NoDigest} \union Seq(Byte)
  BY StorageAssumption
<1>2. Append(begin.dir, begin.name) \in Path
  BY <1>1, AppendProperties DEF Path
<1>3. IsTyped(CreateDirectories(tree, begin.dir))
  BY <1>1, TypeParts, AncestorsArePaths DEF IsTyped, CreateDirectories
<1> QED
  BY <1>1, <1>2, <1>3, TypeParts DEF WithTargetDirectory

LEMMA OpenedInodes ==
  ASSUME NEW t, IsTyped(t), NEW p \in Path, NEW i \in InodesToOpen(t, p)
  PROVE  i \in Inode
BY DEF InodesToOpen, IsTyped, IsFile, Exists

LEMMA BeginTypeOK ==
  ASSUME TypeOK, NEW u \in UploadId, NEW begin \in UploadBegin,
         BeginUpload(u, begin)
  PROVE  TypeOK'
<1>1. CASE BeginRefused(u, begin)
  BY <1>1 DEF BeginRefused, Refuse, Returns, TypeOK
<1>2. CASE BeginOnDisk(u, begin)
  <2> DEFINE made == WithTargetDirectory(begin.dir)
             target == Append(begin.dir, begin.name)
  <2>1. begin.name # BadName /\ begin.dir # Outside
    BY <1>2 DEF BeginOnDisk
  <2>2. /\ target \in Path /\ IsTyped(made)
        /\ begin.size \in Nat /\ begin.digest \in {NoDigest} \union Seq(Byte)
    BY <2>1, BeginTypes
  <2>3. CASE tree' = made /\ Returns(FALSE) /\ UNCHANGED << data, sessions >>
    BY <2>2, <2>3, TypeParts DEF Returns
  <2>4. CASE \E i \in InodesToOpen(made, target) :
               /\ tree' = PutFile(made, target, i)
               /\ data' = [data EXCEPT ![i] = << >>]
               /\ \/ /\ sessions' = OpenSession(u, target, i, begin)
                     /\ Returns(TRUE)
                  \/ /\ sessions' = Disturbed(i)
                     /\ Returns(FALSE)
    <3>1. PICK i \in InodesToOpen(made, target) :
               /\ tree' = PutFile(made, target, i)
               /\ data' = [data EXCEPT ![i] = << >>]
               /\ \/ /\ sessions' = OpenSession(u, target, i, begin)
                     /\ Returns(TRUE)
                  \/ /\ sessions' = Disturbed(i)
                     /\ Returns(FALSE)
      BY <2>4
    <3>2. i \in Inode
      BY <2>2, OpenedInodes
    <3>3. IsTyped(tree')
      BY <2>2, <3>1, <3>2, TreeEditsAreTyped
    <3>4. IsSessionMap(sessions')
      BY <2>2, <3>1, <3>2, TypeParts, OpenSessionIsTyped
    <3>5. data' \in [Inode -> Seq(Byte)]
      <4>1. << >> \in Seq(Byte)
        OBVIOUS
      <4> QED
        BY <3>1, <4>1, TypeParts
    <3> QED
      BY <3>1, <3>3, <3>4, <3>5, TypeParts DEF Returns
  <2> QED
    BY <1>2, <2>3, <2>4 DEF BeginOnDisk
<1> QED
  BY <1>1, <1>2 DEF BeginUpload

LEMMA WriteTypeOK ==
  ASSUME TypeOK, NEW u \in UploadId, NEW offset \in Offset,
         NEW chunk \in Chunk, WriteChunk(u, offset, chunk)
  PROVE  TypeOK'
<1>1. CASE Refuse
  BY <1>1 DEF Refuse, Returns, TypeOK
<1>2. CASE MayWrite(u, offset, chunk) /\ ~Refuse
  <2> DEFINE s == sessions[u]
             all == s.received \o chunk
  <2>1. u \in DOMAIN sessions /\ s \in Session
    BY <1>2 DEF MayWrite, TypeOK
  <2>2. chunk \in Seq(Byte) /\ all \in Seq(Byte)
    BY <2>1, StorageAssumption, ConcatProperties DEF Session
  <2>3. PICK n \in s.flushed..Len(all) :
          /\ data' = [data EXCEPT ![s.inode] = WriteOut(@, all, s.flushed, n)]
          /\ \/ /\ sessions' = [sessions EXCEPT ![u] =
                      [@ EXCEPT !.received = all, !.flushed = n]]
                /\ Returns(TRUE)
             \/ /\ sessions' = [sessions EXCEPT ![u].failed = TRUE]
                /\ Returns(FALSE)
    BY <1>2 DEF WriteChunk
  <2>4. n \in Nat /\ n <= Len(all) /\ s.flushed \in Nat /\ s.inode \in Inode
    BY <2>1, <2>2 DEF Session
  <2>5. WriteOut(data[s.inode], all, s.flushed, n) \in Seq(Byte)
    BY <2>2, <2>4, WriteOutIsFile DEF TypeOK
  <2>6. data' \in [Inode -> Seq(Byte)]
    BY <2>3, <2>4, <2>5 DEF TypeOK
  <2>7. IsSessionMap(sessions')
    <3>1. [s EXCEPT !.received = all, !.flushed = n] \in Session
      BY <2>1, <2>2, <2>4 DEF Session
    <3>2. [s EXCEPT !.failed = TRUE] \in Session
      BY <2>1 DEF Session
    <3> QED
      BY <2>3, <3>1, <3>2 DEF TypeOK, IsSessionMap
  <2>8. UNCHANGED tree
    BY <1>2 DEF WriteChunk
  <2> QED
    BY <2>3, <2>6, <2>7, <2>8, TypeParts DEF Returns
<1> QED
  BY <1>1, <1>2 DEF WriteChunk

LEMMA ClosedIsTyped ==
  ASSUME TypeOK, NEW u \in DOMAIN sessions,
         NEW written \in Closed(sessions[u])
  PROVE  written \in [Inode -> Seq(Byte)]
<1> DEFINE s == sessions[u]
<1>1. s \in Session
  BY DEF TypeOK
<1>2. PICK n \in (s.flushed..Len(s.received)) \union {Len(s.received)} :
        written = [data EXCEPT ![s.inode] =
                     WriteOut(@, s.received, s.flushed, n)]
  BY DEF Closed
<1>3. n \in Nat /\ n <= Len(s.received)
  BY <1>1 DEF Session
<1>4. WriteOut(data[s.inode], s.received, s.flushed, n) \in Seq(Byte)
  BY <1>1, <1>3, WriteOutIsFile DEF TypeOK, Session
<1> QED
  BY <1>1, <1>2, <1>4 DEF TypeOK, Session

LEMMA FinishTypeOK ==
  ASSUME TypeOK, NEW u \in UploadId, FinishUpload(u)
  PROVE  TypeOK'
<1>1. CASE Refuse
  BY <1>1 DEF Refuse, Returns, TypeOK
<1>2. CASE /\ u \in DOMAIN sessions
           /\ \E written \in Closed(sessions[u]) :
                Commit(u, written) \/ Abort(u, written)
  <2>1. PICK written \in Closed(sessions[u]) :
          Commit(u, written) \/ Abort(u, written)
    BY <1>2
  <2>2. written \in [Inode -> Seq(Byte)]
    BY <1>2, ClosedIsTyped
  <2>3. IsTyped(RemoveEntry(tree, sessions[u].target))
    BY TypeParts DEF IsTyped, RemoveEntry
  <2>4. IsTyped(tree')
    BY <2>1, <2>3, TypeParts DEF Commit, Abort
  <2>5. IsSessionMap(sessions')
    BY <2>1 DEF TypeOK, IsSessionMap, Commit, Abort, DropSession
  <2>6. data' \in [Inode -> Seq(Byte)]
    BY <2>1, <2>2, ReclaimIsTyped DEF Commit, Abort
  <2> QED
    BY <2>1, <2>4, <2>5, <2>6, TypeParts DEF Commit, Abort, Returns
<1> QED
  BY <1>1, <1>2 DEF FinishUpload

LEMMA NamespaceTypeOK ==
  ASSUME TypeOK, NEW p \in Requested, NEW q \in Requested,
         \/ DeletePath(p) \/ CreateDirectory(p) \/ RemoveDirectory(p)
         \/ RenamePath(p, q)
  PROVE  TypeOK'
<1>1. \A r \in Requested : Addressable(r) => r \in Path
  BY StorageAssumption DEF Addressable, Requested
<1>2. CASE Refuse
  BY <1>2 DEF Refuse, Returns, TypeOK
<1>3. CASE Addressable(p) /\ Unlink(p) /\ Returns(TRUE)
  BY <1>3, TypeParts, ReclaimIsTyped
     DEF Unlink, RemoveEntry, IsTyped, Returns
<1>4. CASE /\ Addressable(p) /\ tree' = CreateDirectories(tree, p)
           /\ Returns(TRUE) /\ UNCHANGED << data, sessions >>
  BY <1>1, <1>4, TypeParts, AncestorsArePaths
     DEF CreateDirectories, IsTyped, Returns
<1>5. CASE /\ Addressable(p) /\ Addressable(q) /\ tree' = Move(tree, p, q)
           /\ Returns(TRUE) /\ UNCHANGED << data, sessions >>
  BY <1>1, <1>5, TypeParts, MoveIsTyped DEF Returns
<1> QED
  BY <1>2, <1>3, <1>4, <1>5
     DEF DeletePath, MayDelete, CreateDirectory, MayCreateDirectory,
         RemoveDirectory, MayRemoveDirectory, RenamePath, MayRename

LEMMA NextTypeOK == TypeOK /\ [Next]_vars => TypeOK'
<1> SUFFICES ASSUME TypeOK, [Next]_vars PROVE TypeOK'
  OBVIOUS
<1>1. CASE UploadCall
  BY <1>1, BeginTypeOK, WriteTypeOK, FinishTypeOK DEF UploadCall
<1>2. CASE NamespaceCall
  BY <1>2, NamespaceTypeOK DEF NamespaceCall
<1>3. CASE Restart
  BY <1>3, TypeParts, ReclaimIsTyped DEF Restart, IsSessionMap, Returns
<1>4. CASE UNCHANGED vars
  BY <1>4 DEF vars, TypeOK
<1> QED
  BY <1>1, <1>2, <1>3, <1>4 DEF Next

\* The state of the storage services keeps its types under every call: paths
\* stay paths below the storage root, sessions stay well-formed entries of
\* UploadService::sessions_.
THEOREM Typing == Spec => []TypeOK
<1>1. Init => TypeOK
  BY DEF Init, TypeOK, Path, Root
<1> QED
  BY <1>1, NextTypeOK, PTL DEF Spec

-----------------------------------------------------------------------------
(***************************************************************************)
(* The file of an upload holds what its digest covers.                     *)
(*                                                                         *)
(* FileFollowsDigest alone is not inductive: a chunk of another session    *)
(* could be written to the same file, so the invariant also says that a    *)
(* session which counts as alone shares its inode with no other.  That a   *)
(* failed stream is short of its declared size is what keeps finishUpload  *)
(* from verifying it.                                                      *)
(***************************************************************************)
Bounded(s) == Len(s.received) <= s.expected /\ s.flushed <= Len(s.received)

FailedIsShort(s) == s.failed => Len(s.received) < s.expected

Followed(s, d) ==
  s.alone /\ ~s.failed => d[s.inode] = SubSeq(s.received, 1, s.flushed)

AloneOnInode(ss, u) ==
  ss[u].alone =>
    \A v \in DOMAIN ss \ {u} : ss[v].inode # ss[u].inode

Sound(ss, d) ==
  \A u \in DOMAIN ss :
    Bounded(ss[u]) /\ FailedIsShort(ss[u]) /\ Followed(ss[u], d)
      /\ AloneOnInode(ss, u)

SessionInv == Sound(sessions, data)

LEMMA WriteOutExtends ==
  ASSUME NEW old \in Seq(Byte), NEW chunk \in Seq(Byte),
         NEW from \in 0..Len(old), NEW to \in from..(Len(old) + Len(chunk))
  PROVE  WriteOut(SubSeq(old, 1, from), old \o chunk, from, to)
           = SubSeq(old \o chunk, 1, to)
<1> DEFINE file == SubSeq(old, 1, from)
           r    == old \o chunk
<1>1. file \in Seq(Byte) /\ Len(file) = from
      /\ \A n \in 1..from : file[n] = old[n]
  OBVIOUS
<1>2. r \in Seq(Byte) /\ Len(r) = Len(old) + Len(chunk)
      /\ \A n \in 1..from : r[n] = old[n]
  BY ConcatProperties
<1>3. to \in Nat /\ from \in Nat /\ from <= to /\ to <= Len(r)
  BY <1>2
<1>4. SubSeq(r, 1, to) = [n \in 1..to |-> r[n]]
  BY <1>2, <1>3
<1>5. CASE from = to
  BY <1>1, <1>2, <1>3, <1>4, <1>5 DEF WriteOut
<1>6. CASE from # to
  BY <1>1, <1>2, <1>3, <1>4, <1>6 DEF WriteOut
<1> QED
  BY <1>5, <1>6

\* Dropping sessions and reclaiming inodes that nobody uses keeps the rest sound.
LEMMA ReclaimKeepsSound ==
  ASSUME NEW ss, NEW d, NEW t, Sound(ss, d),
         \A u \in DOMAIN ss : ss[u].inode \in Inode
  PROVE  Sound(ss, Reclaim(d, t, ss))
BY DEF Sound, Reclaim, Used, Followed

LEMMA BeginKeepsSound ==
  ASSUME TypeOK, SessionInv, NEW u \in UploadId, NEW begin \in UploadBegin,
         BeginUpload(u, begin)
  PROVE  SessionInv'
<1>1. CASE UNCHANGED << data, sessions >>
  BY <1>1 DEF SessionInv, Sound, Bounded, FailedIsShort, Followed, AloneOnInode
<1>2. CASE BeginOnDisk(u, begin) /\ ~(UNCHANGED << data, sessions >>)
  <2> DEFINE made == WithTargetDirectory(begin.dir)
             target == Append(begin.dir, begin.name)
  <2>1. begin.name # BadName /\ begin.dir # Outside /\ u \notin DOMAIN sessions
    BY <1>2 DEF BeginOnDisk
  <2>2. PICK i \in InodesToOpen(made, target) :
          /\ data' = [data EXCEPT ![i] = << >>]
          /\ \/ sessions' = OpenSession(u, target, i, begin)
             \/ sessions' = Disturbed(i)
    BY <1>2 DEF BeginOnDisk
  <2>3. i \in Inode /\ begin.size \in Nat
    BY <2>1, BeginTypes, OpenedInodes
  <2>4. data'[i] = << >> /\ \A j \in Inode \ {i} : data'[j] = data[j]
    BY <2>2, <2>3 DEF TypeOK
  <2>5. Sound(Disturbed(i), data')
    <3> SUFFICES ASSUME NEW v \in DOMAIN sessions
                 PROVE  LET ss == Disturbed(i) IN
                        /\ Bounded(ss[v]) /\ FailedIsShort(ss[v])
                        /\ Followed(ss[v], data') /\ AloneOnInode(ss, v)
      BY DEF Sound, Disturbed
    <3>1. sessions[v] \in Session
      BY DEF TypeOK
    <3>2. Disturbed(i)[v] = [sessions[v] EXCEPT
                               !.alone = @ /\ sessions[v].inode # i]
      BY DEF Disturbed
    <3>3. /\ Disturbed(i)[v].received = sessions[v].received
          /\ Disturbed(i)[v].flushed = sessions[v].flushed
          /\ Disturbed(i)[v].expected = sessions[v].expected
          /\ Disturbed(i)[v].failed = sessions[v].failed
          /\ Disturbed(i)[v].inode = sessions[v].inode
      BY <3>1, <3>2 DEF Session
    <3>4. Disturbed(i)[v].alone => sessions[v].alone /\ sessions[v].inode # i
      BY <3>1, <3>2 DEF Session
    <3>5. \A w \in DOMAIN sessions : Disturbed(i)[w].inode = sessions[w].inode
      BY DEF Disturbed, TypeOK, Session
    <3>6. Bounded(Disturbed(i)[v]) /\ FailedIsShort(Disturbed(i)[v])
      BY <3>3 DEF SessionInv, Sound, Bounded, FailedIsShort
    <3>7. Followed(Disturbed(i)[v], data')
      BY <2>4, <3>1, <3>3, <3>4 DEF SessionInv, Sound, Followed, Session
    <3>8. AloneOnInode(Disturbed(i), v)
      BY <3>3, <3>4, <3>5 DEF SessionInv, Sound, AloneOnInode, Disturbed
    <3> QED
      BY <3>6, <3>7, <3>8
  <2>6. CASE sessions' = OpenSession(u, target, i, begin)
    <3> DEFINE ss == OpenSession(u, target, i, begin)
    <3>1. DOMAIN ss = DOMAIN sessions \union {u}
      BY DEF OpenSession
    <3>2. \A v \in DOMAIN sessions : ss[v] = Disturbed(i)[v]
      BY <2>1 DEF OpenSession
    <3>3. /\ ss[u].received = << >> /\ ss[u].flushed = 0 /\ ss[u].inode = i
          /\ ss[u].expected = begin.size /\ ss[u].failed = FALSE
          /\ ss[u].alone => \A v \in DOMAIN sessions : sessions[v].inode # i
      BY DEF OpenSession
    <3>4. \A v \in DOMAIN sessions :
            /\ Disturbed(i)[v].inode = sessions[v].inode
            /\ Disturbed(i)[v].alone => sessions[v].inode # i
      BY DEF Disturbed, TypeOK, Session
    <3> HIDE DEF ss
    <3>5. Bounded(ss[u]) /\ FailedIsShort(ss[u]) /\ Followed(ss[u], data')
      <4>1. Len(<< >>) = 0 /\ SubSeq(<< >>, 1, 0) = << >>
        BY EmptySeq, SubSeqEmpty
      <4>2. Bounded(ss[u]) /\ FailedIsShort(ss[u])
        BY <2>3, <3>3, <4>1 DEF Bounded, FailedIsShort
      <4>3. Followed(ss[u], data')
        BY <2>4, <3>3, <4>1 DEF Followed
      <4> QED
        BY <4>2, <4>3
    <3>6. AloneOnInode(ss, u)
      BY <3>1, <3>2, <3>3, <3>4 DEF AloneOnInode
    <3>7. \A v \in DOMAIN sessions :
            Bounded(ss[v]) /\ FailedIsShort(ss[v]) /\ Followed(ss[v], data')
      BY <2>5, <3>2 DEF Sound, Disturbed
    <3>8. \A v \in DOMAIN sessions : AloneOnInode(ss, v)
      <4> SUFFICES ASSUME NEW v \in DOMAIN sessions, ss[v].alone,
                          NEW w \in DOMAIN ss \ {v}
                   PROVE  ss[w].inode # ss[v].inode
        BY DEF AloneOnInode
      <4>1. ss[v].inode = sessions[v].inode /\ sessions[v].inode # i
        BY <3>2, <3>4
      <4>2. CASE w = u
        BY <3>3, <4>1, <4>2
      <4>3. CASE w \in DOMAIN sessions
        <5>1. DOMAIN Disturbed(i) = DOMAIN sessions
          BY DEF Disturbed
        <5>2. Disturbed(i)[v].alone
          BY <3>2
        <5> QED
          BY <2>5, <3>2, <4>3, <5>1, <5>2 DEF Sound, AloneOnInode
      <4> QED
        BY <3>1, <4>2, <4>3
    <3>9. Sound(ss, data')
      BY <3>1, <3>5, <3>6, <3>7, <3>8 DEF Sound
    <3> QED
      BY <2>6, <3>9 DEF SessionInv, ss
  <2> QED
    BY <2>2, <2>5, <2>6 DEF SessionInv
<1> QED
  BY <1>1, <1>2 DEF BeginUpload, BeginRefused, Refuse

LEMMA WriteKeepsSound ==
  ASSUME TypeOK, SessionInv, NEW u \in UploadId, NEW offset \in Offset,
         NEW chunk \in Chunk, WriteChunk(u, offset, chunk)
  PROVE  SessionInv'
<1>1. CASE Refuse
  BY <1>1 DEF Refuse, SessionInv, Sound, Bounded, FailedIsShort, Followed,
              AloneOnInode
<1>2. CASE MayWrite(u, offset, chunk) /\ ~Refuse
  <2> DEFINE s == sessions[u]
             all == s.received \o chunk
  <2>1. u \in DOMAIN sessions /\ s \in Session
        /\ Bounded(s) /\ FailedIsShort(s) /\ Followed(s, data) /\ ~s.failed
        /\ Len(s.received) + Len(chunk) <= s.expected
    BY <1>2 DEF MayWrite, TypeOK, SessionInv, Sound
  <2>2. chunk \in Seq(Byte) /\ Len(chunk) \in Nat \ {0}
        /\ s.received \in Seq(Byte) /\ Len(s.received) \in Nat
        /\ all \in Seq(Byte) /\ Len(all) = Len(s.received) + Len(chunk)
    BY <2>1, StorageAssumption, EmptySeq, ConcatProperties DEF Session
  <2>3. PICK n \in s.flushed..Len(all) :
          /\ data' = [data EXCEPT ![s.inode] = WriteOut(@, all, s.flushed, n)]
          /\ \/ sessions' = [sessions EXCEPT ![u] =
                      [@ EXCEPT !.received = all, !.flushed = n]]
             \/ sessions' = [sessions EXCEPT ![u].failed = TRUE]
    BY <1>2 DEF WriteChunk
  <2>4. s.flushed \in Nat /\ s.inode \in Inode /\ s.expected \in Nat
        /\ s.flushed <= Len(s.received) /\ n \in Nat /\ n <= Len(all)
    BY <2>1, <2>2 DEF Session, Bounded
  <2>5. /\ DOMAIN sessions' = DOMAIN sessions
        /\ \A v \in DOMAIN sessions \ {u} : sessions'[v] = sessions[v]
        /\ sessions'[u].inode = s.inode /\ sessions'[u].alone = s.alone
    BY <2>1, <2>3 DEF Session
  <2>6. Bounded(sessions'[u]) /\ FailedIsShort(sessions'[u])
    <3>1. CASE sessions'[u] = [s EXCEPT !.received = all, !.flushed = n]
      <4>1. /\ sessions'[u].received = all /\ sessions'[u].flushed = n
            /\ sessions'[u].expected = s.expected /\ ~sessions'[u].failed
        BY <2>1, <3>1 DEF Session
      <4> QED
        BY <2>1, <2>2, <2>4, <4>1 DEF Bounded, FailedIsShort
    <3>2. CASE sessions'[u] = [s EXCEPT !.failed = TRUE]
      <4>1. /\ sessions'[u].received = s.received
            /\ sessions'[u].flushed = s.flushed
            /\ sessions'[u].expected = s.expected
        BY <2>1, <3>2 DEF Session
      <4> QED
        BY <2>1, <2>2, <2>4, <4>1 DEF Bounded, FailedIsShort
    <3> QED
      BY <2>1, <2>3, <3>1, <3>2
  <2>7. Followed(sessions'[u], data')
    <3> SUFFICES ASSUME sessions'[u].alone, ~sessions'[u].failed
                 PROVE  data'[sessions'[u].inode] =
                          SubSeq(sessions'[u].received, 1, sessions'[u].flushed)
      BY DEF Followed
    <3>1. sessions'[u] = [s EXCEPT !.received = all, !.flushed = n]
      BY <2>1, <2>3 DEF Session
    <3>2. sessions'[u].received = all /\ sessions'[u].flushed = n
      BY <2>1, <3>1 DEF Session
    <3>3. data[s.inode] = SubSeq(s.received, 1, s.flushed)
      BY <2>1, <2>5 DEF Followed
    <3>4. WriteOut(data[s.inode], all, s.flushed, n) = SubSeq(all, 1, n)
      <4>1. s.flushed \in 0..Len(s.received)
            /\ n \in s.flushed..(Len(s.received) + Len(chunk))
        BY <2>2, <2>3, <2>4
      <4>2. WriteOut(SubSeq(s.received, 1, s.flushed), s.received \o chunk,
                     s.flushed, n) = SubSeq(s.received \o chunk, 1, n)
        <5> HIDE DEF s
        <5> QED  BY <2>2, <4>1, WriteOutExtends
      <4> QED
        BY <3>3, <4>2
    <3> QED
      BY <2>3, <2>4, <2>5, <3>2, <3>4 DEF TypeOK
  <2>8. \A v \in DOMAIN sessions : AloneOnInode(sessions', v)
    BY <2>1, <2>5 DEF SessionInv, Sound, AloneOnInode
  <2>9. \A v \in DOMAIN sessions \ {u} : Followed(sessions'[v], data')
    <3> SUFFICES ASSUME NEW v \in DOMAIN sessions \ {u}, sessions[v].alone
                 PROVE  data'[sessions[v].inode] = data[sessions[v].inode]
      BY <2>5 DEF Followed, SessionInv, Sound
    <3>1. sessions[v].inode # s.inode /\ sessions[v].inode \in Inode
      BY <2>1 DEF SessionInv, Sound, AloneOnInode, TypeOK, Session
    <3> QED
      BY <2>3, <3>1 DEF TypeOK
  <2> QED
    BY <2>5, <2>6, <2>7, <2>8, <2>9
       DEF SessionInv, Sound
<1> QED
  BY <1>1, <1>2 DEF WriteChunk

\* What close leaves of the other sessions when session u goes.
LEMMA DropKeepsSound ==
  ASSUME TypeOK, SessionInv, NEW u \in DOMAIN sessions,
         NEW written \in Closed(sessions[u])
  PROVE  Sound(DropSession(u), written)
<1> SUFFICES ASSUME NEW v \in DOMAIN sessions \ {u}
             PROVE  /\ Followed(sessions[v], written)
                    /\ AloneOnInode(DropSession(u), v)
  BY DEF SessionInv, Sound, DropSession
<1>1. sessions[u].inode \in Inode /\ sessions[v].inode \in Inode
  BY DEF TypeOK, Session
<1>2. \A i \in Inode \ {sessions[u].inode} : written[i] = data[i]
  BY DEF Closed, TypeOK
<1>3. sessions[v].alone => sessions[v].inode # sessions[u].inode
  BY DEF SessionInv, Sound, AloneOnInode
<1>4. Followed(sessions[v], data)
  BY DEF SessionInv, Sound
<1>5. Followed(sessions[v], written)
  BY <1>1, <1>2, <1>3, <1>4 DEF Followed
<1>6. AloneOnInode(DropSession(u), v)
  BY DEF SessionInv, Sound, AloneOnInode, DropSession
<1> QED
  BY <1>5, <1>6

LEMMA FinishKeepsSound ==
  ASSUME TypeOK, SessionInv, NEW u \in UploadId, FinishUpload(u)
  PROVE  SessionInv'
<1>1. CASE Refuse
  BY <1>1 DEF Refuse, SessionInv, Sound, Bounded, FailedIsShort, Followed,
              AloneOnInode
<1>2. CASE /\ u \in DOMAIN sessions
           /\ \E written \in Closed(sessions[u]) :
                Commit(u, written) \/ Abort(u, written)
  <2>1. PICK written \in Closed(sessions[u]) :
          Commit(u, written) \/ Abort(u, written)
    BY <1>2
  <2>2. /\ sessions' = DropSession(u)
        /\ data' = Reclaim(written, tree', sessions')
    BY <2>1 DEF Commit, Abort
  <2>3. Sound(DropSession(u), written)
    BY <1>2, DropKeepsSound
  <2>4. \A v \in DOMAIN DropSession(u) : DropSession(u)[v].inode \in Inode
    BY DEF DropSession, TypeOK, Session
  <2> QED
    BY <2>2, <2>3, <2>4, ReclaimKeepsSound DEF SessionInv
<1> QED
  BY <1>1, <1>2 DEF FinishUpload

LEMMA NamespaceKeepsSound ==
  ASSUME TypeOK, SessionInv, NamespaceCall
  PROVE  SessionInv'
<1>1. CASE UNCHANGED << data, sessions >>
  BY <1>1 DEF SessionInv, Sound, Bounded, FailedIsShort, Followed, AloneOnInode
<1>2. CASE data' = Reclaim(data, tree', sessions) /\ UNCHANGED sessions
  <2>1. \A u \in DOMAIN sessions : sessions[u].inode \in Inode
    BY DEF TypeOK, Session
  <2> QED
    BY <1>2, <2>1, ReclaimKeepsSound DEF SessionInv
<1> QED
  BY <1>1, <1>2
     DEF NamespaceCall, DeletePath, CreateDirectory, RemoveDirectory,
         RenamePath, Unlink, Refuse

LEMMA NextSessionInv == TypeOK /\ SessionInv /\ [Next]_vars => SessionInv'
<1> SUFFICES ASSUME TypeOK, SessionInv, [Next]_vars PROVE SessionInv'
  OBVIOUS
<1>1. CASE UploadCall
  BY <1>1, BeginKeepsSound, WriteKeepsSound, FinishKeepsSound DEF UploadCall
<1>2. CASE NamespaceCall
  BY <1>2, NamespaceKeepsSound
<1>3. CASE Restart
  BY <1>3 DEF Restart, SessionInv, Sound
<1>4. CASE UNCHANGED vars
  BY <1>4 DEF vars, SessionInv, Sound, Bounded, FailedIsShort, Followed,
              AloneOnInode
<1> QED
  BY <1>1, <1>2, <1>3, <1>4 DEF Next

LEMMA SessionsStaySound == Spec => []SessionInv
<1>1. Init => SessionInv
  BY DEF Init, SessionInv, Sound
<1> QED
  BY <1>1, NextSessionInv, Typing, PTL DEF Spec

\* received_bytes, the digest and the stream of a session that has its file for
\* itself never drift apart, over any sequence of begins, chunks, finishes and
\* other calls.
THEOREM DigestIsOfTheFile == Spec => []FileFollowsDigest
<1>1. SessionInv => FileFollowsDigest
  BY DEF SessionInv, Sound, Bounded, Followed, FileFollowsDigest
<1> QED
  BY <1>1, SessionsStaySound, PTL

\* What Commit leaves on the inode of an undisturbed session.
LEMMA CommitStores ==
  ASSUME TypeOK, SessionInv, "close" \notin Faults, NEW u \in DOMAIN sessions,
         NEW written \in Closed(sessions[u]), SizeMatches(sessions[u]),
         sessions[u].alone
  PROVE  written[sessions[u].inode] = sessions[u].received
<1> DEFINE s == sessions[u]
<1>1. s \in Session /\ Bounded(s) /\ FailedIsShort(s) /\ Followed(s, data)
  BY DEF TypeOK, SessionInv, Sound
<1>2. ~s.failed
  BY <1>1 DEF FailedIsShort, SizeMatches, Session
<1>3. /\ s.received \in Seq(Byte) /\ Len(s.received) \in Nat
      /\ s.flushed \in 0..Len(s.received) /\ s.inode \in Inode
  BY <1>1 DEF Session, Bounded
<1>4. written = [data EXCEPT ![s.inode] =
                   WriteOut(@, s.received, s.flushed, Len(s.received))]
  BY <1>2 DEF Closed
<1>5. data[s.inode] = SubSeq(s.received, 1, s.flushed)
  BY <1>1, <1>2 DEF Followed
<1>6. WriteOut(SubSeq(s.received, 1, s.flushed), s.received, s.flushed,
               Len(s.received)) = s.received
  <2> HIDE DEF s
  <2>1. s.received \o << >> = s.received /\ Len(<< >>) = 0
        /\ << >> \in Seq(Byte)
    BY <1>3, ConcatEmptySeq, EmptySeq
  <2>2. Len(s.received) \in s.flushed..(Len(s.received) + Len(<< >>))
    BY <1>3, <2>1
  <2>3. WriteOut(SubSeq(s.received, 1, s.flushed), s.received \o << >>,
                 s.flushed, Len(s.received))
          = SubSeq(s.received \o << >>, 1, Len(s.received))
    BY <1>3, <2>1, <2>2, WriteOutExtends
  <2> QED
    BY <1>3, <2>1, <2>3, SubSeqFull
<1> QED
  BY <1>3, <1>4, <1>5, <1>6 DEF TypeOK

\* "Upload verified and completed" is true of the file under the target's name,
\* provided that flushing the stream in ofstream::close does not fail, which
\* finishUpload does not look at.
THEOREM VerifiedMeansStored ==
  ASSUME "close" \notin Faults
  PROVE  Spec => VerifiedUploadIsStored
<1> DEFINE Step ==
      \A u \in DOMAIN sessions :
        LET s == sessions[u] IN
        /\ reply' /\ FinishUpload(u)
        /\ s.alone /\ Exists(tree, s.target) /\ tree[s.target] = s.inode
        => /\ IsFile(tree', s.target)
           /\ LET stored == data'[tree'[s.target]] IN
              Len(stored) = s.expected /\ s.digest \in {NoDigest, stored}
<1>1. TypeOK /\ SessionInv => Step
  <2> SUFFICES ASSUME TypeOK, SessionInv, NEW u \in DOMAIN sessions,
                      reply', FinishUpload(u), sessions[u].alone,
                      Exists(tree, sessions[u].target),
                      tree[sessions[u].target] = sessions[u].inode
               PROVE  LET s == sessions[u] IN
                      /\ IsFile(tree', s.target)
                      /\ LET stored == data'[tree'[s.target]] IN
                         /\ Len(stored) = s.expected
                         /\ s.digest \in {NoDigest, stored}
    BY Zenon
  <2> DEFINE s == sessions[u]
  <2>1. PICK written \in Closed(s) :
          Commit(u, written) /\ SizeMatches(s) /\ DigestMatches(s)
    BY DEF FinishUpload, Abort, Returns
  <2>2. s.inode \in Inode
    BY DEF TypeOK, Session
  <2>3. IsFile(tree', s.target) /\ tree'[s.target] = s.inode
    BY <2>1, <2>2, DirIsNoInode DEF Commit, IsFile, Exists
  <2>4. data'[s.inode] = written[s.inode]
    BY <2>1, <2>2 DEF Commit, Reclaim, Used, Exists
  <2>5. written[s.inode] = s.received
    BY <2>1, CommitStores
  <2> QED
    BY <2>1, <2>3, <2>4, <2>5 DEF SizeMatches, DigestMatches
<1>2. Step => [Step]_vars
  OBVIOUS
<1> QED
  BY <1>1, <1>2, Typing, SessionsStaySound, PTL
     DEF Spec, VerifiedUploadIsStored

-----------------------------------------------------------------------------
(* The storage stays a tree. *)

LEMMA BeginKeepsTree ==
  ASSUME TypeOK, StorageIsATree, NEW u \in UploadId, NEW begin \in UploadBegin,
         BeginUpload(u, begin)
  PROVE  StorageIsATree'
<1>1. CASE UNCHANGED tree
  BY <1>1 DEF StorageIsATree
<1>2. CASE BeginOnDisk(u, begin)
  <2> DEFINE made == WithTargetDirectory(begin.dir)
             target == Append(begin.dir, begin.name)
  <2>1. begin.name # BadName /\ begin.dir # Outside
    BY <1>2 DEF BeginOnDisk
  <2>2. begin.dir \in Path /\ begin.name \in Name /\ target \in Path
        /\ IsTyped(made)
    BY <2>1, BeginTypes
  <2>3. IsTree(made)
    BY <2>2, TypeParts, CreateKeepsTree
       DEF StorageIsATree, WithTargetDirectory
  <2>4. tree' = made
          \/ \E i \in InodesToOpen(made, target) :
               tree' = PutFile(made, target, i)
    BY <1>2 DEF BeginOnDisk
  <2>5. CASE \E i \in InodesToOpen(made, target) :
               tree' = PutFile(made, target, i)
    <3>1. PICK i \in InodesToOpen(made, target) :
                 tree' = PutFile(made, target, i)
      BY <2>5
    <3>2. target # Root
      BY <2>2, AppendProperties DEF Path, Root
    <3>3. i \in Inode
      BY <2>2, OpenedInodes
    <3>4. CanOpen(made, target)
      BY <3>1 DEF InodesToOpen
    <3>5. \/ IsFile(made, target) /\ made[target] = i
          \/ /\ ~IsFile(made, target)
             /\ i \notin Used(made, sessions)
      BY <3>1, <3>4 DEF InodesToOpen
    <3>6. \/ IsFile(made, target) /\ made[target] = i
          \/ ~Exists(made, target) /\ \A q \in DOMAIN made : made[q] # i
      BY <3>4, <3>5 DEF Used, CanOpen, IsFile, IsDirectory
    <3> QED
      BY <2>2, <2>3, <3>1, <3>2, <3>3, <3>4, <3>6, PutKeepsTree
         DEF StorageIsATree
  <2> QED
    BY <2>3, <2>4, <2>5 DEF StorageIsATree
<1> QED
  BY <1>1, <1>2 DEF BeginUpload, BeginRefused, Refuse

LEMMA FinishKeepsTree ==
  ASSUME TypeOK, StorageIsATree, NEW u \in UploadId, FinishUpload(u)
  PROVE  StorageIsATree'
<1>1. CASE UNCHANGED tree
  BY <1>1 DEF StorageIsATree
<1>2. CASE /\ u \in DOMAIN sessions /\ CanRemove(tree, sessions[u].target)
           /\ tree' = RemoveEntry(tree, sessions[u].target)
  <2>1. sessions[u].target \in Path
    BY <1>2 DEF TypeOK, Session
  <2> QED
    BY <1>2, <2>1, TypeParts, RemoveKeepsTree DEF StorageIsATree
<1> QED
  BY <1>1, <1>2 DEF FinishUpload, Refuse, Commit, Abort

LEMMA NamespaceKeepsTree ==
  ASSUME TypeOK, StorageIsATree, NamespaceCall
  PROVE  StorageIsATree'
<1>1. CASE UNCHANGED tree
  BY <1>1 DEF StorageIsATree
<1>2. \A r \in Requested : Addressable(r) => r \in Path /\ r # Root
  BY StorageAssumption DEF Addressable, Requested
<1>3. CASE \E p \in Requested : /\ Addressable(p) /\ CanRemove(tree, p)
                                 /\ tree' = RemoveEntry(tree, p)
  BY <1>2, <1>3, TypeParts, RemoveKeepsTree DEF StorageIsATree
<1>4. CASE \E p \in Requested : /\ MayCreateDirectory(p)
                                 /\ tree' = CreateDirectories(tree, p)
  BY <1>2, <1>4, TypeParts, CreateKeepsTree
     DEF StorageIsATree, MayCreateDirectory
<1>5. CASE \E p, q \in Requested : MayRename(p, q) /\ tree' = Move(tree, p, q)
  BY <1>2, <1>5, TypeParts, MoveKeepsTree DEF StorageIsATree, MayRename
<1> QED
  BY <1>1, <1>3, <1>4, <1>5
     DEF NamespaceCall, DeletePath, MayDelete, CreateDirectory,
         RemoveDirectory, MayRemoveDirectory, RenamePath, Unlink, Refuse

LEMMA NextKeepsTree ==
  TypeOK /\ StorageIsATree /\ [Next]_vars => StorageIsATree'
<1> SUFFICES ASSUME TypeOK, StorageIsATree, [Next]_vars PROVE StorageIsATree'
  OBVIOUS
<1>1. CASE UploadCall
  <2>1. ASSUME NEW u \in UploadId, NEW offset \in Offset, NEW chunk \in Chunk,
               WriteChunk(u, offset, chunk)
        PROVE  StorageIsATree'
    BY <2>1 DEF WriteChunk, Refuse, StorageIsATree
  <2> QED
    BY <1>1, <2>1, BeginKeepsTree, FinishKeepsTree DEF UploadCall
<1>2. CASE NamespaceCall
  BY <1>2, NamespaceKeepsTree
<1>3. CASE Restart \/ UNCHANGED vars
  BY <1>3 DEF Restart, vars, StorageIsATree
<1> QED
  BY <1>1, <1>2, <1>3 DEF Next

\* No call and no sequence of calls breaks the storage tree: rename never puts a
\* directory below itself or under a missing parent, no removal orphans an
\* entry, no upload gives one file two names.
THEOREM TreeIsKept == Spec => []StorageIsATree
<1>1. Init => StorageIsATree
  <2> SUFFICES ASSUME Init PROVE StorageIsATree
    OBVIOUS
  <2>1. DOMAIN tree = {Root} /\ tree[Root] = Dir
    BY DEF Init
  <2>2. Ancestors(Root) = {}
    <3>1. Root \in Path /\ Len(Root) = 0 /\ 0..(0 - 1) = {}
      BY EmptySeq DEF Root, Path
    <3> QED
      BY <3>1, AncestorsArePrefixes
  <2> QED
    BY <2>1, <2>2 DEF StorageIsATree, IsTree, IsDirectory, IsFile, Exists
<1> QED
  BY <1>1, NextKeepsTree, Typing, PTL DEF Spec

\* A rejected UPLOAD_END removes the file it was writing, whole or partial, when
\* the file still has the target's name.
THEOREM RejectedUploadLeavesNothing == Spec => RejectedUploadIsGone
<1> DEFINE Step ==
      \A u \in DOMAIN sessions :
        LET s == sessions[u] IN
        /\ ~reply' /\ FinishUpload(u)
        /\ Exists(tree, s.target) /\ tree[s.target] = s.inode
        => \A p \in DOMAIN tree' : tree'[p] # s.inode
<1>1. TypeOK /\ StorageIsATree => Step
  <2> SUFFICES ASSUME TypeOK, StorageIsATree, NEW u \in DOMAIN sessions,
                      ~reply', FinishUpload(u),
                      Exists(tree, sessions[u].target),
                      tree[sessions[u].target] = sessions[u].inode,
                      NEW p \in DOMAIN tree'
               PROVE  tree'[p] # sessions[u].inode
    BY Zenon
  <2> DEFINE target == sessions[u].target
  <2>1. target \in Path /\ sessions[u].inode \in Inode
    BY DEF TypeOK, Session
  <2>2. IsFile(tree, target)
    BY <2>1, DirIsNoInode DEF IsFile
  <2>3. target # Root
    BY <2>2 DEF StorageIsATree, IsTree, IsDirectory, IsFile
  <2>4. Children(tree, target) = {}
    <3> SUFFICES ASSUME NEW c \in DOMAIN tree, c # Root, Parent(c) = target
                 PROVE  FALSE
      BY DEF Children
    <3>1. c \in Path /\ Len(c) \in Nat \ {0}
      BY EmptySeq DEF TypeOK, Path, Root
    <3>2. target = SubSeq(c, 1, Len(c) - 1) /\ Len(c) - 1 \in 0..(Len(c) - 1)
      BY <3>1 DEF Parent
    <3>3. target \in Ancestors(c)
      <4>1. c \in Path
        BY <3>1
      <4>2. target \in { SubSeq(c, 1, n) : n \in 0..(Len(c) - 1) }
        BY <3>2, Zenon
      <4> QED
        BY <4>1, <4>2, AncestorsArePrefixes, Zenon
    <3> QED
      BY <2>2, <3>3 DEF StorageIsATree, IsTree, IsDirectory, IsFile
  <2>5. tree' = RemoveEntry(tree, target)
    BY <2>3, <2>4 DEF FinishUpload, Commit, Abort, Returns, CanRemove
  <2>6. p \in DOMAIN tree /\ p # target /\ tree'[p] = tree[p]
    BY <2>5 DEF RemoveEntry
  <2> QED
    BY <2>2, <2>6 DEF StorageIsATree, IsTree, IsFile, Exists
<1>2. Step => [Step]_vars
  OBVIOUS
<1> QED
  BY <1>1, <1>2, Typing, TreeIsKept, PTL DEF RejectedUploadIsGone

\* A removal takes one entry; all the others keep theirs.
LEMMA UnlinkTakesOne ==
  ASSUME NEW d, NEW t, NEW p \in DOMAIN t, p # d
  PROVE  p \in DOMAIN RemoveEntry(t, d) /\ RemoveEntry(t, d)[p] = t[p]
BY DEF RemoveEntry

\* The name p still leads to what it led to.
Kept(p) == p \in DOMAIN tree' /\ tree'[p] = tree[p]

LEMMA BeginKeepsNames ==
  ASSUME TypeOK, NEW u \in UploadId, NEW begin \in UploadBegin,
         BeginUpload(u, begin), NEW p \in DOMAIN tree, IsFile(tree, p)
  PROVE  Kept(p)
<1>1. CASE BeginRefused(u, begin)
  BY <1>1 DEF BeginRefused, Refuse, Kept
<1>2. CASE BeginOnDisk(u, begin)
  <2> DEFINE made == WithTargetDirectory(begin.dir)
             target == Append(begin.dir, begin.name)
  <2>1. p \in DOMAIN made /\ made[p] = tree[p]
    BY DEF WithTargetDirectory, CreateDirectories
  <2>2. CASE tree' = made
    BY <2>1, <2>2 DEF Kept
  <2>3. CASE \E i \in InodesToOpen(made, target) : tree' = PutFile(made, target, i)
    <3>1. PICK i \in InodesToOpen(made, target) : tree' = PutFile(made, target, i)
      BY <2>3
    <3>2. CASE p = target
      <4>1. IsFile(made, target)
        BY <2>1, <3>2 DEF IsFile, Exists
      <4>2. i = made[target]
        BY <4>1 DEF InodesToOpen
      <4> HIDE DEF made, target
      <4> QED
        BY <2>1, <3>1, <3>2, <4>2 DEF PutFile, Kept
    <3>3. CASE p # target
      <4> HIDE DEF made, target
      <4> QED
        BY <2>1, <3>1, <3>3 DEF PutFile, Kept
    <3> QED
      BY <3>2, <3>3
  <2> QED
    BY <1>2, <2>2, <2>3 DEF BeginOnDisk
<1> QED
  BY <1>1, <1>2 DEF BeginUpload

\* Of all calls only a successful DELETE of that path and a failed UPLOAD_END of
\* an upload to that path take a file's name away: rename moves it and does not
\* replace it, rmdir and mkdir leave files alone, and a restart loses none.
THEOREM OnlyDeleteAndAbortRemoveFiles == Spec => FilesOutliveOtherCalls
<1> DEFINE Step ==
      \A p \in DOMAIN tree :
        IsFile(tree, p) /\ (\A q \in DOMAIN tree' : tree'[q] # tree[p])
        => \/ reply' /\ DeletePath(p)
           \/ \E u \in DOMAIN sessions :
                ~reply' /\ sessions[u].target = p /\ FinishUpload(u)
<1>1. TypeOK /\ StorageIsATree /\ [Next]_vars => Step
  <2> SUFFICES ASSUME TypeOK, StorageIsATree, [Next]_vars, NEW p \in DOMAIN tree,
                      IsFile(tree, p), \A q \in DOMAIN tree' : tree'[q] # tree[p]
               PROVE  \/ reply' /\ DeletePath(p)
                      \/ \E u \in DOMAIN sessions :
                           ~reply' /\ sessions[u].target = p /\ FinishUpload(u)
    BY Zenon
  <2>1. ~Kept(p) /\ tree' # tree
    BY DEF Kept
  <2>2. CASE UploadCall
    <3>1. PICK u \in UploadId : FinishUpload(u)
      BY <2>1, <2>2, BeginKeepsNames DEF UploadCall, WriteChunk, Refuse
    <3>2. /\ u \in DOMAIN sessions /\ reply' = FALSE
          /\ tree' = RemoveEntry(tree, sessions[u].target)
      BY <2>1, <3>1 DEF FinishUpload, Refuse, Commit, Abort, Returns
    <3>3. sessions[u].target = p
      BY <2>1, <3>2, UnlinkTakesOne DEF Kept
    <3> QED
      BY <3>1, <3>2, <3>3
  <2>3. CASE NamespaceCall
    <3>1. PICK d \in Requested :
            \/ DeletePath(d) \/ CreateDirectory(d) \/ RemoveDirectory(d)
            \/ \E q \in Requested : RenamePath(d, q)
      BY <2>3 DEF NamespaceCall
    <3>2. CASE DeletePath(d)
      <4>1. tree' = RemoveEntry(tree, d) /\ reply' = TRUE
        BY <2>1, <3>2 DEF DeletePath, Unlink, Refuse, Returns
      <4>2. p = d
        BY <2>1, <4>1, UnlinkTakesOne DEF Kept
      <4> QED
        BY <3>2, <4>1, <4>2
    <3>3. CASE RemoveDirectory(d)
      <4>1. tree' = RemoveEntry(tree, d) /\ IsDirectory(tree, d)
        BY <2>1, <3>3 DEF RemoveDirectory, MayRemoveDirectory, Unlink, Refuse
      <4> QED
        BY <2>1, <4>1, UnlinkTakesOne DEF Kept, IsDirectory, IsFile
    <3>4. CASE CreateDirectory(d)
      <4>1. tree' = CreateDirectories(tree, d)
        BY <2>1, <3>4 DEF CreateDirectory, Refuse
      <4> QED
        BY <2>1, <4>1 DEF Kept, CreateDirectories
    <3>5. CASE \E q \in Requested : RenamePath(d, q)
      <4>1. PICK q \in Requested : RenamePath(d, q)
        BY <3>5
      <4>2. MayRename(d, q) /\ tree' = Move(tree, d, q)
        BY <2>1, <4>1 DEF RenamePath, Refuse
      <4>3. d \in Path /\ q \in Path /\ ~Exists(tree, q)
        BY <4>2, StorageAssumption DEF MayRename, Addressable, Requested
      <4>4. \E r \in DOMAIN tree' : tree'[r] = tree[p]
        BY <4>2, <4>3, MoveKeepsEntries, TypeParts DEF StorageIsATree
      <4> QED
        BY <4>4
    <3> QED
      BY <3>1, <3>2, <3>3, <3>4, <3>5
  <2>4. CASE Restart \/ UNCHANGED vars
    BY <2>1, <2>4 DEF Restart, vars
  <2> QED
    BY <2>2, <2>3, <2>4 DEF Next
<1>2. Step => [Step]_vars
  OBVIOUS
<1> QED
  BY <1>1, <1>2, Typing, TreeIsKept, PTL DEF Spec, FilesOutliveOtherCalls

=============================================================================
