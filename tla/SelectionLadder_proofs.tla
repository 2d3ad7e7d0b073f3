----------------------- MODULE SelectionLadder_proofs -----------------------
(***************************************************************************)
(* Proofs about SelectionLadder: lemmas about trees of notes, for the      *)
(* recursive functions of OutlineTrees, and the invariants they carry.     *)
(***************************************************************************)
EXTENDS SelectionLadder, TLAPS, NaturalsInduction, SequenceTheorems,
        FiniteSetTheorems, WellFoundedInduction

(* A tree: every note is in at most one place, an absent note has nothing  *)
(* below it, whatever notes one takes some have no child among them, and   *)
(* some have an owner that is not among them.                              *)

OneOwner(K) ==
    \A o, p \in Owners : \A i \in DOMAIN K[o], j \in DOMAIN K[p] :
        K[o][i] = K[p][j] => o = p /\ i = j

IsBelow(K, o) == ToSet(K[o])

AbsentEmpty(K) == \A o \in Notes \ Present(K) : K[o] = <<>>

Descends(K) == \A S \in SUBSET Owners : S # {} => \E p \in S : IsBelow(K, p) \cap S = {}

Hangs(K) ==
    \A S \in SUBSET Present(K) : S # {} => \E o \in Owners \ S : IsBelow(K, o) \cap S # {}

Lists == [Owners -> Seq(Notes)]

IsTree(K) == K \in Lists /\ OneOwner(K) /\ AbsentEmpty(K) /\ Descends(K) /\ Hangs(K)
-----------------------------------------------------------------------------
(* Numbers and recursion                                                   *)

\* A non-empty set of natural numbers has a least element.
LEMMA LeastNat ==
    ASSUME NEW S \in SUBSET Nat, S # {}
    PROVE  \E m \in S : \A n \in S : m <= n
<1> DEFINE Below == {0..n : n \in S}
<1>1. \A n \in S : IsFiniteSet(0..n)
    BY FS_Interval
<1>2. Below \subseteq FiniteSubsetsOf(Nat)
    BY <1>1 DEF FiniteSubsetsOf
<1>3. Below # {}
    OBVIOUS
<1>4. IsWellFoundedOn(StrictSubsetOrdering(Nat), FiniteSubsetsOf(Nat))
    BY FS_StrictSubsetOrderingWellFounded
<1>5. PICK b \in Below : \A c \in Below : ~(<<c, b>> \in StrictSubsetOrdering(Nat))
  <2> HIDE DEF Below
  <2> QED
    BY <1>2, <1>3, <1>4, WFMin
<1>6. PICK m \in S : b = 0..m
    OBVIOUS
<1>7. ASSUME NEW n \in S PROVE ~(0..n \subseteq 0..m /\ 0..n # 0..m)
  <2>1. 0..n \in Below /\ 0..n \in SUBSET Nat /\ 0..m \in SUBSET Nat
    OBVIOUS
  <2>2. <<0..n, 0..m>> \notin StrictSubsetOrdering(Nat)
    BY <1>5, <1>6, <2>1
  <2> HIDE DEF Below
  <2>3. QED
    BY <2>1, <2>2 DEF StrictSubsetOrdering
<1>8. ASSUME NEW n \in S, n < m PROVE 0..n \subseteq 0..m /\ 0..n # 0..m
  <2>1. m \in 0..m /\ m \notin 0..n
    BY n \in Nat, m \in Nat, <1>8
  <2>2. 0..n \subseteq 0..m
    BY n \in Nat, m \in Nat, <1>8
  <2> QED
    BY <2>1, <2>2
<1>9. \A n \in S : ~(n < m)
    BY <1>7, <1>8
<1> QED
    BY <1>9

\* A note's children are notes.
LEMMA BelowNotes ==
    ASSUME NEW K \in Lists, NEW o \in Owners
    PROVE  /\ K[o] \in Seq(Notes) /\ DOMAIN K[o] = 1..Len(K[o]) /\ Len(K[o]) \in Nat
           /\ IsBelow(K, o) = {K[o][i] : i \in DOMAIN K[o]}
           /\ IsBelow(K, o) \subseteq Notes /\ IsBelow(K, o) \subseteq Owners
           /\ \A i \in DOMAIN K[o] : K[o][i] \in Notes /\ K[o][i] \in IsBelow(K, o)
           /\ IsBelow(K, o) \subseteq Present(K)
<1>1. K[o] \in Seq(Notes)
    BY DEF Lists
<1>2. DOMAIN K[o] = 1..Len(K[o]) /\ Len(K[o]) \in Nat /\ \A i \in DOMAIN K[o] : K[o][i] \in Notes
    BY <1>1
<1>3. IsBelow(K, o) = {K[o][i] : i \in DOMAIN K[o]}
    BY DEF IsBelow, ToSet
<1>4. IsBelow(K, o) \subseteq Notes /\ \A i \in DOMAIN K[o] : K[o][i] \in IsBelow(K, o)
    BY <1>2, <1>3
<1>5. IsBelow(K, o) \subseteq Present(K)
    BY DEF Present, IsBelow
<1> QED
    BY <1>1, <1>2, <1>3, <1>4, <1>5 DEF Owners

\* A note with nothing below it has no children.
LEMMA EmptyBelow ==
    ASSUME NEW K \in Lists, NEW o \in Owners
    PROVE  IsBelow(K, o) = {} <=> K[o] = <<>>
<1>1. K[o] \in Seq(Notes) /\ DOMAIN K[o] = 1..Len(K[o]) /\ Len(K[o]) \in Nat
      /\ \A i \in DOMAIN K[o] : K[o][i] \in IsBelow(K, o)
    BY BelowNotes
<1>2. ASSUME IsBelow(K, o) = {} PROVE K[o] = <<>>
  <2>1. \A i \in 1..Len(K[o]) : FALSE
    BY <1>1, <1>2
  <2> DEFINE n == Len(K[o])
  <2>2. n = 0
    <3>1. n \in Nat /\ \A i \in 1..n : FALSE
        BY <1>1, <2>1
    <3> HIDE DEF n
    <3> QED
        BY <3>1
  <2> QED
    BY <1>1, <2>2
<1>3. ASSUME K[o] = <<>> PROVE IsBelow(K, o) = {}
    BY <1>3 DEF IsBelow, ToSet
<1> QED
    BY <1>2, <1>3

\* What can be reached from a note by going down.
Reach(K, p) ==
    {n \in Owners : \A S \in SUBSET Owners :
        p \in S /\ (\A q \in S : IsBelow(K, q) \subseteq S) => n \in S}

\* Reach solves the equation of Subtree.
LEMMA ReachSolves ==
    ASSUME NEW K \in Lists, NEW p \in Owners
    PROVE  Reach(K, p) = {p} \cup UNION {Reach(K, c) : c \in IsBelow(K, p)}
<1> DEFINE Closed(S) == S \in SUBSET Owners /\ \A q \in S : IsBelow(K, q) \subseteq S
           U == {p} \cup UNION {Reach(K, c) : c \in IsBelow(K, p)}
<1>0. IsBelow(K, p) \subseteq Owners
    BY BelowNotes
<1>1. \A q \in Owners : \A n \in Reach(K, q) : n \in Owners /\ \A S : Closed(S) /\ q \in S => n \in S
    BY DEF Reach
<1>2. \A q, n \in Owners : (\A S : Closed(S) /\ q \in S => n \in S) => n \in Reach(K, q)
    BY DEF Reach
<1> HIDE DEF Closed
<1>3. U \subseteq Reach(K, p)
  <2>1. p \in Reach(K, p)
    BY <1>2
  <2>2. ASSUME NEW c \in IsBelow(K, p), NEW n \in Reach(K, c) PROVE n \in Reach(K, p)
    <3>1. c \in Owners /\ n \in Owners
        BY <1>0, <1>1, <2>2
    <3>2. ASSUME NEW S, Closed(S), p \in S PROVE n \in S
        BY <1>1, <3>1, <3>2, <2>2 DEF Closed
    <3> QED
        BY <1>2, <3>1, <3>2
  <2> QED
    BY <2>1, <2>2
<1>4. \A q \in Owners : q \in Reach(K, q)
    BY <1>2
<1>5. \A q \in Owners : \A n \in Reach(K, q) : IsBelow(K, n) \subseteq Reach(K, q)
  <2> SUFFICES ASSUME NEW q \in Owners, NEW n \in Reach(K, q), NEW c \in IsBelow(K, n)
               PROVE  c \in Reach(K, q)
    OBVIOUS
  <2>1. n \in Owners
    BY <1>1
  <2>2. c \in Owners
    BY <2>1, BelowNotes
  <2>3. \A S : Closed(S) /\ q \in S => c \in S
    BY <1>1, <2>1 DEF Closed
  <2> QED
    BY <1>2, <2>2, <2>3
<1>6. Closed(U)
  <2>1. U \in SUBSET Owners
    BY <1>0, <1>1
  <2>2. ASSUME NEW q \in U PROVE IsBelow(K, q) \subseteq U
    <3>1. CASE q = p
        BY <3>1, <1>0, <1>4
    <3>2. CASE \E c \in IsBelow(K, p) : q \in Reach(K, c)
        BY <3>2, <1>0, <1>5
    <3> QED
        BY <2>2, <3>1, <3>2
  <2> QED
    BY <2>1, <2>2 DEF Closed
<1>7. Reach(K, p) \subseteq U
    BY <1>1, <1>6
<1> QED
    BY <1>3, <1>7

\* So does Subtree itself.
LEMMA SubtreeStep ==
    ASSUME NEW K \in Lists
    PROVE  \A p \in Owners :
               Subtree(K, p) = {p} \cup UNION {Subtree(K, c) : c \in IsBelow(K, p)}
<1> DEFINE Sol(f) == f = [p \in Owners |-> {p} \cup UNION {f[c] : c \in ToSet(K[p])}]
           R == [p \in Owners |-> Reach(K, p)]
           F == CHOOSE f : Sol(f)
<1>1. Sol(R)
  <2>1. ASSUME NEW p \in Owners
        PROVE  Reach(K, p) = {p} \cup UNION {R[c] : c \in ToSet(K[p])}
    <3>1. \A c \in ToSet(K[p]) : R[c] = Reach(K, c)
        BY BelowNotes DEF IsBelow
    <3>2. {R[c] : c \in ToSet(K[p])} = {Reach(K, c) : c \in ToSet(K[p])}
        BY <3>1
    <3> QED
        BY <3>2, ReachSolves DEF IsBelow
  <2> QED
    BY <2>1
<1> HIDE DEF R
<1>2. Sol(F)
    BY <1>1
<1>3. \A p : Subtree(K, p) = F[p]
    BY DEF Subtree
<1> HIDE DEF F
<1>4. ASSUME NEW p \in Owners PROVE F[p] = {p} \cup UNION {F[c] : c \in ToSet(K[p])}
    BY <1>2
<1> QED
    BY <1>3, <1>4 DEF IsBelow

\* A note is in its own subtree, and the subtrees of its children are part of it.
LEMMA SubtreeHas ==
    ASSUME NEW K \in Lists, NEW p \in Owners
    PROVE  /\ p \in Subtree(K, p)
           /\ \A c \in IsBelow(K, p) : Subtree(K, c) \subseteq Subtree(K, p)
           /\ IsBelow(K, p) \subseteq Subtree(K, p)
<1>1. Subtree(K, p) = {p} \cup UNION {Subtree(K, c) : c \in IsBelow(K, p)}
    BY SubtreeStep
<1>2. \A c \in IsBelow(K, p) : c \in Subtree(K, c)
  <2>1. \A c \in IsBelow(K, p) : Subtree(K, c) = {c} \cup UNION {Subtree(K, d) : d \in IsBelow(K, c)}
    BY SubtreeStep, BelowNotes
  <2> QED
    BY <2>1
<1> QED
    BY <1>1, <1>2

\* What is below a note but not the note is below one of its children.
LEMMA SubtreeSplit ==
    ASSUME NEW K \in Lists, NEW p \in Owners, NEW x \in Subtree(K, p), x # p
    PROVE  \E c \in IsBelow(K, p) : x \in Subtree(K, c)
BY SubtreeStep

\* A subtree is part of every set that holds its root and, with a note, its children.
LEMMA SubtreeLeast ==
    ASSUME NEW K \in Lists, Descends(K), NEW S \in SUBSET Owners, NEW p \in S,
           \A q \in S : IsBelow(K, q) \subseteq S
    PROVE  Subtree(K, p) \subseteq S
<1> DEFINE Bad == {q \in S : ~(Subtree(K, q) \subseteq S)}
<1> SUFFICES ASSUME Bad # {} PROVE FALSE
    OBVIOUS
<1>1. PICK q \in Bad : IsBelow(K, q) \cap Bad = {}
    BY DEF Descends
<1>2. q \in Owners /\ q \in S
    OBVIOUS
<1>3. \A c \in IsBelow(K, q) : c \in S /\ Subtree(K, c) \subseteq S
    BY <1>1, <1>2
<1>4. Subtree(K, q) = {q} \cup UNION {Subtree(K, c) : c \in IsBelow(K, q)}
    BY <1>2, SubtreeStep
<1>5. Subtree(K, q) \subseteq S
    BY <1>2, <1>3, <1>4
<1> QED
    BY <1>5

\* What is below something is a note or the root.
LEMMA SubtreeType ==
    ASSUME NEW K \in Lists, Descends(K), NEW p \in Owners
    PROVE  Subtree(K, p) \subseteq Owners
BY SubtreeLeast, BelowNotes

\* With a note its whole subtree is below another one.
LEMMA SubtreeTrans ==
    ASSUME NEW K \in Lists, Descends(K), NEW p \in Owners, NEW x \in Subtree(K, p)
    PROVE  Subtree(K, x) \subseteq Subtree(K, p)
<1> DEFINE Good(q) == \A y \in Subtree(K, q) : Subtree(K, y) \subseteq Subtree(K, q)
           Bad == {q \in Owners : ~Good(q)}
<1> SUFFICES ASSUME Bad # {} PROVE FALSE
    OBVIOUS
<1>1. PICK q \in Bad : IsBelow(K, q) \cap Bad = {}
    BY DEF Descends
<1>2. q \in Owners /\ ~Good(q)
    OBVIOUS
<1>3. \A c \in IsBelow(K, q) : Good(c)
    BY <1>1, <1>2, BelowNotes
<1>4. ASSUME NEW y \in Subtree(K, q) PROVE Subtree(K, y) \subseteq Subtree(K, q)
  <2>1. CASE y = q
    BY <2>1
  <2>2. CASE y # q
    <3>1. PICK c \in IsBelow(K, q) : y \in Subtree(K, c)
        BY <1>2, <2>2, SubtreeSplit
    <3>2. Subtree(K, y) \subseteq Subtree(K, c)
        BY <1>3, <3>1
    <3>3. Subtree(K, c) \subseteq Subtree(K, q)
        BY <1>2, <3>1, SubtreeHas
    <3> QED
        BY <3>2, <3>3
  <2> QED
    BY <2>1, <2>2
<1> QED
    BY <1>2, <1>4

\* With a note, its children are below another one.
LEMMA SubtreeClosed ==
    ASSUME NEW K \in Lists, Descends(K), NEW p \in Owners, NEW x \in Subtree(K, p)
    PROVE  IsBelow(K, x) \subseteq Subtree(K, p)
<1>1. x \in Owners
    BY SubtreeType
<1>2. IsBelow(K, x) \subseteq Subtree(K, x)
    BY <1>1, SubtreeHas
<1> QED
    BY <1>2, SubtreeTrans

\* A note has one owner.
LEMMA OwnerIsOne ==
    ASSUME NEW K \in Lists, OneOwner(K), NEW o \in Owners, NEW p \in Owners,
           NEW x \in IsBelow(K, o), x \in IsBelow(K, p)
    PROVE  o = p
<1>1. PICK i \in DOMAIN K[o] : K[o][i] = x
    BY DEF IsBelow, ToSet
<1>2. PICK j \in DOMAIN K[p] : K[p][j] = x
    BY DEF IsBelow, ToSet
<1> QED
    BY <1>1, <1>2 DEF OneOwner

\* Below another note, a note comes with its owner.
LEMMA SubtreeOwner ==
    ASSUME NEW K \in Lists, OneOwner(K), Descends(K), NEW p \in Owners,
           NEW x \in Subtree(K, p), x # p, NEW o \in Owners, x \in IsBelow(K, o)
    PROVE  o \in Subtree(K, p)
<1> DEFINE S == {y \in Subtree(K, p) : y = p \/ \E q \in Subtree(K, p) : y \in IsBelow(K, q)}
<1>0. Subtree(K, p) \subseteq Owners
    BY SubtreeType
<1>1. S \in SUBSET Owners /\ p \in S
    BY <1>0, SubtreeHas
<1>2. \A y \in S : IsBelow(K, y) \subseteq S
    BY SubtreeClosed
<1> HIDE DEF S
<1>3. Subtree(K, p) \subseteq S
    BY <1>1, <1>2, SubtreeLeast
<1>4. PICK q \in Subtree(K, p) : x \in IsBelow(K, q)
    BY <1>3 DEF S
<1>5. q = o
    BY <1>0, <1>4, OwnerIsOne
<1> QED
    BY <1>4, <1>5

\* No two notes are below each other.
LEMMA SubtreeAntisym ==
    ASSUME NEW K \in Lists, Descends(K), NEW x \in Owners, NEW y \in Subtree(K, x),
           x \in Subtree(K, y)
    PROVE  x = y
<1> SUFFICES ASSUME x # y PROVE FALSE
    OBVIOUS
<1> DEFINE S == {z \in Subtree(K, x) : x \in Subtree(K, z)}
<1>0. Subtree(K, x) \subseteq Owners
    BY SubtreeType
<1>1. S \in SUBSET Owners /\ S # {}
    BY <1>0, SubtreeHas
<1>2. PICK z \in S : IsBelow(K, z) \cap S = {}
  <2> HIDE DEF S
  <2> QED
    BY <1>1 DEF Descends
<1>3. z \in Owners /\ z \in Subtree(K, x) /\ x \in Subtree(K, z)
    BY <1>0
<1>4. \E c \in IsBelow(K, z) : x \in Subtree(K, c)
  <2>1. CASE z = x
    <3>1. PICK c \in IsBelow(K, x) : y \in Subtree(K, c)
        BY SubtreeSplit
    <3>2. c \in Owners
        BY <3>1, BelowNotes
    <3>3. x \in Subtree(K, c)
        BY <3>1, <3>2, SubtreeTrans
    <3> QED
        BY <2>1, <3>1, <3>3
  <2>2. CASE z # x
    BY <1>3, <2>2, SubtreeSplit
  <2> QED
    BY <2>1, <2>2
<1>5. \A c \in IsBelow(K, z) : c \in Subtree(K, x)
    BY <1>3, SubtreeClosed
<1> QED
    BY <1>2, <1>4, <1>5

\* Two notes above a third are one above the other.
LEMMA SubtreeChain ==
    ASSUME NEW K \in Lists, OneOwner(K), Descends(K), NEW a \in Owners, NEW b \in Owners,
           NEW x \in Subtree(K, a), x \in Subtree(K, b)
    PROVE  a \in Subtree(K, b) \/ b \in Subtree(K, a)
<1> DEFINE S == {y \in Subtree(K, a) :
                    y \in Subtree(K, b) => a \in Subtree(K, b) \/ b \in Subtree(K, a)}
<1>0. Subtree(K, a) \subseteq Owners
    BY SubtreeType
<1>1. S \in SUBSET Owners /\ a \in S
    BY <1>0, SubtreeHas
<1>2. ASSUME NEW y \in S, NEW c \in IsBelow(K, y) PROVE c \in S
  <2>1. y \in Subtree(K, a) /\ y \in Owners
    BY <1>0
  <2>2. c \in Subtree(K, a)
    BY <2>1, SubtreeClosed
  <2>3. ASSUME c \in Subtree(K, b), c # b PROVE y \in Subtree(K, b)
    BY <2>1, <2>3, SubtreeOwner
  <2> QED
    BY <2>2, <2>3
<1> HIDE DEF S
<1>3. Subtree(K, a) \subseteq S
    BY <1>1, <1>2, SubtreeLeast
<1> QED
    BY <1>3 DEF S

\* The subtrees of siblings have nothing in common.
LEMMA SiblingsApart ==
    ASSUME NEW K \in Lists, OneOwner(K), Descends(K), NEW o \in Owners,
           NEW c \in IsBelow(K, o), NEW d \in IsBelow(K, o), c # d
    PROVE  Subtree(K, c) \cap Subtree(K, d) = {}
<1> SUFFICES ASSUME NEW x \in Subtree(K, c), x \in Subtree(K, d) PROVE FALSE
    OBVIOUS
<1>0. c \in Owners /\ d \in Owners
    BY BelowNotes
<1>1. \A e, f \in IsBelow(K, o) : e # f => e \notin Subtree(K, f)
  <2> SUFFICES ASSUME NEW e \in IsBelow(K, o), NEW f \in IsBelow(K, o), e # f, e \in Subtree(K, f)
               PROVE  FALSE
    OBVIOUS
  <2>1. e \in Owners /\ f \in Owners
    BY BelowNotes
  <2>2. o \in Subtree(K, f)
    BY <2>1, SubtreeOwner
  <2>3. f \in Subtree(K, o)
    BY SubtreeHas
  <2>4. o = f
    BY <2>1, <2>2, <2>3, SubtreeAntisym
  <2>5. PICK p \in {f} : IsBelow(K, p) \cap {f} = {}
    BY <2>1 DEF Descends
  <2> QED
    BY <2>4, <2>5
<1>2. c \in Subtree(K, d) \/ d \in Subtree(K, c)
    BY <1>0, SubtreeChain
<1> QED
    BY <1>1, <1>2

\* Every note of the document is below the root.
LEMMA PresentBelowTop ==
    ASSUME NEW K, IsTree(K)
    PROVE  Subtree(K, Top) = Present(K) \cup {Top} /\ Present(K) \subseteq Notes
<1>0. K \in Lists /\ Descends(K) /\ Top \in Owners
    BY DEF IsTree, Owners
<1>1. Present(K) \subseteq Notes
    BY <1>0, BelowNotes DEF Present, IsBelow
<1>2. Subtree(K, Top) \subseteq Present(K) \cup {Top}
  <2>1. \A q \in Present(K) \cup {Top} : IsBelow(K, q) \subseteq Present(K) \cup {Top}
    BY <1>0, <1>1, BelowNotes DEF Owners
  <2>2. Present(K) \cup {Top} \in SUBSET Owners
    BY <1>1 DEF Owners
  <2> QED
    BY <1>0, <2>1, <2>2, SubtreeLeast
<1>3. Present(K) \subseteq Subtree(K, Top)
  <2> DEFINE S == Present(K) \ Subtree(K, Top)
  <2> SUFFICES ASSUME S # {} PROVE FALSE
    OBVIOUS
  <2>1. PICK o \in Owners \ S : IsBelow(K, o) \cap S # {}
    BY DEF IsTree, Hangs
  <2>2. o = Top \/ o \in Present(K)
    BY <2>1 DEF IsTree, AbsentEmpty, Owners, IsBelow, ToSet
  <2>3. o \in Subtree(K, Top)
    BY <1>0, <2>1, <2>2, SubtreeHas
  <2>4. IsBelow(K, o) \subseteq Subtree(K, Top)
    BY <1>0, <2>3, SubtreeClosed
  <2> QED
    BY <2>1, <2>4
<1>4. Top \in Subtree(K, Top)
    BY <1>0, SubtreeHas
<1> QED
    BY <1>1, <1>2, <1>3, <1>4

\* Parent finds the owner, which is the only one.
LEMMA ParentIs ==
    ASSUME NEW K \in Lists, OneOwner(K), NEW o \in Owners, NEW n \in IsBelow(K, o)
    PROVE  Parent(K, n) = o
<1>1. \E i \in DOMAIN K[o] : K[o][i] = n
    BY DEF IsBelow, ToSet
<1>2. Parent(K, n) \in Owners /\ \E i \in DOMAIN K[Parent(K, n)] : K[Parent(K, n)][i] = n
    BY <1>1 DEF Parent
<1>3. n \in IsBelow(K, Parent(K, n))
    BY <1>2 DEF IsBelow, ToSet
<1> QED
    BY <1>2, <1>3, OwnerIsOne

\* A note of the document is a child of its parent.
LEMMA PresentParent ==
    ASSUME NEW K \in Lists, OneOwner(K), NEW n \in Present(K)
    PROVE  Parent(K, n) \in Owners /\ n \in IsBelow(K, Parent(K, n))
<1>1. PICK o \in Owners : n \in IsBelow(K, o)
    BY DEF Present, IsBelow
<1> QED
    BY <1>1, ParentIs
-----------------------------------------------------------------------------
(* Walks down the tree                                                     *)

\* The least and the greatest of some numbers up to m are among them.
LEMMA MinIs ==
    ASSUME NEW S \in SUBSET Nat, S # {}
    PROVE  Min(S) \in S /\ Min(S) \in Nat /\ \A x \in S : Min(S) <= x
<1>1. \E x \in S : \A y \in S : x <= y
    BY LeastNat
<1> QED
    BY <1>1 DEF Min

\* The greatest of some numbers up to m.
LEMMA MaxIs ==
    ASSUME NEW m \in Nat, NEW S \in SUBSET (0..m), S # {}
    PROVE  Max(S) \in S /\ Max(S) \in 0..m /\ \A x \in S : Max(S) >= x
<1> DEFINE D == {m - x : x \in S}
<1>1. D \in SUBSET Nat /\ D # {}
  <2>1. \A x \in S : m - x \in Nat
    BY S \in SUBSET (0..m)
  <2> QED
    BY <2>1
<1>2. PICK d \in D : \A e \in D : d <= e
  <2> HIDE DEF D
  <2> QED
    BY <1>1, LeastNat
<1>3. PICK x \in S : d = m - x
    OBVIOUS
<1>4. ASSUME NEW y \in S PROVE x >= y
  <2>1. m - y \in D
    OBVIOUS
  <2>2. m - x <= m - y
    BY <1>2, <1>3, <2>1
  <2>3. x \in 0..m /\ y \in 0..m
    OBVIOUS
  <2> QED
    BY <2>2, <2>3
<1>5. \E z \in S : \A y \in S : z >= y
    BY <1>4
<1> QED
    BY <1>5 DEF Max

\* A walk goes from a note to the next one until it meets one of St, and answers
\* with what g gives there.
IsWalk(f, nx, g, St) == f = [o \in Owners |-> IF o \in St THEN g[o] ELSE f[nx[o]]]

\* There always is such a function.
LEMMA WalkExists ==
    ASSUME NEW nx, NEW g, NEW St, \A o \in Owners \ St : nx[o] \in Owners
    PROVE  \E f : IsWalk(f, nx, g, St)
<1> DEFINE Closed(S) == S \in SUBSET Owners /\ \A q \in S \ St : nx[q] \in S
           Ends(o) == {e \in St \cap Owners : \A S \in SUBSET Owners : Closed(S) /\ o \in S => e \in S}
           Goal(o) == g[CHOOSE e : e \in Ends(o)]
           F == [o \in Owners |-> Goal(o)]
<1>1. ASSUME NEW o \in Owners \cap St PROVE Ends(o) = {o}
  <2>1. Closed({o})
    OBVIOUS
  <2>2. o \in Ends(o)
    OBVIOUS
  <2>3. Ends(o) \subseteq {o}
    BY <2>1
  <2> QED
    BY <2>2, <2>3
<1>2. ASSUME NEW o \in Owners \ St PROVE Ends(o) = Ends(nx[o])
  <2>1. ASSUME NEW e \in Ends(nx[o]) PROVE e \in Ends(o)
    <3>1. \A S \in SUBSET Owners : Closed(S) /\ o \in S => nx[o] \in S
        OBVIOUS
    <3> QED
        BY <3>1
  <2>2. ASSUME NEW e \in Ends(o) PROVE e \in Ends(nx[o])
    <3>1. ASSUME NEW S \in SUBSET Owners, Closed(S), nx[o] \in S PROVE e \in S
      <4>1. Closed(S \cup {o})
        BY <3>1
      <4>2. e \in S \cup {o}
        BY <4>1
      <4> QED
        BY <4>2
    <3> QED
        BY <3>1
  <2> QED
    BY <2>1, <2>2
<1>3. ASSUME NEW o \in Owners PROVE Goal(o) = IF o \in St THEN g[o] ELSE Goal(nx[o])
  <2> HIDE DEF Ends
  <2>1. CASE o \in St
    <3>1. Ends(o) = {o}
        BY <1>1, <2>1
    <3>2. (CHOOSE e : e \in Ends(o)) = o
        BY <3>1
    <3>3. Goal(o) = g[o]
        BY <3>2
    <3> QED
        BY <2>1, <3>3
  <2>2. CASE o \notin St
    <3>1. Ends(o) = Ends(nx[o])
        BY <1>2, <2>2
    <3>2. Goal(o) = Goal(nx[o])
        BY <3>1
    <3> QED
        BY <2>2, <3>2
  <2> QED
    BY <2>1, <2>2
<1> HIDE DEF Goal
<1>4. \A o \in Owners : o \notin St => F[nx[o]] = Goal(nx[o])
    OBVIOUS
<1>5. F = [o \in Owners |-> IF o \in St THEN g[o] ELSE F[nx[o]]]
    BY <1>3, <1>4
<1> QED
    BY <1>5 DEF IsWalk

\* The tail of a note without children is the note, otherwise its last child's.
LEMMA TailStep ==
    ASSUME NEW K \in Lists
    PROVE  \A m \in Owners :
               SubtreeTail(K, m) = IF K[m] = <<>> THEN m ELSE SubtreeTail(K, Last(K[m]))
<1> DEFINE Sol(f) == f = [m \in Owners |-> IF K[m] = <<>> THEN m ELSE f[Last(K[m])]]
           St == {m \in Owners : K[m] = <<>>}
           g == [m \in Owners |-> m]
           nx == [m \in Owners |-> Last(K[m])]
           F == CHOOSE f : Sol(f)
<1>1. \A m \in Owners \ St : nx[m] \in Owners
  <2> SUFFICES ASSUME NEW m \in Owners, K[m] # <<>> PROVE Last(K[m]) \in Owners
    OBVIOUS
  <2>1. K[m] \in Seq(Notes) /\ Len(K[m]) \in DOMAIN K[m]
    BY BelowNotes
  <2> QED
    BY <2>1 DEF Last, Owners
<1>2. PICK f : IsWalk(f, nx, g, St)
  <2> HIDE DEF St, g, nx
  <2> QED
    BY <1>1, WalkExists
<1>3. \A o \in Owners : f[o] = IF K[o] = <<>> THEN o ELSE f[Last(K[o])]
    BY <1>2 DEF IsWalk
<1>4. f = [o \in Owners |-> f[o]]
    BY <1>2 DEF IsWalk
<1>5. Sol(f)
    BY <1>3, <1>4
<1>6. Sol(F)
    BY <1>5
<1>7. \A m : SubtreeTail(K, m) = F[m]
    BY DEF SubtreeTail
<1> HIDE DEF F
<1> QED
    BY <1>6, <1>7

\* The tail of a note is in its subtree.
LEMMA TailBelow ==
    ASSUME NEW K \in Lists, Descends(K), NEW n \in Owners
    PROVE  SubtreeTail(K, n) \in Subtree(K, n)
<1> DEFINE Bad == {m \in Owners : SubtreeTail(K, m) \notin Subtree(K, m)}
<1> SUFFICES ASSUME Bad # {} PROVE FALSE
    OBVIOUS
<1>1. PICK m \in Bad : IsBelow(K, m) \cap Bad = {}
    BY DEF Descends
<1>2. CASE K[m] = <<>>
    BY <1>2, TailStep, SubtreeHas
<1>3. CASE K[m] # <<>>
  <2>1. K[m] \in Seq(Notes) /\ Len(K[m]) \in DOMAIN K[m]
    BY <1>3, BelowNotes
  <2>2. Last(K[m]) \in IsBelow(K, m)
    BY <2>1 DEF Last, IsBelow, ToSet
  <2>3. SubtreeTail(K, Last(K[m])) \in Subtree(K, Last(K[m]))
    BY <1>1, <2>2, BelowNotes
  <2>4. SubtreeTail(K, m) = SubtreeTail(K, Last(K[m]))
    BY <1>3, TailStep
  <2> QED
    BY <2>2, <2>3, <2>4, SubtreeHas
<1> QED
    BY <1>2, <1>3

\* HeadsBetween: the children of o that the ends are below, whether the search goes
\* on below one of them, and what it finds from o.
Sides(T, o, a, f) == {i \in DOMAIN T[o] : {a, f} \cap Subtree(T, T[o][i]) # {}}

GoesOn(T, o, a, f) ==
    Cardinality(Sides(T, o, a, f)) = 1 /\ T[o][Min(Sides(T, o, a, f))] \notin {a, f}

HeadsHere(T, o, a, f) == SubSeq(T[o], Min(Sides(T, o, a, f)), Max(Sides(T, o, a, f)))

\* The search goes on below or ends here.
LEMMA HeadsStep ==
    ASSUME NEW T \in Lists, NEW a, NEW f
    PROVE  \E F : /\ HeadsBetween(T, a, f) = F[Top]
                  /\ \A o \in Owners :
                        F[o] = IF GoesOn(T, o, a, f) THEN F[T[o][Min(Sides(T, o, a, f))]]
                               ELSE HeadsHere(T, o, a, f)
<1> DEFINE Sol(h) == h = [o \in Owners |->
                IF /\ Cardinality({i \in DOMAIN T[o] : {a, f} \cap Subtree(T, T[o][i]) # {}}) = 1
                   /\ T[o][Min({i \in DOMAIN T[o] : {a, f} \cap Subtree(T, T[o][i]) # {}})] \notin {a, f}
                THEN h[T[o][Min({i \in DOMAIN T[o] : {a, f} \cap Subtree(T, T[o][i]) # {}})]]
                ELSE SubSeq(T[o], Min({i \in DOMAIN T[o] : {a, f} \cap Subtree(T, T[o][i]) # {}}),
                                  Max({i \in DOMAIN T[o] : {a, f} \cap Subtree(T, T[o][i]) # {}}))]
           St == {o \in Owners : ~GoesOn(T, o, a, f)}
           g == [o \in Owners |-> HeadsHere(T, o, a, f)]
           nx == [o \in Owners |-> T[o][Min(Sides(T, o, a, f))]]
           F == CHOOSE h : Sol(h)
<1>1. \A o \in Owners \ St : nx[o] \in Owners
  <2> SUFFICES ASSUME NEW o \in Owners, GoesOn(T, o, a, f)
               PROVE  T[o][Min(Sides(T, o, a, f))] \in Owners
    OBVIOUS
  <2> DEFINE I == Sides(T, o, a, f)
  <2>1. I \in SUBSET Nat /\ I \subseteq DOMAIN T[o]
    BY BelowNotes DEF Sides
  <2>2. I # {}
    BY FS_EmptySet DEF GoesOn
  <2>3. Min(I) \in I
    BY <2>1, <2>2, MinIs
  <2> QED
    BY <2>1, <2>3, BelowNotes DEF Owners
<1>2. PICK h : IsWalk(h, nx, g, St)
  <2> HIDE DEF St, g, nx
  <2> QED
    BY <1>1, WalkExists
<1>3. \A o \in Owners : h[o] = IF GoesOn(T, o, a, f) THEN h[T[o][Min(Sides(T, o, a, f))]]
                               ELSE HeadsHere(T, o, a, f)
    BY <1>2 DEF IsWalk
<1>4. h = [o \in Owners |-> h[o]]
    BY <1>2 DEF IsWalk
<1>5. h = [o \in Owners |-> IF GoesOn(T, o, a, f) THEN h[T[o][Min(Sides(T, o, a, f))]]
                               ELSE HeadsHere(T, o, a, f)]
    BY <1>3, <1>4
<1>6. \A k : Sol(k) <=> k = [o \in Owners |-> IF GoesOn(T, o, a, f) THEN k[T[o][Min(Sides(T, o, a, f))]]
                               ELSE HeadsHere(T, o, a, f)]
    BY DEF GoesOn, HeadsHere, Sides
<1>7. Sol(F)
    BY <1>5, <1>6
<1>8. HeadsBetween(T, a, f) = F[Top]
    BY DEF HeadsBetween
<1> HIDE DEF F, Sol
<1>9. \A o \in Owners : F[o] = IF GoesOn(T, o, a, f) THEN F[T[o][Min(Sides(T, o, a, f))]]
                               ELSE HeadsHere(T, o, a, f)
  <2>1. F = [o \in Owners |-> IF GoesOn(T, o, a, f) THEN F[T[o][Min(Sides(T, o, a, f))]]
                               ELSE HeadsHere(T, o, a, f)]
    BY <1>6, <1>7
  <2> QED
    BY <2>1
<1> QED
    BY <1>8, <1>9

\* A stretch of a sequence: its places.
LEMMA SubSeqIs ==
    ASSUME NEW S, NEW s \in Seq(S), NEW i \in DOMAIN s, NEW j \in DOMAIN s, i <= j
    PROVE  /\ SubSeq(s, i, j) \in Seq(S) /\ Len(SubSeq(s, i, j)) = j - i + 1
           /\ \A k \in 1..(j - i + 1) : SubSeq(s, i, j)[k] = s[i + k - 1]
<1>0. i \in Nat /\ j \in Nat /\ Len(s) \in Nat /\ i \in 1..Len(s) /\ j \in 1..Len(s)
    OBVIOUS
<1> QED
    BY <1>0, SubSeqProperties

\* Its ends and its members.
LEMMA SubSeqMembers ==
    ASSUME NEW S, NEW s \in Seq(S), NEW i \in DOMAIN s, NEW j \in DOMAIN s, i <= j
    PROVE  /\ ToSet(SubSeq(s, i, j)) = {s[k] : k \in i..j}
           /\ Head(SubSeq(s, i, j)) = s[i] /\ Last(SubSeq(s, i, j)) = s[j]
           /\ SubSeq(s, i, j) # <<>>
<1> DEFINE u == SubSeq(s, i, j)
<1>0. i \in Nat /\ j \in Nat /\ Len(s) \in Nat /\ i \in 1..Len(s) /\ j \in 1..Len(s)
    OBVIOUS
<1>1. /\ u \in Seq(S) /\ Len(u) = j - i + 1
      /\ \A k \in 1..(j - i + 1) : u[k] = s[i + k - 1]
    BY SubSeqIs
<1> HIDE DEF u
<1>3. DOMAIN u = 1..(j - i + 1)
    BY <1>1
<1>4. u[1] = s[i] /\ u[j - i + 1] = s[j]
    BY <1>0, <1>1
<1>5. u # <<>> /\ Head(u) = u[1] /\ Last(u) = u[j - i + 1]
    BY <1>0, <1>1 DEF Last
<1>6. ToSet(u) = {u[k] : k \in 1..(j - i + 1)}
    BY <1>3 DEF ToSet
<1>7. \A k \in 1..(j - i + 1) : u[k] \in {s[m] : m \in i..j}
  <2> SUFFICES ASSUME NEW k \in 1..(j - i + 1) PROVE u[k] \in {s[m] : m \in i..j}
    OBVIOUS
  <2>1. i + k - 1 \in i..j
    BY <1>0
  <2> QED
    BY <1>1, <2>1
<1>8. \A m \in i..j : s[m] \in {u[k] : k \in 1..(j - i + 1)}
  <2> SUFFICES ASSUME NEW m \in i..j PROVE s[m] \in {u[k] : k \in 1..(j - i + 1)}
    OBVIOUS
  <2>1. m - i + 1 \in 1..(j - i + 1) /\ i + (m - i + 1) - 1 = m
    BY <1>0
  <2>2. u[m - i + 1] = s[m]
    BY <1>1, <2>1
  <2> QED
    BY <2>1, <2>2
<1>9. ToSet(u) = {s[k] : k \in i..j}
    BY <1>6, <1>7, <1>8
<1> QED
    BY <1>4, <1>5, <1>9 DEF u

\* A stretch of one.
LEMMA SubSeqOne ==
    ASSUME NEW S, NEW s \in Seq(S), NEW k \in DOMAIN s
    PROVE  SubSeq(s, k, k) = <<s[k]>>
<1> DEFINE u == SubSeq(s, k, k)
<1>0. k \in Nat /\ k <= k
    OBVIOUS
<1>1. k \in Nat /\ u \in Seq(S) /\ Len(u) = k - k + 1 /\ u[1] = s[k]
  <2>1. /\ u \in Seq(S) /\ Len(u) = k - k + 1
        /\ \A m \in 1..(k - k + 1) : u[m] = s[k + m - 1]
    BY <1>0, SubSeqIs
  <2> HIDE DEF u
  <2> QED
    BY <1>0, <2>1
<1>2. Len(u) = 1 /\ u[1] = s[k]
  <2> HIDE DEF u
  <2> QED
    BY <1>1
<1>3. <<s[k]>> \in Seq(S) /\ Len(<<s[k]>>) = 1 /\ <<s[k]>>[1] = s[k]
    OBVIOUS
<1>4. \A i \in 1..1 : u[i] = <<s[k]>>[i]
    BY <1>2, <1>3
<1> HIDE DEF u
<1>5. u = <<s[k]>>
    BY <1>1, <1>2, <1>3, <1>4, SeqEqual
<1> QED
    BY <1>5 DEF u

\* Both ends below one child: it is the only side.
LEMMA OneSide ==
    ASSUME NEW T, IsTree(T), NEW o \in Owners, NEW k \in DOMAIN T[o], NEW a, NEW f,
           {a, f} \subseteq Subtree(T, T[o][k])
    PROVE  /\ Sides(T, o, a, f) = {k}
           /\ Cardinality(Sides(T, o, a, f)) = 1
           /\ Min(Sides(T, o, a, f)) = k /\ Max(Sides(T, o, a, f)) = k
           /\ HeadsHere(T, o, a, f) = <<T[o][k]>>
<1>0. T \in Lists /\ OneOwner(T) /\ Descends(T)
    BY DEF IsTree
<1>1. T[o] \in Seq(Notes) /\ k \in 1..Len(T[o]) /\ k \in Nat
    BY <1>0, BelowNotes
<1>2. \A i \in DOMAIN T[o] : i # k => T[o][i] # T[o][k]
    BY <1>0 DEF OneOwner
<1>3. \A i \in DOMAIN T[o] : i # k => Subtree(T, T[o][i]) \cap Subtree(T, T[o][k]) = {}
    BY <1>0, <1>2, BelowNotes, SiblingsApart
<1>4. Sides(T, o, a, f) = {k}
    BY <1>3 DEF Sides
<1>5. Cardinality({k}) = 1
    BY FS_Singleton
<1>6. Min({k}) = k /\ Max({k}) = k
    BY <1>1 DEF Min, Max
<1>7. SubSeq(T[o], k, k) = <<T[o][k]>>
    BY <1>1, SubSeqOne
<1> QED
    BY <1>4, <1>5, <1>6, <1>7 DEF HeadsHere

\* Where the search ends: o has both ends below it, and no child that has both
\* strictly below.
EndsAt(T, o, a, f) == {a, f} \subseteq Subtree(T, o) \ {o} /\ ~GoesOn(T, o, a, f)

\* The sides of an owner that has both ends below it.
LEMMA SidesAre ==
    ASSUME NEW T, IsTree(T), NEW o \in Owners, NEW a, NEW f,
           {a, f} \subseteq Subtree(T, o) \ {o}
    PROVE  /\ Sides(T, o, a, f) \in SUBSET Nat /\ Sides(T, o, a, f) # {}
           /\ Sides(T, o, a, f) \subseteq DOMAIN T[o] /\ DOMAIN T[o] = 1..Len(T[o])
           /\ Min(Sides(T, o, a, f)) \in Sides(T, o, a, f)
           /\ Max(Sides(T, o, a, f)) \in Sides(T, o, a, f)
           /\ \A i \in Sides(T, o, a, f) :
                 Min(Sides(T, o, a, f)) <= i /\ i <= Max(Sides(T, o, a, f))
           /\ \A x \in {a, f} : \E i \in Sides(T, o, a, f) : x \in Subtree(T, T[o][i])
<1> DEFINE I == Sides(T, o, a, f)
<1>0. T \in Lists /\ OneOwner(T) /\ Descends(T)
    BY DEF IsTree
<1>1. DOMAIN T[o] = 1..Len(T[o]) /\ Len(T[o]) \in Nat
    BY <1>0, BelowNotes
<1>2. I \subseteq DOMAIN T[o]
    BY DEF Sides
<1>3. \A x \in {a, f} : \E i \in I : x \in Subtree(T, T[o][i])
  <2> SUFFICES ASSUME NEW x \in {a, f} PROVE \E i \in I : x \in Subtree(T, T[o][i])
    OBVIOUS
  <2>1. PICK c \in IsBelow(T, o) : x \in Subtree(T, c)
    BY <1>0, SubtreeSplit
  <2>2. PICK i \in DOMAIN T[o] : T[o][i] = c
    BY DEF IsBelow, ToSet
  <2> QED
    BY <2>1, <2>2 DEF Sides
<1>4. I # {} /\ I \in SUBSET Nat /\ I \in SUBSET (0..Len(T[o]))
    BY <1>1, <1>2, <1>3
<1> HIDE DEF I
<1>5. Min(I) \in I /\ Max(I) \in I /\ \A x \in I : Min(I) <= x /\ Max(I) >= x
    BY <1>1, <1>4, MinIs, MaxIs
<1>6. \A x \in I : x <= Max(I)
    BY <1>4, <1>5
<1> QED
    BY <1>1, <1>2, <1>3, <1>4, <1>5, <1>6 DEF I

\* The heads are siblings, the children of such an owner.
LEMMA HeadsFound ==
    ASSUME NEW T, IsTree(T), NEW a \in Present(T), NEW f \in Present(T)
    PROVE  \E o \in Owners : EndsAt(T, o, a, f) /\ HeadsBetween(T, a, f) = HeadsHere(T, o, a, f)
<1>0. T \in Lists /\ OneOwner(T) /\ Descends(T) /\ Top \in Owners
    BY DEF IsTree, Owners
<1>1. PICK F : /\ HeadsBetween(T, a, f) = F[Top]
               /\ \A o \in Owners :
                     F[o] = IF GoesOn(T, o, a, f) THEN F[T[o][Min(Sides(T, o, a, f))]]
                            ELSE HeadsHere(T, o, a, f)
    BY <1>0, HeadsStep
<1> DEFINE Both(o) == {a, f} \subseteq Subtree(T, o) \ {o}
           Found(o) == \E p \in Owners : EndsAt(T, p, a, f) /\ F[o] = HeadsHere(T, p, a, f)
           Bad == {o \in Owners : Both(o) /\ ~Found(o)}
<1>2. Bad = {}
  <2> SUFFICES ASSUME Bad # {} PROVE FALSE
    OBVIOUS
  <2>1. PICK o \in Bad : IsBelow(T, o) \cap Bad = {}
    BY <1>0 DEF Descends
  <2>2. o \in Owners /\ Both(o) /\ ~Found(o)
    OBVIOUS
  <2>3. CASE ~GoesOn(T, o, a, f)
    BY <1>1, <2>2, <2>3 DEF EndsAt
  <2>4. CASE GoesOn(T, o, a, f)
    <3> DEFINE I == Sides(T, o, a, f)  c == T[o][Min(I)]
    <3>1. Min(I) \in I /\ Min(I) \in DOMAIN T[o]
        BY <2>2, SidesAre
    <3>2. I = {Min(I)}
      <4>1. Cardinality(I) = 1
        BY <2>4 DEF GoesOn
      <4>2. IsFiniteSet(I)
        <5>1. I \subseteq 1..Len(T[o]) /\ Len(T[o]) \in Nat
            BY <1>0, <2>2, BelowNotes DEF Sides
        <5>2. IsFiniteSet(1..Len(T[o]))
            BY <5>1, FS_Interval
        <5> HIDE DEF I
        <5> QED
            BY <5>1, <5>2, FS_Subset
      <4>3. \E x : I = {x}
        <5> HIDE DEF I
        <5> QED
            BY <4>1, <4>2, FS_Singleton
      <4> QED
        BY <3>1, <4>3
    <3>3. {a, f} \subseteq Subtree(T, c)
        BY <2>2, <3>2, SidesAre
    <3>4. c \notin {a, f}
        BY <2>4 DEF GoesOn
    <3>5. c \in IsBelow(T, o) /\ c \in Owners
        BY <1>0, <2>2, <3>1, BelowNotes
    <3>6. Both(c)
        BY <3>3, <3>4
    <3>7. Found(c)
        BY <2>1, <3>5, <3>6
    <3>8. F[o] = F[c]
        BY <1>1, <2>2, <2>4
    <3> QED
        BY <2>2, <3>7, <3>8
  <2> QED
    BY <2>3, <2>4
<1>3. Both(Top)
    BY PresentBelowTop, NotesAssumption
<1>4. Found(Top)
    BY <1>0, <1>2, <1>3
<1> QED
    BY <1>1, <1>4

\* A stretch of an owner's children.
LEMMA StretchBelow ==
    ASSUME NEW T \in Lists, NEW o \in Owners, NEW i \in DOMAIN T[o], NEW j \in DOMAIN T[o], i <= j
    PROVE  ToSet(SubSeq(T[o], i, j)) \subseteq IsBelow(T, o)
<1>1. T[o] \in Seq(Notes) /\ DOMAIN T[o] = 1..Len(T[o])
    BY BelowNotes
<1>2. ToSet(SubSeq(T[o], i, j)) = {T[o][k] : k \in i..j}
    BY <1>1, SubSeqMembers
<1>3. \A k \in i..j : k \in DOMAIN T[o]
    BY <1>1
<1> QED
    BY <1>2, <1>3, BelowNotes

\* The heads are a stretch of an owner's children.
LEMMA HeadsStretch ==
    ASSUME NEW T, IsTree(T), NEW a \in Present(T), NEW f \in Present(T)
    PROVE  \E o \in Owners : \E i, j \in DOMAIN T[o] :
               i <= j /\ HeadsBetween(T, a, f) = SubSeq(T[o], i, j)
<1>1. PICK o \in Owners : EndsAt(T, o, a, f) /\ HeadsBetween(T, a, f) = HeadsHere(T, o, a, f)
    BY HeadsFound
<1>2. /\ Min(Sides(T, o, a, f)) \in DOMAIN T[o] /\ Max(Sides(T, o, a, f)) \in DOMAIN T[o]
      /\ Min(Sides(T, o, a, f)) <= Max(Sides(T, o, a, f))
    BY <1>1, SidesAre DEF EndsAt
<1> QED
    BY <1>1, <1>2 DEF HeadsHere

\* From a note to itself there is one head, the note.
LEMMA HeadsOne ==
    ASSUME NEW T, IsTree(T), NEW a \in Present(T)
    PROVE  HeadsBetween(T, a, a) = <<a>>
<1>1. PICK o \in Owners : EndsAt(T, o, a, a) /\ HeadsBetween(T, a, a) = HeadsHere(T, o, a, a)
    BY HeadsFound
<1>2. PICK k \in DOMAIN T[o] : a \in Subtree(T, T[o][k])
    BY <1>1, SidesAre DEF EndsAt
<1>3. HeadsHere(T, o, a, a) = <<T[o][k]>> /\ ~(T[o][k] \notin {a, a})
  <2>1. /\ Cardinality(Sides(T, o, a, a)) = 1 /\ Min(Sides(T, o, a, a)) = k
        /\ HeadsHere(T, o, a, a) = <<T[o][k]>>
    BY <1>2, OneSide
  <2> QED
    BY <1>1, <2>1 DEF EndsAt, GoesOn
<1> QED
    BY <1>1, <1>3

\* No owner is below one of its children.
LEMMA OwnerNotBelow ==
    ASSUME NEW T, IsTree(T), NEW o \in Owners, NEW c \in IsBelow(T, o)
    PROVE  o \notin Subtree(T, c)
<1>0. T \in Lists /\ OneOwner(T) /\ Descends(T)
    BY DEF IsTree
<1> SUFFICES ASSUME o \in Subtree(T, c) PROVE FALSE
    OBVIOUS
<1>1. c \in Subtree(T, o) /\ c \in Owners
    BY <1>0, SubtreeHas, BelowNotes
<1>2. o = c
    BY <1>0, <1>1, SubtreeAntisym
<1>3. PICK p \in {o} : IsBelow(T, p) \cap {o} = {}
    BY <1>0 DEF Descends
<1> QED
    BY <1>2, <1>3

\* From a note to one in a sibling's subtree, or in its own: the siblings from the
\* one to the other.
LEMMA HeadsSiblings ==
    ASSUME NEW T, IsTree(T), NEW o \in Owners, NEW i \in DOMAIN T[o], NEW j \in DOMAIN T[o],
           i <= j, NEW x \in Subtree(T, T[o][j])
    PROVE  HeadsBetween(T, T[o][i], x) = SubSeq(T[o], i, j)
<1> DEFINE a == T[o][i]  l == T[o][j]
<1>0. T \in Lists /\ OneOwner(T) /\ Descends(T)
    BY DEF IsTree
<1>1. a \in IsBelow(T, o) /\ l \in IsBelow(T, o) /\ a \in Owners /\ l \in Owners /\ a \in Notes
    BY <1>0, BelowNotes
<1>2. a \in Subtree(T, o) /\ l \in Subtree(T, o) /\ x \in Subtree(T, o)
  <2>1. a \in Subtree(T, o) /\ l \in Subtree(T, o)
    BY <1>0, <1>1, SubtreeHas
  <2>2. Subtree(T, l) \subseteq Subtree(T, o)
    BY <1>0, <2>1, SubtreeTrans
  <2> QED
    BY <2>1, <2>2
<1>3. a \in Present(T)
    BY <1>0, BelowNotes
<1>4. x \in Present(T)
  <2>1. Top \in Owners /\ Subtree(T, Top) = Present(T) \cup {Top}
    BY PresentBelowTop DEF Owners
  <2>2. l \in Subtree(T, Top)
    BY <1>0, <2>1, BelowNotes
  <2>3. x \in Subtree(T, Top)
    BY <1>0, <2>1, <2>2, SubtreeTrans
  <2>4. x # Top
    <3> SUFFICES ASSUME x = Top PROVE FALSE
        OBVIOUS
    <3>1. l = Top
        BY <1>0, <2>1, <2>2, SubtreeAntisym
    <3> QED
        BY <1>0, <3>1, BelowNotes, NotesAssumption
  <2> QED
    BY <2>1, <2>3, <2>4
<1>5. PICK p \in Owners : EndsAt(T, p, a, x) /\ HeadsBetween(T, a, x) = HeadsHere(T, p, a, x)
    BY <1>3, <1>4, HeadsFound
<1>6. p = o
  <2> SUFFICES ASSUME p # o PROVE FALSE
    OBVIOUS
  <2>1. a \in Subtree(T, p) /\ a # p /\ x \in Subtree(T, p)
    BY <1>5 DEF EndsAt
  <2>2. o \in Subtree(T, p)
    BY <1>0, <1>1, <2>1, SubtreeOwner
  <2>3. PICK c \in IsBelow(T, p) : o \in Subtree(T, c)
    BY <1>0, <2>2, SubtreeSplit
  <2>4. PICK k \in DOMAIN T[p] : T[p][k] = c
    BY <2>3 DEF IsBelow, ToSet
  <2>5. c \in Owners
    BY <1>0, <2>3, BelowNotes
  <2>6. {a, x} \subseteq Subtree(T, c)
    BY <1>0, <1>2, <2>3, <2>5, SubtreeTrans
  <2>7. Cardinality(Sides(T, p, a, x)) = 1 /\ Min(Sides(T, p, a, x)) = k
    BY <2>4, <2>6, OneSide
  <2>8. c = a \/ c = x
    BY <1>5, <2>4, <2>7 DEF EndsAt, GoesOn
  <2>9. o \notin Subtree(T, a) /\ o \notin Subtree(T, l)
    BY <1>1, OwnerNotBelow
  <2>10. Subtree(T, x) \subseteq Subtree(T, l)
    BY <1>0, <1>1, SubtreeTrans
  <2> QED
    BY <2>3, <2>8, <2>9, <2>10
<1>7. Sides(T, o, a, x) = {i, j}
  <2>1. \A k \in DOMAIN T[o] : k # i => a \notin Subtree(T, T[o][k])
    <3> SUFFICES ASSUME NEW k \in DOMAIN T[o], k # i, a \in Subtree(T, T[o][k]) PROVE FALSE
        OBVIOUS
    <3>1. T[o][k] \in IsBelow(T, o) /\ T[o][k] # a
        BY <1>0, BelowNotes DEF OneOwner
    <3>2. Subtree(T, T[o][k]) \cap Subtree(T, a) = {}
        BY <1>0, <1>1, <3>1, SiblingsApart
    <3> QED
        BY <1>0, <1>1, <3>2, SubtreeHas
  <2>2. \A k \in DOMAIN T[o] : k # j => x \notin Subtree(T, T[o][k])
    <3> SUFFICES ASSUME NEW k \in DOMAIN T[o], k # j, x \in Subtree(T, T[o][k]) PROVE FALSE
        OBVIOUS
    <3>1. T[o][k] \in IsBelow(T, o) /\ T[o][k] # l
        BY <1>0, BelowNotes DEF OneOwner
    <3>2. Subtree(T, T[o][k]) \cap Subtree(T, l) = {}
        BY <1>0, <1>1, <3>1, SiblingsApart
    <3> QED
        BY <3>2
  <2>3. a \in Subtree(T, T[o][i])
    BY <1>0, <1>1, SubtreeHas
  <2> QED
    BY <2>1, <2>2, <2>3 DEF Sides
<1>8. Min({i, j}) = i /\ Max({i, j}) = j
  <2>1. i \in Nat /\ j \in Nat
    BY <1>0, BelowNotes
  <2>2. Min({i, j}) \in {i, j} /\ \A k \in {i, j} : Min({i, j}) <= k
    BY <2>1, MinIs
  <2>3. Max({i, j}) \in {i, j} /\ \A k \in {i, j} : Max({i, j}) >= k
    BY <2>1, MaxIs, {i, j} \in SUBSET (0..j)
  <2> QED
    BY <2>1, <2>2, <2>3
<1> QED
    BY <1>5, <1>6, <1>7, <1>8 DEF HeadsHere

\* The heads between two notes of a subtree are in it.
LEMMA HeadsBelow ==
    ASSUME NEW T, IsTree(T), NEW z \in Owners, NEW a \in Subtree(T, z), NEW f \in Subtree(T, z),
           a \in Present(T), f \in Present(T)
    PROVE  ToSet(HeadsBetween(T, a, f)) \subseteq Subtree(T, z)
<1>0. T \in Lists /\ OneOwner(T) /\ Descends(T)
    BY DEF IsTree
<1>1. PICK o \in Owners : EndsAt(T, o, a, f) /\ HeadsBetween(T, a, f) = HeadsHere(T, o, a, f)
    BY HeadsFound
<1>2. CASE o \in Subtree(T, z)
  <2>1. /\ Min(Sides(T, o, a, f)) \in DOMAIN T[o] /\ Max(Sides(T, o, a, f)) \in DOMAIN T[o]
        /\ Min(Sides(T, o, a, f)) <= Max(Sides(T, o, a, f))
    BY <1>1, SidesAre DEF EndsAt
  <2>2. T[o] \in Seq(Notes)
    BY <1>0, BelowNotes
  <2> DEFINE lo == Min(Sides(T, o, a, f))  hi == Max(Sides(T, o, a, f))
  <2>3. HeadsHere(T, o, a, f) = SubSeq(T[o], lo, hi)
    BY DEF HeadsHere
  <2>4. lo \in DOMAIN T[o] /\ hi \in DOMAIN T[o] /\ lo <= hi
    BY <2>1
  <2> HIDE DEF lo, hi
  <2>5. ToSet(HeadsHere(T, o, a, f)) \subseteq IsBelow(T, o)
    BY <1>0, <2>3, <2>4, StretchBelow
  <2> QED
    BY <1>0, <1>1, <1>2, <2>5, SubtreeClosed
<1>3. CASE o \notin Subtree(T, z)
  <2>1. z \in Subtree(T, o)
    BY <1>0, <1>1, <1>3, SubtreeChain DEF EndsAt
  <2>2. z # o
    BY <1>0, <1>3, SubtreeHas
  <2>3. PICK c \in IsBelow(T, o) : z \in Subtree(T, c)
    BY <1>0, <2>1, <2>2, SubtreeSplit
  <2>4. PICK k \in DOMAIN T[o] : T[o][k] = c
    BY <2>3 DEF IsBelow, ToSet
  <2>5. c \in Owners
    BY <1>0, <2>3, BelowNotes
  <2>6. {a, f} \subseteq Subtree(T, c)
    BY <1>0, <2>3, <2>5, SubtreeTrans
  <2>7. /\ Cardinality(Sides(T, o, a, f)) = 1 /\ Min(Sides(T, o, a, f)) = k
        /\ HeadsHere(T, o, a, f) = <<c>>
    BY <2>4, <2>6, OneSide
  <2>8. c \in {a, f}
    BY <1>1, <2>4, <2>7 DEF EndsAt, GoesOn
  <2>9. ToSet(<<c>>) = {c}
    BY DEF ToSet
  <2> QED
    BY <1>1, <2>7, <2>8, <2>9
<1> QED
    BY <1>2, <1>3
-----------------------------------------------------------------------------
(* Sequences without repetitions                                           *)

\* Induction up to a number.
LEMMA UpTo ==
    ASSUME NEW n \in Nat, NEW S, 0 \in S, \A i \in 1..n : i - 1 \in S => i \in S
    PROVE  0..n \subseteq S
<1> DEFINE Bad == {i \in 0..n : i \notin S}
<1> SUFFICES ASSUME Bad # {} PROVE FALSE
    OBVIOUS
<1>1. Bad \in SUBSET Nat
    OBVIOUS
<1>2. PICK m \in Bad : \A i \in Bad : m <= i
  <2> HIDE DEF Bad
  <2> QED
    BY <1>1, LeastNat
<1>3. m \in 1..n /\ m - 1 \in 0..n /\ ~(m <= m - 1)
    OBVIOUS
<1>4. m - 1 \in S
    BY <1>2, <1>3
<1> QED
    BY <1>3, <1>4

NoDup(s) == \A i, j \in DOMAIN s : s[i] = s[j] => i = j

\* Sequences one after the other: their members and their repetitions.
LEMMA ConcatIs ==
    ASSUME NEW S, NEW s \in Seq(S), NEW t \in Seq(S)
    PROVE  /\ s \o t \in Seq(S)
           /\ ToSet(s \o t) = ToSet(s) \cup ToSet(t)
           /\ NoDup(s \o t) <=> NoDup(s) /\ NoDup(t) /\ ToSet(s) \cap ToSet(t) = {}
<1> DEFINE u == s \o t  m == Len(s)  n == Len(t)
<1>1. /\ u \in Seq(S) /\ Len(u) = m + n
      /\ \A i \in 1..(m + n) : u[i] = IF i <= m THEN s[i] ELSE t[i - m]
    BY ConcatProperties
<1>2. m \in Nat /\ n \in Nat /\ DOMAIN s = 1..m /\ DOMAIN t = 1..n
    OBVIOUS
<1> HIDE DEF u, m, n
<1>3. DOMAIN u = 1..(m + n)
    BY <1>1, <1>2
<1>4. \A i \in 1..m : i \in 1..(m + n) /\ u[i] = s[i]
    BY <1>1, <1>2
<1>5. \A i \in 1..n : m + i \in 1..(m + n) /\ ~(m + i <= m) /\ u[m + i] = t[i]
  <2> SUFFICES ASSUME NEW i \in 1..n
               PROVE  m + i \in 1..(m + n) /\ ~(m + i <= m) /\ u[m + i] = t[i]
    OBVIOUS
  <2> DEFINE k == m + i
  <2>1. k \in 1..(m + n) /\ ~(k <= m) /\ k - m = i
    BY <1>2
  <2> HIDE DEF k
  <2>2. u[k] = IF k <= m THEN s[k] ELSE t[k - m]
    BY <1>1, <2>1
  <2>3. u[k] = t[i]
    BY <2>1, <2>2
  <2> QED
    BY <2>1, <2>3 DEF k
<1>6. \A i \in 1..(m + n) : i \in 1..m \/ \E k \in 1..n : i = m + k
  <2> SUFFICES ASSUME NEW i \in 1..(m + n), i \notin 1..m PROVE \E k \in 1..n : i = m + k
    OBVIOUS
  <2>1. i - m \in 1..n /\ i = m + (i - m)
    BY <1>2
  <2> QED
    BY <2>1
<1>7. ToSet(u) = ToSet(s) \cup ToSet(t)
  <2>0. /\ ToSet(u) = {u[i] : i \in 1..(m + n)} /\ ToSet(s) = {s[i] : i \in 1..m}
        /\ ToSet(t) = {t[i] : i \in 1..n}
    BY <1>2, <1>3 DEF ToSet
  <2>1. \A i \in 1..m : s[i] \in ToSet(u)
    BY <1>4, <2>0
  <2>2. \A i \in 1..n : t[i] \in ToSet(u)
    BY <1>5, <2>0
  <2>3. \A i \in 1..(m + n) : u[i] \in ToSet(s) \cup ToSet(t)
    <3> SUFFICES ASSUME NEW i \in 1..(m + n) PROVE u[i] \in ToSet(s) \cup ToSet(t)
        OBVIOUS
    <3>1. CASE i \in 1..m
        BY <1>4, <2>0, <3>1
    <3>2. ASSUME NEW k \in 1..n, i = m + k PROVE u[i] \in ToSet(t)
        BY <1>5, <2>0, <3>2
    <3> QED
        BY <1>6, <3>1, <3>2
  <2> QED
    BY <2>0, <2>1, <2>2, <2>3
<1>8. ASSUME NoDup(u) PROVE NoDup(s) /\ NoDup(t) /\ ToSet(s) \cap ToSet(t) = {}
  <2>1. NoDup(s)
    BY <1>2, <1>3, <1>4, <1>8 DEF NoDup
  <2>2. NoDup(t)
    <3> SUFFICES ASSUME NEW i \in 1..n, NEW j \in 1..n, t[i] = t[j] PROVE i = j
        BY <1>2 DEF NoDup
    <3>1. u[m + i] = u[m + j] /\ m + i \in DOMAIN u /\ m + j \in DOMAIN u
        BY <1>3, <1>5
    <3>2. m + i = m + j
        BY <1>8, <3>1 DEF NoDup
    <3> QED
        BY <1>2, <3>2
  <2>3. ToSet(s) \cap ToSet(t) = {}
    <3> SUFFICES ASSUME NEW i \in 1..m, NEW j \in 1..n, s[i] = t[j] PROVE FALSE
        BY <1>2 DEF ToSet
    <3>1. u[i] = u[m + j] /\ i \in DOMAIN u /\ m + j \in DOMAIN u
        BY <1>3, <1>4, <1>5
    <3>2. i = m + j
        BY <1>8, <3>1 DEF NoDup
    <3> QED
        BY <1>2, <3>2
  <2> QED
    BY <2>1, <2>2, <2>3
<1>9. ASSUME NoDup(s), NoDup(t), ToSet(s) \cap ToSet(t) = {} PROVE NoDup(u)
  <2> SUFFICES ASSUME NEW i \in 1..(m + n), NEW j \in 1..(m + n), u[i] = u[j] PROVE i = j
    BY <1>3 DEF NoDup
  <2>1. \A k \in 1..m : s[k] \in ToSet(s)
    BY <1>2 DEF ToSet
  <2>2. \A k \in 1..n : t[k] \in ToSet(t)
    BY <1>2 DEF ToSet
  <2>3. CASE i \in 1..m /\ j \in 1..m
    BY <1>2, <1>4, <1>9, <2>3 DEF NoDup
  <2>4. ASSUME NEW k \in 1..n, i = m + k, NEW l \in 1..n, j = m + l PROVE i = j
    <3>1. t[k] = t[l]
        BY <1>5, <2>4
    <3>2. k = l
        BY <1>2, <1>9, <3>1 DEF NoDup
    <3> QED
        BY <2>4, <3>2
  <2>5. ASSUME NEW k \in 1..n, i = m + k, j \in 1..m PROVE FALSE
    BY <1>4, <1>5, <1>9, <2>1, <2>2, <2>5
  <2>6. ASSUME NEW k \in 1..n, j = m + k, i \in 1..m PROVE FALSE
    BY <1>4, <1>5, <1>9, <2>1, <2>2, <2>6
  <2> QED
    BY <1>6, <2>3, <2>4, <2>5, <2>6
<1> QED
    BY <1>1, <1>7, <1>8, <1>9 DEF u

\* A sequence spliced into another.
LEMMA SpliceIs ==
    ASSUME NEW S, NEW s \in Seq(S), NEW t \in Seq(S), NEW i \in 1..(Len(s) + 1)
    PROVE  /\ Splice(s, i, t) \in Seq(S)
           /\ ToSet(Splice(s, i, t)) = ToSet(s) \cup ToSet(t)
           /\ NoDup(s) /\ NoDup(t) /\ ToSet(s) \cap ToSet(t) = {} => NoDup(Splice(s, i, t))
<1> DEFINE u == SubSeq(s, 1, i - 1)  v == SubSeq(s, i, Len(s))
<1>0. Len(s) \in Nat /\ i \in Nat /\ i >= 1 /\ i <= Len(s) + 1
    OBVIOUS
<1>1. u \in Seq(S) /\ v \in Seq(S)
  <2>1. \A k \in 1..(i - 1) : s[k] \in S
    BY <1>0
  <2>2. \A k \in i..Len(s) : s[k] \in S
    BY <1>0
  <2> QED
    BY <1>0, <2>1, <2>2, SubSeqProperties
<1>2. u \o v = s
  <2>1. SubSeq(s, 1, Len(s)) = s
    BY SubSeqFull
  <2>2. u \o SubSeq(s, (i - 1) + 1, Len(s)) = SubSeq(s, 1, Len(s))
    <3> DEFINE k == i - 1  n == Len(s)
    <3>1. 1 \in 1..(n + 1) /\ k \in (1 - 1)..n /\ n \in k..n
        BY <1>0
    <3>2. ASSUME NEW j \in (1 - 1)..n, n \in j..n
          PROVE  SubSeq(s, 1, j) \o SubSeq(s, j + 1, n) = SubSeq(s, 1, n)
        BY <3>1, <3>2, ConcatAdjacentSubSeq
    <3> QED
        BY <3>1, <3>2
  <2>3. (i - 1) + 1 = i
    BY <1>0
  <2> QED
    BY <2>1, <2>2, <2>3
<1>3. Splice(s, i, t) = (u \o t) \o v
    BY DEF Splice
<1> HIDE DEF u, v
<1>4. /\ u \o t \in Seq(S) /\ ToSet(u \o t) = ToSet(u) \cup ToSet(t)
      /\ NoDup(u \o t) <=> NoDup(u) /\ NoDup(t) /\ ToSet(u) \cap ToSet(t) = {}
    BY <1>1, ConcatIs
<1>5. /\ ToSet(s) = ToSet(u) \cup ToSet(v)
      /\ NoDup(s) <=> NoDup(u) /\ NoDup(v) /\ ToSet(u) \cap ToSet(v) = {}
    BY <1>1, <1>2, ConcatIs
<1>6. /\ (u \o t) \o v \in Seq(S) /\ ToSet((u \o t) \o v) = ToSet(u \o t) \cup ToSet(v)
      /\ NoDup((u \o t) \o v) <=> NoDup(u \o t) /\ NoDup(v) /\ ToSet(u \o t) \cap ToSet(v) = {}
    BY <1>1, <1>4, ConcatIs
<1> QED
    BY <1>3, <1>4, <1>5, <1>6

\* What is left without the members of X, step by step.
KeepsIn(f, s, X) ==
    \A i \in 0..Len(s) :
        f[i] = IF i = 0 THEN <<>>
               ELSE IF s[i] \in X THEN f[i - 1] ELSE Append(f[i - 1], s[i])

\* The steps of Without.
LEMMA WithoutSteps ==
    ASSUME NEW s, NEW X, Len(s) \in Nat
    PROVE  \E f : Without(s, X) = f[Len(s)] /\ KeepsIn(f, s, X)
<1> DEFINE Sol(f, n) == f = [i \in 0..n |-> IF i = 0 THEN <<>>
                                ELSE IF s[i] \in X THEN f[i - 1] ELSE Append(f[i - 1], s[i])]
           Good == {n \in 0..Len(s) : \E f : Sol(f, n)}
           F == CHOOSE f : Sol(f, Len(s))
<1>1. 0 \in Good
  <2> DEFINE h == [i \in 0..0 |-> <<>>]
  <2>1. h = [i \in 0..0 |-> h[i]] /\ \A i \in 0..0 : i = 0 /\ h[i] = <<>>
    OBVIOUS
  <2> HIDE DEF h
  <2>2. Sol(h, 0)
    BY <2>1
  <2> QED
    BY <2>2
<1>2. ASSUME NEW n \in 1..Len(s), n - 1 \in Good PROVE n \in Good
  <2>1. PICK g : Sol(g, n - 1)
    BY <1>2
  <2> DEFINE v == IF s[n] \in X THEN g[n - 1] ELSE Append(g[n - 1], s[n])
             h == [i \in 0..n |-> IF i = n THEN v ELSE g[i]]
  <2>2. \A i \in 0..(n - 1) : h[i] = g[i]
    OBVIOUS
  <2>3. \A i \in 0..(n - 1) : g[i] = IF i = 0 THEN <<>>
                                ELSE IF s[i] \in X THEN g[i - 1] ELSE Append(g[i - 1], s[i])
    BY <2>1
  <2>4. h[n] = v
    OBVIOUS
  <2>5. n - 1 \in 0..(n - 1) /\ n # 0
    OBVIOUS
  <2>6. h[n] = IF s[n] \in X THEN h[n - 1] ELSE Append(h[n - 1], s[n])
    BY <2>2, <2>4, <2>5
  <2>7. h = [i \in 0..n |-> h[i]]
    OBVIOUS
  <2> HIDE DEF h, v
  <2>8. ASSUME NEW i \in 0..n
        PROVE  h[i] = IF i = 0 THEN <<>>
                      ELSE IF s[i] \in X THEN h[i - 1] ELSE Append(h[i - 1], s[i])
    <3>1. CASE i = n
        BY <2>5, <2>6, <3>1
    <3>2. CASE i # n
      <4>1. i \in 0..(n - 1)
        BY <3>2
      <4>2. i # 0 => i - 1 \in 0..(n - 1)
        BY <4>1
      <4> QED
        BY <2>2, <2>3, <4>1, <4>2
    <3> QED
        BY <3>1, <3>2
  <2>9. Sol(h, n)
    BY <2>7, <2>8
  <2> QED
    BY <2>9
<1>3. Len(s) \in Good
  <2> HIDE DEF Good
  <2>1. 0..Len(s) \subseteq Good
    BY <1>1, <1>2, UpTo
  <2> QED
    BY <2>1
<1>4. Sol(F, Len(s))
    BY <1>3
<1>5. Without(s, X) = F[Len(s)]
    BY DEF Without
<1> HIDE DEF F
<1>6. KeepsIn(F, s, X)
    BY <1>4 DEF KeepsIn
<1> QED
    BY <1>5, <1>6

\* The members that are left, without repetitions if there were none.
LEMMA WithoutIs ==
    ASSUME NEW S, NEW s \in Seq(S), NEW X
    PROVE  /\ Without(s, X) \in Seq(S)
           /\ ToSet(Without(s, X)) = ToSet(s) \ X
           /\ NoDup(s) => NoDup(Without(s, X))
<1>0. Len(s) \in Nat /\ DOMAIN s = 1..Len(s)
    OBVIOUS
<1>1. PICK f : Without(s, X) = f[Len(s)] /\ KeepsIn(f, s, X)
    BY <1>0, WithoutSteps
<1> DEFINE Seen(i) == {s[k] : k \in 1..i}
           Good(i) == /\ f[i] \in Seq(S) /\ ToSet(f[i]) = Seen(i) \ X
                      /\ NoDup(s) => NoDup(f[i])
           G == {i \in 0..Len(s) : Good(i)}
<1>2. 0 \in G
  <2>1. f[0] = <<>>
    BY <1>0, <1>1 DEF KeepsIn
  <2>2. ToSet(f[0]) = {} /\ f[0] \in Seq(S) /\ NoDup(f[0])
    BY <2>1 DEF ToSet, NoDup
  <2>3. Seen(0) = {}
    OBVIOUS
  <2> QED
    BY <1>0, <2>2, <2>3
<1>3. ASSUME NEW i \in 1..Len(s), i - 1 \in G PROVE i \in G
  <2>1. /\ f[i - 1] \in Seq(S) /\ ToSet(f[i - 1]) = Seen(i - 1) \ X
        /\ NoDup(s) => NoDup(f[i - 1])
    BY <1>3
  <2>2. f[i] = IF s[i] \in X THEN f[i - 1] ELSE Append(f[i - 1], s[i])
    BY <1>0, <1>1 DEF KeepsIn
  <2>3. Seen(i) = Seen(i - 1) \cup {s[i]}
    <3>1. 1..i = 1..(i - 1) \cup {i}
        OBVIOUS
    <3> QED
        BY <3>1
  <2>4. NoDup(s) => s[i] \notin Seen(i - 1)
    <3> SUFFICES ASSUME NoDup(s), NEW k \in 1..(i - 1), s[k] = s[i] PROVE FALSE
        OBVIOUS
    <3>1. k \in DOMAIN s /\ i \in DOMAIN s /\ k # i
        BY <1>0
    <3> QED
        BY <3>1 DEF NoDup
  <2>5. s[i] \in S /\ i \in 0..Len(s)
    BY <1>0
  <2> HIDE DEF Seen
  <2>6. CASE s[i] \in X
    BY <2>1, <2>2, <2>3, <2>5, <2>6
  <2>7. CASE s[i] \notin X
    <3> DEFINE t == <<s[i]>>
    <3>1. t \in Seq(S) /\ ToSet(t) = {s[i]} /\ NoDup(t)
        BY <2>5 DEF ToSet, NoDup
    <3>2. f[i] = f[i - 1] \o t
        BY <2>1, <2>2, <2>5, <2>7, AppendIsConcat
    <3> HIDE DEF t
    <3>3. /\ f[i - 1] \o t \in Seq(S)
          /\ ToSet(f[i - 1] \o t) = ToSet(f[i - 1]) \cup ToSet(t)
          /\ NoDup(f[i - 1] \o t) <=>
                NoDup(f[i - 1]) /\ NoDup(t) /\ ToSet(f[i - 1]) \cap ToSet(t) = {}
        BY <2>1, <3>1, ConcatIs
    <3> QED
        BY <2>1, <2>3, <2>4, <2>5, <2>7, <3>1, <3>2, <3>3
  <2> QED
    BY <2>6, <2>7
<1>4. Len(s) \in G
  <2> HIDE DEF G
  <2>1. 0..Len(s) \subseteq G
    BY <1>0, <1>2, <1>3, UpTo
  <2> QED
    BY <1>0, <2>1
<1>5. Seen(Len(s)) = ToSet(s)
    BY <1>0 DEF ToSet
<1> QED
    BY <1>1, <1>4, <1>5
-----------------------------------------------------------------------------
(* Edits keep the tree                                                     *)

\* One owner for every note, said of whole lists.
LEMMA OneOwnerIs ==
    ASSUME NEW K \in Lists
    PROVE  OneOwner(K) <=>
              /\ \A o \in Owners : NoDup(K[o])
              /\ \A o, p \in Owners : o # p => IsBelow(K, o) \cap IsBelow(K, p) = {}
<1>1. ASSUME OneOwner(K), NEW o \in Owners PROVE NoDup(K[o])
    BY <1>1 DEF OneOwner, NoDup
<1>2. ASSUME OneOwner(K), NEW o \in Owners, NEW p \in Owners, o # p
      PROVE  IsBelow(K, o) \cap IsBelow(K, p) = {}
    BY <1>2, OwnerIsOne
<1>3. ASSUME \A o \in Owners : NoDup(K[o]),
             \A o, p \in Owners : o # p => IsBelow(K, o) \cap IsBelow(K, p) = {},
             NEW o \in Owners, NEW p \in Owners, NEW i \in DOMAIN K[o], NEW j \in DOMAIN K[p],
             K[o][i] = K[p][j]
      PROVE  o = p /\ i = j
  <2>1. K[o][i] \in IsBelow(K, o) /\ K[p][j] \in IsBelow(K, p)
    BY BelowNotes
  <2>2. o = p
    BY <1>3, <2>1
  <2> QED
    BY <1>3, <2>2 DEF NoDup
<1> QED
    BY <1>1, <1>2, <1>3 DEF OneOwner

Inserted(K, n, o, i, M) == M = [K EXCEPT ![o] = Splice(@, i, <<n>>)]

\* A new note.
LEMMA InsertKeepsTree ==
    ASSUME NEW K, IsTree(K), NEW n \in Notes \ Present(K), NEW o \in {Top} \cup Present(K),
           NEW i \in 1..(Len(K[o]) + 1), NEW M, Inserted(K, n, o, i, M)
    PROVE  /\ IsTree(M) /\ Present(M) = Present(K) \cup {n}
           /\ \A p \in Owners : IsBelow(K, p) \subseteq IsBelow(M, p)
<1>0. K \in Lists /\ OneOwner(K) /\ Descends(K) /\ o \in Owners /\ o # n /\ n \in Owners
    BY PresentBelowTop, NotesAssumption DEF IsTree, Owners
<1>1. K[o] \in Seq(Notes)
    BY <1>0, BelowNotes
<1> DEFINE t == <<n>>  s == Splice(K[o], i, t)
<1>2. t \in Seq(Notes) /\ ToSet(t) = {n} /\ NoDup(t)
    BY DEF ToSet, NoDup
<1>a. M = [K EXCEPT ![o] = s]
    BY DEF Inserted
<1> HIDE DEF t
<1>3. /\ s \in Seq(Notes) /\ ToSet(s) = ToSet(K[o]) \cup ToSet(t)
      /\ NoDup(K[o]) /\ NoDup(t) /\ ToSet(K[o]) \cap ToSet(t) = {} => NoDup(s)
    BY <1>1, <1>2, SpliceIs
<1> HIDE DEF s
<1>4. M \in Lists /\ M[o] = s /\ \A p \in Owners : p # o => M[p] = K[p]
    BY <1>0, <1>3, <1>a DEF Lists
<1>5. \A p \in Owners : n \notin IsBelow(K, p)
    BY DEF Present, IsBelow
<1>6. /\ IsBelow(M, o) = IsBelow(K, o) \cup {n}
      /\ \A p \in Owners : p # o => IsBelow(M, p) = IsBelow(K, p)
    BY <1>2, <1>3, <1>4 DEF IsBelow
<1>7. Present(M) = Present(K) \cup {n}
    BY <1>0, <1>6 DEF Present, IsBelow
<1>8. OneOwner(M)
  <2>1. NoDup(s)
    BY <1>0, <1>2, <1>3, <1>5, OneOwnerIs DEF IsBelow
  <2>2. \A p \in Owners : NoDup(M[p])
    BY <1>0, <1>4, <2>1, OneOwnerIs
  <2>3. \A p, q \in Owners : p # q => IsBelow(K, p) \cap IsBelow(K, q) = {}
    BY <1>0, OneOwnerIs
  <2>4. \A p, q \in Owners : p # q => IsBelow(M, p) \cap IsBelow(M, q) = {}
    <3> SUFFICES ASSUME NEW p \in Owners, NEW q \in Owners, p # q, NEW x,
                        x \in IsBelow(M, p), x \in IsBelow(M, q)
                 PROVE  FALSE
        OBVIOUS
    <3>0. \A r \in Owners : IsBelow(M, r) \subseteq IsBelow(K, r) \cup {n}
        BY <1>6
    <3>1. x \in IsBelow(K, p) \cap IsBelow(K, q) \/ x = n
        BY <3>0
    <3>2. CASE x = n
        BY <1>5, <1>6, <3>2
    <3> QED
        BY <2>3, <3>1, <3>2
  <2> QED
    BY <1>4, <2>2, <2>4, OneOwnerIs
<1>9. K[n] = <<>> /\ IsBelow(K, n) = {} /\ IsBelow(M, n) = {}
  <2>1. K[n] = <<>>
    BY DEF IsTree, AbsentEmpty
  <2> QED
    BY <1>0, <1>6, <2>1 DEF IsBelow, ToSet
<1>10. AbsentEmpty(M)
  <2> SUFFICES ASSUME NEW p \in Notes \ Present(M) PROVE M[p] = <<>>
    BY DEF AbsentEmpty
  <2>1. p # o /\ p \notin Present(K) /\ p \in Owners
    BY <1>7, NotesAssumption DEF Owners
  <2> QED
    BY <1>4, <2>1 DEF IsTree, AbsentEmpty
<1>11. Descends(M)
  <2> SUFFICES ASSUME NEW S \in SUBSET Owners, S # {} PROVE \E p \in S : IsBelow(M, p) \cap S = {}
    BY DEF Descends
  <2>1. CASE n \in S
    BY <1>9, <2>1
  <2>2. CASE n \notin S
    <3>1. PICK p \in S : IsBelow(K, p) \cap S = {}
        BY <1>0 DEF Descends
    <3> QED
        BY <1>6, <2>2, <3>1
  <2> QED
    BY <2>1, <2>2
<1>12. Hangs(M)
  <2> SUFFICES ASSUME NEW S \in SUBSET Present(M), S # {}
               PROVE  \E p \in Owners \ S : IsBelow(M, p) \cap S # {}
    BY DEF Hangs
  <2>1. CASE S = {n}
    BY <1>0, <1>6, <2>1
  <2>2. CASE S # {n}
    <3>1. S \ {n} \in SUBSET Present(K) /\ S \ {n} # {}
        BY <1>7, <2>2
    <3>2. PICK p \in Owners \ (S \ {n}) : IsBelow(K, p) \cap (S \ {n}) # {}
        BY <3>1 DEF IsTree, Hangs
    <3>3. p # n
        BY <1>9, <3>2
    <3> QED
        BY <1>6, <3>2, <3>3
  <2> QED
    BY <2>1, <2>2
<1>13. \A p \in Owners : IsBelow(K, p) \subseteq IsBelow(M, p)
    BY <1>6
<1> QED
    BY <1>4, <1>7, <1>8, <1>10, <1>11, <1>12, <1>13 DEF IsTree

\* With more children there is more below.
LEMMA SubtreeGrows ==
    ASSUME NEW K \in Lists, NEW M \in Lists, Descends(K), Descends(M), NEW z \in Owners,
           \A p \in Owners : IsBelow(K, p) \subseteq IsBelow(M, p)
    PROVE  Subtree(K, z) \subseteq Subtree(M, z)
<1>1. Subtree(M, z) \in SUBSET Owners /\ z \in Subtree(M, z)
    BY SubtreeType, SubtreeHas
<1>2. \A q \in Subtree(M, z) : IsBelow(K, q) \subseteq Subtree(M, z)
    BY <1>1, SubtreeClosed
<1> QED
    BY <1>1, <1>2, SubtreeLeast

\* A tree without some of its edges goes down as it did.
LEMMA StillDescends ==
    ASSUME NEW K \in Lists, NEW M \in Lists, Descends(K),
           \A p \in Owners : IsBelow(M, p) \subseteq IsBelow(K, p)
    PROVE  Descends(M)
<1> SUFFICES ASSUME NEW S \in SUBSET Owners, S # {} PROVE \E p \in S : IsBelow(M, p) \cap S = {}
    BY DEF Descends
<1>1. PICK p \in S : IsBelow(K, p) \cap S = {}
    BY DEF Descends
<1> QED
    BY <1>1

Pruned(K, n, M) ==
    M = [o \in Owners |-> IF o \in Subtree(K, n) THEN <<>> ELSE Without(K[o], {n})]

\* A note goes with its subtree.
LEMMA DeleteKeepsTree ==
    ASSUME NEW K, IsTree(K), NEW n \in Present(K), NEW M, Pruned(K, n, M)
    PROVE  /\ IsTree(M) /\ Present(M) = Present(K) \ Subtree(K, n)
           /\ \A z \in Owners \ Subtree(K, n) :
                 Subtree(K, z) \ Subtree(K, n) \subseteq Subtree(M, z)
<1> DEFINE gone == Subtree(K, n)
<1>c. M = [o \in Owners |-> IF o \in gone THEN <<>> ELSE Without(K[o], {n})]
    BY DEF Pruned
<1>0. K \in Lists /\ OneOwner(K) /\ Descends(K) /\ n \in Owners /\ n \in Notes
    BY PresentBelowTop DEF IsTree, Owners
<1>1. /\ \A o \in Owners : Without(K[o], {n}) \in Seq(Notes)
      /\ \A o \in Owners : ToSet(Without(K[o], {n})) = IsBelow(K, o) \ {n}
      /\ \A o \in Owners : NoDup(K[o]) => NoDup(Without(K[o], {n}))
  <2>1. \A o \in Owners : K[o] \in Seq(Notes)
    BY <1>0, BelowNotes
  <2> QED
    BY <2>1, WithoutIs DEF IsBelow
<1>2. M \in Lists
  <2>1. <<>> \in Seq(Notes)
    OBVIOUS
  <2> QED
    BY <1>1, <1>c, <2>1 DEF Lists
<1>a. /\ \A o \in Owners \ gone : M[o] = Without(K[o], {n})
      /\ \A o \in Owners \cap gone : M[o] = <<>>
    BY <1>c
<1>b. ToSet(<<>>) = {}
    BY DEF ToSet
<1>3. /\ \A o \in Owners \ gone : M[o] = Without(K[o], {n}) /\ IsBelow(M, o) = IsBelow(K, o) \ {n}
      /\ \A o \in Owners \cap gone : M[o] = <<>> /\ IsBelow(M, o) = {}
  <2> USE DEF IsBelow
  <2> QED
    BY <1>1, <1>a, <1>b
<1>4. \A o \in Owners : IsBelow(M, o) \subseteq IsBelow(K, o)
    BY <1>3
<1>5. n \in gone /\ gone \subseteq Owners /\ \A o \in gone : IsBelow(K, o) \subseteq gone
    BY <1>0, SubtreeHas, SubtreeType, SubtreeClosed
<1> HIDE DEF gone
<1>6. ASSUME NEW o \in Owners, NEW c \in IsBelow(K, o), c \in gone, c # n PROVE o \in gone
    BY <1>0, <1>6, SubtreeOwner DEF gone
<1>7. Present(M) = Present(K) \ gone
  <2>0. /\ Present(M) = UNION {IsBelow(M, o) : o \in Owners}
        /\ Present(K) = UNION {IsBelow(K, o) : o \in Owners}
    BY DEF Present, IsBelow
  <2>1. ASSUME NEW o \in Owners, NEW c \in IsBelow(M, o) PROVE c \in Present(K) \ gone
    <3>1. o \notin gone /\ c \in IsBelow(K, o) /\ c # n
        BY <1>3, <2>1
    <3> QED
        BY <1>6, <2>0, <3>1
  <2>2. ASSUME NEW o \in Owners, NEW c \in IsBelow(K, o), c \notin gone PROVE c \in Present(M)
    <3>1. o \notin gone /\ c # n
        BY <1>5, <2>2
    <3>2. c \in IsBelow(M, o)
        BY <1>3, <3>1
    <3> QED
        BY <2>0, <3>2
  <2> QED
    BY <2>0, <2>1, <2>2
<1>8. OneOwner(M)
  <2>1. \A o \in Owners : NoDup(M[o])
    <3>1. NoDup(<<>>)
        BY DEF NoDup
    <3>2. \A o \in Owners : NoDup(K[o])
        BY <1>0, OneOwnerIs
    <3> QED
        BY <1>1, <1>3, <3>1, <3>2
  <2>2. \A p, q \in Owners : p # q => IsBelow(K, p) \cap IsBelow(K, q) = {}
    BY <1>0, OneOwnerIs
  <2>3. \A p, q \in Owners : p # q => IsBelow(M, p) \cap IsBelow(M, q) = {}
    BY <1>4, <2>2
  <2> QED
    BY <1>2, <2>1, <2>3, OneOwnerIs
<1>9. AbsentEmpty(M)
  <2> SUFFICES ASSUME NEW p \in Notes \ Present(M), p \notin gone PROVE M[p] = <<>>
    BY <1>3 DEF AbsentEmpty, Owners
  <2>1. p \notin Present(K) /\ p \in Owners /\ p \in Notes
    BY <1>7 DEF Owners
  <2>2. K[p] = <<>>
    BY <2>1 DEF IsTree, AbsentEmpty
  <2>3. IsBelow(K, p) = {}
    BY <1>b, <2>2 DEF IsBelow
  <2>4. IsBelow(M, p) = {} /\ M[p] \in Seq(Notes)
    BY <1>2, <1>4, <2>1, <2>3, BelowNotes
  <2> QED
    BY <1>2, <2>1, <2>4, EmptyBelow
<1>10. Descends(M)
    BY <1>0, <1>2, <1>4, StillDescends
<1>11. Hangs(M)
  <2> SUFFICES ASSUME NEW S \in SUBSET Present(M), S # {}
               PROVE  \E p \in Owners \ S : IsBelow(M, p) \cap S # {}
    BY DEF Hangs
  <2>1. S \in SUBSET Present(K) /\ S \cap gone = {}
    BY <1>7
  <2>2. PICK p \in Owners \ S : IsBelow(K, p) \cap S # {}
    BY <2>1 DEF IsTree, Hangs
  <2>3. PICK c \in S : c \in IsBelow(K, p)
    BY <2>2
  <2>4. p \notin gone /\ c # n
    BY <1>5, <2>1, <2>3
  <2> QED
    BY <1>3, <2>3, <2>4
<1>12. ASSUME NEW z \in Owners \ gone PROVE Subtree(K, z) \ gone \subseteq Subtree(M, z)
  <2> DEFINE S == (Owners \cap gone) \cup Subtree(M, z)
  <2>1. S \in SUBSET Owners /\ z \in S
    BY <1>2, <1>10, SubtreeType, SubtreeHas
  <2>2. ASSUME NEW q \in S, NEW c \in IsBelow(K, q) PROVE c \in S
    <3>1. CASE q \in gone
        BY <1>5, <3>1
    <3>2. CASE q \notin gone /\ c = n
        BY <1>0, <1>5, <3>2
    <3>3. CASE q \notin gone /\ c # n
      <4>1. q \in Subtree(M, z) /\ q \in Owners
        BY <2>1, <3>3
      <4>2. c \in IsBelow(M, q)
        BY <1>3, <3>3, <4>1
      <4> QED
        BY <1>2, <1>10, <4>1, <4>2, SubtreeClosed
    <3> QED
        BY <3>1, <3>2, <3>3
  <2> HIDE DEF S
  <2>3. Subtree(K, z) \subseteq S
    BY <1>0, <2>1, <2>2, SubtreeLeast
  <2> QED
    BY <2>3 DEF S
<1> QED
    BY <1>2, <1>7, <1>8, <1>9, <1>10, <1>11, <1>12 DEF IsTree, gone

\* Below a note there are notes of the document.
LEMMA BelowIsPresent ==
    ASSUME NEW K \in Lists, Descends(K), NEW z \in Owners
    PROVE  Subtree(K, z) \subseteq {z} \cup Present(K)
<1> DEFINE S == ({z} \cup Present(K)) \cap Owners
<1>1. S \in SUBSET Owners /\ z \in S
    OBVIOUS
<1>2. \A q \in S : IsBelow(K, q) \subseteq S
    BY BelowNotes
<1> QED
    BY <1>1, <1>2, SubtreeLeast

\* Notes that are taken out and put elsewhere, outside their subtrees.
LEMMA MoveKeepsTree ==
    ASSUME NEW K, IsTree(K), NEW r \in Seq(Notes), NoDup(r), NEW R, R = ToSet(r), R \subseteq Present(K),
           NEW L, L = TakenOut(K, r),
           NEW o \in {Top} \cup Present(L), \A n \in R : o \notin Subtree(K, n),
           NEW i \in 1..(Len(L[o]) + 1), NEW M, M = PutIn(L, r, o, i)
    PROVE  /\ IsTree(M) /\ Present(M) = Present(K)
           /\ \A z \in Owners : o \in Subtree(L, z) => Subtree(K, z) \subseteq Subtree(M, z)
<1>a. L = [p \in Owners |-> Without(K[p], R)]
    BY DEF TakenOut
<1>b. M = [L EXCEPT ![o] = Splice(@, i, r)]
    BY DEF PutIn
<1>c. o \notin UNION {Subtree(K, n) : n \in R}
    OBVIOUS
<1> DEFINE Below == UNION {Subtree(K, n) : n \in R}
<1>0. K \in Lists /\ OneOwner(K) /\ Descends(K) /\ Present(K) \subseteq Notes /\ R \subseteq Owners
    BY PresentBelowTop DEF IsTree, Owners
<1>1. /\ \A p \in Owners : Without(K[p], R) \in Seq(Notes)
      /\ \A p \in Owners : ToSet(Without(K[p], R)) = IsBelow(K, p) \ R
      /\ \A p \in Owners : NoDup(K[p]) => NoDup(Without(K[p], R))
  <2>1. \A p \in Owners : K[p] \in Seq(Notes)
    BY <1>0, BelowNotes
  <2> QED
    BY <2>1, WithoutIs DEF IsBelow
<1>2. L \in Lists /\ \A p \in Owners : L[p] = Without(K[p], R) /\ IsBelow(L, p) = IsBelow(K, p) \ R
  <2>1. \A p \in Owners : L[p] = Without(K[p], R)
    BY <1>a
  <2>2. L \in Lists
    BY <1>1, <1>a DEF Lists
  <2> QED
    BY <1>1, <2>1, <2>2 DEF IsBelow
<1>3. Descends(L)
    BY <1>0, <1>2, StillDescends
<1>4. Present(L) \subseteq Present(K) /\ o \in Owners /\ o \in {Top} \cup Present(K)
  <2>1. Present(L) \subseteq Present(K)
    BY <1>2 DEF Present, IsBelow
  <2> QED
    BY <1>0, <2>1 DEF Owners
<1> DEFINE s == Splice(L[o], i, r)
<1>5. L[o] \in Seq(Notes)
    BY <1>2, <1>4, BelowNotes
<1>6. /\ s \in Seq(Notes) /\ ToSet(s) = ToSet(L[o]) \cup ToSet(r)
      /\ NoDup(L[o]) /\ NoDup(r) /\ ToSet(L[o]) \cap ToSet(r) = {} => NoDup(s)
  <2> DEFINE l == L[o]
  <2>1. l \in Seq(Notes) /\ i \in 1..(Len(l) + 1)
    BY <1>5
  <2> HIDE DEF l
  <2>2. /\ Splice(l, i, r) \in Seq(Notes) /\ ToSet(Splice(l, i, r)) = ToSet(l) \cup ToSet(r)
        /\ NoDup(l) /\ NoDup(r) /\ ToSet(l) \cap ToSet(r) = {} => NoDup(Splice(l, i, r))
    BY <2>1, SpliceIs
  <2> QED
    BY <2>2 DEF l
<1> HIDE DEF s
<1>7. M \in Lists /\ M[o] = s /\ \A p \in Owners : p # o => M[p] = L[p]
    BY <1>2, <1>4, <1>6, <1>b DEF Lists, s
<1>8. /\ IsBelow(M, o) = (IsBelow(K, o) \ R) \cup R
      /\ \A p \in Owners : p # o => IsBelow(M, p) = IsBelow(K, p) \ R
  <2>1. IsBelow(M, o) = IsBelow(L, o) \cup R
    BY <1>6, <1>7 DEF IsBelow
  <2>2. \A p \in Owners : p # o => IsBelow(M, p) = IsBelow(L, p)
    BY <1>7 DEF IsBelow
  <2> QED
    BY <1>2, <1>4, <2>1, <2>2
<1>9. Present(M) = Present(K)
  <2>0. /\ Present(M) = UNION {IsBelow(M, p) : p \in Owners}
        /\ Present(K) = UNION {IsBelow(K, p) : p \in Owners}
    BY DEF Present, IsBelow
  <2>1. ASSUME NEW p \in Owners, NEW c \in IsBelow(M, p) PROVE c \in Present(K)
    BY <1>8, <2>0, <2>1
  <2>2. ASSUME NEW p \in Owners, NEW c \in IsBelow(K, p) PROVE c \in Present(M)
    <3>1. CASE c \in R
        BY <1>4, <1>8, <2>0, <3>1
    <3>2. CASE c \notin R
      <4>1. c \in IsBelow(M, p)
        BY <1>8, <2>2, <3>2
      <4> QED
        BY <2>0, <4>1
    <3> QED
        BY <3>1, <3>2
  <2>3. Present(M) \subseteq Present(K)
    BY <2>0, <2>1
  <2>4. Present(K) \subseteq Present(M)
    BY <2>0, <2>2
  <2> QED
    BY <2>3, <2>4
<1>10. OneOwner(M)
  <2>1. \A p \in Owners : NoDup(L[p])
    BY <1>0, <1>1, <1>2, OneOwnerIs
  <2>2. ToSet(L[o]) \cap ToSet(r) = {}
    BY <1>2, <1>4 DEF IsBelow
  <2>3. \A p \in Owners : NoDup(M[p])
    BY <1>4, <1>6, <1>7, <2>1, <2>2
  <2>4. \A p, q \in Owners : p # q => IsBelow(K, p) \cap IsBelow(K, q) = {}
    BY <1>0, OneOwnerIs
  <2>5. \A p, q \in Owners : p # q => IsBelow(M, p) \cap IsBelow(M, q) = {}
    <3> SUFFICES ASSUME NEW p \in Owners, NEW q \in Owners, p # q, NEW x,
                        x \in IsBelow(M, p), x \in IsBelow(M, q)
                 PROVE  FALSE
        OBVIOUS
    <3>1. CASE x \in R
        BY <1>8, <3>1
    <3>2. CASE x \notin R
      <4>1. x \in IsBelow(K, p) /\ x \in IsBelow(K, q)
        BY <1>8, <3>2
      <4> QED
        BY <2>4, <4>1
    <3> QED
        BY <3>1, <3>2
  <2> QED
    BY <1>7, <2>3, <2>5, OneOwnerIs
<1>11. AbsentEmpty(M)
  <2> SUFFICES ASSUME NEW p \in Notes \ Present(M) PROVE M[p] = <<>>
    BY DEF AbsentEmpty
  <2>1. p \in Notes \ Present(K) /\ p \in Owners /\ p # o
    BY <1>4, <1>9, NotesAssumption DEF Owners
  <2>2. K[p] = <<>>
    BY <2>1 DEF IsTree, AbsentEmpty
  <2>3. IsBelow(K, p) = {}
    BY <1>0, <2>1, <2>2, EmptyBelow
  <2>4. IsBelow(M, p) = {}
    BY <1>8, <2>1, <2>3
  <2> QED
    BY <1>7, <2>1, <2>4, EmptyBelow
<1>12. \A q \in Below \cap Owners : IsBelow(K, q) \subseteq Below
    BY <1>0, SubtreeClosed
<1>13. R \subseteq Below /\ Below \subseteq Owners
    BY <1>0, SubtreeHas, SubtreeType
<1>14. o \notin Below
    OBVIOUS
<1> HIDE DEF Below
<1>15. Descends(M)
  <2> SUFFICES ASSUME NEW S \in SUBSET Owners, S # {} PROVE \E p \in S : IsBelow(M, p) \cap S = {}
    BY DEF Descends
  <2>1. CASE S \cap Below # {}
    <3>1. PICK p \in S \cap Below : IsBelow(K, p) \cap (S \cap Below) = {}
        BY <1>0, <2>1 DEF Descends
    <3>2. IsBelow(M, p) \subseteq IsBelow(K, p) /\ IsBelow(K, p) \subseteq Below
        BY <1>8, <1>12, <1>14, <3>1
    <3> QED
        BY <3>1, <3>2
  <2>2. CASE S \cap Below = {}
    <3>1. PICK p \in S : IsBelow(K, p) \cap S = {}
        BY <1>0 DEF Descends
    <3>2. IsBelow(M, p) \subseteq IsBelow(K, p) \cup R
        BY <1>8, <3>1
    <3> QED
        BY <1>13, <2>2, <3>1, <3>2
  <2> QED
    BY <2>1, <2>2
<1>16. Hangs(M)
  <2> SUFFICES ASSUME NEW S \in SUBSET Present(M), S # {}
               PROVE  \E p \in Owners \ S : IsBelow(M, p) \cap S # {}
    BY DEF Hangs
  <2>0. S \in SUBSET Present(K)
    BY <1>9
  <2>1. CASE S \cap R # {} /\ o \notin S
    BY <1>4, <1>8, <2>1
  <2>2. CASE S \cap R # {} /\ o \in S
    <3>1. S \ Below # {} /\ S \ Below \in SUBSET Present(K)
        BY <1>14, <2>0, <2>2
    <3>2. PICK p \in Owners \ (S \ Below) : IsBelow(K, p) \cap (S \ Below) # {}
        BY <3>1 DEF IsTree, Hangs
    <3>3. PICK c \in S \ Below : c \in IsBelow(K, p)
        BY <3>2
    <3>4. p \notin Below /\ p \notin S
        BY <1>12, <3>2, <3>3
    <3>5. c \in IsBelow(M, p)
        BY <1>8, <1>13, <3>2, <3>3
    <3> QED
        BY <3>2, <3>3, <3>4, <3>5
  <2>3. CASE S \cap R = {}
    <3>1. PICK p \in Owners \ S : IsBelow(K, p) \cap S # {}
        BY <2>0 DEF IsTree, Hangs
    <3>2. PICK c \in S : c \in IsBelow(K, p)
        BY <3>1
    <3>3. c \in IsBelow(M, p)
        BY <1>8, <2>3, <3>1, <3>2
    <3> QED
        BY <3>1, <3>2, <3>3
  <2> QED
    BY <2>1, <2>2, <2>3
<1>17. ASSUME NEW z \in Owners, o \in Subtree(L, z) PROVE Subtree(K, z) \subseteq Subtree(M, z)
  <2>1. \A p \in Owners : IsBelow(L, p) \subseteq IsBelow(M, p)
    BY <1>2, <1>8
  <2>2. o \in Subtree(M, z)
    BY <1>2, <1>3, <1>7, <1>15, <1>17, <2>1, SubtreeGrows
  <2>3. Subtree(M, z) \in SUBSET Owners /\ z \in Subtree(M, z)
    BY <1>7, <1>15, SubtreeType, SubtreeHas
  <2>4. R \subseteq Subtree(M, z)
    BY <1>7, <1>8, <1>15, <2>2, SubtreeClosed
  <2>5. ASSUME NEW q \in Subtree(M, z) PROVE IsBelow(K, q) \subseteq Subtree(M, z)
    <3>1. IsBelow(M, q) \subseteq Subtree(M, z) /\ q \in Owners
        BY <1>7, <1>15, <2>3, SubtreeClosed
    <3>2. IsBelow(K, q) \subseteq IsBelow(M, q) \cup R
        BY <1>8, <3>1
    <3> QED
        BY <2>4, <3>1, <3>2
  <2> QED
    BY <1>0, <2>3, <2>5, SubtreeLeast
<1> QED
    BY <1>7, <1>9, <1>10, <1>11, <1>15, <1>16, <1>17 DEF IsTree
-----------------------------------------------------------------------------
(* The view, the rungs and the heads                                       *)

\* The notes of the view.
Shown(T, z) == Present(T) \cap Subtree(T, z)

\* The view is closed downwards, and within tells what is in it.
LEMMA ShownIs ==
    ASSUME NEW T, IsTree(T), NEW z \in Present(T) \cup {Top}
    PROVE  /\ z \in Owners /\ Shown(T, z) \subseteq Notes /\ Shown(T, z) \subseteq Owners
           /\ Shown(T, z) = IF z = Top THEN Present(T) ELSE Subtree(T, z)
           /\ \A n \in Present(T) : within(T, z, n) <=> n \in Shown(T, z)
           /\ \A n \in Shown(T, z) : Subtree(T, n) \subseteq Shown(T, z)
           /\ z # Top => z \in Shown(T, z)
<1>0. T \in Lists /\ OneOwner(T) /\ Descends(T) /\ Present(T) \subseteq Notes
    BY PresentBelowTop DEF IsTree
<1>1. z \in Owners /\ z \in Subtree(T, z)
    BY <1>0, SubtreeHas DEF Owners
<1>2. Subtree(T, Top) = Present(T) \cup {Top}
    BY PresentBelowTop
<1>3. z # Top => Subtree(T, z) \subseteq Present(T)
    BY <1>0, <1>1, BelowIsPresent
<1>4. \A n \in Present(T) : Subtree(T, n) \subseteq Present(T)
    BY <1>0, BelowIsPresent DEF Owners
<1>5. \A n \in Subtree(T, z) : Subtree(T, n) \subseteq Subtree(T, z)
    BY <1>0, <1>1, SubtreeTrans
<1> QED
    BY <1>0, <1>1, <1>2, <1>3, <1>4, <1>5 DEF Shown, within, Owners

\* The place of a note, and the siblings beside it.
LEMMA BesideIs ==
    ASSUME NEW T, IsTree(T), NEW o \in Owners, NEW i \in DOMAIN T[o]
    PROVE  /\ Parent(T, T[o][i]) = o /\ IndexIn(T[o], T[o][i]) = i
           /\ NextSibling(T, T[o][i]) = IF i < Len(T[o]) THEN {T[o][i + 1]} ELSE {}
           /\ PreviousSibling(T, T[o][i]) = IF i > 1 THEN {T[o][i - 1]} ELSE {}
<1>0. T \in Lists /\ OneOwner(T)
    BY DEF IsTree
<1>1. DOMAIN T[o] = 1..Len(T[o]) /\ Len(T[o]) \in Nat /\ T[o][i] \in IsBelow(T, o)
    BY <1>0, BelowNotes
<1>2. Parent(T, T[o][i]) = o
    BY <1>0, <1>1, ParentIs
<1>3. IndexIn(T[o], T[o][i]) = i
    BY <1>0 DEF OneOwner, IndexIn
<1>4. NextSibling(T, T[o][i]) = IF i < Len(T[o]) THEN {T[o][i + 1]} ELSE {}
  <2>1. NextSibling(T, T[o][i]) = {T[o][k] : k \in {j \in DOMAIN T[o] : j = i + 1}}
    BY <1>2, <1>3 DEF NextSibling
  <2>2. {j \in DOMAIN T[o] : j = i + 1} = IF i < Len(T[o]) THEN {i + 1} ELSE {}
    BY <1>1
  <2> QED
    BY <2>1, <2>2
<1>5. PreviousSibling(T, T[o][i]) = IF i > 1 THEN {T[o][i - 1]} ELSE {}
  <2>1. PreviousSibling(T, T[o][i]) = {T[o][k] : k \in {j \in DOMAIN T[o] : j + 1 = i}}
    BY <1>2, <1>3 DEF PreviousSibling
  <2>2. {j \in DOMAIN T[o] : j + 1 = i} = IF i > 1 THEN {i - 1} ELSE {}
    BY <1>1
  <2> QED
    BY <2>1, <2>2
<1> QED
    BY <1>2, <1>3, <1>4, <1>5

\* An arrow's rung: the next sibling within the view, or the parent.
LEMMA StepIs ==
    ASSUME NEW T, IsTree(T), NEW z, NEW o \in Owners, NEW i \in DOMAIN T[o],
           NEW r, r.context = T[o][i], NEW dir \in Directions
    PROVE  Step(T, z, r, dir, FALSE) =
               IF dir = "down" /\ i < Len(T[o]) /\ within(T, z, T[o][i + 1])
               THEN Extent(r.first, T[o][i + 1], T[o][i + 1])
               ELSE IF dir = "up" /\ i > 1 /\ within(T, z, T[o][i - 1])
               THEN Extent(T[o][i - 1], r.last, T[o][i - 1])
               ELSE IF o # Top /\ within(T, z, o) THEN Extent(o, o, o) ELSE None
<1> DEFINE beside == IF dir = "down" THEN NextSibling(T, r.context) ELSE PreviousSibling(T, r.context)
           parent == Parent(T, r.context)
           last(n) == IF dir = "down" THEN Extent(r.first, n, n) ELSE Extent(n, r.last, n)
<1>0. /\ Parent(T, T[o][i]) = o
      /\ NextSibling(T, T[o][i]) = IF i < Len(T[o]) THEN {T[o][i + 1]} ELSE {}
      /\ PreviousSibling(T, T[o][i]) = IF i > 1 THEN {T[o][i - 1]} ELSE {}
    BY BesideIs
<1>1. parent = o
    BY <1>0
<1>2. Step(T, z, r, dir, FALSE) =
          IF \E n \in beside : within(T, z, n) THEN last(CHOOSE m \in beside : TRUE)
          ELSE IF parent # Top /\ within(T, z, parent) THEN Extent(parent, parent, parent)
          ELSE None
    BY DEF Step
<1>3. dir = "down" => beside = IF i < Len(T[o]) THEN {T[o][i + 1]} ELSE {}
    BY <1>0
<1>4. dir # "down" => beside = IF i > 1 THEN {T[o][i - 1]} ELSE {}
    BY <1>0
<1>5. dir = "down" \/ dir = "up"
    BY DEF Directions
<1> HIDE DEF beside, parent
<1>6. CASE dir = "down" /\ i < Len(T[o])
  <2>1. beside = {T[o][i + 1]} /\ (CHOOSE m \in beside : TRUE) = T[o][i + 1]
    BY <1>3, <1>6
  <2> QED
    BY <1>1, <1>2, <1>6, <2>1
<1>7. CASE dir = "up" /\ i > 1
  <2>1. beside = {T[o][i - 1]} /\ (CHOOSE m \in beside : TRUE) = T[o][i - 1]
    BY <1>4, <1>7
  <2> QED
    BY <1>1, <1>2, <1>7, <2>1
<1>8. CASE ~(dir = "down" /\ i < Len(T[o])) /\ ~(dir = "up" /\ i > 1)
  <2>1. beside = {}
    BY <1>3, <1>4, <1>5, <1>8
  <2> QED
    BY <1>1, <1>2, <1>8, <2>1
<1> QED
    BY <1>6, <1>7, <1>8

\* A rung does not leave the view.
LEMMA StepShown ==
    ASSUME NEW T, IsTree(T), NEW z \in Present(T) \cup {Top}, NEW v \in {z, Top}, NEW r \in Extents(Shown(T, v)),
           NEW dir \in Directions, NEW expand \in BOOLEAN
    PROVE  Step(T, z, r, dir, expand) \in Extents(Shown(T, v)) \cup {None}
<1> DEFINE V == Shown(T, v)
<1>0. T \in Lists /\ OneOwner(T) /\ r.first \in V /\ r.last \in V /\ r.context \in V /\ r.context \in Present(T)
    BY DEF IsTree, Extents, Shown
<1>1. PICK o \in Owners : r.context \in IsBelow(T, o)
    BY <1>0, PresentParent
<1>2. PICK i \in DOMAIN T[o] : r.context = T[o][i]
    BY <1>0, <1>1, BelowNotes
<1>3. DOMAIN T[o] = 1..Len(T[o]) /\ Len(T[o]) \in Nat /\ T[o] \in Seq(Notes) /\ IsBelow(T, o) \subseteq Present(T)
      /\ \A k \in DOMAIN T[o] : T[o][k] \in Present(T)
    BY <1>0, BelowNotes
<1>4. \A n \in Present(T) : within(T, z, n) => n \in V
    BY ShownIs
<1>5. o # Top => o \in Present(T)
  <2> SUFFICES ASSUME o # Top, o \notin Present(T) PROVE FALSE
    OBVIOUS
  <2>1. T[o] = <<>>
    BY DEF IsTree, AbsentEmpty, Owners
  <2> QED
    BY <1>0, <1>1, <2>1, EmptyBelow
<1>6. \A n, m, c \in V : Extent(n, m, c) \in Extents(V)
    BY DEF Extent, Extents
<1> HIDE DEF V
<1>7. CASE expand = FALSE
  <2>1. Step(T, z, r, dir, FALSE) =
               IF dir = "down" /\ i < Len(T[o]) /\ within(T, z, T[o][i + 1])
               THEN Extent(r.first, T[o][i + 1], T[o][i + 1])
               ELSE IF dir = "up" /\ i > 1 /\ within(T, z, T[o][i - 1])
               THEN Extent(T[o][i - 1], r.last, T[o][i - 1])
               ELSE IF o # Top /\ within(T, z, o) THEN Extent(o, o, o) ELSE None
    BY <1>2, StepIs
  <2>2. i < Len(T[o]) => T[o][i + 1] \in Present(T)
    BY <1>3
  <2>3. i > 1 => T[o][i - 1] \in Present(T)
    BY <1>3
  <2>4. CASE dir = "down" /\ i < Len(T[o]) /\ within(T, z, T[o][i + 1])
    <3>1. T[o][i + 1] \in V
        BY <1>4, <2>2, <2>4
    <3>2. Extent(r.first, T[o][i + 1], T[o][i + 1]) \in Extents(V)
        BY <1>0, <1>6, <3>1
    <3> QED
        BY <1>7, <2>1, <2>4, <3>2 DEF V
  <2>5. CASE dir = "up" /\ i > 1 /\ within(T, z, T[o][i - 1])
    <3>1. T[o][i - 1] \in V
        BY <1>4, <2>3, <2>5
    <3>2. Extent(T[o][i - 1], r.last, T[o][i - 1]) \in Extents(V)
        BY <1>0, <1>6, <3>1
    <3> QED
        BY <1>7, <2>1, <2>5, <3>2 DEF V
  <2>6. o # Top /\ within(T, z, o) => Extent(o, o, o) \in Extents(V)
    BY <1>4, <1>5, <1>6
  <2>7. CASE ~(dir = "down" /\ i < Len(T[o]) /\ within(T, z, T[o][i + 1]))
             /\ ~(dir = "up" /\ i > 1 /\ within(T, z, T[o][i - 1]))
    BY <1>7, <2>1, <2>6, <2>7 DEF V
  <2> QED
    BY <2>4, <2>5, <2>7
<1>8. CASE expand = TRUE
  <2> DEFINE out == {n \in Notes : ~within(T, z, n)}  all == Without(T[o], out)
  <2>0. Parent(T, T[o][i]) = o
    BY BesideIs
  <2>1. Parent(T, r.context) = o
    BY <1>2, <2>0
  <2>2. Step(T, z, r, dir, TRUE) =
            IF Len(all) > 1 /\ ~(r.first = Head(all) /\ r.last = Last(all))
            THEN Extent(Head(all), Last(all), Last(all))
            ELSE IF o # Top /\ within(T, z, o) THEN Extent(o, o, o) ELSE None
    BY <2>1 DEF Step
  <2>3. all \in Seq(Notes) /\ ToSet(all) = ToSet(T[o]) \ out
    BY <1>3, WithoutIs
  <2>4. ToSet(all) \subseteq V
    <3>1. ToSet(T[o]) \subseteq Present(T) /\ ToSet(T[o]) \subseteq Notes
        BY <1>0, <1>3, BelowNotes DEF IsBelow
    <3> HIDE DEF all
    <3> QED
        BY <1>4, <2>3, <3>1
  <2> HIDE DEF all
  <2>5. Len(all) > 1 => Head(all) \in V /\ Last(all) \in V
    <3> SUFFICES ASSUME Len(all) > 1 PROVE Head(all) \in V /\ Last(all) \in V
        OBVIOUS
    <3>1. 1 \in DOMAIN all /\ Len(all) \in DOMAIN all /\ all # <<>>
        BY <2>3
    <3>2. Head(all) = all[1] /\ Last(all) = all[Len(all)]
        BY <2>3, <3>1 DEF Last
    <3> QED
        BY <2>4, <3>1, <3>2 DEF ToSet
  <2>6. o # Top /\ within(T, z, o) => Extent(o, o, o) \in Extents(V)
    BY <1>4, <1>5, <1>6
  <2>7. Len(all) > 1 => Extent(Head(all), Last(all), Last(all)) \in Extents(V)
    BY <1>6, <2>5
  <2> QED
    BY <1>8, <2>2, <2>6, <2>7 DEF V
<1> QED
    BY <1>7, <1>8

\* The heads between two notes of the view are different notes of the view.
LEMMA HeadsShown ==
    ASSUME NEW T, IsTree(T), NEW z \in Present(T) \cup {Top},
           NEW a \in Shown(T, z), NEW f \in Shown(T, z)
    PROVE  /\ HeadsBetween(T, a, f) \in Seq(Notes) /\ HeadsBetween(T, a, f) # <<>>
           /\ NoDup(HeadsBetween(T, a, f)) /\ ToSet(HeadsBetween(T, a, f)) \subseteq Shown(T, z)
           /\ Head(HeadsBetween(T, a, f)) \in Shown(T, z) /\ Last(HeadsBetween(T, a, f)) \in Shown(T, z)
<1>0. T \in Lists /\ OneOwner(T) /\ a \in Present(T) /\ f \in Present(T)
      /\ a \in Subtree(T, z) /\ f \in Subtree(T, z) /\ z \in Owners
    BY ShownIs DEF IsTree, Shown
<1>a. PICK o \in Owners : \E i, j \in DOMAIN T[o] :
          i <= j /\ HeadsBetween(T, a, f) = SubSeq(T[o], i, j)
    BY <1>0, HeadsStretch
<1>1. PICK i \in DOMAIN T[o], j \in DOMAIN T[o] :
          i <= j /\ HeadsBetween(T, a, f) = SubSeq(T[o], i, j)
    BY <1>a
<1> DEFINE u == SubSeq(T[o], i, j)
<1>2. T[o] \in Seq(Notes) /\ DOMAIN T[o] = 1..Len(T[o]) /\ Len(T[o]) \in Nat
    BY <1>0, BelowNotes
<1>3. /\ u \in Seq(Notes) /\ Len(u) = j - i + 1
      /\ \A k \in 1..(j - i + 1) : u[k] = T[o][i + k - 1]
    BY <1>1, <1>2, SubSeqIs
<1>4. /\ ToSet(u) = {T[o][k] : k \in i..j}
      /\ Head(u) = T[o][i] /\ Last(u) = T[o][j] /\ u # <<>>
    BY <1>1, <1>2, SubSeqMembers
<1> HIDE DEF u
<1>5. NoDup(u)
  <2> SUFFICES ASSUME NEW k \in DOMAIN u, NEW m \in DOMAIN u, u[k] = u[m] PROVE k = m
    BY DEF NoDup
  <2>1. k \in 1..(j - i + 1) /\ m \in 1..(j - i + 1)
    BY <1>3
  <2> DEFINE k1 == i + k - 1  m1 == i + m - 1
  <2>2. k1 \in DOMAIN T[o] /\ m1 \in DOMAIN T[o] /\ (k1 = m1 => k = m)
    BY <1>1, <1>2, <2>1
  <2>3. T[o][k1] = T[o][m1]
    BY <1>3, <2>1
  <2> HIDE DEF k1, m1
  <2>4. k1 = m1
    BY <1>0, <2>2, <2>3 DEF OneOwner
  <2> QED
    BY <2>2, <2>4
<1>6. ToSet(u) \subseteq Present(T)
  <2>1. \A k \in i..j : k \in DOMAIN T[o]
    BY <1>2
  <2> QED
    BY <1>0, <1>4, <2>1, BelowNotes
<1>7. ToSet(u) \subseteq Shown(T, z)
  <2>1. ToSet(HeadsBetween(T, a, f)) \subseteq Subtree(T, z)
    BY <1>0, HeadsBelow
  <2>2. HeadsBetween(T, a, f) = u
    BY <1>1 DEF u
  <2> QED
    BY <1>6, <2>1, <2>2 DEF Shown
<1>8. T[o][i] \in ToSet(u) /\ T[o][j] \in ToSet(u)
  <2>1. i \in i..j /\ j \in i..j
    BY <1>1, <1>2
  <2> QED
    BY <1>4, <2>1
<1>9. HeadsBetween(T, a, f) = u
    BY <1>1 DEF u
<1> QED
    BY <1>3, <1>4, <1>5, <1>7, <1>8, <1>9

\* What replaying a ladder goes through.
ReplayIn(F, T, z, anchor, stack, expand) ==
    \A i \in 0..Len(stack) :
        F[i] = IF i = 0 THEN Extent(anchor, anchor, anchor)
               ELSE IF F[i - 1] = None \/ stack[i] \notin Directions THEN F[i - 1]
               ELSE Step(T, z, F[i - 1], stack[i], expand)

\* The steps of a replay.
LEMMA ReplaySteps ==
    ASSUME NEW T, NEW z, NEW anchor, NEW stack, NEW expand, Len(stack) \in Nat
    PROVE  \E F : /\ ReplayIn(F, T, z, anchor, stack, expand)
                  /\ replayLadder(T, z, anchor, stack, expand) =
                        IF stack = <<>> THEN None
                        ELSE IF Last(stack) = "inline" THEN [inline |-> anchor] ELSE F[Len(stack)]
<1> DEFINE E == Extent(anchor, anchor, anchor)
           Nx(f, i) == IF f[i - 1] = None \/ stack[i] \notin Directions THEN f[i - 1]
                       ELSE Step(T, z, f[i - 1], stack[i], expand)
           Sol(f, n) == f = [i \in 0..n |-> IF i = 0 THEN E
                                ELSE IF f[i - 1] = None \/ stack[i] \notin Directions THEN f[i - 1]
                                ELSE Step(T, z, f[i - 1], stack[i], expand)]
           Good == {n \in 0..Len(stack) : \E f : Sol(f, n)}
           F == CHOOSE f : Sol(f, Len(stack))
<1>1. 0 \in Good
  <2> DEFINE h == [i \in 0..0 |-> E]
  <2>1. h = [i \in 0..0 |-> h[i]] /\ \A i \in 0..0 : i = 0 /\ h[i] = E
    OBVIOUS
  <2> HIDE DEF h, E
  <2>2. Sol(h, 0)
    BY <2>1
  <2> QED
    BY <2>2
<1> HIDE DEF E
<1>2. ASSUME NEW n \in 1..Len(stack), n - 1 \in Good PROVE n \in Good
  <2>1. PICK g : Sol(g, n - 1)
    BY <1>2
  <2> DEFINE v == Nx(g, n)
             h == [i \in 0..n |-> IF i = n THEN v ELSE g[i]]
  <2>2. \A i \in 0..(n - 1) : h[i] = g[i]
    OBVIOUS
  <2>3. \A i \in 0..(n - 1) : g[i] = IF i = 0 THEN E ELSE Nx(g, i)
    BY <2>1
  <2>4. h[n] = v
    OBVIOUS
  <2>5. n - 1 \in 0..(n - 1) /\ n # 0
    OBVIOUS
  <2>6. h[n] = Nx(h, n)
    BY <2>2, <2>4, <2>5
  <2>7. h = [i \in 0..n |-> h[i]]
    OBVIOUS
  <2> HIDE DEF h, v
  <2>8. ASSUME NEW i \in 0..n
        PROVE  h[i] = IF i = 0 THEN E ELSE Nx(h, i)
    <3>1. CASE i = n
        BY <2>5, <2>6, <3>1
    <3>2. CASE i # n
      <4>1. i \in 0..(n - 1)
        BY <3>2
      <4>2. i # 0 => i - 1 \in 0..(n - 1)
        BY <4>1
      <4> QED
        BY <2>2, <2>3, <4>1, <4>2
    <3> QED
        BY <3>1, <3>2
  <2>9. Sol(h, n)
    BY <2>7, <2>8
  <2> QED
    BY <2>9
<1>3. Len(stack) \in Good
  <2> HIDE DEF Good
  <2>1. 0..Len(stack) \subseteq Good
    BY <1>1, <1>2, UpTo
  <2> QED
    BY <2>1
<1>4. Sol(F, Len(stack))
    BY <1>3
<1>5. replayLadder(T, z, anchor, stack, expand) =
          IF stack = <<>> THEN None
          ELSE IF Last(stack) = "inline" THEN [inline |-> anchor] ELSE F[Len(stack)]
    BY DEF replayLadder, E
<1> HIDE DEF F
<1>6. ReplayIn(F, T, z, anchor, stack, expand)
    BY <1>4 DEF ReplayIn, E
<1> QED
    BY <1>5, <1>6

\* A stack of rungs: its text comes first, then its subtree, then its arrows.
Rungs == {"inline", "subtree"} \cup Directions

StackOk(s) ==
    /\ s \in Seq(Rungs)
    /\ s # <<>> => s[1] \in {"inline", "subtree"}
    /\ \A i \in DOMAIN s : i > 1 => s[i] # "inline"
    /\ Len(s) > 1 => "subtree" \in {s[1], s[2]}

\* A replay that starts in the view stays there.
LEMMA ReplayShown ==
    ASSUME NEW T, IsTree(T), NEW z \in Present(T) \cup {Top}, NEW v \in {z, Top},
           NEW anchor \in Shown(T, v),
           NEW stack \in Seq(Rungs), NEW expand \in BOOLEAN
    PROVE  replayLadder(T, z, anchor, stack, expand) \in
               Extents(Shown(T, v)) \cup {None, [inline |-> anchor]}
<1>1. Len(stack) \in Nat
    OBVIOUS
<1>2. PICK F : /\ ReplayIn(F, T, z, anchor, stack, expand)
               /\ replayLadder(T, z, anchor, stack, expand) =
                      IF stack = <<>> THEN None
                      ELSE IF Last(stack) = "inline" THEN [inline |-> anchor] ELSE F[Len(stack)]
    BY <1>1, ReplaySteps
<1> DEFINE X == Extents(Shown(T, v)) \cup {None}
           G == {i \in 0..Len(stack) : F[i] \in X}
<1>3. 0 \in G
  <2>1. F[0] = Extent(anchor, anchor, anchor)
    BY <1>1, <1>2 DEF ReplayIn
  <2> QED
    BY <1>1, <2>1 DEF Extent, Extents
<1>4. ASSUME NEW i \in 1..Len(stack), i - 1 \in G PROVE i \in G
  <2>1. F[i - 1] \in X
    BY <1>4
  <2>2. F[i] = IF F[i - 1] = None \/ stack[i] \notin Directions THEN F[i - 1]
               ELSE Step(T, z, F[i - 1], stack[i], expand)
    BY <1>1, <1>2 DEF ReplayIn
  <2>3. F[i - 1] # None /\ stack[i] \in Directions => Step(T, z, F[i - 1], stack[i], expand) \in X
    BY <2>1, StepShown
  <2> HIDE DEF X
  <2>4. F[i] \in X /\ i \in 0..Len(stack)
    BY <1>1, <2>1, <2>2, <2>3
  <2> QED
    BY <2>4
<1>5. F[Len(stack)] \in X
  <2> HIDE DEF G
  <2>1. 0..Len(stack) \subseteq G
    BY <1>1, <1>3, <1>4, UpTo
  <2> QED
    BY <1>1, <2>1 DEF G
<1> HIDE DEF G
<1> QED
    BY <1>2, <1>5

\* The last note below a note of the view is in the view.
LEMMA TailShown ==
    ASSUME NEW T, IsTree(T), NEW z \in Present(T) \cup {Top}, NEW n \in Shown(T, z)
    PROVE  SubtreeTail(T, n) \in Shown(T, z)
BY TailBelow, ShownIs DEF IsTree

\* Which plans are ranges.
LEMMA RangeIs ==
    ASSUME NEW V \in SUBSET Notes
    PROVE  /\ \A plan \in Extents(V) : isRange(plan)
           /\ \A n \in Notes : ~isRange([inline |-> n])
           /\ ~isRange(None)
           /\ \A plan \in Extents(V) : plan # None
           /\ \A n \in Notes : [inline |-> n] # None
<1>1. \A plan \in Extents(V) : plan \in Extents(Notes) /\ "first" \in DOMAIN plan
    BY DEF Extents
<1>2. \A n \in Notes : DOMAIN [inline |-> n] = {"inline"} /\ [inline |-> n] \in [inline : Notes]
    OBVIOUS
<1> QED
    BY <1>1, <1>2, NoneAssumption DEF isRange

\* What a plan selects is in the view if the plan is.
LEMMA SelectionOfShown ==
    ASSUME NEW T, IsTree(T), NEW z \in Present(T) \cup {Top}, NEW anchor \in Shown(T, z),
           NEW plan \in Extents(Shown(T, z)) \cup {[inline |-> anchor]}
    PROVE  selectionOf(T, plan) \in Selections(Shown(T, z)) /\ ~selectionOf(T, plan).collapsed
<1>0. Shown(T, z) \in SUBSET Notes
    BY ShownIs
<1>1. \A a, f \in Shown(T, z) : Between(a, f) \in Selections(Shown(T, z)) /\ ~Between(a, f).collapsed
    BY DEF Between, Selections
<1>2. CASE plan \in Extents(Shown(T, z))
  <2>1. isRange(plan)
    BY <1>0, <1>2, RangeIs
  <2>2. plan.first \in Shown(T, z) /\ plan.last \in Shown(T, z)
    BY <1>2 DEF Extents
  <2>3. SubtreeTail(T, plan.last) \in Shown(T, z)
    BY <2>2, TailShown
  <2> QED
    BY <1>1, <2>1, <2>2, <2>3 DEF selectionOf
<1>3. CASE plan = [inline |-> anchor]
  <2>1. ~isRange(plan)
    BY <1>0, <1>3, RangeIs
  <2> QED
    BY <1>1, <1>3, <2>1 DEF selectionOf
<1> QED
    BY <1>2, <1>3

\* Ladders.
Ladders == {lad \in [anchor : Notes \cup {None}, stack : Seq(Rungs), dir : Directions \cup {None}] :
               StackOk(lad.stack)}

\* The first rungs of a stack.
LEMMA PrefixOk ==
    ASSUME NEW s, StackOk(s), NEW k \in DOMAIN s
    PROVE  /\ StackOk(SubSeq(s, 1, k)) /\ Len(SubSeq(s, 1, k)) = k
           /\ \A i \in 1..k : SubSeq(s, 1, k)[i] = s[i]
           /\ SubSeq(s, 1, k) # <<>> /\ Last(SubSeq(s, 1, k)) = s[k]
<1>0. s \in Seq(Rungs) /\ k \in Nat /\ Len(s) \in Nat /\ DOMAIN s = 1..Len(s) /\ k \in 1..Len(s) /\ 1 \in DOMAIN s
    BY DEF StackOk
<1> DEFINE u == SubSeq(s, 1, k)
<1>1. /\ u \in Seq(Rungs) /\ Len(u) = k - 1 + 1
      /\ \A i \in 1..(k - 1 + 1) : u[i] = s[1 + i - 1]
    BY <1>0, SubSeqIs
<1> HIDE DEF u
<1>2. Len(u) = k /\ \A i \in 1..k : u[i] = s[i]
  <2>1. k - 1 + 1 = k /\ \A i \in 1..k : 1 + i - 1 = i
    BY <1>0
  <2> QED
    BY <1>1, <2>1
<1>3. StackOk(u)
    BY <1>0, <1>1, <1>2 DEF StackOk
<1>4. u # <<>> /\ Last(u) = s[k]
    BY <1>0, <1>1, <1>2 DEF Last
<1> QED
    BY <1>2, <1>3, <1>4 DEF u

\* A stack with a structural rung has the subtree's among its first two.
LEMMA SubtreeRung ==
    ASSUME NEW lad \in Ladders, ladderHasStructuralRung(lad)
    PROVE  \E k \in DOMAIN lad.stack : k \in {1, 2} /\ lad.stack[k] = "subtree"
<1> DEFINE s == lad.stack
<1>1. StackOk(s) /\ s \in Seq(Rungs) /\ DOMAIN s = 1..Len(s) /\ Len(s) \in Nat
    BY DEF Ladders
<1>2. PICK i \in DOMAIN s : s[i] # "inline"
    BY DEF ladderHasStructuralRung
<1> HIDE DEF s
<1>3. CASE Len(s) > 1
  <2>1. "subtree" \in {s[1], s[2]} /\ 1 \in DOMAIN s /\ 2 \in DOMAIN s
    BY <1>1, <1>3 DEF StackOk
  <2>2. \E k \in DOMAIN s : k \in {1, 2} /\ s[k] = "subtree"
    BY <2>1
  <2> QED
    BY <2>2 DEF s
<1>4. CASE ~(Len(s) > 1)
  <2>1. i = 1 /\ s # <<>>
    BY <1>1, <1>2, <1>4
  <2>2. s[1] = "subtree" /\ 1 \in DOMAIN s
    BY <1>1, <1>2, <2>1 DEF StackOk
  <2> QED
    BY <2>2 DEF s
<1> QED
    BY <1>3, <1>4

\* The subtree's rung selects the anchor.
LEMMA ReplayTop ==
    ASSUME NEW T, NEW z, NEW anchor, NEW u, StackOk(u), Len(u) \in {1, 2}, Last(u) = "subtree",
           NEW e
    PROVE  replayLadder(T, z, anchor, u, e) = Extent(anchor, anchor, anchor)
<1>1. u[1] \in {"inline", "subtree"} /\ u # <<>> /\ Len(u) \in Nat
    BY DEF StackOk
<1>2. Last(u) # "inline"
    OBVIOUS
<1>3. PICK F : /\ ReplayIn(F, T, z, anchor, u, e)
               /\ replayLadder(T, z, anchor, u, e) =
                      IF u = <<>> THEN None
                      ELSE IF Last(u) = "inline" THEN [inline |-> anchor] ELSE F[Len(u)]
    BY <1>1, ReplaySteps
<1>4. F[0] = Extent(anchor, anchor, anchor)
  <2>1. 0 \in 0..Len(u)
    BY <1>1
  <2> QED
    BY <1>3, <2>1 DEF ReplayIn
<1>5. F[1] = F[0]
  <2>1. 1 \in 0..Len(u) /\ 1 - 1 = 0 /\ 1 # 0
    OBVIOUS
  <2>2. F[1] = IF F[0] = None \/ u[1] \notin Directions THEN F[0] ELSE Step(T, z, F[0], u[1], e)
    BY <1>3, <2>1 DEF ReplayIn
  <2> QED
    BY <1>1, <2>2 DEF Directions
<1>6. CASE Len(u) = 1
    BY <1>1, <1>2, <1>3, <1>4, <1>5, <1>6
<1>7. CASE Len(u) = 2
  <2>1. 2 \in 0..Len(u) /\ 2 - 1 = 1 /\ 2 # 0
    BY <1>7
  <2>2. F[2] = IF F[1] = None \/ u[2] \notin Directions THEN F[1] ELSE Step(T, z, F[1], u[2], e)
    BY <1>3, <2>1 DEF ReplayIn
  <2>3. u[2] = "subtree"
    BY <1>7 DEF Last
  <2>4. F[2] = F[1]
    BY <2>2, <2>3 DEF Directions
  <2> QED
    BY <1>1, <1>2, <1>3, <1>4, <1>5, <1>7, <2>4
<1> QED
    BY <1>6, <1>7

\* A ladder that follows an edit keeps its anchor and its first rungs, and they give
\* a range in the view.
LEMMA ReshapeShown ==
    ASSUME NEW T, IsTree(T), NEW z \in Present(T) \cup {Top}, NEW v \in {z, Top}, NEW lad \in Ladders,
           ladderHasStructuralRung(lad), lad.anchor \in Shown(T, v)
    PROVE  /\ reshapeStructuralLadder(T, z, lad).ladder \in Ladders
           /\ reshapeStructuralLadder(T, z, lad).ladder.anchor = lad.anchor
           /\ reshapeStructuralLadder(T, z, lad).plan \in Extents(Shown(T, v))
<1> DEFINE s == lad.stack  V == Shown(T, v)
           prefix(k) == [lad EXCEPT !.stack = SubSeq(@, 1, k)]
           replay(k) == replayLadder(T, z, lad.anchor, prefix(k).stack, FALSE)
           I == {k \in DOMAIN s : isRange(replay(k))}
<1>0. V \in SUBSET Notes
    BY ShownIs
<1>1. /\ StackOk(s) /\ s \in Seq(Rungs) /\ DOMAIN s = 1..Len(s) /\ Len(s) \in Nat
      /\ lad \in [anchor : Notes \cup {None}, stack : Seq(Rungs), dir : Directions \cup {None}]
    BY DEF Ladders
<1>2. \A k : prefix(k).stack = SubSeq(s, 1, k) /\ prefix(k).anchor = lad.anchor /\ prefix(k).dir = lad.dir
    BY <1>1
<1>3. \A k \in DOMAIN s : prefix(k) \in Ladders
  <2> SUFFICES ASSUME NEW k \in DOMAIN s PROVE prefix(k) \in Ladders
    OBVIOUS
  <2>1. StackOk(SubSeq(s, 1, k))
    BY <1>1, PrefixOk
  <2>2. SubSeq(s, 1, k) \in Seq(Rungs)
    BY <2>1 DEF StackOk
  <2>3. prefix(k) \in [anchor : Notes \cup {None}, stack : Seq(Rungs), dir : Directions \cup {None}]
    BY <1>1, <2>2
  <2> HIDE DEF prefix
  <2>4. StackOk(prefix(k).stack)
    BY <1>2, <2>1
  <2> QED
    BY <2>3, <2>4 DEF Ladders
<1>4. \A k \in DOMAIN s : replay(k) \in Extents(V) \cup {None, [inline |-> lad.anchor]}
  <2> SUFFICES ASSUME NEW k \in DOMAIN s
               PROVE  replay(k) \in Extents(V) \cup {None, [inline |-> lad.anchor]}
    OBVIOUS
  <2>1. prefix(k).stack \in Seq(Rungs)
    BY <1>3 DEF Ladders
  <2> HIDE DEF prefix
  <2> QED
    BY <2>1, ReplayShown
<1>5. PICK k \in DOMAIN s : k \in {1, 2} /\ s[k] = "subtree"
    BY SubtreeRung
<1> DEFINE u == SubSeq(s, 1, k)
<1>6. /\ StackOk(u) /\ Len(u) = k /\ \A i \in 1..k : u[i] = s[i]
      /\ u # <<>> /\ Last(u) = "subtree"
    BY <1>1, <1>5, PrefixOk
<1>7. replay(k) = Extent(lad.anchor, lad.anchor, lad.anchor)
  <2> DEFINE b == lad.anchor  e == FALSE
  <2>a. replay(k) = replayLadder(T, z, b, u, e)
    BY <1>2
  <2>b. Extent(lad.anchor, lad.anchor, lad.anchor) = Extent(b, b, b)
    OBVIOUS
  <2> HIDE DEF u, prefix, b, e, replay
  <2>c. Len(u) \in {1, 2}
    BY <1>5, <1>6
  <2>1. replayLadder(T, z, b, u, e) = Extent(b, b, b)
    BY <1>6, <2>c, ReplayTop
  <2> QED
    BY <2>a, <2>b, <2>1
<1>8. k \in I
  <2>1. Extent(lad.anchor, lad.anchor, lad.anchor) \in Extents(V)
    BY DEF Extent, Extents
  <2>2. isRange(Extent(lad.anchor, lad.anchor, lad.anchor))
    BY <1>0, <2>1, RangeIs
  <2> HIDE DEF replay
  <2> QED
    BY <1>7, <2>2
<1> HIDE DEF prefix
<1>9. Max(I) \in I
  <2>0. I \subseteq DOMAIN s
    OBVIOUS
  <2>1. I \in SUBSET (0..Len(s)) /\ I # {}
    <3> HIDE DEF I, s
    <3>1. \A i \in 1..Len(s) : i \in 0..Len(s)
        BY <1>1
    <3> QED
        BY <1>1, <1>8, <2>0, <3>1
  <2> HIDE DEF I
  <2> QED
    BY <1>1, <2>1, MaxIs
<1> DEFINE m == Max(I)
<1>10. m \in DOMAIN s /\ isRange(replay(m))
    BY <1>9
<1>11. /\ reshapeStructuralLadder(T, z, lad).ladder = prefix(m)
       /\ reshapeStructuralLadder(T, z, lad).plan = replay(m)
    BY DEF reshapeStructuralLadder, prefix
<1> HIDE DEF m, replay
<1>12. replay(m) \in Extents(V)
  <2>1. replay(m) \in Extents(V) \cup {None, [inline |-> lad.anchor]}
    BY <1>4, <1>10
  <2>2. lad.anchor \in Notes
    BY <1>0
  <2> QED
    BY <1>0, <1>10, <2>1, <2>2, RangeIs
<1> QED
    BY <1>2, <1>3, <1>10, <1>11, <1>12

\* The ladder inferred from a selection starts at its anchor.
LEMMA InferOk ==
    ASSUME NEW T, NEW s, s.a \in Notes, NEW heads
    PROVE  /\ inferPointerProgression(T, s, heads) \in Ladders
           /\ inferPointerProgression(T, s, heads).anchor = s.a
<1> DEFINE dir == IF Head(heads) = s.a THEN "down" ELSE "up"
           found == {k \in 0..(2 * Cardinality(Notes)) :
                covers(T, replayLadder(T, Top, s.a, sweepStack(dir, k), FALSE), dir, heads)}
<1>1. inferPointerProgression(T, s, heads) = sweepOf(s.a, dir, found)
    BY DEF inferPointerProgression
<1>a. dir \in Directions
    BY DEF Directions
<1>b. found \subseteq 0..(2 * Cardinality(Notes))
    OBVIOUS
<1>c. \A m : 0..m \subseteq Nat
    OBVIOUS
<1>2. dir \in Directions /\ found \in SUBSET Nat
    BY <1>a, <1>b, <1>c
<1> HIDE DEF dir, found
<1>3. CASE found = {}
  <2>1. sweepOf(s.a, dir, found) = [anchor |-> s.a, stack |-> <<"subtree">>, dir |-> None]
    BY <1>3 DEF sweepOf
  <2> DEFINE t == <<"subtree">>  w == [anchor |-> s.a, stack |-> t, dir |-> None]
  <2>2. StackOk(t) /\ t \in Seq(Rungs)
    BY DEF StackOk, Rungs
  <2> HIDE DEF t
  <2>3. w \in [anchor : Notes \cup {None}, stack : Seq(Rungs), dir : Directions \cup {None}]
        /\ w.stack = t /\ w.anchor = s.a
    BY <2>2
  <2> HIDE DEF w
  <2>4. w \in Ladders
    BY <2>2, <2>3 DEF Ladders
  <2> QED
    BY <1>1, <2>1, <2>3, <2>4 DEF w, t
<1>4. CASE found # {}
  <2> DEFINE k == Min(found)
  <2>1. k \in Nat
    BY <1>2, <1>4, MinIs
  <2> HIDE DEF k
  <2>2. StackOk(sweepStack(dir, k))
    <3> DEFINE t == [i \in 1..k |-> dir]  h == <<"subtree">>
    <3>1. t \in Seq(Rungs) /\ Len(t) = k /\ \A i \in 1..k : t[i] = dir
        BY <1>2, <2>1 DEF Rungs
    <3>2. h \in Seq(Rungs) /\ Len(h) = 1 /\ h[1] = "subtree"
        BY DEF Rungs
    <3>3. sweepStack(dir, k) = h \o t
        BY DEF sweepStack
    <3> HIDE DEF h, t
    <3>a. /\ h \o t \in Seq(Rungs) /\ Len(h \o t) = Len(h) + Len(t)
          /\ \A i \in 1..(Len(h) + Len(t)) : (h \o t)[i] = IF i <= Len(h) THEN h[i] ELSE t[i - Len(h)]
        BY <3>1, <3>2, ConcatProperties
    <3>4. /\ h \o t \in Seq(Rungs) /\ Len(h \o t) = 1 + k
          /\ \A i \in 1..(1 + k) : (h \o t)[i] = IF i <= 1 THEN h[i] ELSE t[i - 1]
        BY <3>1, <3>2, <3>a
    <3> DEFINE w == h \o t
    <3>5. DOMAIN w = 1..(1 + k) /\ w # <<>>
        BY <2>1, <3>4
    <3> HIDE DEF w
    <3>6. w[1] = "subtree"
        BY <2>1, <3>2, <3>4 DEF w
    <3>7. \A i \in DOMAIN w : i > 1 => w[i] = dir
        BY <2>1, <3>1, <3>4, <3>5 DEF w
    <3> QED
        BY <1>2, <3>3, <3>4, <3>5, <3>6, <3>7 DEF StackOk, Directions, w
  <2>3. sweepOf(s.a, dir, found) =
          [anchor |-> s.a, stack |-> sweepStack(dir, k), dir |-> IF k = 0 THEN None ELSE dir]
    BY <1>4 DEF sweepOf, k
  <2>4. sweepStack(dir, k) \in Seq(Rungs)
    BY <2>2 DEF StackOk
  <2> QED
    BY <1>1, <1>2, <2>2, <2>3, <2>4 DEF Ladders
<1> QED
    BY <1>3, <1>4
-----------------------------------------------------------------------------
(* What an update leaves                                                   *)

\* A note that is in the view or gone.
InView(T, z, n) == n \in Present(T) => n \in Shown(T, z)

SelectionOk(T, z, s) == s = None \/ (s \in Selections(Shown(T, z)) /\ (s.collapsed => s.a = s.f))

\* Selections that microtasks will set.
Waiting(T, z) ==
    {s \in Selections(Notes) : ~s.collapsed /\ InView(T, z, s.a) /\ InView(T, z, s.f)} \cup {None}

Pendings(T, z) == [reshape : Waiting(T, z), snap : Waiting(T, z)]

OutlineOk(T, z, out) ==
    /\ out \in [kind : {"none", "caret", "inline", "structural"}, heads : Seq(Notes)]
    /\ NoDup(out.heads) /\ ToSet(out.heads) \subseteq Shown(T, z)
    /\ out.kind = "structural" => out.heads # <<>>

\* One note of the view as the outline selection.
LEMMA OneOk ==
    ASSUME NEW T, IsTree(T), NEW z \in Present(T) \cup {Top}, NEW n \in Shown(T, z),
           NEW k \in {"caret", "inline"}
    PROVE  OutlineOk(T, z, [kind |-> k, heads |-> <<n>>])
<1> DEFINE h == <<n>>
<1>1. n \in Notes
    BY ShownIs
<1>2. h \in Seq(Notes) /\ NoDup(h) /\ ToSet(h) = {n}
    BY <1>1 DEF NoDup, ToSet
<1> HIDE DEF h
<1>3. OutlineOk(T, z, [kind |-> k, heads |-> h])
    BY <1>2 DEF OutlineOk
<1> QED
    BY <1>3 DEF h

\* The notes between two of the view as the outline selection.
LEMMA BetweenOk ==
    ASSUME NEW T, IsTree(T), NEW z \in Present(T) \cup {Top},
           NEW a \in Shown(T, z), NEW f \in Shown(T, z)
    PROVE  OutlineOk(T, z, structural(HeadsBetween(T, a, f)))
<1> DEFINE h == HeadsBetween(T, a, f)
<1>1. h \in Seq(Notes) /\ h # <<>> /\ NoDup(h) /\ ToSet(h) \subseteq Shown(T, z)
    BY HeadsShown
<1> HIDE DEF h
<1>2. OutlineOk(T, z, structural(h))
    BY <1>1 DEF OutlineOk, structural
<1> QED
    BY <1>2 DEF h

\* A selection in the view may be set later.
LEMMA WaitingIs ==
    ASSUME NEW T, IsTree(T), NEW z \in Present(T) \cup {Top}, NEW s \in Selections(Shown(T, z)),
           ~s.collapsed
    PROVE  s \in Waiting(T, z)
<1>1. s.a \in Shown(T, z) /\ s.f \in Shown(T, z)
    BY DEF Selections
<1>2. s \in Selections(Notes)
    BY ShownIs DEF Selections
<1> QED
    BY <1>1, <1>2 DEF Waiting, InView

\* A range that is derived from a selection of the view stays in it, and so does its
\* correction.
LEMMA DeriveOk ==
    ASSUME NEW T, IsTree(T), NEW z \in Present(T) \cup {Top}, NEW s \in Selections(Shown(T, z)),
           ~s.collapsed, NEW u, NEW structured, NEW lad, NEW anchor, InView(T, z, anchor),
           NEW unl, NEW left \in Pendings(T, z),
           Derive(u, T, s, structured, lad, anchor, unl, left)
    PROVE  ladder' = lad /\ OutlineOk(T, z, outline') /\ pending' \in Pendings(T, z)
<1>0. s.a \in Shown(T, z) /\ s.f \in Shown(T, z)
    BY DEF Selections
<1>1. contiguousHeads(T, s) = HeadsBetween(T, s.a, s.f)
    BY DEF contiguousHeads
<1>2. OutlineOk(T, z, outline')
  <2>1. OutlineOk(T, z, structural(HeadsBetween(T, s.a, s.f)))
    BY <1>0, BetweenOk
  <2>2. OutlineOk(T, z, [kind |-> "inline", heads |-> <<s.a>>])
    BY <1>0, OneOk
  <2>3. outline' = structural(HeadsBetween(T, s.a, s.f))
        \/ outline' = [kind |-> "inline", heads |-> <<s.a>>]
    BY <1>1 DEF Derive
  <2> QED
    BY <2>1, <2>2, <2>3
<1>3. pending' \in Pendings(T, z)
  <2>1. CASE pending' = left
    BY <2>1
  <2>2. CASE pending' # left
    <3>1. anchor \in Present(T) /\ pending' = corrected(T, s, snapped(T, s, anchor), left)
        BY <2>2 DEF Derive
    <3>2. anchor \in Shown(T, z)
        BY <3>1 DEF InView
    <3> DEFINE w == snapped(T, s, anchor)
    <3>3. w \in Selections(Shown(T, z)) /\ ~w.collapsed
      <4> DEFINE heads == HeadsBetween(T, anchor, s.f)  tail == SubtreeTail(T, Last(heads))
      <4>1. Head(heads) \in Shown(T, z) /\ Last(heads) \in Shown(T, z)
        BY <1>0, <3>2, HeadsShown
      <4>2. tail \in Shown(T, z)
        BY <4>1, TailShown
      <4>3. w = Between(tail, Head(heads)) \/ w = Between(Head(heads), tail)
        BY DEF snapped
      <4> HIDE DEF heads, tail, w
      <4>4. \A a, f \in Shown(T, z) : Between(a, f) \in Selections(Shown(T, z)) /\ ~Between(a, f).collapsed
        BY DEF Between, Selections
      <4> QED
        BY <4>1, <4>2, <4>3, <4>4
    <3> HIDE DEF w
    <3>4. w \in Waiting(T, z)
        BY <3>3, WaitingIs
    <3>5. pending' = left \/ pending' = [left EXCEPT !.snap = w]
        BY <3>1 DEF corrected, w
    <3> QED
        BY <3>4, <3>5 DEF Pendings
  <2> QED
    BY <2>1, <2>2
<1> QED
    BY <1>2, <1>3 DEF Derive

\* So does a range that follows an edit.
LEMMA FollowOk ==
    ASSUME NEW T, IsTree(T), NEW z \in Present(T) \cup {Top}, NEW v \in {z, Top}, NEW lad \in Ladders,
           ladderHasStructuralRung(lad), lad.anchor \in Shown(T, v), NEW left \in Pendings(T, v),
           Follow(T, reshapeStructuralLadder(T, z, lad), left)
    PROVE  /\ ladder' \in Ladders /\ ladder'.anchor = lad.anchor
           /\ OutlineOk(T, v, outline') /\ pending' \in Pendings(T, v)
<1> DEFINE F == reshapeStructuralLadder(T, z, lad)  plan == F.plan
<1>1. F.ladder \in Ladders /\ F.ladder.anchor = lad.anchor /\ plan \in Extents(Shown(T, v))
    BY ReshapeShown
<1>2. /\ ladder' = F.ladder /\ outline' = structural(HeadsBetween(T, plan.first, plan.last))
      /\ pending' = [left EXCEPT !.reshape = selectionOf(T, plan)]
    BY DEF Follow, headsOf
<1> HIDE DEF F, plan
<1>3. plan.first \in Shown(T, v) /\ plan.last \in Shown(T, v)
    BY <1>1 DEF Extents
<1>4. OutlineOk(T, v, structural(HeadsBetween(T, plan.first, plan.last)))
    BY <1>3, BetweenOk
<1>5. selectionOf(T, plan) \in Waiting(T, v)
  <2>1. selectionOf(T, plan) \in Selections(Shown(T, v)) /\ ~selectionOf(T, plan).collapsed
    BY <1>1, SelectionOfShown
  <2> QED
    BY <2>1, WaitingIs
<1> QED
    BY <1>1, <1>2, <1>4, <1>5 DEF Pendings

\* The updates.
Updates == {Own, Collapsing, Correcting, Selecting, Editing}

\* What is left of the ladder is seen from its anchor, which is in the view or gone;
\* only a caret put elsewhere leaves a ladder behind.
LEMMA KeptOk ==
    ASSUME NEW T, IsTree(T), NEW v \in Present(T) \cup {Top}, NEW u \in Updates,
           u.tree => v \in {Boundary(T), Top},
           NEW s, SelectionOk(T, v, s),
           NEW kept \in Ladders, NEW unl, NEW left \in Pendings(T, v),
           InView(T, v, kept.anchor) \/ (u = Selecting /\ s # None /\ s.collapsed),
           ObserveKept(u, T, s, kept, unl, left)
    PROVE  /\ ladder' \in Ladders /\ OutlineOk(T, v, outline') /\ pending' \in Pendings(T, v)
           /\ \/ InView(T, v, ladder'.anchor)
              \/ u = Selecting /\ s # None /\ s.collapsed /\ pending' = left
<1> DEFINE reshapes == /\ ~u.progressive /\ ~u.snapping /\ u.tree
                       /\ ladderHasStructuralRung(kept) /\ kept.anchor = s.a
<1>0. s # None => s.a \in Shown(T, v) /\ s.f \in Shown(T, v) /\ s \in Selections(Shown(T, v))
    BY DEF SelectionOk, Selections
<1>1. CASE s = None /\ ladder' = kept /\ outline' = [kind |-> "none", heads |-> <<>>] /\ pending' = left
  <2> DEFINE e == <<>>
  <2>1. e \in Seq(Notes) /\ NoDup(e) /\ ToSet(e) = {}
    BY DEF NoDup, ToSet
  <2> HIDE DEF e
  <2>2. OutlineOk(T, v, [kind |-> "none", heads |-> e])
    BY <2>1 DEF OutlineOk
  <2> QED
    BY <1>1, <2>2 DEF e
<1>2. CASE s # None /\ reshapes /\ Follow(T, reshapeStructuralLadder(T, Boundary(T), kept), left)
  <2>1. kept.anchor \in Shown(T, v) /\ ladderHasStructuralRung(kept)
    BY <1>0, <1>2
  <2>3. Boundary(T) \in Present(T) \cup {Top} /\ v \in {Boundary(T), Top}
    BY <1>2 DEF Boundary
  <2>2. /\ ladder' \in Ladders /\ ladder'.anchor = kept.anchor
        /\ OutlineOk(T, v, outline') /\ pending' \in Pendings(T, v)
    BY <1>2, <2>1, <2>3, FollowOk
  <2> QED
    BY <2>1, <2>2 DEF InView
<1>3. CASE s # None /\ ~reshapes /\ s.collapsed /\ ladder' = kept /\ outline' = caretAt(s.a)
           /\ pending' = left
  <2>1. OutlineOk(T, v, [kind |-> "caret", heads |-> <<s.a>>])
    BY <1>0, <1>3, OneOk
  <2> QED
    BY <1>3, <2>1 DEF caretAt
<1>4. CASE s # None /\ ~reshapes /\ ~s.collapsed
           /\ DeriveInferring(u, T, s, ladderHasStructuralRung(kept),
                              IF ~ladderHasStructuralRung(kept) /\ Len(contiguousHeads(T, s)) > 1
                              THEN inferPointerProgression(T, s, contiguousHeads(T, s)) ELSE kept,
                              unl, left)
  <2> DEFINE lad == IF ~ladderHasStructuralRung(kept) /\ Len(contiguousHeads(T, s)) > 1
                    THEN inferPointerProgression(T, s, contiguousHeads(T, s)) ELSE kept
             anchor == IF ladderHasStructuralRung(lad) THEN lad.anchor ELSE s.a
  <2>1. s.a \in Notes /\ InView(T, v, s.a)
    BY <1>0, <1>4, ShownIs DEF InView
  <2>2. lad \in Ladders /\ InView(T, v, lad.anchor)
    BY <1>4, <2>1, InferOk
  <2>3. Derive(u, T, s, ladderHasStructuralRung(kept), lad, anchor, unl, left)
    BY <1>4 DEF DeriveInferring
  <2> HIDE DEF lad
  <2>4. InView(T, v, anchor)
    BY <2>1, <2>2
  <2> DEFINE structured == ladderHasStructuralRung(kept)
  <2> HIDE DEF anchor, structured
  <2>5. ladder' = lad /\ OutlineOk(T, v, outline') /\ pending' \in Pendings(T, v)
    <3>1. Derive(u, T, s, structured, lad, anchor, unl, left)
        BY <2>3 DEF structured
    <3> QED
        BY <1>0, <1>4, <2>4, <3>1, DeriveOk
  <2> QED
    BY <2>2, <2>5
<1>5. \/ s = None /\ ladder' = kept /\ outline' = [kind |-> "none", heads |-> <<>>] /\ pending' = left
      \/ s # None /\ reshapes /\ Follow(T, reshapeStructuralLadder(T, Boundary(T), kept), left)
      \/ s # None /\ ~reshapes /\ s.collapsed /\ ladder' = kept /\ outline' = caretAt(s.a)
           /\ pending' = left
      \/ s # None /\ ~reshapes /\ ~s.collapsed
           /\ DeriveInferring(u, T, s, ladderHasStructuralRung(kept),
                              IF ~ladderHasStructuralRung(kept) /\ Len(contiguousHeads(T, s)) > 1
                              THEN inferPointerProgression(T, s, contiguousHeads(T, s)) ELSE kept,
                              unl, left)
    BY DEF ObserveKept
<1> QED
    BY <1>1, <1>2, <1>3, <1>4, <1>5

\* An update resets the ladder, or its anchor is in the view or gone.
LEMMA ObserveOk ==
    ASSUME NEW T, IsTree(T), NEW v \in Present(T) \cup {Top}, NEW u \in Updates,
           u.tree => v \in {Boundary(T), Top},
           NEW s, SelectionOk(T, v, s),
           NEW lad \in Ladders, NEW unl \in BOOLEAN, NEW left \in Pendings(T, v),
           \/ InView(T, v, lad.anchor)
           \/ ~u.progressive /\ ~unl
           \/ u = Selecting /\ s # None /\ s.collapsed,
           Observe(u, T, s, lad, unl, left)
    PROVE  /\ SelectionOk(T, v, sel') /\ sel' = s
           /\ ladder' \in Ladders /\ unlock' \in BOOLEAN
           /\ OutlineOk(T, v, outline') /\ pending' \in Pendings(T, v)
           /\ \/ InView(T, v, ladder'.anchor)
              \/ u = Selecting /\ sel' # None /\ sel'.collapsed /\ pending' = left /\ ~unlock'
<1> DEFINE resets == ~u.progressive /\ (s = None \/ (~unl /\ (s.collapsed \/ lad.anchor # s.a)))
           kept == IF resets THEN INITIAL ELSE lad
<1>a. /\ Own.progressive = TRUE /\ Collapsing.progressive = TRUE /\ Correcting.progressive = FALSE
      /\ Selecting.progressive = FALSE /\ Editing.progressive = FALSE
    BY DEF Own, Collapsing, Correcting, Selecting, Editing, Tagged
<1>0. u.progressive \in BOOLEAN
    BY <1>a DEF Updates
<1>1. sel' = s /\ unlock' = (unl /\ u.progressive) /\ ObserveKept(u, T, s, kept, unl, left)
    BY DEF Observe
<1>2. INITIAL \in Ladders /\ InView(T, v, INITIAL.anchor)
  <2> DEFINE e == <<>>  w == [anchor |-> None, stack |-> e, dir |-> None]
  <2>1. StackOk(e) /\ e \in Seq(Rungs)
    BY DEF StackOk
  <2> HIDE DEF e
  <2>2. w \in [anchor : Notes \cup {None}, stack : Seq(Rungs), dir : Directions \cup {None}]
        /\ w.stack = e /\ w.anchor = None
    BY <2>1
  <2>3. INITIAL = w
    BY DEF INITIAL, emptyLadder, e
  <2> HIDE DEF w
  <2>4. w \in Ladders
    BY <2>1, <2>2 DEF Ladders
  <2>5. None \notin Present(T)
    BY PresentBelowTop, NoneAssumption DEF Owners
  <2> QED
    BY <2>2, <2>3, <2>4, <2>5 DEF InView
<1>3. kept \in Ladders
    BY <1>2
<1>4. InView(T, v, kept.anchor) \/ (u = Selecting /\ s # None /\ s.collapsed)
  <2>1. CASE InView(T, v, lad.anchor) \/ resets
    BY <1>2, <2>1
  <2>2. CASE ~u.progressive /\ ~unl /\ ~resets
    <3>1. s # None /\ lad.anchor = s.a
        BY <2>2
    <3>2. s.a \in Shown(T, v)
        BY <3>1 DEF SelectionOk, Selections
    <3> QED
        BY <2>2, <3>1, <3>2 DEF InView
  <2>3. CASE u = Selecting /\ s # None /\ s.collapsed
    BY <2>3
  <2> QED
    BY <2>1, <2>2, <2>3
<1> HIDE DEF kept
<1>5. /\ ladder' \in Ladders /\ OutlineOk(T, v, outline') /\ pending' \in Pendings(T, v)
      /\ \/ InView(T, v, ladder'.anchor)
         \/ u = Selecting /\ s # None /\ s.collapsed /\ pending' = left
    BY <1>1, <1>3, <1>4, KeptOk
<1>6. unlock' \in BOOLEAN
    BY <1>0, <1>1
<1>7. u = Selecting => ~unlock'
  <2> SUFFICES ASSUME u = Selecting PROVE ~unlock'
    OBVIOUS
  <2>1. u.progressive = FALSE
    BY <1>a
  <2>2. unlock' = (unl /\ u.progressive)
    BY <1>1
  <2> QED
    BY <2>1, <2>2
<1> QED
    BY <1>1, <1>5, <1>6, <1>7
-----------------------------------------------------------------------------
(* The invariant: the document is a tree, and whatever is selected, was    *)
(* remembered or is waiting to be set is in the view or gone.              *)

NothingWaits == [reshape |-> None, snap |-> None]

\* A caret elsewhere has left the ladder behind, which the next update resets.
Stale == sel # None /\ sel.collapsed /\ pending = NothingWaits /\ ~unlock

\* What holds the selection.
Area == IF strayed THEN Top ELSE zoom

TreeInv ==
    /\ IsTree(kids)
    /\ zoom \in Present(kids) \cup {Top} /\ strayed \in BOOLEAN
    /\ SelectionOk(kids, Area, sel)
    /\ ladder \in Ladders /\ (InView(kids, Area, ladder.anchor) \/ Stale)
    /\ unlock \in BOOLEAN
    /\ pending \in Pendings(kids, Area)
    /\ OutlineOk(kids, Area, outline)

\* It is the view, or the document.
LEMMA AreaIs ==
    ASSUME TreeInv
    PROVE  Area \in {zoom, Top} /\ Area \in Present(kids) \cup {Top}
BY DEF TreeInv, Area

\* Growing a ladder.
LEMMA PushOk ==
    ASSUME NEW lad \in Ladders, NEW dir \in Directions
    PROVE  /\ pushStep(lad, dir) \in Ladders /\ pushStep(lad, dir).anchor = lad.anchor
           /\ pushStep(lad, dir).dir = dir
           /\ pushStep(lad, dir).stack = Append(lad.stack, CASE Len(lad.stack) = 0 -> "inline"
                                                             [] Len(lad.stack) = 1 -> "subtree"
                                                             [] OTHER -> dir)
<1> DEFINE s == lad.stack
           x == CASE Len(s) = 0 -> "inline" [] Len(s) = 1 -> "subtree" [] OTHER -> dir
           t == Append(s, x)
<1>1. /\ StackOk(s) /\ s \in Seq(Rungs) /\ Len(s) \in Nat /\ DOMAIN s = 1..Len(s)
      /\ lad \in [anchor : Notes \cup {None}, stack : Seq(Rungs), dir : Directions \cup {None}]
    BY DEF Ladders
<1>2. x \in Rungs /\ (Len(s) = 0 => x = "inline") /\ (Len(s) = 1 => x = "subtree")
      /\ (Len(s) > 1 => x \in Directions)
  <2> DEFINE n == Len(s)
             y == CASE n = 0 -> "inline" [] n = 1 -> "subtree" [] OTHER -> dir
  <2> HIDE DEF n
  <2>1. n = 0 => y = "inline"
    OBVIOUS
  <2>2. n = 1 => y = "subtree"
    OBVIOUS
  <2>3. n # 0 /\ n # 1 => y = dir
    OBVIOUS
  <2>4. x = y /\ n \in Nat
    BY <1>1 DEF n
  <2> HIDE DEF x, y
  <2>5. x \in Rungs /\ (n = 0 => x = "inline") /\ (n = 1 => x = "subtree") /\ (n > 1 => x \in Directions)
    BY <2>1, <2>2, <2>3, <2>4 DEF Rungs
  <2> QED
    BY <2>5 DEF n
<1>3. pushStep(lad, dir) = [lad EXCEPT !.stack = t, !.dir = dir]
    BY DEF pushStep
<1> HIDE DEF s, x
<1>4. /\ t \in Seq(Rungs) /\ Len(t) = Len(s) + 1 /\ t[Len(s) + 1] = x /\ t # <<>>
      /\ \A i \in 1..Len(s) : t[i] = s[i]
    BY <1>1, <1>2
<1> HIDE DEF t
<1>5. StackOk(t)
  <2>1. t[1] \in {"inline", "subtree"}
    <3>1. CASE Len(s) = 0
        BY <1>2, <1>4, <3>1
    <3>2. CASE Len(s) # 0
      <4>1. 1 \in 1..Len(s) /\ s # <<>>
        BY <1>1, <3>2
      <4> QED
        BY <1>1, <1>4, <4>1 DEF StackOk
    <3> QED
        BY <3>1, <3>2
  <2>2. \A i \in DOMAIN t : i > 1 => t[i] # "inline"
    <3> SUFFICES ASSUME NEW i \in DOMAIN t, i > 1 PROVE t[i] # "inline"
        OBVIOUS
    <3>1. i \in 1..Len(s) \/ (i = Len(s) + 1 /\ Len(s) # 0)
        BY <1>1, <1>4
    <3>2. CASE i \in 1..Len(s)
        BY <1>1, <1>4, <3>2 DEF StackOk
    <3>3. CASE i = Len(s) + 1 /\ Len(s) # 0
        BY <1>1, <1>2, <1>4, <3>3 DEF Directions
    <3> QED
        BY <3>1, <3>2, <3>3
  <2>3. Len(t) > 1 => "subtree" \in {t[1], t[2]}
    <3>1. CASE Len(s) = 1
        BY <1>2, <1>4, <3>1
    <3>2. CASE Len(s) > 1
      <4>1. 1 \in 1..Len(s) /\ 2 \in 1..Len(s)
        BY <1>1, <3>2
      <4> QED
        BY <1>1, <1>4, <3>2, <4>1 DEF StackOk
    <3> QED
        BY <1>1, <1>4, <3>1, <3>2
  <2> QED
    BY <1>4, <2>1, <2>2, <2>3 DEF StackOk
<1> DEFINE w == pushStep(lad, dir)
<1>6. /\ w \in [anchor : Notes \cup {None}, stack : Seq(Rungs), dir : Directions \cup {None}]
      /\ w.stack = t /\ w.anchor = lad.anchor /\ w.dir = dir
    BY <1>1, <1>3, <1>4
<1> HIDE DEF w
<1>7. w \in Ladders
    BY <1>5, <1>6 DEF Ladders
<1> QED
    BY <1>6, <1>7 DEF w, t, x, s

\* Shrinking it.
LEMMA PopOk ==
    ASSUME NEW lad \in Ladders, lad.stack # <<>>
    PROVE  /\ popStep(lad) \in Ladders /\ popStep(lad).anchor = lad.anchor
           /\ popStep(lad).dir = IF Len(lad.stack) = 1 THEN None ELSE lad.dir
           /\ popStep(lad).stack = SubSeq(lad.stack, 1, Len(lad.stack) - 1)
<1> DEFINE s == lad.stack  t == SubSeq(s, 1, Len(s) - 1)
<1>1. /\ StackOk(s) /\ s \in Seq(Rungs) /\ Len(s) \in Nat /\ DOMAIN s = 1..Len(s) /\ s # <<>>
      /\ lad \in [anchor : Notes \cup {None}, stack : Seq(Rungs), dir : Directions \cup {None}]
    BY DEF Ladders
<1>2. popStep(lad) = [lad EXCEPT !.stack = t, !.dir = IF Len(lad.stack) = 1 THEN None ELSE lad.dir]
    BY <1>1 DEF popStep, Front
<1> DEFINE k == Len(s) - 1
<1>3. StackOk(t)
  <2> HIDE DEF s
  <2>1. CASE k = 0
    <3>0. SubSeq(s, 1, 0) \in Seq(Rungs) /\ Len(SubSeq(s, 1, 0)) = 0
        BY <1>1, SubSeqProperties
    <3>1. Len(t) = 0 /\ t \in Seq(Rungs)
        BY <2>1, <3>0
    <3> HIDE DEF t
    <3>2. t = <<>>
        BY <3>1
    <3> QED
        BY <3>1, <3>2 DEF StackOk
  <2>2. CASE k # 0
    <3>1. k \in DOMAIN s
        BY <1>1, <2>2
    <3> HIDE DEF k
    <3>2. StackOk(SubSeq(s, 1, k))
        BY <1>1, <3>1, PrefixOk
    <3> QED
        BY <3>2 DEF k
  <2> QED
    BY <2>1, <2>2
<1>4. t \in Seq(Rungs)
    BY <1>3 DEF StackOk
<1> HIDE DEF t
<1> DEFINE w == popStep(lad)
<1>6. /\ w \in [anchor : Notes \cup {None}, stack : Seq(Rungs), dir : Directions \cup {None}]
      /\ w.stack = t /\ w.anchor = lad.anchor /\ w.dir = IF Len(lad.stack) = 1 THEN None ELSE lad.dir
    BY <1>1, <1>2, <1>4
<1> HIDE DEF w
<1>7. w \in Ladders
    BY <1>3, <1>6 DEF Ladders
<1> QED
    BY <1>6, <1>7 DEF w, t, s

\* A ladder without rungs.
LEMMA EmptyOk ==
    ASSUME NEW n \in Notes \cup {None}
    PROVE  emptyLadder(n) \in Ladders /\ emptyLadder(n).anchor = n /\ emptyLadder(n).stack = <<>>
<1> DEFINE e == <<>>  w == [anchor |-> n, stack |-> e, dir |-> None]
<1>1. StackOk(e) /\ e \in Seq(Rungs)
    BY DEF StackOk
<1> HIDE DEF e
<1>2. w \in [anchor : Notes \cup {None}, stack : Seq(Rungs), dir : Directions \cup {None}]
      /\ w.stack = e /\ w.anchor = n
    BY <1>1
<1>3. emptyLadder(n) = w
    BY DEF emptyLadder, e
<1> HIDE DEF w
<1>4. w \in Ladders
    BY <1>1, <1>2 DEF Ladders
<1> QED
    BY <1>2, <1>3, <1>4 DEF e

\* None is in every view.
LEMMA NoneInView ==
    ASSUME NEW T, IsTree(T), NEW z
    PROVE  InView(T, z, None)
BY PresentBelowTop, NoneAssumption DEF Owners, InView

\* An update of the new tree re-establishes the invariant.
LEMMA UpdateOk ==
    ASSUME IsTree(kids'), zoom' \in Present(kids') \cup {Top}, strayed' \in BOOLEAN, NEW u \in Updates,
           u.tree => Area' \in {Boundary(kids'), Top},
           NEW s, SelectionOk(kids', Area', s),
           NEW lad \in Ladders, NEW unl \in BOOLEAN, NEW left \in Pendings(kids', Area'),
           \/ InView(kids', Area', lad.anchor)
           \/ ~u.progressive /\ ~unl
           \/ u = Selecting /\ s # None /\ s.collapsed,
           u = Selecting => left = NothingWaits,
           Observe(u, kids', s, lad, unl, left)
    PROVE  TreeInv'
<1> DEFINE v == Area'
<1>0. v \in Present(kids') \cup {Top}
    BY DEF Area
<1> HIDE DEF v
<1>1. /\ SelectionOk(kids', Area', sel') /\ sel' = s
      /\ ladder' \in Ladders /\ unlock' \in BOOLEAN
      /\ OutlineOk(kids', Area', outline') /\ pending' \in Pendings(kids', Area')
      /\ \/ InView(kids', Area', ladder'.anchor)
         \/ u = Selecting /\ sel' # None /\ sel'.collapsed /\ pending' = left /\ ~unlock'
    BY <1>0, ObserveOk DEF v
<1> QED
    BY <1>1 DEF TreeInv, Stale

\* An edit keeps the invariant if it keeps what the view shows.
LEMMA EditOk ==
    ASSUME TreeInv, NEW K, IsTree(K), zoom' \in Present(K) \cup {Top}, strayed' \in BOOLEAN,
           Area' \in {Boundary(K), Top},
           \A x \in Remembered : x \in Present(K) => x \in Present(kids),
           \A x \in Shown(kids, Area) : x \in Present(K) => x \in Shown(K, Area'),
           NEW s, SelectionOk(K, Area', s), Edited(K, s)
    PROVE  TreeInv'
<1>1. kids' = K /\ Observe(Editing, kids', s, ladder, unlock, pending)
    BY DEF Edited
<1>2. \A x \in Remembered : InView(kids, Area, x) => InView(K, Area', x)
    BY DEF InView
<1>3. pending \in Pendings(K, Area')
  <2>1. pending.reshape \in Waiting(kids, Area) /\ pending.snap \in Waiting(kids, Area)
        /\ pending = [reshape |-> pending.reshape, snap |-> pending.snap]
    BY DEF TreeInv, Pendings
  <2>2. ASSUME NEW p \in {pending.reshape, pending.snap} PROVE p \in Waiting(K, Area')
    <3>1. CASE p = None
        BY <3>1 DEF Waiting
    <3>2. CASE p # None
      <4>1. p \in Selections(Notes) /\ ~p.collapsed /\ InView(kids, Area, p.a) /\ InView(kids, Area, p.f)
        BY <2>1, <2>2, <3>2 DEF Waiting
      <4>2. p.a \in Remembered /\ p.f \in Remembered
        <5>1. {p.a, p.f} \in {{q.a, q.f} : q \in {pending.reshape, pending.snap} \ {None}}
            BY <3>2
        <5> QED
            BY <5>1 DEF Remembered
      <4> QED
        BY <1>2, <4>1, <4>2 DEF Waiting
    <3> QED
        BY <3>1, <3>2
  <2> QED
    BY <2>1, <2>2 DEF Pendings
<1>4. ladder.anchor \in Remembered
    BY DEF Remembered
<1>5. InView(K, Area', ladder.anchor) \/ ~unlock
    BY <1>2, <1>4 DEF TreeInv, Stale
<1>6. Editing \in Updates /\ ~Editing.progressive /\ Editing # Selecting
  <2>1. Editing.tree = TRUE /\ Selecting.tree = FALSE
    BY DEF Editing, Selecting, Tagged
  <2> QED
    BY <2>1 DEF Updates, Editing, Tagged
<1>7. Area' \in {Boundary(kids'), Top}
    BY <1>1
<1> QED
    BY <1>1, <1>3, <1>5, <1>6, <1>7, UpdateOk DEF TreeInv

\* A document of one note is a tree.
LEMMA OneNoteTree ==
    ASSUME NEW n \in Notes, NEW K, K = [o \in Owners |-> IF o = Top THEN <<n>> ELSE <<>>]
    PROVE  IsTree(K) /\ Present(K) = {n} /\ Shown(K, Top) = {n}
<1>0. n \in Owners /\ Top \in Owners /\ n # Top
    BY NotesAssumption DEF Owners
<1> DEFINE h == <<n>>  e == <<>>
<1>1. h \in Seq(Notes) /\ NoDup(h) /\ ToSet(h) = {n} /\ e \in Seq(Notes) /\ NoDup(e) /\ ToSet(e) = {}
    BY DEF NoDup, ToSet
<1>2. K = [o \in Owners |-> IF o = Top THEN h ELSE e]
    OBVIOUS
<1> HIDE DEF h
<1>3. K \in Lists
    BY <1>1, <1>2 DEF Lists
<1>4. IsBelow(K, Top) = {n} /\ \A o \in Owners : o # Top => IsBelow(K, o) = {} /\ K[o] = e
    BY <1>0, <1>1, <1>2 DEF IsBelow
<1>5. Present(K) = {n}
    BY <1>0, <1>4 DEF Present, IsBelow
<1>6. OneOwner(K)
  <2>1. \A o \in Owners : NoDup(K[o])
    BY <1>1, <1>2
  <2>2. \A o, p \in Owners : o # p => IsBelow(K, o) \cap IsBelow(K, p) = {}
    BY <1>4
  <2> QED
    BY <1>3, <2>1, <2>2, OneOwnerIs
<1>7. AbsentEmpty(K)
    BY <1>4, NotesAssumption DEF AbsentEmpty, Owners
<1>8. Descends(K)
  <2> SUFFICES ASSUME NEW S \in SUBSET Owners, S # {} PROVE \E p \in S : IsBelow(K, p) \cap S = {}
    BY DEF Descends
  <2>1. CASE n \in S
    BY <1>0, <1>4, <2>1
  <2>2. CASE n \notin S
    BY <1>4, <2>2
  <2> QED
    BY <2>1, <2>2
<1>9. Hangs(K)
    BY <1>0, <1>4, <1>5 DEF Hangs
<1>10. IsTree(K)
    BY <1>3, <1>6, <1>7, <1>8, <1>9 DEF IsTree
<1>11. Shown(K, Top) = {n}
    BY <1>5, <1>10, PresentBelowTop DEF Shown
<1> QED
    BY <1>5, <1>10, <1>11

\* At the start there is one note, with the caret.
LEMMA InitTree == Init => TreeInv
<1> SUFFICES ASSUME Init PROVE TreeInv
    OBVIOUS
<1>1. PICK n \in Notes :
          /\ kids = [o \in Owners |-> IF o = Top THEN <<n>> ELSE <<>>]
          /\ sel = Caret(n) /\ outline = caretAt(n)
    BY DEF Init
<1>2. IsTree(kids) /\ Present(kids) = {n} /\ Shown(kids, Top) = {n}
    BY <1>1, OneNoteTree
<1>3. zoom = Top /\ strayed = FALSE /\ Area = Top /\ ladder = emptyLadder(None) /\ unlock = FALSE /\ pending = NothingWaits
    BY DEF Init, INITIAL, NothingWaits, Area
<1>4. SelectionOk(kids, Area, sel)
    BY <1>1, <1>2, <1>3 DEF SelectionOk, Caret, Selections
<1>5. ladder \in Ladders /\ ladder.anchor = None
    BY <1>3, EmptyOk
<1>6. InView(kids, Area, ladder.anchor)
    BY <1>2, <1>5, NoneInView
<1>7. pending \in Pendings(kids, Area)
    BY <1>3 DEF NothingWaits, Pendings, Waiting
<1>8. OutlineOk(kids, Area, outline)
    BY <1>1, <1>2, <1>3, OneOk DEF caretAt
<1> QED
    BY <1>2, <1>3, <1>4, <1>5, <1>6, <1>7, <1>8 DEF TreeInv

\* The selection and the ladder that a key starts from.
LEMMA KeyStart ==
    ASSUME TreeInv, Settled, sel # None
    PROVE  /\ sel.a \in Shown(kids, Area) /\ sel.f \in Shown(kids, Area) /\ sel.a \in Notes
           /\ sel.collapsed \in BOOLEAN /\ sel \in Selections(Shown(kids, Area))
           /\ Resolved \in Ladders /\ InView(kids, Area, Resolved.anchor)
           /\ AnchorOf(Resolved) \in Shown(kids, Area) /\ AnchorOf(Resolved) \in Notes
           /\ pending = NothingWaits /\ Area \in {zoom, Top}
           /\ Shown(kids, Area) \subseteq Present(kids) /\ IsTree(kids)
           /\ zoom \in Present(kids) \cup {Top} /\ Area \in Present(kids) \cup {Top}
<1>1. sel.a \in Shown(kids, Area) /\ sel.f \in Shown(kids, Area) /\ sel.collapsed \in BOOLEAN
      /\ sel \in Selections(Shown(kids, Area))
    BY DEF TreeInv, SelectionOk, Selections
<1>0. Area \in {zoom, Top} /\ Area \in Present(kids) \cup {Top}
    BY AreaIs
<1>2. Shown(kids, Area) \subseteq Notes /\ Shown(kids, Area) \subseteq Present(kids)
    BY <1>0, ShownIs DEF TreeInv, Shown
<1>3. IsTree(kids) /\ zoom \in Present(kids) \cup {Top} /\ ladder \in Ladders
    BY DEF TreeInv
<1>4. INITIAL \in Ladders /\ InView(kids, Area, INITIAL.anchor)
    BY <1>3, EmptyOk, NoneInView DEF INITIAL
<1>5. CASE Resolved = INITIAL
    BY <1>0, <1>1, <1>2, <1>3, <1>4, <1>5 DEF AnchorOf, InView, Settled, NothingWaits
<1>6. CASE Resolved = ladder /\ Resolved # INITIAL
  <2>1. ~sel.collapsed \/ ladder.anchor = sel.a
    BY <1>6 DEF Resolved
  <2>2. InView(kids, Area, ladder.anchor)
    BY <1>1, <2>1 DEF TreeInv, Stale, InView
  <2> QED
    BY <1>0, <1>1, <1>2, <1>3, <1>6, <2>2 DEF AnchorOf, InView, Settled, NothingWaits
<1> QED
    BY <1>5, <1>6 DEF Resolved

\* A caret in the view is a selection of it.
LEMMA CaretOk ==
    ASSUME NEW T, NEW z, NEW n \in Shown(T, z)
    PROVE  SelectionOk(T, z, Caret(n)) /\ Caret(n).collapsed
BY DEF SelectionOk, Caret, Selections

\* The kinds of updates.
LEMMA UpdateKinds ==
    /\ {Own, Collapsing, Correcting, Selecting, Editing} = Updates
    /\ Own # Selecting /\ Collapsing # Selecting /\ Correcting # Selecting /\ Editing # Selecting
    /\ ~Selecting.progressive /\ ~Correcting.progressive /\ ~Editing.progressive
    /\ \A u \in Updates : u # Editing => u.tree = FALSE
<1>1. /\ Own.progressive = TRUE /\ Collapsing.progressive = TRUE /\ Correcting.snapping = TRUE
      /\ Selecting.progressive = FALSE /\ Selecting.snapping = FALSE /\ Selecting.tree = FALSE
      /\ Editing.tree = TRUE /\ Correcting.progressive = FALSE /\ Editing.progressive = FALSE
      /\ Own.tree = FALSE /\ Collapsing.tree = FALSE /\ Correcting.tree = FALSE
    BY DEF Own, Collapsing, Correcting, Selecting, Editing, Tagged
<1> QED
    BY <1>1 DEF Updates

\* What a key applies to the same tree.
LEMMA ApplyOk ==
    ASSUME TreeInv, Settled, kids' = kids, zoom' = zoom, strayed' = strayed,
           NEW s, SelectionOk(kids, Area, s), NEW lad \in Ladders, InView(kids, Area, lad.anchor),
           Apply(s, lad)
    PROVE  TreeInv'
<1>1. IsTree(kids') /\ zoom' \in Present(kids') \cup {Top} /\ SelectionOk(kids', Area', s)
      /\ InView(kids', Area', lad.anchor) /\ pending \in Pendings(kids', Area')
      /\ strayed' \in BOOLEAN
    BY DEF TreeInv, Area
<1>2. Observe(Own, kids', s, lad, TRUE, pending)
    BY DEF Apply
<1> DEFINE unl == TRUE
<1>3. unl \in BOOLEAN
    OBVIOUS
<1> HIDE DEF unl
<1>4. Observe(Own, kids', s, lad, unl, pending)
    BY <1>2 DEF unl
<1>5. Own \in Updates /\ Own.tree = FALSE /\ Own # Selecting
    BY UpdateKinds DEF Own, Tagged
<1> QED
    BY <1>1, <1>3, <1>4, <1>5, UpdateOk

\* Shift+Up and Shift+Down.
LEMMA ArrowTree ==
    ASSUME TreeInv, NEW dir \in Directions, ShiftArrow(dir)
    PROVE  TreeInv'
<1> DEFINE lad == Resolved  anchor == AnchorOf(lad)
           continues == lad.anchor = anchor /\ lad.stack # <<>>
           shrinks == continues /\ lad.dir = Opposite(dir)
           base == IF continues THEN lad ELSE emptyLadder(anchor)
           next == IF shrinks THEN popStep(lad) ELSE pushStep(base, dir)
           plan == replayLadder(kids, zoom, anchor, next.stack, FALSE)
<1>1. /\ Settled /\ sel # None /\ kids' = kids /\ zoom' = zoom /\ strayed' = strayed
      /\ \/ plan # None /\ Apply(selectionOf(kids, plan), next)
         \/ plan = None /\ shrinks /\ Apply(Caret(sel.a), emptyLadder(anchor))
         \/ plan = None /\ ~shrinks /\ Refused(lad)
    BY DEF ShiftArrow
<1>2. /\ sel.a \in Shown(kids, Area) /\ lad \in Ladders /\ InView(kids, Area, lad.anchor)
      /\ anchor \in Shown(kids, Area) /\ anchor \in Notes
    BY <1>1, KeyStart
<1>3. IsTree(kids) /\ zoom \in Present(kids) \cup {Top} /\ Area \in Present(kids) \cup {Top}
      /\ Area \in {zoom, Top}
    BY AreaIs DEF TreeInv
<1> HIDE DEF lad, anchor
<1>4. emptyLadder(anchor) \in Ladders /\ emptyLadder(anchor).anchor = anchor
    BY <1>2, EmptyOk
<1>5. base \in Ladders /\ base.anchor = anchor
    BY <1>2, <1>4
<1> HIDE DEF base
<1>6. next \in Ladders /\ next.anchor = anchor
  <2>1. CASE shrinks
    BY <1>2, <2>1, PopOk
  <2>2. CASE ~shrinks
    BY <1>5, <2>2, PushOk
  <2> QED
    BY <2>1, <2>2
<1> HIDE DEF next
<1>7. InView(kids, Area, anchor)
    BY <1>2 DEF InView
<1>8. plan \in Extents(Shown(kids, Area)) \cup {None, [inline |-> anchor]}
  <2>1. next.stack \in Seq(Rungs)
    BY <1>6 DEF Ladders
  <2> QED
    BY <1>2, <1>3, <2>1, ReplayShown
<1> HIDE DEF plan
<1>9. CASE plan # None /\ Apply(selectionOf(kids, plan), next)
  <2>1. SelectionOk(kids, Area, selectionOf(kids, plan))
    BY <1>2, <1>3, <1>8, <1>9, SelectionOfShown DEF SelectionOk
  <2> QED
    BY <1>1, <1>6, <1>7, <1>9, <2>1, ApplyOk
<1>10. CASE Apply(Caret(sel.a), emptyLadder(anchor))
    BY <1>1, <1>2, <1>4, <1>7, <1>10, CaretOk, ApplyOk
<1>11. CASE Refused(lad)
    BY <1>1, <1>2, <1>11 DEF Refused, TreeInv, Area
<1> QED
    BY <1>1, <1>9, <1>10, <1>11

\* Cmd/Ctrl+A.
LEMMA SelectAllTree ==
    ASSUME TreeInv, SelectAll
    PROVE  TreeInv'
<1> DEFINE lad == Resolved  anchor == AnchorOf(lad)
           base == IF lad.anchor = anchor THEN [lad EXCEPT !.dir = "down"] ELSE emptyLadder(anchor)
           next == pushStep(base, "down")
           plan == replayLadder(kids, zoom, anchor, next.stack, TRUE)
           last == replayLadder(kids, Top, anchor, base.stack, TRUE)
<1>1. /\ Settled /\ sel # None /\ kids' = kids /\ zoom' = zoom /\ strayed' = strayed
      /\ \/ plan # None /\ Apply(selectionOf(kids, plan), next)
         \/ plan = None /\ zoom # Top /\ Apply(selectionOf(kids, Extent(zoom, zoom, zoom)), lad)
         \/ plan = None /\ zoom = Top /\ last # None /\ Apply(selectionOf(kids, last), lad)
    BY DEF SelectAll
<1>2. /\ sel.a \in Shown(kids, Area) /\ lad \in Ladders /\ InView(kids, Area, lad.anchor)
      /\ anchor \in Shown(kids, Area) /\ anchor \in Notes
    BY <1>1, KeyStart
<1>3. IsTree(kids) /\ zoom \in Present(kids) \cup {Top} /\ Area \in Present(kids) \cup {Top}
      /\ Area \in {zoom, Top}
    BY AreaIs DEF TreeInv
<1> HIDE DEF lad, anchor
<1>4. emptyLadder(anchor) \in Ladders /\ emptyLadder(anchor).anchor = anchor
    BY <1>2, EmptyOk
<1>5. base \in Ladders /\ base.anchor = anchor
  <2>1. "down" \in Directions
    BY DEF Directions
  <2> DEFINE w == [lad EXCEPT !.dir = "down"]
  <2>2. w \in [anchor : Notes \cup {None}, stack : Seq(Rungs), dir : Directions \cup {None}]
        /\ w.stack = lad.stack /\ w.anchor = lad.anchor /\ StackOk(lad.stack)
    BY <1>2, <2>1 DEF Ladders
  <2> HIDE DEF w
  <2>3. w \in Ladders
    BY <2>2 DEF Ladders
  <2> QED
    BY <1>4, <2>2, <2>3 DEF w
<1> HIDE DEF base
<1>6. next \in Ladders /\ next.anchor = anchor
    BY <1>5, PushOk DEF Directions
<1> HIDE DEF next
<1>7. InView(kids, Area, anchor)
    BY <1>2 DEF InView
<1> DEFINE expand == TRUE
<1>8. plan \in Extents(Shown(kids, Area)) \cup {None, [inline |-> anchor]}
      /\ (zoom = Top => last \in Extents(Shown(kids, Area)) \cup {None, [inline |-> anchor]})
  <2>1. next.stack \in Seq(Rungs) /\ base.stack \in Seq(Rungs) /\ expand \in BOOLEAN
    BY <1>5, <1>6 DEF Ladders
  <2>2. /\ plan = replayLadder(kids, zoom, anchor, next.stack, expand)
        /\ last = replayLadder(kids, Top, anchor, base.stack, expand)
    OBVIOUS
  <2> HIDE DEF expand, plan, last
  <2> QED
    BY <1>2, <1>3, <2>1, <2>2, ReplayShown
<1> HIDE DEF plan, last, expand
<1>9. CASE plan # None /\ Apply(selectionOf(kids, plan), next)
  <2>1. SelectionOk(kids, Area, selectionOf(kids, plan))
    BY <1>2, <1>3, <1>8, <1>9, SelectionOfShown DEF SelectionOk
  <2> QED
    BY <1>1, <1>6, <1>7, <1>9, <2>1, ApplyOk
<1>10. CASE zoom # Top /\ Apply(selectionOf(kids, Extent(zoom, zoom, zoom)), lad)
  <2>1. zoom \in Shown(kids, Area)
    BY <1>3, <1>10, ShownIs DEF Shown
  <2>2. Extent(zoom, zoom, zoom) \in Extents(Shown(kids, Area))
    BY <2>1 DEF Extent, Extents
  <2>3. SelectionOk(kids, Area, selectionOf(kids, Extent(zoom, zoom, zoom)))
    BY <1>2, <1>3, <2>2, SelectionOfShown DEF SelectionOk
  <2> QED
    BY <1>1, <1>2, <1>10, <2>3, ApplyOk
<1>11. CASE zoom = Top /\ last # None /\ Apply(selectionOf(kids, last), lad)
  <2>1. SelectionOk(kids, Area, selectionOf(kids, last))
    BY <1>2, <1>3, <1>8, <1>11, SelectionOfShown DEF SelectionOk
  <2> QED
    BY <1>1, <1>2, <1>11, <2>1, ApplyOk
<1> QED
    BY <1>1, <1>9, <1>10, <1>11

\* Left, Right, Home, End, Escape and the like.
LEMMA CollapseTree ==
    ASSUME TreeInv, NEW edge, Collapse(edge)
    PROVE  TreeInv'
<1> DEFINE n == IF edge = "anchor" \/ outline.kind # "structural" THEN sel.a
                ELSE IF edge = "start" THEN Head(outline.heads) ELSE Last(outline.heads)
           unl == FALSE
<1>1. /\ Settled /\ sel # None /\ kids' = kids /\ zoom' = zoom /\ strayed' = strayed
      /\ Observe(Collapsing, kids, Caret(n), INITIAL, unl, pending)
    BY DEF Collapse
<1>2. n \in Shown(kids, Area)
  <2>1. sel.a \in Shown(kids, Area)
    BY <1>1, KeyStart
  <2>2. outline.kind = "structural" =>
            Head(outline.heads) \in Shown(kids, Area) /\ Last(outline.heads) \in Shown(kids, Area)
    <3> SUFFICES ASSUME outline.kind = "structural"
                 PROVE  Head(outline.heads) \in Shown(kids, Area) /\ Last(outline.heads) \in Shown(kids, Area)
        OBVIOUS
    <3> DEFINE h == outline.heads
    <3>1. h \in Seq(Notes) /\ h # <<>> /\ ToSet(h) \subseteq Shown(kids, Area)
        BY DEF TreeInv, OutlineOk
    <3> HIDE DEF h
    <3>2. 1 \in DOMAIN h /\ Len(h) \in DOMAIN h /\ Head(h) = h[1] /\ Last(h) = h[Len(h)]
        BY <3>1 DEF Last
    <3>3. Head(h) \in Shown(kids, Area) /\ Last(h) \in Shown(kids, Area)
        BY <3>1, <3>2 DEF ToSet
    <3> QED
        BY <3>3 DEF h
  <2> QED
    BY <2>1, <2>2
<1> HIDE DEF n
<1>3. IsTree(kids') /\ zoom' \in Present(kids') \cup {Top} /\ SelectionOk(kids', Area', Caret(n))
      /\ pending \in Pendings(kids', Area') /\ strayed' \in BOOLEAN
    BY <1>1, <1>2, CaretOk DEF TreeInv, Area
<1>4. INITIAL \in Ladders /\ InView(kids', Area', INITIAL.anchor)
    BY <1>3, EmptyOk, NoneInView DEF INITIAL
<1>5. unl \in BOOLEAN
    OBVIOUS
<1> HIDE DEF unl
<1>6. Observe(Collapsing, kids', Caret(n), INITIAL, unl, pending)
    BY <1>1
<1>7. Collapsing \in Updates /\ Collapsing.tree = FALSE /\ Collapsing # Selecting
    BY UpdateKinds DEF Collapsing, Tagged
<1> QED
    BY <1>3, <1>4, <1>5, <1>6, <1>7, UpdateOk

\* A selection that the browser makes in the same tree.
LEMMA SelectingOk ==
    ASSUME TreeInv, Settled, kids' = kids, zoom' \in Present(kids) \cup {Top}, strayed' \in BOOLEAN,
           NEW s, SelectionOk(kids, Area', s), Area' = Area \/ (s # None /\ s.collapsed),
           Observe(Selecting, kids, s, ladder, unlock, pending)
    PROVE  TreeInv'
<1>1. IsTree(kids') /\ zoom' \in Present(kids') \cup {Top} /\ SelectionOk(kids', Area', s)
      /\ ladder \in Ladders /\ unlock \in BOOLEAN
    BY DEF TreeInv
<1>2. pending \in Pendings(kids', Area') /\ pending = NothingWaits
    BY DEF Settled, NothingWaits, Pendings, Waiting
<1>3. Area' = Area => InView(kids', Area', ladder.anchor) \/ ~unlock
    BY DEF TreeInv, Stale
<1>4. Observe(Selecting, kids', s, ladder, unlock, pending)
    OBVIOUS
<1> QED
    BY <1>1, <1>2, <1>3, <1>4, UpdateKinds, UpdateOk

\* Shift+Left and Shift+Right.
LEMMA HorizontalTree ==
    ASSUME TreeInv, ShiftHorizontal
    PROVE  TreeInv'
<1>1. Settled /\ sel # None /\ sel.a = sel.f /\ kids' = kids /\ zoom' = zoom /\ strayed' = strayed
    BY DEF ShiftHorizontal
<1>2. PICK c \in BOOLEAN :
          Observe(Selecting, kids, [sel EXCEPT !.collapsed = c, !.exact = FALSE], ladder, unlock, pending)
    BY DEF ShiftHorizontal
<1> DEFINE s == [sel EXCEPT !.collapsed = c, !.exact = FALSE]
<1>3. SelectionOk(kids, Area, s)
  <2>1. sel \in Selections(Shown(kids, Area))
    BY <1>1, KeyStart
  <2>2. s \in Selections(Shown(kids, Area)) /\ s.a = s.f
    BY <1>1, <2>1 DEF Selections
  <2> QED
    BY <2>2 DEF SelectionOk
<1> HIDE DEF s
<1>4. Observe(Selecting, kids, s, ladder, unlock, pending)
    BY <1>2 DEF s
<1>5. zoom' \in Present(kids) \cup {Top} /\ strayed' \in BOOLEAN /\ Area' = Area
    BY <1>1 DEF TreeInv, Area
<1> QED
    BY <1>1, <1>3, <1>4, <1>5, SelectingOk

\* The pointer.
LEMMA PointTree ==
    ASSUME TreeInv, Point
    PROVE  TreeInv'
<1>1. Settled /\ kids' = kids /\ zoom' = zoom
    BY DEF Point
<1>2. PICK a \in View \cup (IF sel = None THEN {} ELSE {sel.a}), f \in View, c \in BOOLEAN :
         /\ c => a = f
         /\ Observe(Selecting, kids, [a |-> a, f |-> f, collapsed |-> c, exact |-> FALSE],
                    ladder, unlock, pending)
         /\ strayed' = (strayed /\ ~c)
    BY DEF Point
<1>3. View = Shown(kids, zoom) /\ zoom' \in Present(kids) \cup {Top} /\ Area \in {zoom, Top}
      /\ Shown(kids, Area) \subseteq Notes
      /\ Shown(kids, zoom) \subseteq Shown(kids, Area) /\ strayed' \in BOOLEAN
    BY <1>1, <1>2, AreaIs, ShownIs DEF TreeInv, View, Shown
<1> DEFINE s == [a |-> a, f |-> f, collapsed |-> c, exact |-> FALSE]
<1>4. SelectionOk(kids, Area', s) /\ s # None /\ s.collapsed = c
  <2>1. sel # None => sel.a \in Shown(kids, Area)
    BY DEF TreeInv, SelectionOk, Selections
  <2>2. CASE c
    <3>1. a \in Shown(kids, Area') /\ f \in Shown(kids, Area')
        BY <1>1, <1>2, <1>3, <2>2 DEF Area
    <3>2. s \in Selections(Shown(kids, Area')) /\ s \in Selections(Notes)
        BY <1>3, <3>1, <1>2, <2>2 DEF Selections
    <3> QED
        BY <1>2, <3>2, NoneAssumption DEF SelectionOk
  <2>3. CASE ~c
    <3>1. Area' = Area
        BY <1>1, <1>2, <2>3 DEF Area, TreeInv
    <3>2. a \in Shown(kids, Area) /\ f \in Shown(kids, Area)
        BY <1>2, <1>3, <2>1
    <3>3. s \in Selections(Shown(kids, Area)) /\ s \in Selections(Notes)
        BY <1>3, <3>2 DEF Selections
    <3> QED
        BY <2>3, <3>1, <3>3, NoneAssumption DEF SelectionOk
  <2> QED
    BY <2>2, <2>3
<1>5. Observe(Selecting, kids, s, ladder, unlock, pending)
    BY <1>2
<1> HIDE DEF s
<1>6. Area' = Area \/ s.collapsed
    BY <1>1, <1>2, <1>4 DEF Area, TreeInv
<1> QED
    BY <1>1, <1>3, <1>4, <1>5, <1>6, SelectingOk

\* The browser's version of a selection.
LEMMA NormalizeTree ==
    ASSUME TreeInv, Normalize
    PROVE  TreeInv'
<1>1. Settled /\ kids' = kids /\ zoom' = zoom /\ strayed' = strayed
      /\ Observe(Selecting, kids, sel, ladder, unlock, pending)
    BY DEF Normalize
<1>2. zoom' \in Present(kids) \cup {Top} /\ strayed' \in BOOLEAN /\ SelectionOk(kids, Area', sel)
      /\ Area' = Area
    BY <1>1 DEF TreeInv, Area
<1> QED
    BY <1>1, <1>2, SelectingOk

\* Another view, with the caret in it.
LEMMA ZoomTree ==
    ASSUME TreeInv, NEW z \in Owners, ZoomTo(z)
    PROVE  TreeInv'
<1>1. Settled /\ kids' = kids /\ zoom' = z /\ z \in Present(kids) \cup {Top} /\ strayed' = FALSE
      /\ Area' = z
    BY DEF ZoomTo, Area
<1>2. CASE z = Top /\ UNCHANGED <<sel, ladder, unlock, outline, pending>>
  <2>1. Shown(kids, Area) \subseteq Shown(kids, Area') /\ Shown(kids, Area') = Present(kids)
    BY <1>1, <1>2, AreaIs, ShownIs DEF TreeInv, Shown
  <2>2. SelectionOk(kids, Area', sel)
    BY <2>1 DEF TreeInv, SelectionOk, Selections
  <2>3. \A x : InView(kids, Area', x)
    BY <2>1 DEF InView
  <2>4. pending \in Pendings(kids, Area')
    BY <1>1 DEF Settled, Pendings, Waiting
  <2>5. OutlineOk(kids, Area', outline)
    BY <2>1 DEF TreeInv, OutlineOk
  <2> QED
    BY <1>1, <1>2, <2>2, <2>3, <2>4, <2>5 DEF TreeInv
<1>3. ASSUME z # Top, NEW n \in Subtree(kids, z), Observe(Selecting, kids, Caret(n), ladder, unlock, pending)
      PROVE  TreeInv'
  <2>1. n \in Shown(kids, z)
    BY <1>1, <1>3, ShownIs DEF TreeInv
  <2>2. SelectionOk(kids, Area', Caret(n)) /\ Caret(n).collapsed /\ Caret(n) # None
    <3>1. Caret(n) \in Selections(Notes)
        BY <1>1, <2>1, ShownIs DEF Caret, Selections, TreeInv
    <3> QED
        BY <1>1, <2>1, <3>1, CaretOk, NoneAssumption
  <2> QED
    BY <1>1, <1>3, <2>2, SelectingOk
<1> QED
    BY <1>2, <1>3 DEF ZoomTo

\* Typing.
LEMMA TextTree ==
    ASSUME TreeInv, EditText
    PROVE  TreeInv'
<1>1. zoom' = zoom /\ strayed' = strayed /\ Edited(kids, sel)
    BY DEF EditText
<1>2. IsTree(kids) /\ zoom' \in Present(kids) \cup {Top} /\ SelectionOk(kids, Area', sel)
      /\ strayed' \in BOOLEAN /\ Area' \in {Boundary(kids), Top}
      /\ \A x \in Shown(kids, Area) : x \in Present(kids) => x \in Shown(kids, Area')
    BY <1>1 DEF TreeInv, Area, Boundary
<1> QED
    BY <1>1, <1>2, EditOk

\* A selection of a tree that shows as much.
LEMMA SelectionKept ==
    ASSUME TreeInv, NEW K, NEW z, Shown(kids, Area) \subseteq Shown(K, z)
    PROVE  SelectionOk(K, z, sel)
BY DEF TreeInv, SelectionOk, Selections

\* A new note.
LEMMA InsertTree ==
    ASSUME TreeInv, InsertNote
    PROVE  TreeInv'
<1>1. zoom' = zoom /\ strayed' = strayed /\ Area' = Area
    BY DEF InsertNote, Area
<1>2. PICK n \in Notes \ (Present(kids) \cup Remembered), o \in {Top} \cup Present(kids) :
         \E i \in 1..(Len(kids[o]) + 1) : Edited([kids EXCEPT ![o] = Splice(@, i, <<n>>)], sel)
    BY DEF InsertNote, Unused
<1>3. PICK i \in 1..(Len(kids[o]) + 1) : Edited([kids EXCEPT ![o] = Splice(@, i, <<n>>)], sel)
    BY <1>2
<1> DEFINE K == [kids EXCEPT ![o] = Splice(@, i, <<n>>)]
<1>4. IsTree(kids) /\ Area \in Present(kids) \cup {Top} /\ Area \in {zoom, Top}
    BY AreaIs DEF TreeInv
<1>a. K = [kids EXCEPT ![o] = Splice(@, i, <<n>>)]
    OBVIOUS
<1> HIDE DEF K
<1>5. /\ IsTree(K) /\ Present(K) = Present(kids) \cup {n}
      /\ \A p \in Owners : IsBelow(kids, p) \subseteq IsBelow(K, p)
  <2>1. n \in Notes \ Present(kids) /\ Inserted(kids, n, o, i, K)
    BY <1>a DEF Inserted
  <2> QED
    BY <1>4, <2>1, InsertKeepsTree
<1>6. Edited(K, sel)
    BY <1>3 DEF K
<1>7. Area \in Owners
    BY <1>4, ShownIs
<1>8. Shown(kids, Area) \subseteq Shown(K, Area)
    BY <1>4, <1>5, <1>7, SubtreeGrows DEF IsTree, Shown
<1>9. SelectionOk(K, Area', sel)
    BY <1>1, <1>8, SelectionKept
<1>10. \A x \in Remembered : x \in Present(K) => x \in Present(kids)
    BY <1>2, <1>5
<1>11. zoom' \in Present(K) \cup {Top} /\ strayed' \in BOOLEAN /\ Area' \in {Boundary(K), Top}
    BY <1>1, <1>4, <1>5 DEF TreeInv, Boundary, Area
<1> QED
    BY <1>1, <1>5, <1>6, <1>8, <1>9, <1>10, <1>11, EditOk

\* Moving notes.
LEMMA MoveTree ==
    ASSUME TreeInv, MoveSelected
    PROVE  TreeInv'
<1> DEFINE r == outline.heads  R == ToSet(r)
           L == TakenOut(kids, r)
<1>1. zoom' = zoom /\ strayed' = strayed /\ Area' = Area /\ outline.kind = "structural"
    BY DEF MoveSelected, Area
<1>2. PICK o \in (IF zoom = Top THEN {Top} \cup Present(L) ELSE Subtree(L, zoom)) :
         /\ zoom \notin R /\ \A n \in R : o \notin Subtree(kids, n)
         /\ \E i \in 1..(Len(L[o]) + 1) : Edited(PutIn(L, r, o, i), sel)
    BY DEF MoveSelected
<1>3. PICK i \in 1..(Len(L[o]) + 1) : Edited(PutIn(L, r, o, i), sel)
    BY <1>2
<1> DEFINE M == PutIn(L, r, o, i)
<1>4. IsTree(kids) /\ zoom \in Present(kids) \cup {Top} /\ r \in Seq(Notes) /\ NoDup(r)
      /\ R \subseteq Present(kids) /\ Area \in {zoom, Top}
    BY AreaIs DEF TreeInv, OutlineOk, Shown
<1>5. kids \in Lists /\ Descends(kids) /\ zoom \in Owners /\ Top \in Owners
    BY <1>4, ShownIs DEF IsTree, Owners
<1>6. L \in Lists /\ \A p \in Owners : IsBelow(L, p) = IsBelow(kids, p) \ R
  <2>1. \A p \in Owners : kids[p] \in Seq(Notes)
    BY <1>5, BelowNotes
  <2>2. \A p \in Owners : Without(kids[p], R) \in Seq(Notes) /\ ToSet(Without(kids[p], R)) = ToSet(kids[p]) \ R
    BY <2>1, WithoutIs
  <2> QED
    BY <2>2 DEF Lists, IsBelow, TakenOut
<1>7. Descends(L)
    BY <1>5, <1>6, StillDescends
<1> HIDE DEF L, R
<1>8. zoom # Top => zoom \in Present(L)
  <2> SUFFICES ASSUME zoom # Top PROVE zoom \in Present(L)
    OBVIOUS
  <2>1. zoom \notin R /\ zoom \in Present(kids)
    BY <1>2, <1>4
  <2>2. PICK p \in Owners : zoom \in IsBelow(kids, p)
    BY <2>1 DEF Present, IsBelow
  <2>3. zoom \in IsBelow(L, p)
    BY <1>6, <2>1, <2>2
  <2> QED
    BY <1>6, <2>3, BelowNotes
<1>9. o \in {Top} \cup Present(L)
    BY <1>2, <1>5, <1>6, <1>7, <1>8, BelowIsPresent
<1>10. zoom # Top => o \in Subtree(L, zoom)
    BY <1>2
<1> HIDE DEF r, M
<1>11. /\ IsTree(M) /\ Present(M) = Present(kids)
       /\ \A z \in Owners : o \in Subtree(L, z) => Subtree(kids, z) \subseteq Subtree(M, z)
    BY <1>2, <1>4, <1>9, MoveKeepsTree DEF L, M, R
<1>12. Shown(kids, Area) \subseteq Shown(M, Area)
  <2>1. CASE Area = Top
    BY <1>4, <1>11, <2>1, ShownIs
  <2>2. CASE Area # Top
    BY <1>4, <1>5, <1>10, <1>11, <2>2 DEF Shown
  <2> QED
    BY <2>1, <2>2
<1>13. Edited(M, sel)
    BY <1>3 DEF M
<1>14. SelectionOk(M, Area', sel)
    BY <1>1, <1>12, SelectionKept
<1>15. strayed' \in BOOLEAN /\ Area' \in {Boundary(M), Top}
    BY <1>1, <1>4, <1>11 DEF TreeInv, Boundary, Area
<1> QED
    BY <1>1, <1>4, <1>11, <1>12, <1>13, <1>14, <1>15, EditOk

\* A selection that a microtask sets.
LEMMA FlushTree ==
    ASSUME TreeInv, kids' = kids, zoom' = zoom, strayed' = strayed, ~Settled, NEW u \in {Own, Correcting},
           NEW s \in Waiting(kids, Area), NEW left \in Pendings(kids, Area), Flush(u, s, left)
    PROVE  TreeInv'
<1>0. s # None
    BY DEF Flush
<1>1. IsTree(kids') /\ zoom' \in Present(kids') \cup {Top} /\ ladder \in Ladders /\ unlock \in BOOLEAN
      /\ left \in Pendings(kids', Area') /\ strayed' \in BOOLEAN /\ Area' = Area
    BY DEF TreeInv, Area
<1>2. InView(kids', Area', ladder.anchor)
    BY <1>1 DEF TreeInv, Stale, Settled, NothingWaits
<1>3. CASE sel # None /\ {s.a, s.f} \subseteq Present(kids)
  <2>1. Observe(u, kids', s, ladder, unlock, left)
    BY <1>3 DEF Flush
  <2>2. SelectionOk(kids', Area', s)
    BY <1>0, <1>1, <1>3 DEF Waiting, Selections, InView, SelectionOk
  <2>3. u \in Updates /\ u # Selecting /\ u.tree = FALSE
    BY UpdateKinds DEF Own, Correcting, Tagged
  <2> QED
    BY <1>1, <1>2, <2>1, <2>2, <2>3, UpdateOk
<1>4. CASE ~(sel # None /\ {s.a, s.f} \subseteq Present(kids))
  <2>1. pending' = left /\ UNCHANGED <<sel, ladder, unlock, outline>>
    BY <1>4 DEF Flush
  <2> QED
    BY <1>1, <1>2, <2>1 DEF TreeInv
<1> QED
    BY <1>3, <1>4

\* The microtasks.
LEMMA MicrotaskTree ==
    ASSUME TreeInv, Microtask
    PROVE  TreeInv'
<1>1. kids' = kids /\ zoom' = zoom /\ strayed' = strayed
    BY DEF Microtask, Flush
<1>2. /\ pending.reshape \in Waiting(kids, Area) /\ pending.snap \in Waiting(kids, Area)
      /\ [pending EXCEPT !.reshape = None] \in Pendings(kids, Area)
      /\ [pending EXCEPT !.snap = None] \in Pendings(kids, Area)
  <2>1. None \in Waiting(kids, Area)
    BY DEF Waiting
  <2> QED
    BY <2>1 DEF TreeInv, Pendings
<1>3. pending.reshape # None \/ pending.snap # None => ~Settled
    BY DEF Settled
<1>4. CASE Flush(Own, pending.reshape, [pending EXCEPT !.reshape = None])
  <2>1. ~Settled
    BY <1>3, <1>4 DEF Flush
  <2> QED
    BY <1>1, <1>2, <1>4, <2>1, FlushTree
<1>5. CASE Flush(Correcting, pending.snap, [pending EXCEPT !.snap = None])
  <2>1. ~Settled
    BY <1>3, <1>5 DEF Flush
  <2> QED
    BY <1>1, <1>2, <1>5, <2>1, FlushTree
<1> QED
    BY <1>4, <1>5 DEF Microtask

\* What has children is the root or a note of the document.
LEMMA OwnerPresent ==
    ASSUME NEW T, IsTree(T), NEW o \in Owners, NEW c \in IsBelow(T, o)
    PROVE  o \in Present(T) \cup {Top}
<1> SUFFICES ASSUME o # Top, o \notin Present(T) PROVE FALSE
    OBVIOUS
<1>1. T[o] = <<>> /\ T \in Lists
    BY DEF IsTree, AbsentEmpty, Owners
<1> QED
    BY <1>1, EmptyBelow

\* Keys that are exchanged two by two, in the keys themselves and in the lists.
IsExchange(p) == p \in [Owners -> Owners] /\ p[Top] = Top /\ \A o \in Owners : p[p[o]] = o

\* The same tree with exchanged keys.
LEMMA RekeyKeepsTree ==
    ASSUME NEW K, IsTree(K), NEW p, IsExchange(p), NEW M, M = Rekeyed(K, p)
    PROVE  /\ IsTree(M) /\ \A o \in Owners : IsBelow(M, o) = {p[c] : c \in IsBelow(K, p[o])}
           /\ Present(M) = {p[c] : c \in Present(K)}
           /\ \A z \in Owners : Subtree(M, p[z]) = {p[x] : x \in Subtree(K, z)}
<1>0. K \in Lists /\ OneOwner(K) /\ Descends(K) /\ AbsentEmpty(K) /\ Hangs(K)
      /\ Top \in Owners /\ Notes \subseteq Owners /\ Top \notin Notes
    BY NotesAssumption DEF IsTree, Owners
<1>1. /\ \A o \in Owners : p[o] \in Owners /\ p[p[o]] = o
      /\ \A o, q \in Owners : p[o] = p[q] => o = q
      /\ \A n \in Notes : p[n] \in Notes
  <2>1. \A o \in Owners : p[o] \in Owners /\ p[p[o]] = o
    BY DEF IsExchange
  <2>2. \A n \in Notes : p[n] \in Notes
    BY <1>0, <2>1 DEF IsExchange, Owners
  <2> QED
    BY <2>1, <2>2
<1>2. \A o \in Owners : /\ K[p[o]] \in Seq(Notes) /\ DOMAIN K[p[o]] = 1..Len(K[p[o]]) /\ Len(K[p[o]]) \in Nat
                        /\ \A k \in DOMAIN K[p[o]] : K[p[o]][k] \in Notes
    BY <1>0, <1>1, BelowNotes
<1>3. \A o \in Owners : M[o] = [i \in DOMAIN K[p[o]] |-> p[K[p[o]][i]]]
    BY DEF Rekeyed
<1>4. \A o \in Owners : M[o] \in Seq(Notes) /\ DOMAIN M[o] = DOMAIN K[p[o]] /\ Len(M[o]) = Len(K[p[o]])
                        /\ \A i \in DOMAIN K[p[o]] : M[o][i] = p[K[p[o]][i]]
  <2> SUFFICES ASSUME NEW o \in Owners
               PROVE  M[o] \in Seq(Notes) /\ DOMAIN M[o] = DOMAIN K[p[o]] /\ Len(M[o]) = Len(K[p[o]])
                      /\ \A i \in DOMAIN K[p[o]] : M[o][i] = p[K[p[o]][i]]
    OBVIOUS
  <2> DEFINE s == K[p[o]]
  <2>1. s \in Seq(Notes) /\ DOMAIN s = 1..Len(s) /\ Len(s) \in Nat /\ (\A k \in DOMAIN s : s[k] \in Notes)
        /\ M[o] = [i \in DOMAIN s |-> p[s[i]]]
    BY <1>2, <1>3
  <2> HIDE DEF s
  <2>2. \A i \in 1..Len(s) : p[s[i]] \in Notes
    BY <1>1, <2>1
  <2>3. M[o] = [i \in 1..Len(s) |-> p[s[i]]]
    BY <2>1
  <2>4. M[o] \in Seq(Notes) /\ Len(M[o]) = Len(s)
    BY <2>1, <2>2, <2>3
  <2> QED
    BY <2>1, <2>3, <2>4 DEF s
<1>5. M \in Lists
    BY <1>4 DEF Lists, Rekeyed
<1>6. \A o \in Owners : IsBelow(M, o) = {p[c] : c \in IsBelow(K, p[o])}
  <2> SUFFICES ASSUME NEW o \in Owners PROVE IsBelow(M, o) = {p[c] : c \in IsBelow(K, p[o])}
    OBVIOUS
  <2>1. IsBelow(M, o) = {M[o][i] : i \in DOMAIN M[o]}
    BY <1>5, BelowNotes
  <2>2. p[o] \in Owners /\ IsBelow(K, p[o]) = {K[p[o]][i] : i \in DOMAIN K[p[o]]}
    BY <1>0, <1>1, BelowNotes
  <2> QED
    BY <1>4, <2>1, <2>2
<1>7. Present(M) = {p[c] : c \in Present(K)}
  <2>1. ASSUME NEW n \in Present(M) PROVE n \in {p[c] : c \in Present(K)}
    <3>1. PICK o \in Owners : n \in IsBelow(M, o)
        BY DEF Present, IsBelow
    <3>2. PICK c \in IsBelow(K, p[o]) : n = p[c]
        BY <1>6, <3>1
    <3>3. c \in Present(K)
        BY <1>0, <1>1, <3>2, BelowNotes
    <3> QED
        BY <3>2, <3>3
  <2>2. ASSUME NEW c \in Present(K) PROVE p[c] \in Present(M)
    <3>1. PICK o \in Owners : c \in IsBelow(K, o)
        BY DEF Present, IsBelow
    <3>2. p[c] \in IsBelow(M, p[o]) /\ p[o] \in Owners
        BY <1>1, <1>6, <3>1
    <3> QED
        BY <1>5, <3>2, BelowNotes
  <2> QED
    BY <2>1, <2>2
<1>8. OneOwner(M)
  <2> SUFFICES ASSUME NEW o \in Owners, NEW q \in Owners, NEW i \in DOMAIN M[o], NEW j \in DOMAIN M[q],
                      M[o][i] = M[q][j]
               PROVE  o = q /\ i = j
    BY DEF OneOwner
  <2>1. i \in DOMAIN K[p[o]] /\ j \in DOMAIN K[p[q]] /\ p[o] \in Owners /\ p[q] \in Owners
        /\ M[o][i] = p[K[p[o]][i]] /\ M[q][j] = p[K[p[q]][j]]
        /\ K[p[o]][i] \in Owners /\ K[p[q]][j] \in Owners
    BY <1>0, <1>1, <1>2, <1>4
  <2>2. K[p[o]][i] = K[p[q]][j]
    BY <1>1, <2>1
  <2>3. p[o] = p[q] /\ i = j
    BY <1>0, <2>1, <2>2 DEF OneOwner
  <2> QED
    BY <1>1, <2>3
<1>9. AbsentEmpty(M)
  <2> SUFFICES ASSUME NEW o \in Notes \ Present(M) PROVE M[o] = <<>>
    BY DEF AbsentEmpty
  <2>1. o \in Owners /\ p[o] \in Notes /\ p[p[o]] = o
    BY <1>0, <1>1
  <2>2. p[o] \notin Present(K)
    BY <1>7, <2>1
  <2>3. K[p[o]] = <<>>
    BY <1>0, <2>1, <2>2 DEF AbsentEmpty
  <2>4. M[o] \in Seq(Notes) /\ Len(M[o]) = 0
    BY <1>4, <2>1, <2>3
  <2> QED
    BY <2>4
<1>10. Descends(M)
  <2> SUFFICES ASSUME NEW S \in SUBSET Owners, S # {} PROVE \E q \in S : IsBelow(M, q) \cap S = {}
    BY DEF Descends
  <2> DEFINE Q == {p[x] : x \in S}
  <2>1. Q \in SUBSET Owners /\ Q # {}
    BY <1>1
  <2>2. PICK q \in Q : IsBelow(K, q) \cap Q = {}
    BY <1>0, <2>1 DEF Descends
  <2>3. PICK x \in S : q = p[x]
    BY <2>2
  <2>4. IsBelow(M, x) = {p[c] : c \in IsBelow(K, q)}
    BY <1>6, <2>3
  <2>5. ASSUME NEW c \in IsBelow(K, q), p[c] \in S PROVE FALSE
    <3>1. c \in Owners
        BY <1>0, <2>1, <2>2, BelowNotes
    <3>2. c = p[p[c]]
        BY <1>1, <3>1
    <3>3. c \in Q
        BY <2>5, <3>2
    <3> QED
        BY <2>2, <3>3
  <2> QED
    BY <2>4, <2>5
<1>11. Hangs(M)
  <2> SUFFICES ASSUME NEW S \in SUBSET Present(M), S # {}
               PROVE  \E o \in Owners \ S : IsBelow(M, o) \cap S # {}
    BY DEF Hangs
  <2> DEFINE Q == {p[x] : x \in S}
  <2>0. Present(K) \subseteq Owners
    BY <1>0, PresentBelowTop
  <2>1. Q \in SUBSET Present(K) /\ Q # {}
    BY <1>1, <1>7, <2>0
  <2>2. PICK o \in Owners \ Q : IsBelow(K, o) \cap Q # {}
    BY <1>0, <2>1 DEF Hangs
  <2>3. PICK x \in S : p[x] \in IsBelow(K, o)
    BY <2>2
  <2>4. x \in Owners /\ x = p[p[x]]
    BY <1>1, <1>7, <2>0
  <2>5. p[o] \in Owners /\ p[p[o]] = o
    BY <1>1
  <2>6. p[o] \notin S
    BY <2>2, <2>5
  <2>7. x \in IsBelow(M, p[o])
    BY <1>6, <2>3, <2>4, <2>5
  <2> QED
    BY <2>5, <2>6, <2>7
<1>12. IsTree(M)
    BY <1>5, <1>8, <1>9, <1>10, <1>11 DEF IsTree
<1>13. ASSUME NEW z \in Owners PROVE Subtree(M, p[z]) = {p[x] : x \in Subtree(K, z)}
  <2>0. p[z] \in Owners /\ Subtree(K, z) \subseteq Owners /\ Subtree(M, p[z]) \subseteq Owners
        /\ z \in Subtree(K, z) /\ p[z] \in Subtree(M, p[z])
    BY <1>0, <1>1, <1>5, <1>10, SubtreeType, SubtreeHas
  <2>1. Subtree(M, p[z]) \subseteq {p[x] : x \in Subtree(K, z)}
    <3> DEFINE S == {p[x] : x \in Subtree(K, z)}
    <3>1. S \in SUBSET Owners /\ p[z] \in S
        BY <1>1, <2>0
    <3>2. ASSUME NEW q \in S PROVE IsBelow(M, q) \subseteq S
      <4>1. PICK x \in Subtree(K, z) : q = p[x]
        BY <3>2
      <4>2. x \in Owners /\ p[q] = x /\ q \in Owners
        BY <1>1, <2>0, <4>1
      <4>3. IsBelow(K, x) \subseteq Subtree(K, z)
        BY <1>0, SubtreeClosed
      <4> QED
        BY <1>6, <4>2, <4>3
    <3> HIDE DEF S
    <3>3. Subtree(M, p[z]) \subseteq S
        BY <1>5, <1>10, <3>1, <3>2, SubtreeLeast
    <3> QED
        BY <3>3 DEF S
  <2>2. ASSUME NEW x \in Subtree(K, z) PROVE p[x] \in Subtree(M, p[z])
    <3> DEFINE S == {y \in Owners : p[y] \in Subtree(M, p[z])}
    <3>1. S \in SUBSET Owners /\ z \in S
        BY <2>0
    <3>2. ASSUME NEW q \in S PROVE IsBelow(K, q) \subseteq S
      <4>1. p[q] \in Subtree(M, p[z]) /\ p[q] \in Owners /\ p[p[q]] = q
        BY <1>1
      <4>2. IsBelow(M, p[q]) \subseteq Subtree(M, p[z])
        BY <1>5, <1>10, <2>0, <4>1, SubtreeClosed
      <4>3. IsBelow(M, p[q]) = {p[c] : c \in IsBelow(K, q)}
        BY <1>6, <4>1
      <4>4. IsBelow(K, q) \subseteq Owners
        BY <1>0, BelowNotes
      <4> QED
        BY <4>2, <4>3, <4>4
    <3> HIDE DEF S
    <3>3. Subtree(K, z) \subseteq S
        BY <1>0, <3>1, <3>2, SubtreeLeast
    <3> QED
        BY <2>2, <3>3 DEF S
  <2> QED
    BY <2>1, <2>2
<1> QED
    BY <1>6, <1>7, <1>12, <1>13

\* Fresh keys are exchanged for those of the notes that get them.
LEMMA ExchangedIs ==
    ASSUME NEW gone \in SUBSET Notes, NEW free \in SUBSET Notes, gone \cap free = {},
           NEW fresh \in Injection(gone, free), NEW p, p = Exchanged(fresh)
    PROVE  /\ IsExchange(p) /\ \A x \in gone : p[x] \in free
           /\ \A o \in Owners : o \notin gone /\ o \notin free => p[o] = o
<1>1. fresh \in [gone -> free] /\ \A x, y \in gone : fresh[x] = fresh[y] => x = y
    BY DEF Injection, IsInjective
<1>2. DOMAIN fresh = gone /\ gone \subseteq Owners /\ free \subseteq Owners /\ Top \in Owners
      /\ Top \notin gone /\ Top \notin free
    BY <1>1, NotesAssumption DEF Owners
<1>3. p = [o \in Owners |-> IF o \in gone THEN fresh[o]
                           ELSE IF \E x \in gone : fresh[x] = o
                           THEN CHOOSE x \in gone : fresh[x] = o ELSE o]
    BY <1>2 DEF Exchanged
<1>4. \A x \in gone : p[x] = fresh[x] /\ fresh[x] \in free /\ fresh[x] \notin gone /\ fresh[x] \in Owners
    BY <1>1, <1>2, <1>3
<1>5. ASSUME NEW x \in gone PROVE p[fresh[x]] = x
  <2>1. p[fresh[x]] = CHOOSE y \in gone : fresh[y] = fresh[x]
    BY <1>3, <1>4
  <2> QED
    BY <1>1, <2>1
<1>6. \A o \in Owners : o \notin gone /\ (\A x \in gone : fresh[x] # o) => p[o] = o
    BY <1>3
<1>7. \A o \in Owners : p[o] \in Owners /\ p[p[o]] = o
  <2> SUFFICES ASSUME NEW o \in Owners PROVE p[o] \in Owners /\ p[p[o]] = o
    OBVIOUS
  <2>1. CASE o \in gone
    BY <1>4, <1>5, <2>1
  <2>2. CASE o \notin gone /\ \E x \in gone : fresh[x] = o
    <3>1. PICK x \in gone : fresh[x] = o
        BY <2>2
    <3> QED
        BY <1>2, <1>4, <1>5, <3>1
  <2>3. CASE o \notin gone /\ \A x \in gone : fresh[x] # o
    BY <1>6, <2>3
  <2> QED
    BY <2>1, <2>2, <2>3
<1>8. p \in [Owners -> Owners]
    BY <1>3, <1>7
<1>9. \A o \in Owners : o \notin gone /\ o \notin free => p[o] = o
    BY <1>4, <1>6
<1> QED
    BY <1>2, <1>4, <1>7, <1>8, <1>9 DEF IsExchange

\* The tree copy is K with keys of free for those of gone.
IsReturned(K, gone, free, p, copy) ==
    /\ IsExchange(p) /\ \A x \in gone : p[x] \in free
    /\ \A x \in Owners : x \notin gone /\ x \notin free => p[x] = x
    /\ IsTree(copy) /\ Present(copy) = {p[c] : c \in Present(K)}
    /\ \A z \in Owners : Subtree(copy, p[z]) = {p[x] : x \in Subtree(K, z)}

\* The tree in which the notes of gone have fresh keys.
LEMMA CopyIs ==
    ASSUME NEW K, IsTree(K), NEW gone \in SUBSET Present(K), NEW free \in SUBSET (Notes \ Present(K)),
           NEW fresh \in Injection(gone, free)
    PROVE  \A p : p = Exchanged(fresh) => IsReturned(K, gone, free, p, Rekeyed(K, p))
<1> DEFINE p == Exchanged(fresh)
<1> DEFINE copy == Rekeyed(K, p)
<1>1. gone \in SUBSET Notes /\ free \in SUBSET Notes /\ gone \cap free = {}
    BY PresentBelowTop DEF IsTree
<1>2. /\ IsExchange(p) /\ \A x \in gone : p[x] \in free
      /\ \A x \in Owners : x \notin gone /\ x \notin free => p[x] = x
    BY <1>1, ExchangedIs
<1>a. copy = Rekeyed(K, p)
    OBVIOUS
<1> HIDE DEF p, copy
<1>3. /\ IsTree(copy) /\ Present(copy) = {p[c] : c \in Present(K)}
      /\ \A z \in Owners : Subtree(copy, p[z]) = {p[x] : x \in Subtree(K, z)}
    BY <1>2, <1>a, RekeyKeepsTree
<1>4. IsReturned(K, gone, free, p, copy)
    BY <1>2, <1>3 DEF IsReturned
<1> QED
    BY <1>4 DEF p, copy

\* A note is taken out, and put back outside its subtree.
LEMMA MoveOneKeepsTree ==
    ASSUME NEW copy, IsTree(copy), NEW m \in Present(copy),
           NEW r \in Seq(Notes), NoDup(r), ToSet(r) = {m}, NEW rest, rest = TakenOut(copy, r),
           NEW o \in ({Top} \cup Present(copy)) \ Subtree(copy, m),
           NEW i \in 1..(Len(rest[o]) + 1), NEW M, M = PutIn(rest, r, o, i)
    PROVE  /\ IsTree(M) /\ Present(M) = Present(copy)
           /\ \A q \in Owners : IsBelow(copy, q) \ {m} \subseteq IsBelow(M, q)
<1>1. copy \in Lists /\ Descends(copy) /\ Present(copy) \subseteq Notes /\ m \in Owners /\ m \in Notes
      /\ o \in Owners /\ m \in Subtree(copy, m) /\ o \notin Subtree(copy, m)
  <2>1. copy \in Lists /\ Descends(copy) /\ Present(copy) \subseteq Notes
    BY PresentBelowTop DEF IsTree
  <2>2. m \in Owners /\ m \in Notes
    BY <2>1 DEF Owners
  <2>3. m \in Subtree(copy, m)
    BY <2>1, <2>2, SubtreeHas
  <2>4. o \in Owners /\ o \notin Subtree(copy, m)
    BY <2>1 DEF Owners
  <2> QED
    BY <2>1, <2>2, <2>3, <2>4
<1>6. rest = [q \in Owners |-> Without(copy[q], {m})] /\ M = [rest EXCEPT ![o] = Splice(@, i, r)]
    BY DEF TakenOut, PutIn
<1>8. /\ rest \in Lists
      /\ \A q \in Owners : rest[q] \in Seq(Notes) /\ IsBelow(rest, q) = IsBelow(copy, q) \ {m}
  <2>1. \A q \in Owners : copy[q] \in Seq(Notes)
    BY <1>1, BelowNotes
  <2>0. \A q \in Owners : rest[q] = Without(copy[q], {m})
    BY <1>6
  <2>2. \A q \in Owners : /\ Without(copy[q], {m}) \in Seq(Notes)
                          /\ ToSet(Without(copy[q], {m})) = ToSet(copy[q]) \ {m}
    BY <2>1, WithoutIs
  <2>3. \A q \in Owners : rest[q] \in Seq(Notes) /\ IsBelow(rest, q) = IsBelow(copy, q) \ {m}
    BY <2>0, <2>2 DEF IsBelow
  <2> QED
    BY <1>6, <2>2, <2>3 DEF Lists
<1>9. o \in {Top} \cup Present(rest)
  <2> SUFFICES ASSUME o # Top PROVE o \in Present(rest)
    OBVIOUS
  <2>1. o \in Present(copy) /\ o # m
    BY <1>1
  <2>2. PICK q \in Owners : o \in IsBelow(copy, q)
    BY <2>1 DEF Present, IsBelow
  <2>3. o \in IsBelow(rest, q)
    BY <1>8, <2>1, <2>2
  <2> QED
    BY <1>8, <2>3, BelowNotes
<1>10. IsTree(M) /\ Present(M) = Present(copy)
  <2> DEFINE R == ToSet(r)
  <2>1. R \subseteq Present(copy) /\ \A x \in R : o \notin Subtree(copy, x)
    BY <1>1
  <2> HIDE DEF R
  <2>2. R = ToSet(r)
    BY DEF R
  <2> QED
    BY <1>9, <2>1, <2>2, MoveKeepsTree
<1>11. \A q \in Owners : IsBelow(rest, q) \subseteq IsBelow(M, q)
  <2>1. M[o] = Splice(rest[o], i, r) /\ \A q \in Owners : q # o => M[q] = rest[q]
    BY <1>6, <1>1, <1>8 DEF Lists
  <2>2. ToSet(Splice(rest[o], i, r)) = ToSet(rest[o]) \cup ToSet(r)
    <3> DEFINE l == rest[o]
    <3>1. l \in Seq(Notes) /\ i \in 1..(Len(l) + 1)
        BY <1>1, <1>8
    <3> HIDE DEF l
    <3>2. ToSet(Splice(l, i, r)) = ToSet(l) \cup ToSet(r)
        BY <3>1, SpliceIs
    <3> QED
        BY <3>2 DEF l
  <2> QED
    BY <2>1, <2>2 DEF IsBelow
<1> QED
    BY <1>8, <1>10, <1>11

\* In M the notes of gone are elsewhere, with keys of free, and the others where they were.
IsPutBack(K, gone, free, p, M) ==
    /\ IsTree(M) /\ Present(K) \ gone \subseteq Present(M)
    /\ Present(M) \cap Present(K) = Present(K) \ gone
    /\ Present(M) \subseteq (Present(K) \ gone) \cup free
    /\ \A z \in gone : p[z] \in Present(M) /\ p[z] \in free
    /\ \A z \in Present(K) \cup {Top} :
          z \notin gone => p[z] = z /\ Subtree(K, z) \ gone \subseteq Subtree(M, z)

\* A subtree that comes back elsewhere with new keys.
LEMMA ReturnKeepsTree ==
    ASSUME NEW K, IsTree(K), NEW n \in Present(K), NEW gone, gone = Subtree(K, n),
           NEW free \in SUBSET (Notes \ Present(K)), NEW p, NEW copy, IsReturned(K, gone, free, p, copy),
           NEW r \in Seq(Notes), NoDup(r), ToSet(r) = {p[n]}, NEW rest, rest = TakenOut(copy, r),
           NEW o \in ({Top} \cup Present(copy)) \ Subtree(copy, p[n]),
           NEW i \in 1..(Len(rest[o]) + 1), NEW M, M = PutIn(rest, r, o, i)
    PROVE  IsPutBack(K, gone, free, p, M)
<1>0. K \in Lists /\ Descends(K) /\ Present(K) \subseteq Notes /\ n \in Owners /\ Top \notin Notes
      /\ gone \subseteq Present(K) /\ n \in gone /\ Notes \subseteq Owners /\ Top \in Owners
  <2>1. K \in Lists /\ Descends(K) /\ Present(K) \subseteq Notes
    BY PresentBelowTop DEF IsTree
  <2>2. n \in Owners /\ Notes \subseteq Owners /\ Top \in Owners /\ Top \notin Notes
    BY <2>1, NotesAssumption DEF Owners
  <2>3. gone \subseteq Present(K) /\ n \in gone
    BY <2>1, <2>2, BelowIsPresent, SubtreeHas
  <2> QED
    BY <2>1, <2>2, <2>3
<1>1. /\ IsExchange(p) /\ \A x \in gone : p[x] \in free
      /\ \A x \in Owners : x \notin gone /\ x \notin free => p[x] = x
    BY DEF IsReturned
<1>2. /\ IsTree(copy)
      /\ Present(copy) = {p[c] : c \in Present(K)}
      /\ \A z \in Owners : Subtree(copy, p[z]) = {p[x] : x \in Subtree(K, z)}
    BY DEF IsReturned
<1>3. \A x \in Present(K) \cup {Top} : x \notin gone => p[x] = x
    BY <1>0, <1>1
<1> DEFINE m == p[n]
<1>4. m \in Present(copy) /\ m \in free /\ m \in Notes
      /\ Subtree(copy, m) = {p[x] : x \in gone} /\ Subtree(copy, m) \subseteq free
  <2>1. m \in Present(copy)
    BY <1>2
  <2>2. m \in free /\ m \in Notes
    BY <1>0, <1>1
  <2>3. Subtree(copy, m) = {p[x] : x \in gone}
    BY <1>0, <1>2
  <2> QED
    BY <1>1, <2>1, <2>2, <2>3
<1> HIDE DEF m
<1>5. o \in ({Top} \cup Present(copy)) \ Subtree(copy, m) /\ ToSet(r) = {m}
    BY DEF m
<1>7. copy \in Lists /\ Descends(copy) /\ m \in Owners /\ m \in Subtree(copy, m)
  <2>1. copy \in Lists /\ Descends(copy) /\ m \in Owners
    BY <1>0, <1>2, <1>4 DEF IsTree
  <2> QED
    BY <2>1, SubtreeHas
<1>10. /\ IsTree(M) /\ Present(M) = Present(copy)
       /\ \A q \in Owners : IsBelow(copy, q) \ {m} \subseteq IsBelow(M, q)
    BY <1>2, <1>4, <1>5, MoveOneKeepsTree
<1>12. ASSUME NEW z \in Present(K) \cup {Top}, z \notin gone
       PROVE  p[z] = z /\ Subtree(K, z) \ gone \subseteq Subtree(M, z)
  <2>1. p[z] = z /\ z \in Owners
    BY <1>0, <1>3, <1>12
  <2>2. Subtree(copy, z) = {p[x] : x \in Subtree(K, z)}
    BY <1>2, <2>1
  <2>3. M \in Lists /\ Descends(M)
    BY <1>10 DEF IsTree
  <2>4. Subtree(copy, z) \subseteq Subtree(M, z) \cup Subtree(copy, m)
    <3> DEFINE S == Subtree(M, z) \cup Subtree(copy, m)
    <3>1. S \in SUBSET Owners /\ z \in S
        BY <1>7, <2>1, <2>3, SubtreeType, SubtreeHas
    <3>2. ASSUME NEW q \in S PROVE IsBelow(copy, q) \subseteq S
      <4>1. CASE q \in Subtree(copy, m)
        BY <1>7, <4>1, SubtreeClosed
      <4>2. CASE q \in Subtree(M, z)
        <5>1. IsBelow(M, q) \subseteq Subtree(M, z) /\ q \in Owners
            BY <2>1, <2>3, <3>1, <4>2, SubtreeClosed
        <5>2. IsBelow(copy, q) \subseteq IsBelow(M, q) \cup {m}
            BY <1>10, <5>1
        <5> QED
            BY <1>7, <5>1, <5>2
      <4> QED
        BY <4>1, <4>2
    <3> HIDE DEF S
    <3>3. Subtree(copy, z) \subseteq S
        BY <1>7, <2>1, <3>1, <3>2, SubtreeLeast
    <3> QED
        BY <3>3 DEF S
  <2>5. ASSUME NEW x \in Subtree(K, z), x \notin gone PROVE x \in Subtree(M, z)
    <3>1. x \in Present(K) \cup {Top}
        BY <1>0, <1>12, <2>1, BelowIsPresent
    <3>2. p[x] = x
        BY <1>3, <2>5, <3>1
    <3>3. x \in Subtree(copy, z) /\ x \notin Subtree(copy, m)
        BY <1>0, <1>4, <2>2, <3>1, <3>2
    <3> QED
        BY <2>4, <3>3
  <2> QED
    BY <2>1, <2>5
<1>13. \A x \in Present(K) : x \in gone \/ (x \in Present(M) /\ p[x] = x)
    BY <1>2, <1>3, <1>10
<1>14. \A x \in Present(M) : x \in free \/ (x \in Present(K) /\ x \notin gone)
    BY <1>1, <1>2, <1>3, <1>10
<1>15. \A z \in gone : p[z] \in Present(M) /\ p[z] \in free
    BY <1>0, <1>1, <1>2, <1>10
<1> QED
    BY <1>10, <1>12, <1>13, <1>14, <1>15 DEF IsPutBack

\* What the area shows, but for the notes of gone, the next one shows in K.
KeepsShown(K, gone) ==
    /\ \A x \in Shown(kids, Area) : x \in Present(K) => x \in Shown(K, Area')
    /\ \A x \in Shown(kids, Area) : x \notin gone => x \in Shown(K, Area')

\* Without a subtree an area shows what it did, and if it was in the subtree the
\* document takes its place.
LEMMA AwayShown ==
    ASSUME IsTree(kids), NEW n \in Present(kids), NEW gone, gone = Subtree(kids, n),
           Area \in Present(kids) \cup {Top}, Area \in Owners, Top \notin gone,
           NEW K, IsTree(K), Present(K) \cap Present(kids) = Present(kids) \ gone,
           Area \notin gone => Subtree(kids, Area) \ gone \subseteq Subtree(K, Area),
           Area' = IF Area \in gone THEN Top ELSE Area
    PROVE  KeepsShown(K, gone)
<1>1. \A x : x \in Shown(K, Top) <=> x \in Present(K)
    BY ShownIs
<1>2. CASE Area \in gone
    BY <1>1, <1>2 DEF KeepsShown, Shown
<1>3. CASE Area \notin gone
  <2>1. Area' = Area /\ \A x \in Subtree(kids, Area) : x \notin gone => x \in Subtree(K, Area)
    BY <1>3
  <2>2. ASSUME NEW x \in Shown(kids, Area), x \in Present(K) \/ x \notin gone PROVE x \in Shown(K, Area')
    <3>1. x \in Present(kids) /\ x \in Subtree(kids, Area)
        BY DEF Shown
    <3>2. x \notin gone /\ x \in Present(K)
        BY <2>2, <3>1
    <3> QED
        BY <2>1, <3>1, <3>2 DEF Shown
  <2> QED
    BY <2>2 DEF KeepsShown
<1> QED
    BY <1>2, <1>3

\* What is near a subtree that is gone is shown where the subtree was.
LEMMA NearShown ==
    ASSUME IsTree(kids), NEW n \in Present(kids), NEW gone, gone = Subtree(kids, n),
           Area \in Present(kids) \cup {Top}, Area \in Owners, Top \notin gone,
           NEW K, IsTree(K), Present(K) \cap Present(kids) = Present(kids) \ gone,
           Area \notin gone => Subtree(kids, Area) \ gone \subseteq Subtree(K, Area),
           Area' = IF Area \in gone THEN Top ELSE Area,
           NEW near, near = Near(K, Parent(kids, n))
    PROVE  /\ near \subseteq Present(K)
           /\ Area \in gone \/ (\E x \in gone : x \in Subtree(kids, Area)) => near \subseteq Shown(K, Area')
<1> DEFINE p == Parent(kids, n)
<1>0. kids \in Lists /\ OneOwner(kids) /\ Descends(kids) /\ n \in Owners /\ Top \in Owners
    BY PresentBelowTop DEF IsTree, Owners
<1>1. p \in Owners /\ n \in IsBelow(kids, p)
    BY <1>0, PresentParent
<1>2. p \in Present(kids) \cup {Top} /\ p \notin gone
    BY <1>0, <1>1, OwnerPresent, OwnerNotBelow
<1> HIDE DEF p
<1>3. p \in Present(K) \cup {Top} /\ near = Near(K, p)
    BY <1>2 DEF p
<1>4. near \subseteq Present(K)
  <2>1. p # Top => Subtree(K, p) \subseteq Present(K)
    BY <1>1, <1>3, BelowIsPresent DEF IsTree
  <2> QED
    BY <1>3, <2>1 DEF Near
<1>5. CASE Area' = Top
    BY <1>4, <1>5, ShownIs
<1>6. ASSUME Area' # Top, NEW x \in gone, x \in Subtree(kids, Area) PROVE near \subseteq Shown(K, Area')
  <2>1. Area' = Area /\ Area # Top /\ Area \notin gone
    BY <1>6
  <2>2. n \in Subtree(kids, Area)
    BY <1>0, <1>6, <2>1, SubtreeChain
  <2>3. n # Area
    BY <1>0, <2>1, SubtreeHas
  <2>4. p \in Subtree(kids, Area)
    BY <1>0, <1>1, <2>2, <2>3, SubtreeOwner
  <2>5. p \in Subtree(K, Area)
    BY <1>2, <2>1, <2>4
  <2>6. p # Top
    BY <2>1, <2>4, ShownIs, NotesAssumption
  <2>7. near = Subtree(K, p)
    BY <1>3, <2>6 DEF Near
  <2>8. near \subseteq Subtree(K, Area)
    BY <1>0, <2>5, <2>7, SubtreeTrans DEF IsTree
  <2> QED
    BY <1>4, <2>1, <2>8 DEF Shown
<1> QED
    BY <1>4, <1>5, <1>6

\* An edit that takes notes away keeps the invariant if their neighbours are shown.
LEMMA AwayOk ==
    ASSUME TreeInv, NEW K, IsTree(K), zoom' \in Present(K) \cup {Top}, strayed' \in BOOLEAN,
           Area' \in {Boundary(K), Top}, NEW gone, KeepsShown(K, gone),
           \A x \in Remembered : x \in Present(K) => x \in Present(kids),
           NEW near, Area \in gone \/ (\E x \in gone : x \in Subtree(kids, Area)) => near \subseteq Shown(K, Area'),
           EditedAway(K, gone, near)
    PROVE  TreeInv'
<1>1. ASSUME NEW s, SelectionOk(K, Area', s), Edited(K, s) PROVE TreeInv'
    BY <1>1, EditOk DEF KeepsShown
<1>2. SelectionOk(K, Area', None)
    BY DEF SelectionOk
<1>3. sel # None => sel \in Selections(Shown(kids, Area)) /\ (sel.collapsed => sel.a = sel.f)
                    /\ sel.a \in Shown(kids, Area) /\ sel.f \in Shown(kids, Area)
    BY DEF TreeInv, SelectionOk, Selections
<1>4. \A x \in Shown(kids, Area) : x \notin gone => x \in Shown(K, Area')
    BY DEF KeepsShown
<1>5. ASSUME sel # None, {sel.a, sel.f} \cap gone # {} PROVE near \subseteq Shown(K, Area')
    BY <1>3, <1>5 DEF Shown
<1>6. CASE sel # None /\ {sel.a, sel.f} \cap gone = {} /\ Edited(K, sel)
  <2>1. sel.a \in Shown(K, Area') /\ sel.f \in Shown(K, Area')
    BY <1>3, <1>4, <1>6
  <2>2. SelectionOk(K, Area', sel)
    BY <1>3, <1>6, <2>1 DEF SelectionOk, Selections
  <2> QED
    BY <1>1, <1>6, <2>2
<1>7. ASSUME sel # None, {sel.a, sel.f} \cap gone # {}, NEW m \in near, Edited(K, Caret(m))
      PROVE  TreeInv'
    BY <1>1, <1>5, <1>7, CaretOk
<1>8. ASSUME sel # None, {sel.a, sel.f} \cap gone # {}, ~({sel.a, sel.f} \subseteq gone), NEW m \in near,
             Edited(K, IF sel.a \in gone THEN [sel EXCEPT !.a = m, !.exact = FALSE]
                       ELSE [sel EXCEPT !.f = m, !.exact = FALSE])
      PROVE  TreeInv'
  <2>1. m \in Shown(K, Area') /\ ~sel.collapsed
    BY <1>3, <1>5, <1>8
  <2>2. CASE sel.a \in gone
    <3>1. sel.f \in Shown(K, Area')
        BY <1>3, <1>4, <1>8, <2>2
    <3> DEFINE s == [sel EXCEPT !.a = m, !.exact = FALSE]
    <3>2. SelectionOk(K, Area', s)
        BY <1>3, <1>8, <2>1, <3>1 DEF SelectionOk, Selections
    <3> HIDE DEF s
    <3>3. Edited(K, s)
        BY <1>8, <2>2 DEF s
    <3> QED
        BY <1>1, <3>2, <3>3
  <2>3. CASE sel.a \notin gone
    <3>1. sel.a \in Shown(K, Area')
        BY <1>3, <1>4, <1>8, <2>3
    <3> DEFINE s == [sel EXCEPT !.f = m, !.exact = FALSE]
    <3>2. SelectionOk(K, Area', s)
        BY <1>3, <1>8, <2>1, <3>1 DEF SelectionOk, Selections
    <3> HIDE DEF s
    <3>3. Edited(K, s)
        BY <1>8, <2>3 DEF s
    <3> QED
        BY <1>1, <3>2, <3>3
  <2> QED
    BY <2>2, <2>3
<1> QED
    BY <1>1, <1>2, <1>6, <1>7, <1>8 DEF EditedAway

\* Deleting a note and what is below it.
LEMMA DeleteTree ==
    ASSUME TreeInv, DeleteNote
    PROVE  TreeInv'
<1>1. PICK n \in Present(kids) :
      LET gone == Subtree(kids, n)
          K == [o \in Owners |-> IF o \in gone THEN <<>> ELSE Without(kids[o], {n})]
      IN  /\ zoom' = IF zoom \in gone THEN Top ELSE zoom
          /\ EditedAway(K, gone, Near(K, Parent(kids, n)))
          /\ UNCHANGED strayed
    BY DEF DeleteNote
<1> DEFINE gone == Subtree(kids, n)
           K == [o \in Owners |-> IF o \in gone THEN <<>> ELSE Without(kids[o], {n})]
           near == Near(K, Parent(kids, n))
<1>2. zoom' = (IF zoom \in gone THEN Top ELSE zoom) /\ strayed' = strayed /\ EditedAway(K, gone, near)
    BY <1>1
<1>3. IsTree(kids) /\ zoom \in Present(kids) \cup {Top} /\ strayed \in BOOLEAN
      /\ Area \in {zoom, Top} /\ Area \in Present(kids) \cup {Top} /\ n \in Owners
      /\ Area \in Owners /\ Top \notin gone
    BY AreaIs, ShownIs, PresentBelowTop, BelowIsPresent, NotesAssumption DEF TreeInv, IsTree, Owners
<1>4. /\ IsTree(K) /\ Present(K) = Present(kids) \ gone
      /\ \A z \in Owners \ gone : Subtree(kids, z) \ gone \subseteq Subtree(K, z)
  <2>1. Pruned(kids, n, K)
    BY DEF Pruned
  <2> HIDE DEF K
  <2> QED
    BY <1>3, <2>1, DeleteKeepsTree
<1>5. near = Near(K, Parent(kids, n)) /\ gone = Subtree(kids, n)
    OBVIOUS
<1> HIDE DEF K, near, gone
<1>6. Area' = IF Area \in gone THEN Top ELSE Area
    BY <1>2, <1>3 DEF Area
<1>7. zoom' \in Present(K) \cup {Top} /\ Area' \in {Boundary(K), Top} /\ strayed' \in BOOLEAN
    BY <1>2, <1>3, <1>4 DEF Area, Boundary
<1>8. KeepsShown(K, gone)
    BY <1>3, <1>4, <1>5, <1>6, AwayShown
<1>9. \A x \in Remembered : x \in Present(K) => x \in Present(kids)
    BY <1>4
<1>10. Present(kids) \ gone \subseteq Present(K)
    BY <1>4
<1>11. near \subseteq Present(K) /\ (Area \in gone \/ (\E x \in gone : x \in Subtree(kids, Area))
                                       => near \subseteq Shown(K, Area'))
    BY <1>3, <1>4, <1>5, <1>6, NearShown
<1> QED
    BY <1>2, <1>4, <1>7, <1>8, <1>9, <1>11, AwayOk


\* Others move a note, and it comes back with new keys.
LEMMA MoveNoteTree ==
    ASSUME TreeInv, MoveNote
    PROVE  TreeInv'
<1>0. PICK n \in Present(kids) :
        \E fresh \in Injection(Subtree(kids, n), Unused) :
          LET p == Exchanged(fresh)
              copy == Rekeyed(kids, p)
              rest == TakenOut(copy, <<p[n]>>)
          IN  \E o \in ({Top} \cup Present(copy)) \ Subtree(copy, p[n]) :
                \E i \in 1..(Len(rest[o]) + 1) :
                  LET K == PutIn(rest, <<p[n]>>, o, i) IN
                  /\ zoom' = p[zoom]
                  /\ EditedAway(K, Subtree(kids, n), Near(K, Parent(kids, n)))
                  /\ strayed' = (strayed \/ zoom \in Subtree(kids, n))
    BY DEF MoveNote
<1>1. PICK fresh \in Injection(Subtree(kids, n), Unused) :
        LET p == Exchanged(fresh)
            copy == Rekeyed(kids, p)
            rest == TakenOut(copy, <<p[n]>>)
        IN  \E o \in ({Top} \cup Present(copy)) \ Subtree(copy, p[n]) :
              \E i \in 1..(Len(rest[o]) + 1) :
                LET K == PutIn(rest, <<p[n]>>, o, i) IN
                /\ zoom' = p[zoom]
                /\ EditedAway(K, Subtree(kids, n), Near(K, Parent(kids, n)))
                /\ strayed' = (strayed \/ zoom \in Subtree(kids, n))
    BY <1>0
<1> DEFINE gone == Subtree(kids, n)
           p == Exchanged(fresh)
           copy == Rekeyed(kids, p)
           rest == TakenOut(copy, <<p[n]>>)
<1>2. PICK o \in ({Top} \cup Present(copy)) \ Subtree(copy, p[n]) :
              \E i \in 1..(Len(rest[o]) + 1) :
                LET K == PutIn(rest, <<p[n]>>, o, i) IN
                /\ zoom' = p[zoom]
                /\ EditedAway(K, gone, Near(K, Parent(kids, n)))
                /\ strayed' = (strayed \/ zoom \in gone)
    BY <1>1
<1>3. PICK i \in 1..(Len(rest[o]) + 1) :
                LET K == PutIn(rest, <<p[n]>>, o, i) IN
                /\ zoom' = p[zoom]
                /\ EditedAway(K, gone, Near(K, Parent(kids, n)))
                /\ strayed' = (strayed \/ zoom \in gone)
    BY <1>2
<1> DEFINE r == <<p[n]>>
           K == PutIn(rest, r, o, i)
           near == Near(K, Parent(kids, n))
           free == Unused
<1>4. zoom' = p[zoom] /\ EditedAway(K, gone, near) /\ strayed' = (strayed \/ zoom \in gone)
    BY <1>3
<1>5. free \in SUBSET (Notes \ Present(kids)) /\ \A x \in Remembered : x \notin free
    BY DEF Unused
<1>6. IsTree(kids) /\ zoom \in Present(kids) \cup {Top} /\ strayed \in BOOLEAN
      /\ Area \in {zoom, Top} /\ Area \in Present(kids) \cup {Top} /\ n \in Owners
      /\ Area \in Owners /\ Top \notin gone
    BY AreaIs, ShownIs, PresentBelowTop, BelowIsPresent, NotesAssumption DEF TreeInv, IsTree, Owners
<1>a. p = Exchanged(fresh) /\ copy = Rekeyed(kids, p) /\ rest = TakenOut(copy, r)
      /\ K = PutIn(rest, r, o, i) /\ r = <<p[n]>> /\ gone = Subtree(kids, n) /\ near = Near(K, Parent(kids, n))
      /\ fresh \in Injection(gone, free) /\ i \in 1..(Len(rest[o]) + 1)
      /\ o \in ({Top} \cup Present(copy)) \ Subtree(copy, p[n])
    BY <1>1, <1>2, <1>3
<1> HIDE DEF K, near, gone, rest, copy, p, free, r
<1>7. /\ IsTree(K) /\ Present(kids) \ gone \subseteq Present(K)
      /\ Present(K) \cap Present(kids) = Present(kids) \ gone
      /\ Present(K) \subseteq (Present(kids) \ gone) \cup free
      /\ \A z \in gone : p[z] \in Present(K) /\ p[z] \in free
      /\ \A z \in Present(kids) \cup {Top} :
            z \notin gone => p[z] = z /\ Subtree(kids, z) \ gone \subseteq Subtree(K, z)
  <2>1. gone \in SUBSET Present(kids)
    BY <1>6, <1>a, BelowIsPresent DEF IsTree
  <2>2. IsReturned(kids, gone, free, p, copy)
    BY <1>5, <1>6, <1>a, <2>1, CopyIs
  <2>3. p[n] \in Notes /\ r \in Seq(Notes) /\ NoDup(r) /\ ToSet(r) = {p[n]}
    <3>1. p[n] \in Notes
        BY <1>5, <1>6, <1>a, <2>2, SubtreeHas DEF IsReturned, IsTree
    <3> QED
        BY <1>a, <3>1 DEF NoDup, ToSet
  <2>4. IsPutBack(kids, gone, free, p, K)
    <3>1. IsTree(kids) /\ n \in Present(kids) /\ free \in SUBSET (Notes \ Present(kids))
        BY <1>5, <1>6
    <3>2. gone = Subtree(kids, n) /\ rest = TakenOut(copy, r) /\ K = PutIn(rest, r, o, i)
        BY <1>a
    <3>3. i \in 1..(Len(rest[o]) + 1) /\ o \in ({Top} \cup Present(copy)) \ Subtree(copy, p[n])
        BY <1>a
    <3> QED
        BY <2>2, <2>3, <3>1, <3>2, <3>3, ReturnKeepsTree
  <2> QED
    BY <2>4 DEF IsPutBack
<1>8. /\ zoom \notin gone => zoom' = zoom /\ (zoom \in Present(K) \/ zoom = Top) /\ strayed' = strayed
      /\ zoom \in gone => zoom' \in Present(K) /\ strayed' = TRUE
    BY <1>4, <1>6, <1>7
<1>9. Area' = (IF Area \in gone THEN Top ELSE Area) \/ (zoom \in gone /\ Area' = Top /\ Area = Top)
    BY <1>6, <1>8 DEF Area
<1>b. Area' = IF Area \in gone THEN Top ELSE Area
    BY <1>6, <1>9
<1>10. zoom' \in Present(K) \cup {Top} /\ Area' \in {Boundary(K), Top} /\ strayed' \in BOOLEAN
    BY <1>6, <1>8 DEF Area, Boundary
<1>c. Area \notin gone => Subtree(kids, Area) \ gone \subseteq Subtree(K, Area)
    BY <1>6, <1>7
<1>11. KeepsShown(K, gone)
    BY <1>6, <1>7, <1>a, <1>b, <1>c, AwayShown
<1>12. \A x \in Remembered : x \in Present(K) => x \in Present(kids)
    BY <1>5, <1>7
<1>13. Area \in gone \/ (\E x \in gone : x \in Subtree(kids, Area)) => near \subseteq Shown(K, Area')
    BY <1>6, <1>7, <1>a, <1>b, <1>c, NearShown
<1> QED
    BY <1>4, <1>7, <1>10, <1>11, <1>12, <1>13, AwayOk
-----------------------------------------------------------------------------
(* Theorems                                                                *)

\* Every step keeps the invariant.
LEMMA NextTree == TreeInv /\ [Next]_vars => TreeInv'
<1> SUFFICES ASSUME TreeInv, [Next]_vars PROVE TreeInv'
    OBVIOUS
<1>1. ASSUME NEW d \in Directions, ShiftArrow(d) PROVE TreeInv'
    BY <1>1, ArrowTree
<1>2. CASE SelectAll
    BY <1>2, SelectAllTree
<1>3. CASE PlainKey
    BY <1>3, CollapseTree DEF PlainKey
<1>4. CASE Escape
    BY <1>4, CollapseTree DEF Escape
<1>5. CASE ShiftHorizontal
    BY <1>5, HorizontalTree
<1>6. CASE Point
    BY <1>6, PointTree
<1>7. CASE Normalize
    BY <1>7, NormalizeTree
<1>8. ASSUME NEW z \in Owners, ZoomTo(z) PROVE TreeInv'
    BY <1>8, ZoomTree
<1>9. CASE EditText
    BY <1>9, TextTree
<1>10. CASE InsertNote
    BY <1>10, InsertTree
<1>11. CASE DeleteNote
    BY <1>11, DeleteTree
<1>12. CASE MoveSelected
    BY <1>12, MoveTree
<1>13. CASE Microtask
    BY <1>13, MicrotaskTree
<1>14. CASE UNCHANGED vars
    BY <1>14 DEF vars, TreeInv, Stale, Area
<1>15. CASE MoveNote
    BY <1>15, MoveNoteTree
<1> QED
    BY <1>1, <1>2, <1>3, <1>4, <1>5, <1>6, <1>7, <1>8, <1>9, <1>10, <1>11, <1>12, <1>13, <1>14, <1>15 DEF Next

\* Whatever the keys, the pointer and the edits of others do (moves of any note, the
\* view root included), the document stays a tree, and what is selected is in it and,
\* unless others have moved the view root since the last caret, in the view; so is
\* what a scheduled correction will select and the ladder's anchor, unless they are
\* gone (a caret put into another view leaves the anchor of the old one behind, until
\* the next update).
THEOREM TreeHolds == Spec => []TreeInv
<1>1. Spec => Init /\ [][Next]_vars
    BY DEF Spec
<1> QED
    BY InitTree, NextTree, <1>1, PTL

\* SelectionStaysInView: no note outside the view is selected, however the sweeps, the
\* corrections and the edits and moves of others follow each other, until others move
\* the view root itself; and again from the next caret on.
THEOREM ViewHolds == Spec => []SelectionStaysInView
<1>1. TreeInv => SelectionStaysInView
  <2> SUFFICES ASSUME TreeInv, zoom # Top, ~strayed PROVE Selected \subseteq Subtree(kids, zoom)
    BY DEF SelectionStaysInView
  <2>1. IsTree(kids) /\ zoom \in Present(kids) \cup {Top}
    BY DEF TreeInv
  <2>2. ToSet(outline.heads) \subseteq Shown(kids, zoom)
    BY DEF TreeInv, OutlineOk, Area
  <2>3. \A n \in Shown(kids, zoom) : Subtree(kids, n) \subseteq Subtree(kids, zoom)
    BY <2>1, ShownIs
  <2> QED
    BY <2>2, <2>3 DEF Selected
<1> QED
    BY <1>1, TreeHolds, PTL
-----------------------------------------------------------------------------
(* Sweeps: the arrows of one direction from a caret, and what they show    *)

\* The rungs of k presses of d, the plan they replay to from the anchor a, and the
\* outline selection after them.
SweepRungs(d, k) == [i \in 1..k |-> IF i = 1 THEN "inline" ELSE IF i = 2 THEN "subtree" ELSE d]

PlanAt(T, z, a, d, k) == replayLadder(T, z, a, SweepRungs(d, k), FALSE)

TextOf(a) == [kind |-> "inline", heads |-> <<a>>]

OutAt(T, z, a, d, k) ==
    IF k = 0 THEN caretAt(a)
    ELSE IF k = 1 THEN TextOf(a)
    ELSE structural(contiguousHeads(T, selectionOf(T, PlanAt(T, z, a, d, k))))

\* A range of siblings, at the end that d moves.
Siblings(T, d, r) ==
    \E o \in Owners : \E i, j \in DOMAIN T[o] :
        i <= j /\ r = Extent(T[o][i], T[o][j], IF d = "down" THEN T[o][j] ELSE T[o][i])

\* The rungs of a sweep.
LEMMA RungsAre ==
    ASSUME NEW d \in Directions, NEW k \in Nat
    PROVE  /\ SweepRungs(d, k) \in Seq(Rungs) /\ Len(SweepRungs(d, k)) = k
           /\ DOMAIN SweepRungs(d, k) = 1..k
           /\ \A i \in 1..k : SweepRungs(d, k)[i] = IF i = 1 THEN "inline" ELSE IF i = 2 THEN "subtree" ELSE d
           /\ StackOk(SweepRungs(d, k))
<1> DEFINE u == SweepRungs(d, k)
<1>1. DOMAIN u = 1..k /\ \A i \in 1..k : u[i] = IF i = 1 THEN "inline" ELSE IF i = 2 THEN "subtree" ELSE d
    BY DEF SweepRungs
<1>2. u \in [1..k -> Rungs]
    BY DEF SweepRungs, Rungs
<1> HIDE DEF u
<1>3. u \in Seq(Rungs) /\ Len(u) = k
    BY <1>1, <1>2, IsASeq, LenProperties
<1>4. StackOk(u)
    BY <1>1, <1>3 DEF StackOk, Directions
<1> QED
    BY <1>1, <1>3, <1>4 DEF u

\* One more press takes one more step.
LEMMA ReplayExtend ==
    ASSUME NEW T, NEW z, NEW a, NEW d \in Directions, NEW k \in Nat, k >= 2
    PROVE  PlanAt(T, z, a, d, k + 1) =
               IF PlanAt(T, z, a, d, k) = None THEN None
               ELSE Step(T, z, PlanAt(T, z, a, d, k), d, FALSE)
<1> DEFINE u == SweepRungs(d, k)  w == SweepRungs(d, k + 1)  e == FALSE
<1>1. /\ Len(u) = k /\ \A i \in 1..k : u[i] = IF i = 1 THEN "inline" ELSE IF i = 2 THEN "subtree" ELSE d
      /\ u \in Seq(Rungs)
    BY RungsAre
<1>2. /\ Len(w) = k + 1 /\ w \in Seq(Rungs)
      /\ \A i \in 1..(k + 1) : w[i] = IF i = 1 THEN "inline" ELSE IF i = 2 THEN "subtree" ELSE d
    BY RungsAre
<1>3. PlanAt(T, z, a, d, k) = replayLadder(T, z, a, u, e) /\ PlanAt(T, z, a, d, k + 1) = replayLadder(T, z, a, w, e)
    BY DEF PlanAt
<1>e. Step(T, z, PlanAt(T, z, a, d, k), d, FALSE) = Step(T, z, PlanAt(T, z, a, d, k), d, e)
    OBVIOUS
<1> HIDE DEF u, w, e
<1>a. Len(u) \in Nat /\ Len(w) \in Nat
    BY <1>1, <1>2
<1>4. PICK F : /\ ReplayIn(F, T, z, a, u, e)
               /\ replayLadder(T, z, a, u, e) =
                      IF u = <<>> THEN None
                      ELSE IF Last(u) = "inline" THEN [inline |-> a] ELSE F[Len(u)]
    BY <1>a, ReplaySteps
<1>5. PICK G : /\ ReplayIn(G, T, z, a, w, e)
               /\ replayLadder(T, z, a, w, e) =
                      IF w = <<>> THEN None
                      ELSE IF Last(w) = "inline" THEN [inline |-> a] ELSE G[Len(w)]
    BY <1>a, ReplaySteps
<1> DEFINE Good == {i \in 0..k : G[i] = F[i]}
<1>6. 0 \in Good
  <2>1. 0 \in 0..Len(u) /\ 0 \in 0..Len(w) /\ 0 \in 0..k
    BY <1>1, <1>2
  <2>2. F[0] = Extent(a, a, a) /\ G[0] = Extent(a, a, a)
    BY <1>4, <1>5, <2>1 DEF ReplayIn
  <2> QED
    BY <2>1, <2>2
<1>7. ASSUME NEW i \in 1..k, i - 1 \in Good PROVE i \in Good
  <2>1. i \in 0..Len(u) /\ i \in 0..Len(w) /\ i # 0 /\ i \in 0..k /\ i \in 1..(k + 1)
    BY <1>1, <1>2
  <2>2. u[i] = w[i]
    BY <1>1, <1>2, <2>1
  <2>3. F[i] = IF F[i - 1] = None \/ u[i] \notin Directions THEN F[i - 1] ELSE Step(T, z, F[i - 1], u[i], e)
    BY <1>4, <2>1 DEF ReplayIn
  <2>4. G[i] = IF G[i - 1] = None \/ w[i] \notin Directions THEN G[i - 1] ELSE Step(T, z, G[i - 1], w[i], e)
    BY <1>5, <2>1 DEF ReplayIn
  <2>5. G[i - 1] = F[i - 1]
    BY <1>7
  <2>6. G[i] = F[i]
    BY <2>2, <2>3, <2>4, <2>5
  <2> QED
    BY <2>1, <2>6
<1>8. G[k] = F[k]
  <2> HIDE DEF Good
  <2>1. 0..k \subseteq Good
    BY <1>6, <1>7, UpTo
  <2> QED
    BY <2>1 DEF Good
<1>9. G[k + 1] = IF G[k] = None THEN None ELSE Step(T, z, G[k], d, e)
  <2>1. k + 1 \in 0..Len(w) /\ k + 1 # 0 /\ k + 1 - 1 = k
    BY <1>2
  <2>2. G[k + 1] = IF G[k + 1 - 1] = None \/ w[k + 1] \notin Directions THEN G[k + 1 - 1]
                   ELSE Step(T, z, G[k + 1 - 1], w[k + 1], e)
    BY <1>5, <2>1 DEF ReplayIn
  <2>3. w[k + 1] = d
    BY <1>2
  <2> QED
    BY <2>1, <2>2, <2>3
<1>10. replayLadder(T, z, a, u, e) = F[k]
  <2>1. Last(u) # "inline" /\ u # <<>>
    BY <1>1 DEF Last, Directions
  <2> QED
    BY <1>1, <1>4, <2>1
<1>11. replayLadder(T, z, a, w, e) = G[k + 1]
  <2>1. Last(w) # "inline" /\ w # <<>>
    BY <1>2 DEF Last, Directions
  <2> QED
    BY <1>2, <1>5, <2>1
<1> QED
    BY <1>3, <1>e, <1>8, <1>9, <1>10, <1>11

\* The first two presses select the anchor's text and its subtree.
LEMMA FirstPlans ==
    ASSUME NEW T, NEW z, NEW a, NEW d \in Directions
    PROVE  /\ PlanAt(T, z, a, d, 0) = None
           /\ PlanAt(T, z, a, d, 1) = [inline |-> a]
           /\ PlanAt(T, z, a, d, 2) = Extent(a, a, a)
<1>1. PlanAt(T, z, a, d, 0) = None
  <2> DEFINE u == SweepRungs(d, 0)
  <2>1. Len(u) = 0 /\ u \in Seq(Rungs)
    BY RungsAre
  <2> HIDE DEF u
  <2>2. u = <<>>
    BY <2>1
  <2> QED
    BY <2>2 DEF u, PlanAt, replayLadder
<1>2. PlanAt(T, z, a, d, 1) = [inline |-> a]
  <2> DEFINE u == SweepRungs(d, 1)
  <2>1. Len(u) = 1 /\ u \in Seq(Rungs) /\ \A i \in 1..1 : u[i] = IF i = 1 THEN "inline" ELSE IF i = 2 THEN "subtree" ELSE d
    BY RungsAre
  <2>2. PlanAt(T, z, a, d, 1) = replayLadder(T, z, a, u, FALSE)
    BY DEF PlanAt
  <2> HIDE DEF u
  <2>3. u # <<>> /\ Last(u) = "inline"
    BY <2>1 DEF Last
  <2> QED
    BY <2>2, <2>3 DEF replayLadder
<1>3. PlanAt(T, z, a, d, 2) = Extent(a, a, a)
  <2> DEFINE u == SweepRungs(d, 2)  e == FALSE
  <2>1. StackOk(u) /\ Len(u) = 2 /\ \A i \in 1..2 : u[i] = IF i = 1 THEN "inline" ELSE IF i = 2 THEN "subtree" ELSE d
    BY RungsAre
  <2>2. PlanAt(T, z, a, d, 2) = replayLadder(T, z, a, u, e)
    BY DEF PlanAt
  <2> HIDE DEF u, e
  <2>3. Last(u) = "subtree" /\ Len(u) \in {1, 2}
    BY <2>1 DEF Last
  <2> QED
    BY <2>1, <2>2, <2>3, ReplayTop
<1> QED
    BY <1>1, <1>2, <1>3

\* A step from a range of siblings gives one that shows other heads.
LEMMA StepSiblings ==
    ASSUME NEW T, IsTree(T), NEW z \in Present(T) \cup {Top}, NEW d \in Directions,
           NEW r, Siblings(T, d, r), Step(T, z, r, d, FALSE) # None
    PROVE  /\ Siblings(T, d, Step(T, z, r, d, FALSE))
           /\ HeadsBetween(T, Step(T, z, r, d, FALSE).first, SubtreeTail(T, Step(T, z, r, d, FALSE).last))
                  # HeadsBetween(T, r.first, SubtreeTail(T, r.last))
<1> DEFINE q == Step(T, z, r, d, FALSE)
           shows(x) == HeadsBetween(T, x.first, SubtreeTail(T, x.last))
<1>0. T \in Lists /\ OneOwner(T) /\ Descends(T)
    BY DEF IsTree
<1>1. PICK o \in Owners : \E i, j \in DOMAIN T[o] :
          i <= j /\ r = Extent(T[o][i], T[o][j], IF d = "down" THEN T[o][j] ELSE T[o][i])
    BY DEF Siblings
<1>2. PICK i \in DOMAIN T[o], j \in DOMAIN T[o] :
          i <= j /\ r = Extent(T[o][i], T[o][j], IF d = "down" THEN T[o][j] ELSE T[o][i])
    BY <1>1
<1>3. /\ T[o] \in Seq(Notes) /\ DOMAIN T[o] = 1..Len(T[o]) /\ Len(T[o]) \in Nat
      /\ i \in Nat /\ j \in Nat
    BY <1>0, BelowNotes
<1>4. r.first = T[o][i] /\ r.last = T[o][j] /\ r.context = IF d = "down" THEN T[o][j] ELSE T[o][i]
    BY <1>2 DEF Extent
<1> DEFINE c == IF d = "down" THEN j ELSE i
<1>5. c \in DOMAIN T[o] /\ r.context = T[o][c]
    BY <1>4
\* What siblings show.
<1>6. ASSUME NEW p \in Owners, NEW m \in DOMAIN T[p], NEW n \in DOMAIN T[p], m <= n,
             NEW x, x.first = T[p][m], x.last = T[p][n]
      PROVE  /\ shows(x) = SubSeq(T[p], m, n) /\ Len(shows(x)) = n - m + 1
             /\ ToSet(shows(x)) \subseteq IsBelow(T, p)
  <2>1. T[p] \in Seq(Notes) /\ m \in Nat /\ n \in Nat /\ DOMAIN T[p] = 1..Len(T[p]) /\ T[p][n] \in Owners
    BY <1>0, BelowNotes
  <2>2. SubtreeTail(T, T[p][n]) \in Subtree(T, T[p][n])
    BY <1>0, <2>1, TailBelow
  <2>3. HeadsBetween(T, T[p][m], SubtreeTail(T, T[p][n])) = SubSeq(T[p], m, n)
    BY <1>6, <2>2, HeadsSiblings
  <2>4. Len(SubSeq(T[p], m, n)) = n - m + 1
    BY <1>6, <2>1, SubSeqIs
  <2>5. ToSet(SubSeq(T[p], m, n)) \subseteq IsBelow(T, p)
    BY <1>0, <1>6, StretchBelow
  <2> QED
    BY <1>6, <2>3, <2>4, <2>5
<1>7. shows(r) = SubSeq(T[o], i, j) /\ Len(shows(r)) = j - i + 1 /\ ToSet(shows(r)) \subseteq IsBelow(T, o)
    BY <1>2, <1>4, <1>6
<1>8. q = IF d = "down" /\ c < Len(T[o]) /\ within(T, z, T[o][c + 1])
          THEN Extent(r.first, T[o][c + 1], T[o][c + 1])
          ELSE IF d = "up" /\ c > 1 /\ within(T, z, T[o][c - 1])
          THEN Extent(T[o][c - 1], r.last, T[o][c - 1])
          ELSE IF o # Top /\ within(T, z, o) THEN Extent(o, o, o) ELSE None
  <2> HIDE DEF c
  <2> QED
    BY <1>5, StepIs
<1> HIDE DEF shows, q
<1>9. CASE d = "down" /\ c < Len(T[o]) /\ within(T, z, T[o][c + 1])
  <2> DEFINE n == j + 1
  <2>1. q = Extent(T[o][i], T[o][n], T[o][n]) /\ n \in DOMAIN T[o] /\ i <= n
    BY <1>2, <1>3, <1>4, <1>8, <1>9
  <2>a. n = j + 1
    OBVIOUS
  <2> HIDE DEF n
  <2>2. q.first = T[o][i] /\ q.last = T[o][n]
    BY <2>1 DEF Extent
  <2>b. Len(shows(q)) = n - i + 1
    BY <1>6, <2>1, <2>2
  <2>3. Len(shows(q)) = j + 1 - i + 1
    BY <1>3, <2>a, <2>b
  <2>4. shows(q) # shows(r)
    BY <1>3, <1>7, <2>3
  <2>5. Siblings(T, d, q)
    BY <1>9, <2>1 DEF Siblings
  <2> QED
    BY <2>4, <2>5 DEF q, shows
<1>10. CASE d = "up" /\ c > 1 /\ within(T, z, T[o][c - 1])
  <2>1. q = Extent(T[o][i - 1], T[o][j], T[o][i - 1]) /\ i - 1 \in DOMAIN T[o] /\ i - 1 <= j
    BY <1>2, <1>3, <1>4, <1>8, <1>10
  <2>2. q.first = T[o][i - 1] /\ q.last = T[o][j]
    BY <2>1 DEF Extent
  <2>3. Len(shows(q)) = j - (i - 1) + 1
    BY <1>6, <2>1, <2>2
  <2>4. shows(q) # shows(r)
    BY <1>3, <1>7, <2>3
  <2>5. Siblings(T, d, q)
    BY <1>10, <2>1 DEF Siblings
  <2> QED
    BY <2>4, <2>5 DEF q, shows
<1>11. CASE q = Extent(o, o, o) /\ o # Top
  <2>0. T[o][i] \in IsBelow(T, o)
    BY <1>0, BelowNotes
  <2>1. o \in Present(T)
    BY <1>11, <2>0, OwnerPresent
  <2>2. PICK p \in Owners : o \in IsBelow(T, p)
    BY <1>0, <2>1, PresentParent
  <2>3. PICK m \in DOMAIN T[p] : o = T[p][m]
    BY <1>0, <2>2, BelowNotes
  <2>4. m \in Nat /\ m <= m
    BY <1>0, BelowNotes
  <2>5. q.first = T[p][m] /\ q.last = T[p][m]
    BY <1>11, <2>3 DEF Extent
  <2>6. Len(shows(q)) = m - m + 1 /\ shows(q) = SubSeq(T[p], m, m)
    BY <1>6, <2>4, <2>5
  <2>a. T[p] \in Seq(Notes)
    BY <1>0, BelowNotes
  <2>b. SubSeq(T[p], m, m) = <<T[p][m]>>
    BY <2>a, SubSeqOne
  <2>7. shows(q) = <<o>>
    BY <2>3, <2>6, <2>b
  <2>8. o \in ToSet(shows(q))
    BY <2>7 DEF ToSet
  <2>9. o \notin IsBelow(T, o)
    <3> SUFFICES ASSUME o \in IsBelow(T, o) PROVE FALSE
        OBVIOUS
    <3>1. o \notin Subtree(T, o)
        BY OwnerNotBelow
    <3> QED
        BY <1>0, <3>1, SubtreeHas
  <2>10. shows(q) # shows(r)
    BY <1>7, <2>8, <2>9
  <2>11. q = Extent(T[p][m], T[p][m], IF d = "down" THEN T[p][m] ELSE T[p][m])
    BY <1>11, <2>3
  <2>12. Siblings(T, d, q)
    BY <2>4, <2>11 DEF Siblings
  <2> QED
    BY <2>10, <2>12 DEF q, shows
<1>12. q # None
    BY DEF q
<1> QED
    BY <1>8, <1>9, <1>10, <1>11, <1>12

\* Only a caret is shown as one.
LEMMA CaretsAreSeen ==
    ASSUME NEW u, NEW T, NEW s, NEW lad, NEW unl, NEW left, Observe(u, T, s, lad, unl, left)
    PROVE  /\ sel' = s
           /\ outline'.kind = "caret" => s # None /\ s.collapsed /\ outline' = caretAt(s.a)
<1> DEFINE resets == ~u.progressive /\ (s = None \/ (~unl /\ (s.collapsed \/ lad.anchor # s.a)))
           kept == IF resets THEN INITIAL ELSE lad
           reshapes == /\ ~u.progressive /\ ~u.snapping /\ u.tree
                       /\ ladderHasStructuralRung(kept) /\ kept.anchor = s.a
           inferred == IF ~ladderHasStructuralRung(kept) /\ Len(contiguousHeads(T, s)) > 1
                       THEN inferPointerProgression(T, s, contiguousHeads(T, s)) ELSE kept
<1>1. sel' = s /\ ObserveKept(u, T, s, kept, unl, left)
    BY DEF Observe
<1> HIDE DEF kept
<1>2. \/ outline' = [kind |-> "none", heads |-> <<>>]
      \/ s # None /\ reshapes /\ Follow(T, reshapeStructuralLadder(T, Boundary(T), kept), left)
      \/ s # None /\ s.collapsed /\ outline' = caretAt(s.a)
      \/ s # None /\ DeriveInferring(u, T, s, ladderHasStructuralRung(kept), inferred, unl, left)
    BY <1>1 DEF ObserveKept
<1> HIDE DEF inferred, reshapes
<1>3. CASE Follow(T, reshapeStructuralLadder(T, Boundary(T), kept), left)
  <2>1. outline'.kind = "structural"
    BY <1>3 DEF Follow, structural
  <2> QED
    BY <1>1, <2>1
<1>4. CASE DeriveInferring(u, T, s, ladderHasStructuralRung(kept), inferred, unl, left)
  <2>1. outline' = structural(contiguousHeads(T, s)) \/ outline' = [kind |-> "inline", heads |-> <<s.a>>]
    BY <1>4 DEF DeriveInferring, Derive
  <2>2. outline'.kind # "caret"
    BY <2>1 DEF structural
  <2> QED
    BY <1>1, <2>2
<1>5. CASE outline' = [kind |-> "none", heads |-> <<>>]
  <2>1. outline'.kind = "none"
    BY <1>5
  <2> QED
    BY <1>1, <2>1
<1> QED
    BY <1>1, <1>2, <1>3, <1>4, <1>5

\* The k presses of d are shown, with the selection s.
IsShownAt(T, z, a, d, k, s, lad, left) ==
    /\ sel' = s /\ ~s.collapsed /\ s # None /\ ladder' = lad
    /\ outline' = OutAt(T, z, a, d, k) /\ pending' = left

\* An arrow, and the browser's version of its range, show the plan that it reached.
LEMMA ShowsPlan ==
    ASSUME NEW T, IsTree(T), NEW z \in Present(T) \cup {Top}, NEW a \in Shown(T, Top),
           NEW d \in Directions, NEW k \in Nat, k >= 1,
           PlanAt(T, z, a, d, k) # None, NEW lad, lad.anchor = a, lad.stack = SweepRungs(d, k),
           NEW u \in {Own, Selecting}, NEW unl \in BOOLEAN, unl, NEW left,
           NEW s, s = selectionOf(T, PlanAt(T, z, a, d, k)),
           Observe(u, T, s, lad, unl, left)
    PROVE  IsShownAt(T, z, a, d, k, s, lad, left)
<1> DEFINE plan == PlanAt(T, z, a, d, k)
<1>0. /\ Own.progressive = TRUE /\ Own.tree = FALSE /\ Selecting.progressive = FALSE
      /\ Selecting.tree = FALSE
    BY DEF Own, Selecting, Tagged
<1>1. u.tree = FALSE /\ a \in Present(T) /\ a \in Notes
    BY <1>0, ShownIs DEF Shown
<1>2. plan \in Extents(Shown(T, Top)) \cup {[inline |-> a]} /\ (k = 1 => plan = [inline |-> a])
  <2>1. CASE k = 1
    BY <2>1, FirstPlans
  <2>2. CASE k # 1
    <3> DEFINE e == FALSE  w == SweepRungs(d, k)
    <3>1. plan = replayLadder(T, z, a, w, e) /\ e \in BOOLEAN
        BY DEF PlanAt
    <3>2. w \in Seq(Rungs)
        BY RungsAre
    <3>3. plan # None
        OBVIOUS
    <3> HIDE DEF plan, w, e
    <3>4. plan \in Extents(Shown(T, Top)) \cup {None, [inline |-> a]}
        BY <3>1, <3>2, ReplayShown
    <3> QED
        BY <2>2, <3>3, <3>4
  <2> QED
    BY <2>1, <2>2
<1> HIDE DEF plan
<1>3. s = selectionOf(T, plan)
    BY DEF plan
<1>4. s \in Selections(Shown(T, Top)) /\ ~s.collapsed
    BY <1>2, <1>3, SelectionOfShown
<1>5. s # None
  <2>1. s \in Selections(Notes)
    BY <1>4, ShownIs DEF Selections
  <2> QED
    BY <2>1, NoneAssumption
<1>6. sel' = s /\ ObserveKept(u, T, s, lad, unl, left)
    BY <1>0, <1>5 DEF Observe
<1> DEFINE inferred == IF ~ladderHasStructuralRung(lad) /\ Len(contiguousHeads(T, s)) > 1
                       THEN inferPointerProgression(T, s, contiguousHeads(T, s)) ELSE lad
<1>7. DeriveInferring(u, T, s, ladderHasStructuralRung(lad), inferred, unl, left)
    BY <1>1, <1>4, <1>5, <1>6 DEF ObserveKept
<1> DEFINE w == SweepRungs(d, k)
<1>8. /\ DOMAIN w = 1..k
      /\ \A i \in 1..k : w[i] = IF i = 1 THEN "inline" ELSE IF i = 2 THEN "subtree" ELSE d
    BY RungsAre
<1>9. lad.stack = w
    OBVIOUS
<1> HIDE DEF w
<1>10. ladderHasStructuralRung(lad) <=> k # 1
  <2>1. k = 1 => ~ladderHasStructuralRung(lad)
    BY <1>8, <1>9 DEF ladderHasStructuralRung
  <2>2. k # 1 => 2 \in DOMAIN w /\ w[2] # "inline"
    BY <1>8
  <2> QED
    BY <1>9, <2>1, <2>2 DEF ladderHasStructuralRung
<1>11. k = 1 => s.a = a /\ s.f = a /\ Len(contiguousHeads(T, s)) = 1
  <2> SUFFICES ASSUME k = 1 PROVE s.a = a /\ s.f = a /\ Len(contiguousHeads(T, s)) = 1
    OBVIOUS
  <2>1. ~isRange(plan) /\ plan.inline = a
    BY <1>1, <1>2, RangeIs
  <2>2. s.a = a /\ s.f = a
    BY <1>3, <2>1 DEF selectionOf, Between
  <2>3. contiguousHeads(T, s) = HeadsBetween(T, a, a)
    BY <1>4, <2>2 DEF contiguousHeads
  <2>4. contiguousHeads(T, s) = <<a>>
    BY <1>1, <2>3, HeadsOne
  <2> QED
    BY <2>2, <2>4
<1>12. inferred = lad
  <2>1. CASE k = 1
    <3>1. Len(contiguousHeads(T, s)) = 1
        BY <1>11, <2>1
    <3>2. ~(1 > 1)
        OBVIOUS
    <3>3. ~(Len(contiguousHeads(T, s)) > 1)
        BY <3>1, <3>2
    <3> QED
        BY <3>3
  <2>2. CASE k # 1
    BY <1>10, <2>2
  <2> QED
    BY <2>1, <2>2
<1> HIDE DEF inferred
<1>13. /\ ladder' = lad /\ pending' = left
       /\ outline' = IF ladderHasStructuralRung(lad) \/ s.a # s.f
                     THEN structural(contiguousHeads(T, s))
                     ELSE [kind |-> "inline", heads |-> <<s.a>>]
    BY <1>7, <1>12 DEF DeriveInferring, Derive
<1>14. outline' = OutAt(T, z, a, d, k)
  <2>1. CASE k = 1
    BY <1>10, <1>11, <1>13, <2>1 DEF OutAt, TextOf
  <2>2. CASE k # 1
    BY <1>10, <1>13, <2>2 DEF OutAt
  <2> QED
    BY <2>1, <2>2
<1> QED
    BY <1>4, <1>5, <1>6, <1>13, <1>14 DEF IsShownAt

\* An arrow back to the caret shows it.
LEMMA ShowsCaret ==
    ASSUME NEW T, NEW a \in Notes, NEW lad, NEW unl, NEW left,
           Observe(Own, T, Caret(a), lad, unl, left)
    PROVE  sel' = Caret(a) /\ outline' = caretAt(a) /\ pending' = left /\ Caret(a) # None
<1>1. Own.progressive = TRUE /\ Caret(a).collapsed = TRUE /\ Caret(a).a = a
    BY DEF Own, Tagged, Caret
<1>2. Caret(a) # None
  <2>1. Caret(a) \in Selections(Notes)
    BY DEF Caret, Selections
  <2> QED
    BY <2>1, NoneAssumption
<1>3. sel' = Caret(a) /\ ObserveKept(Own, T, Caret(a), lad, unl, left)
    BY <1>1 DEF Observe
<1>4. outline' = caretAt(Caret(a).a) /\ pending' = left
    BY <1>1, <1>2, <1>3 DEF ObserveKept
<1> QED
    BY <1>1, <1>2, <1>3, <1>4

Outlines == [kind : {"none", "caret", "inline", "structural"}, heads : Seq(Notes)]

\* The views v and the outline selection out, of a sweep of d that has come to the
\* ladder lad and the selection s.
SweptTo(T, z, lad, s, out, d, v) ==
    /\ lad.anchor \in Shown(T, Top) /\ lad.stack = SweepRungs(d, Len(v)) /\ lad.dir = d
    /\ s = selectionOf(T, PlanAt(T, z, lad.anchor, d, Len(v)))
    /\ out = OutAt(T, z, lad.anchor, d, Len(v))
    /\ \A i \in 1..Len(v) : v[i] = OutAt(T, z, lad.anchor, d, i - 1)
    /\ \A i \in 2..Len(v) : /\ PlanAt(T, z, lad.anchor, d, i) # None
                            /\ Siblings(T, d, PlanAt(T, z, lad.anchor, d, i))

\* Pushing and popping the rungs of a sweep.
LEMMA SweepStacks ==
    ASSUME NEW lad \in Ladders, NEW d \in Directions, NEW k \in Nat, lad.stack = SweepRungs(d, k)
    PROVE  /\ pushStep(lad, d).stack = SweepRungs(d, k + 1)
           /\ k > 0 => lad.stack # <<>> /\ popStep(lad).stack = SweepRungs(d, k - 1)
<1> DEFINE u == lad.stack  w == SweepRungs(d, k + 1)  p == pushStep(lad, d).stack
<1>1. /\ u \in Seq(Rungs) /\ Len(u) = k
      /\ \A i \in 1..k : u[i] = IF i = 1 THEN "inline" ELSE IF i = 2 THEN "subtree" ELSE d
    BY RungsAre
<1>2. /\ w \in Seq(Rungs) /\ Len(w) = k + 1
      /\ \A i \in 1..(k + 1) : w[i] = IF i = 1 THEN "inline" ELSE IF i = 2 THEN "subtree" ELSE d
    BY RungsAre
<1> DEFINE x == CASE Len(lad.stack) = 0 -> "inline" [] Len(lad.stack) = 1 -> "subtree" [] OTHER -> d
<1>3. p = Append(u, x)
    BY PushOk
<1>4. x = IF k + 1 = 1 THEN "inline" ELSE IF k + 1 = 2 THEN "subtree" ELSE d
  <2> DEFINE n == Len(lad.stack)
  <2>0. n = k
    BY <1>1
  <2>1. x = CASE n = 0 -> "inline" [] n = 1 -> "subtree" [] OTHER -> d
    OBVIOUS
  <2> HIDE DEF n, x
  <2>2. n = 0 => x = "inline"
    BY <2>1
  <2>3. n = 1 => x = "subtree"
    BY <2>1
  <2>4. n # 0 /\ n # 1 => x = d
    BY <2>1
  <2> QED
    BY <2>0, <2>2, <2>3, <2>4
<1>5. p = w
  <2> HIDE DEF u, w, p, x
  <2>1. x \in Rungs
    BY <1>4 DEF Rungs
  <2>2. /\ p \in Seq(Rungs) /\ Len(p) = k + 1 /\ p[k + 1] = x
        /\ \A i \in 1..k : p[i] = u[i]
    BY <1>1, <1>3, <2>1
  <2>3. \A i \in 1..(k + 1) : p[i] = w[i]
    <3> SUFFICES ASSUME NEW i \in 1..(k + 1) PROVE p[i] = w[i]
        OBVIOUS
    <3>1. CASE i = k + 1
        BY <1>2, <1>4, <2>2, <3>1
    <3>2. CASE i # k + 1
      <4>1. i \in 1..k
        BY <3>2
      <4> QED
        BY <1>1, <1>2, <2>2, <4>1
    <3> QED
        BY <3>1, <3>2
  <2> QED
    BY <1>2, <2>2, <2>3, SeqEqual
<1>6. ASSUME k > 0 PROVE lad.stack # <<>> /\ popStep(lad).stack = SweepRungs(d, k - 1)
  <2> DEFINE q == popStep(lad).stack  j == k - 1  y == SweepRungs(d, j)
  <2>0. j \in Nat
    BY <1>6
  <2>1. /\ y \in Seq(Rungs) /\ Len(y) = j
        /\ \A i \in 1..j : y[i] = IF i = 1 THEN "inline" ELSE IF i = 2 THEN "subtree" ELSE d
    <3> HIDE DEF j
    <3> QED
        BY <2>0, RungsAre
  <2> HIDE DEF y
  <2>2. u # <<>>
    <3> HIDE DEF u
    <3> QED
        BY <1>1, <1>6
  <2>3. q = SubSeq(u, 1, Len(u) - 1)
    BY <2>2, PopOk
  <2> HIDE DEF u, q
  <2>4. q \in Seq(Rungs) /\ Len(q) = j /\ \A i \in 1..j : q[i] = u[i]
    BY <1>1, <1>6, <2>3, SubSeqProperties
  <2>5. \A i \in 1..j : q[i] = y[i]
    BY <1>1, <2>0, <2>1, <2>4
  <2>6. q = y
    BY <2>0, <2>1, <2>4, <2>5, SeqEqual
  <2> QED
    BY <2>2, <2>6 DEF q, y, u
<1> QED
    BY <1>5, <1>6 DEF p, w

\* A first press from a caret starts a sweep.
LEMMA SweptStart ==
    ASSUME NEW T, NEW z, NEW a \in Shown(T, Top), a \in Notes, NEW d \in Directions
    PROVE  /\ pushStep(emptyLadder(a), d).stack = SweepRungs(d, 1)
           /\ pushStep(emptyLadder(a), d).anchor = a
           /\ PlanAt(T, z, a, d, 1) # None
           /\ SweptTo(T, z, pushStep(emptyLadder(a), d), selectionOf(T, PlanAt(T, z, a, d, 1)),
                      OutAt(T, z, a, d, 1), d, <<caretAt(a)>>)
<1> DEFINE e == emptyLadder(a)  next == pushStep(e, d)  v == <<caretAt(a)>>
<1>1. e \in Ladders /\ e.anchor = a /\ e.stack = <<>>
    BY EmptyOk
<1>2. e.stack = SweepRungs(d, 0)
  <2> DEFINE w == SweepRungs(d, 0)
  <2>1. w \in Seq(Rungs) /\ Len(w) = 0
    BY RungsAre
  <2> HIDE DEF w
  <2>2. w = <<>>
    BY <2>1
  <2> QED
    BY <1>1, <2>2 DEF w
<1> HIDE DEF e
<1>3. next.stack = SweepRungs(d, 1)
  <2>1. pushStep(e, d).stack = SweepRungs(d, 0 + 1)
    BY <1>1, <1>2, SweepStacks
  <2>2. 0 + 1 = 1
    OBVIOUS
  <2> QED
    BY <2>1, <2>2
<1>4. next.anchor = a /\ next.dir = d
    BY <1>1, PushOk
<1> HIDE DEF next
<1>5. PlanAt(T, z, a, d, 1) # None
  <2>1. PlanAt(T, z, a, d, 1) = [inline |-> a] /\ [inline |-> a] \in [inline : Notes]
    BY FirstPlans
  <2> QED
    BY <2>1, NoneAssumption
<1>6. Len(v) = 1 /\ v[1] = caretAt(a)
    OBVIOUS
<1> HIDE DEF v
<1>7. OutAt(T, z, a, d, 0) = caretAt(a)
    BY DEF OutAt
<1>8. /\ \A i \in 1..1 : i - 1 = 0 /\ v[i] = caretAt(a)
      /\ \A i \in 2..1 : FALSE
    BY <1>6
<1>9. SweptTo(T, z, next, selectionOf(T, PlanAt(T, z, a, d, 1)), OutAt(T, z, a, d, 1), d, v)
    BY <1>3, <1>4, <1>6, <1>7, <1>8 DEF SweptTo
<1> QED
    BY <1>3, <1>4, <1>5, <1>9 DEF e, next, v

\* What two plans of a sweep show differs.
LEMMA OutsDiffer ==
    ASSUME NEW T, IsTree(T), NEW z \in Present(T) \cup {Top}, NEW a \in Shown(T, Top),
           NEW d \in Directions, NEW k \in Nat, k >= 1,
           PlanAt(T, z, a, d, k) # None,
           k >= 2 => Siblings(T, d, PlanAt(T, z, a, d, k)),
           PlanAt(T, z, a, d, k + 1) # None
    PROVE  /\ Siblings(T, d, PlanAt(T, z, a, d, k + 1))
           /\ OutAt(T, z, a, d, k + 1) # OutAt(T, z, a, d, k)
<1>0. a \in Present(T) /\ a \in Notes /\ T \in Lists
    BY ShownIs DEF Shown, IsTree
<1>1. CASE k = 1
  <2>1. PlanAt(T, z, a, d, k + 1) = Extent(a, a, a)
    <3>1. k + 1 = 2
        BY <1>1
    <3> QED
        BY <3>1, FirstPlans
  <2>2. PICK o \in Owners : a \in IsBelow(T, o)
    BY <1>0, PresentParent DEF IsTree
  <2>3. PICK m \in DOMAIN T[o] : a = T[o][m]
    BY <1>0, <2>2, BelowNotes
  <2>4. m <= m
    BY <1>0, BelowNotes
  <2>5. Siblings(T, d, PlanAt(T, z, a, d, k + 1))
    BY <2>1, <2>3, <2>4 DEF Siblings
  <2>6. OutAt(T, z, a, d, k) = TextOf(a) /\ TextOf(a).kind = "inline"
    BY <1>1 DEF OutAt, TextOf
  <2>7. OutAt(T, z, a, d, k + 1).kind = "structural"
    BY <1>1 DEF OutAt, structural
  <2> QED
    BY <2>5, <2>6, <2>7
<1>2. CASE k >= 2
  <2> DEFINE r == PlanAt(T, z, a, d, k)  q == PlanAt(T, z, a, d, k + 1)
  <2>1. q = Step(T, z, r, d, FALSE)
    BY <1>2, ReplayExtend
  <2>2. Siblings(T, d, r) /\ r # None /\ q # None
    BY <1>2
  <2>3. /\ OutAt(T, z, a, d, k) = structural(contiguousHeads(T, selectionOf(T, r)))
        /\ OutAt(T, z, a, d, k + 1) = structural(contiguousHeads(T, selectionOf(T, q)))
    BY <1>2 DEF OutAt
  <2> HIDE DEF r, q
  <2>4. Siblings(T, d, Step(T, z, r, d, FALSE))
        /\ HeadsBetween(T, Step(T, z, r, d, FALSE).first, SubtreeTail(T, Step(T, z, r, d, FALSE).last))
                  # HeadsBetween(T, r.first, SubtreeTail(T, r.last))
    BY <2>1, <2>2, StepSiblings
  <2>5. ASSUME NEW x, Siblings(T, d, x)
        PROVE  contiguousHeads(T, selectionOf(T, x)) = HeadsBetween(T, x.first, SubtreeTail(T, x.last))
    <3>1. isRange(x)
      <4>1. PICK o \in Owners : \E i, j \in DOMAIN T[o] :
                i <= j /\ x = Extent(T[o][i], T[o][j], IF d = "down" THEN T[o][j] ELSE T[o][i])
        BY <2>5 DEF Siblings
      <4>2. PICK i \in DOMAIN T[o], j \in DOMAIN T[o] :
                x = Extent(T[o][i], T[o][j], IF d = "down" THEN T[o][j] ELSE T[o][i])
        BY <4>1
      <4>3. T[o][i] \in Notes /\ T[o][j] \in Notes
        BY <1>0, BelowNotes
      <4>4. x \in Extents(Notes)
        BY <4>2, <4>3 DEF Extent, Extents
      <4> QED
        BY <4>4, RangeIs
    <3>2. selectionOf(T, x) = Between(x.first, SubtreeTail(T, x.last))
        BY <3>1 DEF selectionOf
    <3> QED
        BY <3>2 DEF contiguousHeads, Between
  <2>6. contiguousHeads(T, selectionOf(T, q)) # contiguousHeads(T, selectionOf(T, r))
    BY <2>1, <2>2, <2>4, <2>5
  <2>7. \A h, g : structural(h) = structural(g) => h = g
    BY DEF structural
  <2> QED
    BY <2>1, <2>3, <2>4, <2>6, <2>7 DEF q
<1> QED
    BY <1>1, <1>2

\* Another press adds a view to the sweep.
LEMMA SweptMore ==
    ASSUME NEW T, IsTree(T), NEW z \in Present(T) \cup {Top}, NEW d \in Directions,
           NEW lad \in Ladders, NEW s, NEW out \in Outlines, NEW v \in Seq(Outlines), Len(v) >= 1,
           SweptTo(T, z, lad, s, out, d, v),
           PlanAt(T, z, lad.anchor, d, Len(v) + 1) # None
    PROVE  /\ SweptTo(T, z, pushStep(lad, d), selectionOf(T, PlanAt(T, z, lad.anchor, d, Len(v) + 1)),
                      OutAt(T, z, lad.anchor, d, Len(v) + 1), d, Append(v, out))
           /\ OutAt(T, z, lad.anchor, d, Len(v) + 1) # out
<1> DEFINE a == lad.anchor  k == Len(v)  n == k + 1  w == Append(v, out)  next == pushStep(lad, d)
<1>0. k \in Nat /\ n \in Nat /\ n - 1 = k /\ k >= 1
    OBVIOUS
<1>1. /\ a \in Shown(T, Top) /\ lad.stack = SweepRungs(d, k)
      /\ out = OutAt(T, z, a, d, k)
      /\ \A i \in 1..k : v[i] = OutAt(T, z, a, d, i - 1)
      /\ \A i \in 2..k : PlanAt(T, z, a, d, i) # None /\ Siblings(T, d, PlanAt(T, z, a, d, i))
    BY DEF SweptTo
<1>2. Len(w) = n /\ w[n] = out /\ \A i \in 1..k : w[i] = v[i]
    BY <1>0
<1>3. next.stack = SweepRungs(d, n) /\ next.anchor = a /\ next.dir = d
  <2>1. next.anchor = a /\ next.dir = d
    BY PushOk
  <2> HIDE DEF k, next, a
  <2>2. pushStep(lad, d).stack = SweepRungs(d, k + 1)
    BY <1>0, <1>1, SweepStacks
  <2> QED
    BY <2>1, <2>2 DEF next
<1> HIDE DEF a, next, w
<1>4. PlanAt(T, z, a, d, k) # None /\ (k >= 2 => Siblings(T, d, PlanAt(T, z, a, d, k)))
  <2> HIDE DEF k, n
  <2>1. CASE k = 1
    <3>1. PlanAt(T, z, a, d, k) = [inline |-> a] /\ a \in Notes
        BY <1>1, <2>1, FirstPlans, ShownIs
    <3>2. [inline |-> a] \in [inline : Notes]
        BY <3>1
    <3> QED
        BY <2>1, <3>1, <3>2, NoneAssumption
  <2>2. CASE k # 1
    BY <1>0, <1>1, <2>2
  <2> QED
    BY <2>1, <2>2
<1>5. PlanAt(T, z, a, d, k + 1) # None
    BY DEF a
<1> HIDE DEF k
<1>6. Siblings(T, d, PlanAt(T, z, a, d, k + 1)) /\ OutAt(T, z, a, d, k + 1) # OutAt(T, z, a, d, k)
    BY <1>0, <1>1, <1>4, <1>5, OutsDiffer
<1>7. /\ Siblings(T, d, PlanAt(T, z, a, d, n)) /\ PlanAt(T, z, a, d, n) # None
      /\ OutAt(T, z, a, d, n) # out
    BY <1>1, <1>5, <1>6
<1> HIDE DEF n
<1>8. \A i \in 1..n : w[i] = OutAt(T, z, a, d, i - 1)
  <2> SUFFICES ASSUME NEW i \in 1..n PROVE w[i] = OutAt(T, z, a, d, i - 1)
    OBVIOUS
  <2>1. CASE i = n
    BY <1>0, <1>1, <1>2, <2>1
  <2>2. CASE i # n
    <3>1. i \in 1..k
        BY <1>0, <2>2
    <3> QED
        BY <1>1, <1>2, <3>1
  <2> QED
    BY <2>1, <2>2
<1>9. \A i \in 2..n : PlanAt(T, z, a, d, i) # None /\ Siblings(T, d, PlanAt(T, z, a, d, i))
  <2> SUFFICES ASSUME NEW i \in 2..n
               PROVE  PlanAt(T, z, a, d, i) # None /\ Siblings(T, d, PlanAt(T, z, a, d, i))
    OBVIOUS
  <2>1. CASE i = n
    BY <1>7, <2>1
  <2>2. CASE i # n
    <3>1. i \in 2..k
        BY <1>0, <2>2
    <3> QED
        BY <1>1, <3>1
  <2> QED
    BY <2>1, <2>2
<1>10. SweptTo(T, z, next, selectionOf(T, PlanAt(T, z, a, d, n)), OutAt(T, z, a, d, n), d, w)
    BY <1>1, <1>2, <1>3, <1>8, <1>9 DEF SweptTo
<1> QED
    BY <1>7, <1>10 DEF a, k, n, w, next

\* A press the other way takes the last view back.
LEMMA SweptLess ==
    ASSUME NEW T, IsTree(T), NEW z \in Present(T) \cup {Top}, NEW d \in Directions,
           NEW lad \in Ladders, NEW s, NEW out, NEW v \in Seq(Outlines), Len(v) >= 2,
           SweptTo(T, z, lad, s, out, d, v)
    PROVE  /\ SweptTo(T, z, popStep(lad), selectionOf(T, PlanAt(T, z, lad.anchor, d, Len(v) - 1)),
                      OutAt(T, z, lad.anchor, d, Len(v) - 1), d, Front(v))
           /\ PlanAt(T, z, lad.anchor, d, Len(v) - 1) # None
<1> DEFINE a == lad.anchor  k == Len(v)  n == k - 1  w == Front(v)  next == popStep(lad)
<1>0. k \in Nat /\ n \in Nat /\ k >= 2 /\ n >= 1 /\ n <= k
    OBVIOUS
<1>1. /\ a \in Shown(T, Top) /\ lad.stack = SweepRungs(d, k) /\ lad.dir = d
      /\ \A i \in 1..k : v[i] = OutAt(T, z, a, d, i - 1)
      /\ \A i \in 2..k : PlanAt(T, z, a, d, i) # None /\ Siblings(T, d, PlanAt(T, z, a, d, i))
    BY DEF SweptTo
<1>2. Len(w) = n /\ \A i \in 1..n : w[i] = v[i]
  <2>1. w = SubSeq(v, 1, n)
    BY DEF Front
  <2> HIDE DEF w
  <2> QED
    BY <1>0, <2>1, SubSeqProperties
<1>3. next.stack = SweepRungs(d, n) /\ next.anchor = a /\ next.dir = d
  <2>1. lad.stack # <<>> /\ Len(lad.stack) = k /\ popStep(lad).stack = SweepRungs(d, k - 1)
    <3> HIDE DEF k
    <3>1. lad.stack = SweepRungs(d, k)
        BY <1>1
    <3> QED
        BY <1>0, <3>1, SweepStacks, RungsAre
  <2>2. /\ popStep(lad).anchor = lad.anchor
        /\ popStep(lad).dir = IF Len(lad.stack) = 1 THEN None ELSE lad.dir
    BY <2>1, PopOk
  <2> QED
    BY <1>0, <1>1, <2>1, <2>2
<1> HIDE DEF a, next, w, k
<1>4. n = 1 => PlanAt(T, z, a, d, n) # None
  <2> SUFFICES ASSUME n = 1 PROVE PlanAt(T, z, a, d, n) # None
    OBVIOUS
  <2>1. PlanAt(T, z, a, d, n) = [inline |-> a] /\ a \in Notes
    BY <1>1, FirstPlans, ShownIs
  <2>2. [inline |-> a] \in [inline : Notes]
    BY <2>1
  <2> QED
    BY <2>1, <2>2, NoneAssumption
<1>5. \A i \in 1..n : i \in 1..k
    BY <1>0
<1>6. \A i \in 2..n : i \in 2..k
    BY <1>0
<1>7. n # 1 => n \in 2..k
    BY <1>0
<1> HIDE DEF n
<1>8. SweptTo(T, z, next, selectionOf(T, PlanAt(T, z, a, d, n)), OutAt(T, z, a, d, n), d, w)
    BY <1>1, <1>2, <1>3, <1>5, <1>6 DEF SweptTo
<1>9. PlanAt(T, z, a, d, n) # None
    BY <1>1, <1>4, <1>7
<1> QED
    BY <1>8, <1>9 DEF a, k, n, w, next

\* What the history remembers.
Trails == [views : Seq(Outlines), sweep : Directions \cup {None}, undone : Outlines \cup {None}]

\* A caret is the selection's; what was taken back is shown; and a sweep is what its
\* rungs replay to.
SweepInv ==
    /\ trail \in Trails
    /\ outline.kind = "caret" => sel # None /\ sel.collapsed /\ outline = caretAt(sel.a)
    /\ trail.undone # None => /\ outline = trail.undone /\ Settled
                              /\ trail.views = <<>> => outline.kind = "caret"
    /\ trail.views # <<>> => /\ trail.sweep \in Directions /\ Settled
                             /\ SweptTo(kids, zoom, ladder, sel, outline, trail.sweep, trail.views)

\* Where no sweep is under way.
LEMMA SweepIdle ==
    ASSUME trail' \in Trails, trail'.views = <<>>, trail'.undone = None,
           outline'.kind = "caret" => sel' # None /\ sel'.collapsed /\ outline' = caretAt(sel'.a)
    PROVE  SweepInv'
BY DEF SweepInv

\* The history that is forgotten, but perhaps for its direction.
LEMMA ForgottenTrail ==
    ASSUME NEW d \in Directions \cup {None}
    PROVE  /\ [NoTrail EXCEPT !.sweep = d] \in Trails /\ NoTrail \in Trails
           /\ [NoTrail EXCEPT !.sweep = d].views = <<>> /\ NoTrail.views = <<>>
           /\ [NoTrail EXCEPT !.sweep = d].undone = None /\ NoTrail.undone = None
<1> DEFINE e == <<>>
<1>1. e \in Seq(Outlines)
    OBVIOUS
<1>2. NoTrail = [views |-> e, sweep |-> None, undone |-> None]
    BY DEF NoTrail
<1> HIDE DEF e
<1>3. [NoTrail EXCEPT !.sweep = d] = [views |-> e, sweep |-> d, undone |-> None]
    BY <1>2
<1>4. [views |-> e, sweep |-> d, undone |-> None] \in Trails
      /\ [views |-> e, sweep |-> None, undone |-> None] \in Trails
    BY <1>1 DEF Trails
<1> QED
    BY <1>2, <1>3, <1>4 DEF e

\* An update that forgets the history.
LEMMA ObserveForgets ==
    ASSUME NEW u, NEW T, NEW s, NEW lad, NEW unl, NEW left, Observe(u, T, s, lad, unl, left),
           NEW d \in Directions \cup {None}, trail' = NoTrail \/ trail' = [NoTrail EXCEPT !.sweep = d]
    PROVE  SweepInv'
<1>1. sel' = s /\ (outline'.kind = "caret" => s # None /\ s.collapsed /\ outline' = caretAt(s.a))
    BY CaretsAreSeen
<1>2. trail' \in Trails /\ trail'.views = <<>> /\ trail'.undone = None
    BY ForgottenTrail
<1> QED
    BY <1>1, <1>2, SweepIdle

\* What a press of an arrow does to the history.
LEMMA PressedIs ==
    ASSUME NEW dir \in Directions
    PROVE  /\ outline.kind = "caret" =>
                  Pressed(dir) = IF ladder.stack = <<>> /\ outline' # outline
                                 THEN [views |-> <<outline>>, sweep |-> dir, undone |-> None] ELSE NoTrail
           /\ outline.kind # "caret" /\ trail.views # <<>> /\ trail.sweep = Opposite(dir) =>
                  Pressed(dir) = [views |-> Front(trail.views),
                                  sweep |-> IF Len(trail.views) = 1 THEN None ELSE trail.sweep,
                                  undone |-> Last(trail.views)]
           /\ outline.kind # "caret" /\ trail.views # <<>> /\ trail.sweep = dir /\ outline' # outline =>
                  Pressed(dir) = [trail EXCEPT !.views = Append(trail.views, outline), !.undone = None]
           /\ outline.kind # "caret" /\ trail.views # <<>> /\ trail.sweep = dir /\ outline' = outline =>
                  Pressed(dir) = [trail EXCEPT !.undone = None]
           /\ outline.kind # "caret" /\ trail.views = <<>> => Pressed(dir) = [trail EXCEPT !.undone = None]
<1> DEFINE A == outline.kind = "caret"
           B == outline.kind # "caret" /\ trail.views # <<>> /\ trail.sweep = Opposite(dir)
           C == outline.kind # "caret" /\ trail.views # <<>> /\ trail.sweep = dir /\ outline' # outline
           x == IF ladder.stack = <<>> /\ outline' # outline
                THEN [views |-> <<outline>>, sweep |-> dir, undone |-> None] ELSE NoTrail
           y == [views |-> Front(trail.views), sweep |-> IF Len(trail.views) = 1 THEN None ELSE trail.sweep,
                 undone |-> Last(trail.views)]
           w == [trail EXCEPT !.views = Append(trail.views, outline), !.undone = None]
           r == [trail EXCEPT !.undone = None]
<1>1. Pressed(dir) = CASE A -> x [] B -> y [] C -> w [] OTHER -> r
    BY DEF Pressed
<1>2. Opposite(dir) # dir
    BY DEF Opposite, Directions
<1>3. (A => ~B /\ ~C) /\ (B => ~A /\ ~C) /\ (C => ~A /\ ~B)
    BY <1>2
<1>4. /\ A => Pressed(dir) = x
      /\ B => Pressed(dir) = y
      /\ C => Pressed(dir) = w
      /\ ~A /\ ~B /\ ~C => Pressed(dir) = r
  <2> HIDE DEF A, B, C, x, y, w, r
  <2>1. A => Pressed(dir) = x
    BY <1>1, <1>3
  <2>2. B => Pressed(dir) = y
    BY <1>1, <1>3
  <2>3. C => Pressed(dir) = w
    BY <1>1, <1>3
  <2>4. ~A /\ ~B /\ ~C => Pressed(dir) = r
    BY <1>1
  <2> QED
    BY <2>1, <2>2, <2>3, <2>4
<1> QED
    BY <1>2, <1>4

\* The first press of an arrow, from a caret.
LEMMA FirstPress ==
    ASSUME TreeInv, SweepInv, NEW dir \in Directions, ShiftArrow(dir),
           outline.kind = "caret", ladder.stack = <<>>,
           trail' = [views |-> <<outline>>, sweep |-> dir, undone |-> None]
    PROVE  SweepInv'
<1> DEFINE a == sel.a  e == FALSE
<1>1. Settled /\ sel # None /\ kids' = kids /\ zoom' = zoom
    BY DEF ShiftArrow
<1>2. sel.collapsed /\ outline = caretAt(a)
    BY DEF SweepInv
<1>3. a \in Shown(kids, Top) /\ a \in Notes
    BY <1>1, KeyStart, ShownIs
<1>4. IsTree(kids) /\ zoom \in Present(kids) \cup {Top} /\ outline \in Outlines
    BY DEF TreeInv, OutlineOk, Outlines
<1>5. Resolved = INITIAL /\ INITIAL.anchor = None /\ INITIAL.stack = <<>>
    BY <1>2 DEF Resolved, ladderHasStructuralRung, INITIAL, emptyLadder
<1>6. None \notin Present(kids)
    BY <1>4, PresentBelowTop, NoneAssumption DEF Owners
<1>7. AnchorOf(Resolved) = a /\ Resolved.anchor # a
    BY <1>3, <1>5, <1>6, NoneAssumption DEF AnchorOf, Owners
<1> DEFINE next == pushStep(emptyLadder(a), dir)
           plan == replayLadder(kids, zoom, a, next.stack, FALSE)
<1>8. \/ plan # None /\ Apply(selectionOf(kids, plan), next)
      \/ plan = None /\ Refused(Resolved)
    BY <1>5, <1>7 DEF ShiftArrow
<1> DEFINE v == <<caretAt(a)>>
<1>9. /\ next.stack = SweepRungs(dir, 1) /\ next.anchor = a
      /\ PlanAt(kids, zoom, a, dir, 1) # None
      /\ SweptTo(kids, zoom, next, selectionOf(kids, PlanAt(kids, zoom, a, dir, 1)),
                 OutAt(kids, zoom, a, dir, 1), dir, v)
    BY <1>3, SweptStart
<1> HIDE DEF next, a, v
<1>10. plan = PlanAt(kids, zoom, a, dir, 1)
    BY <1>9 DEF PlanAt
<1> HIDE DEF plan
<1> DEFINE s == selectionOf(kids, PlanAt(kids, zoom, a, dir, 1))  unl == TRUE
<1>11. Observe(Own, kids, s, next, unl, pending)
    BY <1>8, <1>9, <1>10 DEF Apply
<1>12. Own \in {Own, Selecting} /\ unl \in BOOLEAN /\ unl /\ 1 \in Nat /\ 1 >= 1
    OBVIOUS
<1> HIDE DEF s, unl
<1>13. /\ sel' = s /\ ~s.collapsed /\ s # None /\ ladder' = next
       /\ outline' = OutAt(kids, zoom, a, dir, 1) /\ pending' = pending
  <2>1. s = selectionOf(kids, PlanAt(kids, zoom, a, dir, 1))
    BY DEF s
  <2>2. IsShownAt(kids, zoom, a, dir, 1, s, next, pending)
    BY <1>3, <1>4, <1>9, <1>11, <1>12, <2>1, ShowsPlan
  <2> QED
    BY <2>2 DEF IsShownAt
<1>14. trail'.views = v /\ trail'.sweep = dir /\ trail'.undone = None /\ trail' \in Trails
  <2>1. v = <<outline>>
    BY <1>2 DEF v, a
  <2>2. v \in Seq(Outlines)
    BY <1>4, <2>1
  <2>3. trail' = [views |-> v, sweep |-> dir, undone |-> None]
    BY <2>1
  <2> QED
    BY <2>2, <2>3 DEF Trails
<1>15. Settled'
    BY <1>1, <1>13 DEF Settled
<1>16. outline'.kind # "caret"
    BY <1>13 DEF OutAt, TextOf
<1>17. SweptTo(kids', zoom', ladder', sel', outline', dir, v)
    BY <1>1, <1>9, <1>13 DEF s
<1> QED
    BY <1>14, <1>15, <1>16, <1>17 DEF SweepInv

\* The ladder that a press finds in a sweep.
LEMMA SweepStart ==
    ASSUME TreeInv, SweepInv, trail.views # <<>>
    PROVE  /\ trail.sweep \in Directions /\ Settled /\ ladder \in Ladders
           /\ IsTree(kids) /\ zoom \in Present(kids) \cup {Top} /\ outline \in Outlines
           /\ trail.views \in Seq(Outlines) /\ Len(trail.views) >= 1 /\ Len(trail.views) \in Nat
           /\ ~sel.collapsed /\ outline.kind # "caret"
           /\ Resolved = ladder /\ AnchorOf(ladder) = ladder.anchor /\ ladder.anchor \in Notes
           /\ ladder.anchor \in Shown(kids, Top) /\ ladder.stack # <<>> /\ ladder.dir = trail.sweep
           /\ ladder.stack = SweepRungs(trail.sweep, Len(trail.views))
           /\ sel = selectionOf(kids, PlanAt(kids, zoom, ladder.anchor, trail.sweep, Len(trail.views)))
           /\ outline = OutAt(kids, zoom, ladder.anchor, trail.sweep, Len(trail.views))
           /\ SweptTo(kids, zoom, ladder, sel, outline, trail.sweep, trail.views)
<1> DEFINE v == trail.views  d == trail.sweep  k == Len(v)
<1>1. d \in Directions /\ Settled /\ SweptTo(kids, zoom, ladder, sel, outline, d, v) /\ v \in Seq(Outlines)
    BY DEF SweepInv, Trails
<1>2. IsTree(kids) /\ zoom \in Present(kids) \cup {Top} /\ outline \in Outlines /\ ladder \in Ladders
    BY DEF TreeInv, OutlineOk, Outlines
<1>3. k \in Nat /\ k >= 1
  <2> HIDE DEF v
  <2>1. v # <<>>
    BY DEF v
  <2> QED
    BY <1>1, <2>1
<1>4. /\ ladder.anchor \in Shown(kids, Top) /\ ladder.stack = SweepRungs(d, k) /\ ladder.dir = d
      /\ sel = selectionOf(kids, PlanAt(kids, zoom, ladder.anchor, d, k))
      /\ outline = OutAt(kids, zoom, ladder.anchor, d, k)
    BY <1>1 DEF SweptTo
<1> HIDE DEF k
<1>5. ~sel.collapsed
    BY <1>4 DEF selectionOf, Between
<1>6. Resolved = ladder
    BY <1>5 DEF Resolved
<1>7. ladder.anchor \in Notes /\ AnchorOf(ladder) = ladder.anchor
    BY <1>2, <1>4, ShownIs DEF AnchorOf, Shown
<1>8. ladder.stack # <<>>
  <2>1. Len(SweepRungs(d, k)) = k
    BY <1>1, <1>3, RungsAre
  <2>2. Len(<<>>) = 0
    OBVIOUS
  <2> QED
    BY <1>3, <1>4, <2>1, <2>2
<1>9. outline.kind # "caret"
    BY <1>3, <1>4 DEF OutAt, TextOf, structural
<1> QED
    BY <1>1, <1>2, <1>3, <1>4, <1>5, <1>6, <1>7, <1>8, <1>9 DEF k

\* A press the other way: what was seen before is seen again.
LEMMA PressBack ==
    ASSUME TreeInv, SweepInv, NEW dir \in Directions, ShiftArrow(dir),
           trail.views # <<>>, trail.sweep = Opposite(dir)
    PROVE  SweepInv'
<1> DEFINE v == trail.views  d == trail.sweep  k == Len(v)  n == k - 1  a == ladder.anchor
           next == popStep(ladder)  plan == replayLadder(kids, zoom, a, next.stack, FALSE)
<1>1. kids' = kids /\ zoom' = zoom /\ sel # None
    BY DEF ShiftArrow
<1>2. /\ d \in Directions /\ Settled /\ ladder \in Ladders
      /\ IsTree(kids) /\ zoom \in Present(kids) \cup {Top} /\ outline \in Outlines
      /\ v \in Seq(Outlines) /\ k >= 1 /\ k \in Nat
      /\ outline.kind # "caret"
      /\ Resolved = ladder /\ AnchorOf(ladder) = a /\ a \in Notes
      /\ a \in Shown(kids, Top) /\ ladder.stack # <<>> /\ ladder.dir = d
      /\ ladder.stack = SweepRungs(d, k)
      /\ sel = selectionOf(kids, PlanAt(kids, zoom, a, d, k))
      /\ outline = OutAt(kids, zoom, a, d, k)
      /\ SweptTo(kids, zoom, ladder, sel, outline, d, v)
    BY SweepStart
<1>3. n \in Nat /\ n <= k
    BY <1>2
<1>4. next.stack = SweepRungs(d, n) /\ next.anchor = a /\ next \in Ladders
  <2>1. next.anchor = a /\ next \in Ladders
    BY <1>2, PopOk
  <2> HIDE DEF k, next, a
  <2>2. popStep(ladder).stack = SweepRungs(d, k - 1)
    BY <1>2, SweepStacks
  <2> QED
    BY <2>1, <2>2 DEF next
<1>5. \/ plan # None /\ Apply(selectionOf(kids, plan), next)
      \/ plan = None /\ Apply(Caret(sel.a), emptyLadder(a))
    BY <1>2 DEF ShiftArrow
<1>6. trail' = [views |-> Front(v), sweep |-> IF k = 1 THEN None ELSE d, undone |-> Last(v)]
  <2>1. trail' = Pressed(dir)
    BY DEF ShiftArrow
  <2> QED
    BY <1>2, <2>1, PressedIs
<1>7. /\ Front(v) \in Seq(Outlines) /\ Len(Front(v)) = n
      /\ Last(v) = OutAt(kids, zoom, a, d, n) /\ Last(v) \in Outlines
  <2>1. Front(v) = SubSeq(v, 1, n) /\ Last(v) = v[k]
    BY DEF Front, Last
  <2>2. v[k] = OutAt(kids, zoom, a, d, k - 1) /\ k \in 1..k
    BY <1>2 DEF SweptTo
  <2>v. v \in Seq(Outlines) /\ k = Len(v) /\ n \in 0..k /\ n = k - 1
    BY <1>2, <1>3
  <2> HIDE DEF v, k, n
  <2>3. v[k] \in Outlines
    BY <1>2, <2>2, <2>v
  <2>4. SubSeq(v, 1, n) \in Seq(Outlines) /\ Len(SubSeq(v, 1, n)) = n
    BY <1>3, <2>v, SubSeqProperties
  <2> QED
    BY <2>1, <2>2, <2>3, <2>4, <2>v
<1>8. trail' \in Trails /\ trail'.views = Front(v) /\ trail'.undone = Last(v)
      /\ trail'.sweep = IF k = 1 THEN None ELSE d
  <2> HIDE DEF v, d, k
  <2> QED
    BY <1>2, <1>6, <1>7 DEF Trails
<1>9. plan = PlanAt(kids, zoom, a, d, n)
    BY <1>4 DEF PlanAt
<1> HIDE DEF next, plan, v, d
<1>k. k >= 1 /\ k \in Nat /\ n = k - 1
    BY <1>2
<1>t. /\ a \in Shown(kids, Top) /\ d \in Directions /\ IsTree(kids)
      /\ zoom \in Present(kids) \cup {Top}
    BY <1>2
<1> HIDE DEF k, n
<1>10. CASE k = 1
  <2>0. n = 0
    BY <1>10, <1>k
  <2>1. n = 0 /\ plan = None
    BY <1>9, <1>t, <2>0, FirstPlans
  <2>2. sel.a = a
    <3>1. PlanAt(kids, zoom, a, d, k) = [inline |-> a]
        BY <1>2, <1>10, FirstPlans
    <3>2. ~isRange([inline |-> a])
        BY <1>2, RangeIs
    <3> QED
        BY <1>2, <3>1, <3>2 DEF selectionOf, Between
  <2>3. Observe(Own, kids, Caret(a), emptyLadder(a), TRUE, pending)
    BY <1>5, <2>1, <2>2 DEF Apply
  <2> DEFINE unl == TRUE  lad == emptyLadder(a)
  <2>4. Observe(Own, kids, Caret(a), lad, unl, pending)
    BY <2>3
  <2> HIDE DEF unl, lad
  <2>5. sel' = Caret(a) /\ outline' = caretAt(a) /\ pending' = pending /\ Caret(a) # None
    BY <1>2, <2>4, ShowsCaret
  <2>6. trail'.views = <<>>
    <3>1. Len(Front(v)) = 0
        BY <1>7, <2>1
    <3> QED
        BY <1>7, <1>8, <3>1
  <2>7. outline' = trail'.undone /\ outline'.kind = "caret"
    BY <1>7, <1>8, <2>1, <2>5 DEF OutAt, caretAt
  <2>8. Settled'
    BY <1>2, <2>5 DEF Settled
  <2>9. sel'.a = a /\ sel'.collapsed
    BY <2>5 DEF Caret
  <2> QED
    BY <1>8, <2>5, <2>6, <2>7, <2>8, <2>9 DEF SweepInv
<1>11. CASE k # 1
  <2>1. k >= 2 /\ n >= 1
    BY <1>11, <1>k
  <2>2. /\ SweptTo(kids, zoom, next, selectionOf(kids, PlanAt(kids, zoom, a, d, n)),
                   OutAt(kids, zoom, a, d, n), d, Front(v))
        /\ PlanAt(kids, zoom, a, d, n) # None
    BY <1>2, <2>1, SweptLess DEF next, k, n
  <2> DEFINE s == selectionOf(kids, PlanAt(kids, zoom, a, d, n))  unl == TRUE
  <2>3. Observe(Own, kids, s, next, unl, pending)
    BY <1>5, <1>9, <2>2 DEF Apply
  <2>4. Own \in {Own, Selecting} /\ unl \in BOOLEAN /\ unl
    OBVIOUS
  <2>5. s = selectionOf(kids, PlanAt(kids, zoom, a, d, n))
    OBVIOUS
  <2> HIDE DEF s, unl, a
  <2>6. /\ sel' = s /\ ~s.collapsed /\ s # None /\ ladder' = next
        /\ outline' = OutAt(kids, zoom, a, d, n) /\ pending' = pending
    <3>1. IsShownAt(kids, zoom, a, d, n, s, next, pending)
        BY <1>3, <1>4, <1>t, <2>1, <2>2, <2>3, <2>4, <2>5, ShowsPlan
    <3> QED
        BY <3>1 DEF IsShownAt
  <2>7. outline'.kind # "caret"
    BY <1>3, <2>1, <2>6 DEF OutAt, TextOf, structural
  <2>8. Settled'
    BY <1>2, <2>6 DEF Settled
  <2>9. SweptTo(kids', zoom', ladder', sel', outline', trail'.sweep, trail'.views)
    BY <1>1, <1>8, <1>11, <2>2, <2>5, <2>6
  <2>10. outline' = trail'.undone /\ trail'.sweep \in Directions /\ trail'.views # <<>>
    <3>1. Len(Front(v)) # 0
        BY <1>3, <1>7, <2>1
    <3>2. Front(v) # <<>>
        BY <3>1
    <3> QED
        BY <1>2, <1>7, <1>8, <1>11, <2>6, <3>2
  <2> QED
    BY <1>8, <2>7, <2>8, <2>9, <2>10 DEF SweepInv
<1> QED
    BY <1>10, <1>11

\* A press the same way: the sweep goes on, or it is at its end.
LEMMA PressOn ==
    ASSUME TreeInv, SweepInv, NEW dir \in Directions, ShiftArrow(dir),
           trail.views # <<>>, trail.sweep = dir
    PROVE  SweepInv'
<1> DEFINE v == trail.views  k == Len(v)  n == k + 1  a == ladder.anchor
           next == pushStep(ladder, dir)  plan == replayLadder(kids, zoom, a, next.stack, FALSE)
<1>1. kids' = kids /\ zoom' = zoom /\ sel # None
    BY DEF ShiftArrow
<1>2. /\ Settled /\ ladder \in Ladders
      /\ IsTree(kids) /\ zoom \in Present(kids) \cup {Top} /\ outline \in Outlines
      /\ v \in Seq(Outlines) /\ k >= 1 /\ k \in Nat
      /\ outline.kind # "caret"
      /\ Resolved = ladder /\ AnchorOf(ladder) = a /\ a \in Notes
      /\ a \in Shown(kids, Top) /\ ladder.stack # <<>> /\ ladder.dir = dir
      /\ ladder.stack = SweepRungs(dir, k)
      /\ SweptTo(kids, zoom, ladder, sel, outline, dir, v)
    BY SweepStart
<1>3. n \in Nat /\ n >= 1
    BY <1>2
<1>4. next.stack = SweepRungs(dir, n) /\ next.anchor = a
  <2>1. next.anchor = a
    BY <1>2, PushOk
  <2> HIDE DEF k, next, a
  <2>2. pushStep(ladder, dir).stack = SweepRungs(dir, k + 1)
    BY <1>2, SweepStacks
  <2> QED
    BY <2>1, <2>2 DEF next
<1>5. \/ plan # None /\ Apply(selectionOf(kids, plan), next)
      \/ plan = None /\ Refused(ladder)
  <2>1. Opposite(dir) # dir
    BY DEF Opposite, Directions
  <2> QED
    BY <1>2, <2>1 DEF ShiftArrow
<1>6. plan = PlanAt(kids, zoom, a, dir, n)
    BY <1>4 DEF PlanAt
<1>7. trail' = Pressed(dir)
    BY DEF ShiftArrow
<1>8. trail \in Trails
    BY DEF SweepInv
<1>t. /\ a \in Shown(kids, Top) /\ IsTree(kids)
      /\ zoom \in Present(kids) \cup {Top}
    BY <1>2
<1> HIDE DEF next, plan
<1>9. CASE plan = None
  <2>1. ladder' = ladder /\ sel' = sel /\ outline' = outline /\ pending' = pending
    BY <1>5, <1>9 DEF Refused
  <2>2. trail' = [trail EXCEPT !.undone = None]
    BY <1>2, <1>7, <2>1, PressedIs
  <2>3. trail' \in Trails /\ trail'.views = trail.views /\ trail'.sweep = trail.sweep /\ trail'.undone = None
    BY <1>8, <2>2 DEF Trails
  <2>4. Settled'
    BY <1>2, <2>1 DEF Settled
  <2> QED
    BY <1>1, <1>2, <2>1, <2>3, <2>4 DEF SweepInv
<1>10. CASE plan # None
  <2> DEFINE s == selectionOf(kids, PlanAt(kids, zoom, a, dir, n))  unl == TRUE
  <2>1. Observe(Own, kids, s, next, unl, pending)
    BY <1>5, <1>6, <1>10 DEF Apply
  <2>2. Own \in {Own, Selecting} /\ unl \in BOOLEAN /\ unl
    OBVIOUS
  <2>3. s = selectionOf(kids, PlanAt(kids, zoom, a, dir, n)) /\ PlanAt(kids, zoom, a, dir, n) # None
    BY <1>6, <1>10
  <2>4. /\ SweptTo(kids, zoom, next, s, OutAt(kids, zoom, a, dir, n), dir, Append(v, outline))
        /\ OutAt(kids, zoom, a, dir, n) # outline
    BY <1>2, <2>3, SweptMore DEF next
  <2> HIDE DEF s, unl, n, a
  <2>5. /\ sel' = s /\ ~s.collapsed /\ s # None /\ ladder' = next
        /\ outline' = OutAt(kids, zoom, a, dir, n) /\ pending' = pending
    <3>1. IsShownAt(kids, zoom, a, dir, n, s, next, pending)
        BY <1>3, <1>4, <1>t, <2>1, <2>2, <2>3, ShowsPlan
    <3> QED
        BY <3>1 DEF IsShownAt
  <2>6. trail' = [trail EXCEPT !.views = Append(v, outline), !.undone = None]
    BY <1>2, <1>7, <2>4, <2>5, PressedIs
  <2>7. /\ trail' \in Trails /\ trail'.views = Append(v, outline) /\ trail'.sweep = dir
        /\ trail'.undone = None
    <3>1. Append(v, outline) \in Seq(Outlines)
        BY <1>2
    <3> DEFINE w == Append(v, outline)
    <3> HIDE DEF w
    <3>2. trail' = [trail EXCEPT !.views = w, !.undone = None] /\ w \in Seq(Outlines)
        BY <2>6, <3>1 DEF w
    <3>3. trail' \in Trails /\ trail'.views = w /\ trail'.sweep = trail.sweep /\ trail'.undone = None
        BY <1>8, <3>2 DEF Trails
    <3> QED
        BY <3>3 DEF w
  <2>8. outline'.kind # "caret"
    BY <1>3, <2>5 DEF OutAt, TextOf, structural
  <2>9. Settled'
    BY <1>2, <2>5 DEF Settled
  <2>10. SweptTo(kids', zoom', ladder', sel', outline', trail'.sweep, trail'.views)
    BY <1>1, <2>4, <2>5, <2>7
  <2> QED
    BY <2>7, <2>8, <2>9, <2>10 DEF SweepInv
<1> QED
    BY <1>9, <1>10

\* Shift+Up and Shift+Down.
LEMMA ArrowSweep ==
    ASSUME TreeInv, SweepInv, NEW dir \in Directions, ShiftArrow(dir)
    PROVE  SweepInv'
<1>1. trail' = Pressed(dir) /\ trail \in Trails
    BY DEF ShiftArrow, SweepInv
<1>2. outline'.kind = "caret" => sel' # None /\ sel'.collapsed /\ outline' = caretAt(sel'.a)
  <2> DEFINE anchor == AnchorOf(Resolved)
             continues == Resolved.anchor = anchor /\ Resolved.stack # <<>>
             shrinks == continues /\ Resolved.dir = Opposite(dir)
             base == IF continues THEN Resolved ELSE emptyLadder(anchor)
             next == IF shrinks THEN popStep(Resolved) ELSE pushStep(base, dir)
             plan == replayLadder(kids, zoom, anchor, next.stack, FALSE)
  <2>1. \/ Apply(selectionOf(kids, plan), next)
        \/ Apply(Caret(sel.a), emptyLadder(anchor))
        \/ Refused(Resolved)
    BY DEF ShiftArrow
  <2> HIDE DEF next, plan, anchor
  <2>2. ASSUME NEW s, NEW lad, Apply(s, lad)
        PROVE  outline'.kind = "caret" => sel' # None /\ sel'.collapsed /\ outline' = caretAt(sel'.a)
    <3> DEFINE unl == TRUE
    <3>1. Observe(Own, kids, s, lad, unl, pending)
        BY <2>2 DEF Apply
    <3> HIDE DEF unl
    <3>2. sel' = s /\ (outline'.kind = "caret" => s # None /\ s.collapsed /\ outline' = caretAt(s.a))
        BY <3>1, CaretsAreSeen
    <3> QED
        BY <3>2
  <2>3. CASE Refused(Resolved)
    BY <2>3 DEF Refused, SweepInv
  <2> QED
    BY <2>1, <2>2, <2>3
<1>3. CASE outline.kind = "caret"
  <2>1. trail' = IF ladder.stack = <<>> /\ outline' # outline
                 THEN [views |-> <<outline>>, sweep |-> dir, undone |-> None] ELSE NoTrail
    BY <1>1, <1>3, PressedIs
  <2>2. CASE ladder.stack = <<>> /\ outline' # outline
    BY <1>3, <2>1, <2>2, FirstPress
  <2>3. CASE ~(ladder.stack = <<>> /\ outline' # outline)
    <3>1. trail' = NoTrail
        BY <2>1, <2>3
    <3> QED
        BY <1>2, <3>1, ForgottenTrail, SweepIdle
  <2> QED
    BY <2>2, <2>3
<1>4. CASE outline.kind # "caret" /\ trail.views = <<>>
  <2>1. trail' = [trail EXCEPT !.undone = None]
    BY <1>1, <1>4, PressedIs
  <2>2. trail' \in Trails /\ trail'.views = trail.views /\ trail'.undone = None
    BY <1>1, <2>1 DEF Trails
  <2> QED
    BY <1>2, <1>4, <2>2, SweepIdle
<1>5. CASE trail.views # <<>>
  <2>1. trail.sweep \in Directions
    BY <1>5, SweepStart
  <2>2. trail.sweep = dir \/ trail.sweep = Opposite(dir)
    BY <2>1 DEF Directions, Opposite
  <2> QED
    BY <1>5, <2>2, PressBack, PressOn
<1> QED
    BY <1>3, <1>4, <1>5

\* The browser's version of the range leaves the sweep as it is.
LEMMA NormalizeSweep ==
    ASSUME TreeInv, SweepInv, Normalize
    PROVE  SweepInv'
<1>1. /\ kids' = kids /\ zoom' = zoom /\ trail' = trail /\ Settled /\ sel # None /\ unlock
      /\ Observe(Selecting, kids, sel, ladder, unlock, pending)
    BY DEF Normalize
<1>2. sel' = sel /\ (outline'.kind = "caret" => sel # None /\ sel.collapsed /\ outline' = caretAt(sel.a))
  <2>1. Observe(Selecting, kids, sel, ladder, unlock, pending)
    BY <1>1
  <2> QED
    BY <2>1, CaretsAreSeen
<1>3. trail \in Trails
    BY DEF SweepInv
<1>4. CASE trail.views # <<>>
  <2> DEFINE d == trail.sweep  k == Len(trail.views)  a == ladder.anchor  v == trail.views
  <2>1. /\ d \in Directions /\ ladder \in Ladders
        /\ IsTree(kids) /\ zoom \in Present(kids) \cup {Top} /\ v \in Seq(Outlines)
        /\ k >= 1 /\ k \in Nat /\ outline.kind # "caret" /\ a \in Notes
        /\ a \in Shown(kids, Top) /\ ladder.stack = SweepRungs(d, k)
        /\ sel = selectionOf(kids, PlanAt(kids, zoom, a, d, k))
        /\ outline = OutAt(kids, zoom, a, d, k)
        /\ SweptTo(kids, zoom, ladder, sel, outline, d, v)
    BY <1>4, SweepStart
  <2>2. unlock \in BOOLEAN
    BY DEF TreeInv
  <2>3. PlanAt(kids, zoom, a, d, k) # None
    <3>1. CASE k = 1
      <4>1. PlanAt(kids, zoom, a, d, 1) = [inline |-> a] /\ [inline |-> a] \in [inline : Notes]
        BY <2>1, FirstPlans
      <4> QED
        BY <3>1, <4>1, NoneAssumption
    <3>2. CASE k # 1
      <4>1. \A i \in 2..k : PlanAt(kids, zoom, a, d, i) # None
        BY <2>1 DEF SweptTo
      <4> HIDE DEF k
      <4>2. k \in 2..k
        BY <2>1, <3>2
      <4> QED
        BY <4>1, <4>2
    <3> QED
        BY <3>1, <3>2
  <2>t. Selecting \in {Own, Selecting} /\ ladder.anchor = a
    OBVIOUS
  <2> HIDE DEF d, k, a, v
  <2>4. /\ sel' = sel /\ ladder' = ladder /\ outline' = OutAt(kids, zoom, a, d, k) /\ pending' = pending
    <3>1. IsShownAt(kids, zoom, a, d, k, sel, ladder, pending)
        BY <1>1, <2>1, <2>2, <2>3, <2>t, ShowsPlan
    <3> QED
        BY <3>1 DEF IsShownAt
  <2>5. outline' = outline /\ Settled'
    BY <1>1, <2>1, <2>4 DEF Settled
  <2>6. SweptTo(kids', zoom', ladder', sel', outline', trail'.sweep, trail'.views)
    BY <1>1, <2>1, <2>4, <2>5 DEF d, v
  <2> QED
    BY <1>1, <1>2, <1>3, <1>4, <2>1, <2>5, <2>6 DEF SweepInv, d
<1>5. CASE trail.views = <<>> /\ trail.undone = None
    BY <1>1, <1>2, <1>3, <1>5, SweepIdle
<1>6. CASE trail.views = <<>> /\ trail.undone # None
  <2>1. outline = trail.undone /\ sel.collapsed /\ outline = caretAt(sel.a) /\ outline.kind = "caret"
    BY <1>6 DEF SweepInv
  <2>2. Selecting.progressive = FALSE /\ Selecting.tree = FALSE
    BY DEF Selecting, Tagged
  <2>3. ObserveKept(Selecting, kids, sel, ladder, unlock, pending)
    BY <1>1 DEF Observe
  <2>4. outline' = caretAt(sel.a) /\ pending' = pending
    BY <1>1, <2>1, <2>2, <2>3 DEF ObserveKept
  <2>5. Settled'
    BY <1>1, <2>4 DEF Settled
  <2> QED
    BY <1>1, <1>2, <1>3, <1>6, <2>1, <2>4, <2>5 DEF SweepInv
<1> QED
    BY <1>4, <1>5, <1>6

\* A microtask finds no sweep.
LEMMA MicrotaskSweep ==
    ASSUME SweepInv, Microtask
    PROVE  SweepInv'
<1>1. ASSUME NEW u, NEW s, NEW left, Flush(u, s, left), ~Settled
      PROVE  SweepInv'
  <2>1. trail' = trail /\ trail \in Trails /\ trail.views = <<>> /\ trail.undone = None
    BY <1>1 DEF Flush, SweepInv
  <2>2. CASE Observe(u, kids, s, ladder, unlock, left)
    <3>1. sel' = s /\ (outline'.kind = "caret" => s # None /\ s.collapsed /\ outline' = caretAt(s.a))
        BY <2>2, CaretsAreSeen
    <3> QED
        BY <2>1, <3>1, SweepIdle
  <2>3. CASE UNCHANGED <<sel, ladder, unlock, outline>>
    <3>1. sel' = sel /\ outline' = outline
        BY <2>3
    <3>2. outline'.kind = "caret" => sel' # None /\ sel'.collapsed /\ outline' = caretAt(sel'.a)
        BY <3>1 DEF SweepInv
    <3> QED
        BY <2>1, <3>2, SweepIdle
  <2> QED
    BY <1>1, <2>2, <2>3 DEF Flush
<1>2. Settled => pending.reshape = None /\ pending.snap = None
    BY DEF Settled
<1>3. CASE Flush(Own, pending.reshape, [pending EXCEPT !.reshape = None])
  <2>1. ~Settled
    BY <1>2, <1>3 DEF Flush
  <2> QED
    BY <1>1, <1>3, <2>1
<1>4. CASE Flush(Correcting, pending.snap, [pending EXCEPT !.snap = None])
  <2>1. ~Settled
    BY <1>2, <1>4 DEF Flush
  <2> QED
    BY <1>1, <1>4, <2>1
<1> QED
    BY <1>3, <1>4 DEF Microtask

\* Everything else forgets the sweep.
LEMMA OtherSweep ==
    ASSUME SweepInv,
           \/ SelectAll \/ PlainKey \/ Escape \/ ShiftHorizontal \/ Point
           \/ \E z \in Owners : ZoomTo(z)
           \/ EditText \/ InsertNote \/ DeleteNote \/ MoveSelected \/ MoveNote
    PROVE  SweepInv'
<1>0. trail.sweep \in Directions \cup {None}
    BY DEF SweepInv, Trails
<1>1. ASSUME NEW u, NEW T, NEW s, NEW lad, NEW unl, NEW left, Observe(u, T, s, lad, unl, left),
             trail' = NoTrail
      PROVE  SweepInv'
    BY <1>0, <1>1, ObserveForgets
<1>2. ASSUME NEW K, NEW s, Edited(K, s) PROVE SweepInv'
  <2>1. Observe(Editing, K, s, ladder, unlock, pending)
    BY <1>2 DEF Edited
  <2>2. trail' = [NoTrail EXCEPT !.sweep =
                    IF zoom' = zoom /\ ladder'.anchor = ladder.anchor THEN trail.sweep ELSE None]
    BY <1>2 DEF Edited
  <2> DEFINE d == IF zoom' = zoom /\ ladder'.anchor = ladder.anchor THEN trail.sweep ELSE None
  <2>3. d \in Directions \cup {None} /\ trail' = [NoTrail EXCEPT !.sweep = d]
    BY <1>0, <2>2
  <2> HIDE DEF d
  <2> QED
    BY <2>1, <2>3, ObserveForgets
<1>3. ASSUME NEW s, NEW lad, Apply(s, lad), trail' = NoTrail PROVE SweepInv'
  <2> DEFINE unl == TRUE
  <2>1. Observe(Own, kids, s, lad, unl, pending)
    BY <1>3 DEF Apply
  <2> HIDE DEF unl
  <2> QED
    BY <1>1, <1>3, <2>1
<1>4. CASE SelectAll
  <2> DEFINE anchor == AnchorOf(Resolved)
             base == IF Resolved.anchor = anchor THEN [Resolved EXCEPT !.dir = "down"] ELSE emptyLadder(anchor)
             next == pushStep(base, "down")
             plan == replayLadder(kids, zoom, anchor, next.stack, TRUE)
             last == replayLadder(kids, Top, anchor, base.stack, TRUE)
  <2>1. /\ \/ Apply(selectionOf(kids, plan), next)
           \/ Apply(selectionOf(kids, Extent(zoom, zoom, zoom)), Resolved)
           \/ Apply(selectionOf(kids, last), Resolved)
        /\ trail' = NoTrail
    BY <1>4 DEF SelectAll
  <2> HIDE DEF anchor, base, next, plan, last
  <2> QED
    BY <1>3, <2>1
<1>5. ASSUME NEW edge, Collapse(edge) PROVE SweepInv'
  <2> DEFINE n == IF edge = "anchor" \/ outline.kind # "structural" THEN sel.a
                  ELSE IF edge = "start" THEN Head(outline.heads) ELSE Last(outline.heads)
             unl == FALSE
  <2>1. Observe(Collapsing, kids, Caret(n), INITIAL, unl, pending) /\ trail' = NoTrail
    BY <1>5 DEF Collapse
  <2> HIDE DEF n, unl
  <2> QED
    BY <1>1, <2>1
<1>6. CASE PlainKey
    BY <1>5, <1>6 DEF PlainKey
<1>7. CASE Escape
    BY <1>5, <1>7 DEF Escape
<1>8. CASE ShiftHorizontal
  <2>1. PICK c \in BOOLEAN :
          Observe(Selecting, kids, [sel EXCEPT !.collapsed = c, !.exact = FALSE], ladder, unlock, pending)
    BY <1>8 DEF ShiftHorizontal
  <2>2. trail' = NoTrail
    BY <1>8 DEF ShiftHorizontal
  <2> DEFINE s == [sel EXCEPT !.collapsed = c, !.exact = FALSE]
  <2>3. Observe(Selecting, kids, s, ladder, unlock, pending)
    BY <2>1
  <2> HIDE DEF s
  <2> QED
    BY <1>1, <2>2, <2>3
<1>9. CASE Point
  <2>1. \E s : Observe(Selecting, kids, s, ladder, unlock, pending)
    BY <1>9 DEF Point
  <2>2. trail' = NoTrail
    BY <1>9 DEF Point
  <2> QED
    BY <1>1, <2>1, <2>2
<1>10. CASE \E z \in Owners : ZoomTo(z)
  <2>1. PICK z \in Owners : ZoomTo(z)
    BY <1>10
  <2>2. trail' = NoTrail
    BY <2>1 DEF ZoomTo
  <2>3. CASE \E s : Observe(Selecting, kids, s, ladder, unlock, pending)
    BY <1>1, <2>2, <2>3
  <2>4. CASE sel' = sel /\ outline' = outline
    <3>1. trail' \in Trails /\ trail'.views = <<>> /\ trail'.undone = None
        BY <2>2, ForgottenTrail
    <3>2. outline'.kind = "caret" => sel' # None /\ sel'.collapsed /\ outline' = caretAt(sel'.a)
        BY <2>4 DEF SweepInv
    <3> QED
        BY <3>1, <3>2, SweepIdle
  <2> QED
    BY <2>1, <2>3, <2>4 DEF ZoomTo
<1>11. CASE EditText
    BY <1>2, <1>11 DEF EditText
<1>12. CASE InsertNote
  <2>1. \E K : Edited(K, sel)
    BY <1>12 DEF InsertNote
  <2> QED
    BY <1>2, <2>1
<1>13. ASSUME NEW K, NEW gone, NEW near, EditedAway(K, gone, near) PROVE SweepInv'
  <2>1. \E s : Edited(K, s)
    BY <1>13 DEF EditedAway
  <2> QED
    BY <1>2, <2>1
<1>15. CASE DeleteNote
  <2>1. \E K, gone, near : EditedAway(K, gone, near)
    BY <1>15 DEF DeleteNote
  <2> QED
    BY <1>13, <2>1
<1>16. CASE MoveNote
  <2>1. \E K, gone, near : EditedAway(K, gone, near)
    BY <1>16 DEF MoveNote
  <2> QED
    BY <1>13, <2>1
<1>14. CASE MoveSelected
  <2>1. \E K : Edited(K, sel)
    BY <1>14 DEF MoveSelected
  <2> QED
    BY <1>2, <2>1
<1> QED
    BY <1>4, <1>6, <1>7, <1>8, <1>9, <1>10, <1>11, <1>12, <1>14, <1>15, <1>16

\* At the start nothing has been swept.
LEMMA InitSweep == Init => SweepInv
<1> SUFFICES ASSUME Init PROVE SweepInv
    OBVIOUS
<1>1. PICK n \in Notes : sel = Caret(n) /\ outline = caretAt(n)
    BY DEF Init
<1>2. trail = NoTrail
    BY DEF Init
<1>3. NoTrail \in Trails /\ NoTrail.views = <<>> /\ NoTrail.undone = None
    BY ForgottenTrail
<1>4. sel # None
  <2>1. Caret(n) \in Selections(Notes)
    BY DEF Caret, Selections
  <2> QED
    BY <1>1, <2>1, NoneAssumption
<1>5. sel.collapsed /\ sel.a = n
    BY <1>1 DEF Caret
<1> QED
    BY <1>1, <1>2, <1>3, <1>4, <1>5 DEF SweepInv

\* Every step keeps what a sweep has seen.
LEMMA NextSweep == TreeInv /\ SweepInv /\ [Next]_vars => SweepInv'
<1> SUFFICES ASSUME TreeInv, SweepInv, [Next]_vars PROVE SweepInv'
    OBVIOUS
<1>1. CASE \E d \in Directions : ShiftArrow(d)
    BY <1>1, ArrowSweep
<1>2. CASE Normalize
    BY <1>2, NormalizeSweep
<1>3. CASE Microtask
    BY <1>3, MicrotaskSweep
<1>4. CASE \/ SelectAll \/ PlainKey \/ Escape \/ ShiftHorizontal \/ Point
           \/ \E z \in Owners : ZoomTo(z)
           \/ EditText \/ InsertNote \/ DeleteNote \/ MoveSelected \/ MoveNote
    BY <1>4, OtherSweep
<1>5. CASE UNCHANGED vars
    BY <1>5 DEF vars, SweepInv, Settled
<1> QED
    BY <1>1, <1>2, <1>3, <1>4, <1>5 DEF Next

\* Pressing the opposite arrow exactly inverts the previous step, for documents of
\* any size, from whatever the sweep has reached back to the caret.
THEOREM ArrowsInvert == Spec => []ArrowsUndoArrows
<1>1. Init => TreeInv /\ SweepInv
    BY InitTree, InitSweep
<1>2. TreeInv /\ SweepInv /\ [Next]_vars => (TreeInv /\ SweepInv)'
    BY NextTree, NextSweep
<1>3. SweepInv => ArrowsUndoArrows
    BY DEF SweepInv, ArrowsUndoArrows
<1> QED
    BY <1>1, <1>2, <1>3, PTL DEF Spec
-----------------------------------------------------------------------------
(* Sweeps under the edits of others: what is shown is the ladder, replayed *)

ReplayOf(T, z, lad) == replayLadder(T, z, lad.anchor, lad.stack, FALSE)

\* A range of siblings, at either end.
Stretch(T, r) ==
    \E o \in Owners : \E i, j \in DOMAIN T[o] :
        i <= j /\ r.first = T[o][i] /\ r.last = T[o][j] /\ r.context \in {T[o][i], T[o][j]}

\* A step from a range of siblings gives one.
LEMMA StepStretch ==
    ASSUME NEW T, IsTree(T), NEW z, NEW dir \in Directions,
           NEW r, Stretch(T, r), Step(T, z, r, dir, FALSE) # None
    PROVE  Stretch(T, Step(T, z, r, dir, FALSE))
<1> DEFINE q == Step(T, z, r, dir, FALSE)
<1>0. T \in Lists /\ OneOwner(T)
    BY DEF IsTree
<1>1. PICK o \in Owners : \E i, j \in DOMAIN T[o] :
          i <= j /\ r.first = T[o][i] /\ r.last = T[o][j] /\ r.context \in {T[o][i], T[o][j]}
    BY DEF Stretch
<1>2. PICK i \in DOMAIN T[o], j \in DOMAIN T[o] :
          i <= j /\ r.first = T[o][i] /\ r.last = T[o][j] /\ r.context \in {T[o][i], T[o][j]}
    BY <1>1
<1>3. /\ T[o] \in Seq(Notes) /\ DOMAIN T[o] = 1..Len(T[o]) /\ Len(T[o]) \in Nat
      /\ i \in Nat /\ j \in Nat
    BY <1>0, BelowNotes
<1>4. PICK c \in {i, j} : r.context = T[o][c]
    BY <1>2
<1>5. c \in DOMAIN T[o] /\ i <= c /\ c <= j /\ c \in Nat
    BY <1>2, <1>3
<1>6. q = IF dir = "down" /\ c < Len(T[o]) /\ within(T, z, T[o][c + 1])
          THEN Extent(r.first, T[o][c + 1], T[o][c + 1])
          ELSE IF dir = "up" /\ c > 1 /\ within(T, z, T[o][c - 1])
          THEN Extent(T[o][c - 1], r.last, T[o][c - 1])
          ELSE IF o # Top /\ within(T, z, o) THEN Extent(o, o, o) ELSE None
    BY <1>4, <1>5, StepIs
<1> HIDE DEF q
<1>7. CASE q = Extent(r.first, T[o][c + 1], T[o][c + 1]) /\ c < Len(T[o])
  <2> DEFINE n == c + 1
  <2>1. n \in DOMAIN T[o] /\ i <= n
    BY <1>3, <1>5, <1>7
  <2>2. q.first = T[o][i] /\ q.last = T[o][n] /\ q.context = T[o][n]
    BY <1>2, <1>7 DEF Extent
  <2> HIDE DEF n
  <2> QED
    BY <2>1, <2>2 DEF Stretch, q
<1>8. CASE q = Extent(T[o][c - 1], r.last, T[o][c - 1]) /\ c > 1
  <2> DEFINE n == c - 1
  <2>1. n \in DOMAIN T[o] /\ n <= j
    BY <1>3, <1>5, <1>8
  <2>2. q.first = T[o][n] /\ q.last = T[o][j] /\ q.context = T[o][n]
    BY <1>2, <1>8 DEF Extent
  <2> HIDE DEF n
  <2> QED
    BY <2>1, <2>2 DEF Stretch, q
<1>9. CASE q = Extent(o, o, o) /\ o # Top
  <2>1. T[o][i] \in IsBelow(T, o)
    BY <1>0, BelowNotes
  <2>2. o \in Present(T)
    BY <1>9, <2>1, OwnerPresent
  <2>3. PICK p \in Owners : o \in IsBelow(T, p)
    BY <1>0, <2>2, PresentParent
  <2>4. PICK m \in DOMAIN T[p] : o = T[p][m]
    BY <1>0, <2>3, BelowNotes
  <2>5. m <= m
    BY <1>0, BelowNotes
  <2>6. q.first = T[p][m] /\ q.last = T[p][m] /\ q.context = T[p][m]
    BY <1>9, <2>4 DEF Extent
  <2> QED
    BY <2>5, <2>6 DEF Stretch, q
<1>10. q # None
    BY DEF q
<1> QED
    BY <1>6, <1>7, <1>8, <1>9, <1>10

\* A ladder of whole notes replays to a range of siblings of the view.
LEMMA ReplayRange ==
    ASSUME NEW T, IsTree(T), NEW z \in Present(T) \cup {Top}, NEW anchor \in Shown(T, Top),
           NEW stack \in Seq(Rungs), stack # <<>>, Last(stack) # "inline",
           replayLadder(T, z, anchor, stack, FALSE) # None
    PROVE  /\ replayLadder(T, z, anchor, stack, FALSE) \in Extents(Shown(T, Top))
           /\ Stretch(T, replayLadder(T, z, anchor, stack, FALSE))
<1> DEFINE e == FALSE  plan == replayLadder(T, z, anchor, stack, e)
<1>0. Len(stack) \in Nat /\ e \in BOOLEAN /\ anchor \in Present(T) /\ T \in Lists /\ OneOwner(T)
    BY DEF Shown, IsTree
<1>e. \A r, dir : Step(T, z, r, dir, FALSE) = Step(T, z, r, dir, e)
    OBVIOUS
<1> HIDE DEF e
<1>1. PICK F : /\ ReplayIn(F, T, z, anchor, stack, e)
               /\ replayLadder(T, z, anchor, stack, e) =
                      IF stack = <<>> THEN None
                      ELSE IF Last(stack) = "inline" THEN [inline |-> anchor] ELSE F[Len(stack)]
    BY <1>0, ReplaySteps
<1> DEFINE Fine(r) == r = None \/ (r \in Extents(Shown(T, Top)) /\ Stretch(T, r))
           G == {i \in 0..Len(stack) : Fine(F[i])}
<1>2. 0 \in G
  <2>1. F[0] = Extent(anchor, anchor, anchor) /\ 0 \in 0..Len(stack)
    BY <1>0, <1>1 DEF ReplayIn
  <2>2. PICK o \in Owners : anchor \in IsBelow(T, o)
    BY <1>0, PresentParent
  <2>3. PICK m \in DOMAIN T[o] : anchor = T[o][m]
    BY <1>0, <2>2, BelowNotes
  <2>4. m <= m
    BY <1>0, BelowNotes
  <2>5. F[0].first = T[o][m] /\ F[0].last = T[o][m] /\ F[0].context = T[o][m]
    BY <2>1, <2>3 DEF Extent
  <2>6. Stretch(T, F[0])
    BY <2>4, <2>5 DEF Stretch
  <2>7. F[0] \in Extents(Shown(T, Top))
    BY <2>1 DEF Extent, Extents
  <2> QED
    BY <2>1, <2>6, <2>7
<1>3. ASSUME NEW i \in 1..Len(stack), i - 1 \in G PROVE i \in G
  <2>1. Fine(F[i - 1]) /\ i \in 0..Len(stack)
    BY <1>0, <1>3
  <2>2. F[i] = IF F[i - 1] = None \/ stack[i] \notin Directions THEN F[i - 1]
               ELSE Step(T, z, F[i - 1], stack[i], e)
    BY <1>0, <1>1 DEF ReplayIn
  <2>3. CASE F[i - 1] = None \/ stack[i] \notin Directions
    BY <2>1, <2>2, <2>3
  <2>4. CASE F[i - 1] # None /\ stack[i] \in Directions
    <3> DEFINE r == F[i - 1]  dir == stack[i]
    <3>1. r \in Extents(Shown(T, Top)) /\ Stretch(T, r) /\ dir \in Directions
        BY <2>1, <2>4
    <3>2. F[i] = Step(T, z, r, dir, e)
        BY <2>2, <2>4
    <3> HIDE DEF r, dir
    <3>3. Step(T, z, r, dir, e) \in Extents(Shown(T, Top)) \cup {None}
        BY <1>0, <3>1, StepShown
    <3>4. Step(T, z, r, dir, FALSE) # None => Stretch(T, Step(T, z, r, dir, FALSE))
        BY <3>1, StepStretch
    <3>5. Step(T, z, r, dir, e) # None => Stretch(T, Step(T, z, r, dir, e))
        BY <1>e, <3>4
    <3>6. Fine(F[i])
        BY <3>2, <3>3, <3>5
    <3> QED
        BY <2>1, <3>6
  <2> QED
    BY <2>3, <2>4
<1>4. Fine(F[Len(stack)])
  <2> HIDE DEF G
  <2>1. 0..Len(stack) \subseteq G
    BY <1>0, <1>2, <1>3, UpTo
  <2>2. Len(stack) \in 0..Len(stack)
    BY <1>0
  <2> QED
    BY <2>1, <2>2 DEF G
<1>5. plan = F[Len(stack)]
    BY <1>1
<1>6. plan # None /\ plan = replayLadder(T, z, anchor, stack, FALSE)
    BY DEF e
<1> HIDE DEF plan
<1>7. plan \in Extents(Shown(T, Top)) /\ Stretch(T, plan)
    BY <1>4, <1>5, <1>6
<1> QED
    BY <1>6, <1>7

\* A ladder of whole notes ends in one of their rungs.
LEMMA StructuralLast ==
    ASSUME NEW lad \in Ladders
    PROVE  ladderHasStructuralRung(lad) <=> lad.stack # <<>> /\ Last(lad.stack) # "inline"
<1> DEFINE s == lad.stack
<1>1. StackOk(s) /\ s \in Seq(Rungs) /\ DOMAIN s = 1..Len(s) /\ Len(s) \in Nat
    BY DEF Ladders
<1> HIDE DEF s
<1>2. ASSUME s # <<>>, Last(s) # "inline" PROVE \E i \in DOMAIN s : s[i] # "inline"
  <2>1. Len(s) \in DOMAIN s /\ s[Len(s)] # "inline"
    BY <1>1, <1>2 DEF Last
  <2> QED
    BY <2>1
<1>3. ASSUME NEW i \in DOMAIN s, s[i] # "inline" PROVE s # <<>> /\ Last(s) # "inline"
  <2>1. s # <<>> /\ i \in 1..Len(s) /\ Len(s) \in DOMAIN s
    BY <1>1
  <2>2. CASE Len(s) = 1
    <3>1. i = 1
        BY <2>1, <2>2
    <3> QED
        BY <1>3, <2>1, <2>2, <3>1 DEF Last
  <2>3. CASE Len(s) # 1
    <3>1. Len(s) > 1
        BY <1>1, <2>1, <2>3
    <3> QED
        BY <1>1, <2>1, <3>1 DEF Last, StackOk
  <2> QED
    BY <2>2, <2>3
<1> QED
    BY <1>2, <1>3 DEF ladderHasStructuralRung, s

\* What a ladder of the view replays to, and what it shows.
LEMMA LadderShows ==
    ASSUME NEW T, IsTree(T), NEW z \in Present(T) \cup {Top}, NEW lad \in Ladders,
           lad.anchor \in Shown(T, Top), ReplayOf(T, z, lad) # None
    PROVE  /\ ladderHasStructuralRung(lad) =>
                  /\ isRange(ReplayOf(T, z, lad)) /\ ReplayOf(T, z, lad) \in Extents(Shown(T, Top))
                  /\ contiguousHeads(T, selectionOf(T, ReplayOf(T, z, lad))) = headsOf(T, ReplayOf(T, z, lad))
           /\ ~ladderHasStructuralRung(lad) => ReplayOf(T, z, lad) = [inline |-> lad.anchor]
           /\ selectionOf(T, ReplayOf(T, z, lad)) \in Selections(Shown(T, Top))
           /\ ~selectionOf(T, ReplayOf(T, z, lad)).collapsed
<1> DEFINE plan == ReplayOf(T, z, lad)  stack == lad.stack  anchor == lad.anchor
<1>0. stack \in Seq(Rungs) /\ Shown(T, Top) \in SUBSET Notes /\ T \in Lists
    BY ShownIs DEF Ladders, IsTree
<1>1. plan = replayLadder(T, z, anchor, stack, FALSE)
    BY DEF ReplayOf
<1>2. ladderHasStructuralRung(lad) <=> stack # <<>> /\ Last(stack) # "inline"
    BY StructuralLast
<1> HIDE DEF plan, stack, anchor
<1>3. anchor \in Shown(T, Top) /\ plan # None
    BY DEF anchor, plan
<1>4. CASE stack # <<>> /\ Last(stack) # "inline"
  <2>1. replayLadder(T, z, anchor, stack, FALSE) \in Extents(Shown(T, Top))
        /\ Stretch(T, replayLadder(T, z, anchor, stack, FALSE))
    BY <1>0, <1>1, <1>3, <1>4, ReplayRange
  <2>2. plan \in Extents(Shown(T, Top)) /\ Stretch(T, plan)
    BY <1>1, <2>1
  <2>3. isRange(plan)
    BY <1>0, <2>2, RangeIs
  <2>4. contiguousHeads(T, selectionOf(T, plan)) = HeadsBetween(T, plan.first, SubtreeTail(T, plan.last))
    BY <2>3 DEF contiguousHeads, selectionOf, Between
  <2>5. PICK o \in Owners : \E i, j \in DOMAIN T[o] :
            i <= j /\ plan.first = T[o][i] /\ plan.last = T[o][j] /\ plan.context \in {T[o][i], T[o][j]}
    BY <2>2 DEF Stretch
  <2>6. PICK i \in DOMAIN T[o], j \in DOMAIN T[o] : i <= j /\ plan.first = T[o][i] /\ plan.last = T[o][j]
    BY <2>5
  <2>7. T[o][j] \in Owners
    BY <1>0, BelowNotes
  <2>8. SubtreeTail(T, T[o][j]) \in Subtree(T, T[o][j]) /\ T[o][j] \in Subtree(T, T[o][j])
    <3>1. Descends(T)
        BY DEF IsTree
    <3> QED
        BY <1>0, <2>7, <3>1, TailBelow, SubtreeHas
  <2>9. /\ HeadsBetween(T, T[o][i], SubtreeTail(T, T[o][j])) = SubSeq(T[o], i, j)
        /\ HeadsBetween(T, T[o][i], T[o][j]) = SubSeq(T[o], i, j)
    BY <2>6, <2>8, HeadsSiblings
  <2>10. contiguousHeads(T, selectionOf(T, plan)) = headsOf(T, plan)
    BY <2>4, <2>6, <2>9 DEF headsOf
  <2>11. selectionOf(T, plan) \in Selections(Shown(T, Top)) /\ ~selectionOf(T, plan).collapsed
    BY <1>3, <2>2, SelectionOfShown
  <2> QED
    BY <1>2, <1>4, <2>2, <2>3, <2>10, <2>11 DEF plan
<1>5. CASE ~(stack # <<>> /\ Last(stack) # "inline")
  <2>1. stack # <<>>
    BY <1>1, <1>3 DEF replayLadder
  <2>2. plan = [inline |-> anchor]
    BY <1>1, <1>5, <2>1 DEF replayLadder
  <2>3. selectionOf(T, plan) \in Selections(Shown(T, Top)) /\ ~selectionOf(T, plan).collapsed
    BY <1>3, <2>2, SelectionOfShown
  <2> QED
    BY <1>2, <1>5, <2>2, <2>3 DEF plan, anchor
<1> QED
    BY <1>4, <1>5

\* The ladder's own update, and the browser's version of it, show its replay.
LEMMA ShowsLadder ==
    ASSUME NEW T, IsTree(T), NEW z \in Present(T) \cup {Top}, NEW lad \in Ladders,
           lad.anchor \in Shown(T, Top), ReplayOf(T, z, lad) # None,
           NEW u, NEW unl \in BOOLEAN, u = Own \/ (u = Selecting /\ unl), NEW left,
           NEW s, s = selectionOf(T, ReplayOf(T, z, lad)),
           Observe(u, T, s, lad, unl, left)
    PROVE  /\ sel' = s /\ s # None /\ ~s.collapsed /\ ladder' = lad /\ pending' = left
           /\ ladderHasStructuralRung(lad) =>
                  /\ isRange(ReplayOf(T, z, lad))
                  /\ outline' = structural(headsOf(T, ReplayOf(T, z, lad)))
                  /\ contiguousHeads(T, s) = headsOf(T, ReplayOf(T, z, lad))
           /\ ~ladderHasStructuralRung(lad) => s.a = s.f
<1> DEFINE plan == ReplayOf(T, z, lad)
<1>0. /\ Own.progressive = TRUE /\ Own.tree = FALSE /\ Own.snapping = TRUE
      /\ Selecting.progressive = FALSE /\ Selecting.tree = FALSE
    BY DEF Own, Selecting, Tagged
<1>1. u.tree = FALSE /\ Shown(T, Top) \in SUBSET Notes
    BY <1>0, ShownIs
<1>2. /\ ladderHasStructuralRung(lad) =>
             isRange(plan) /\ contiguousHeads(T, selectionOf(T, plan)) = headsOf(T, plan)
      /\ ~ladderHasStructuralRung(lad) => plan = [inline |-> lad.anchor]
      /\ selectionOf(T, plan) \in Selections(Shown(T, Top))
      /\ ~selectionOf(T, plan).collapsed
    BY LadderShows
<1>3. s = selectionOf(T, plan)
    OBVIOUS
<1> HIDE DEF plan
<1>4. s \in Selections(Shown(T, Top)) /\ ~s.collapsed
    BY <1>2, <1>3
<1>5. s # None
  <2>1. s \in Selections(Notes)
    BY <1>1, <1>4 DEF Selections
  <2> QED
    BY <2>1, NoneAssumption
<1>6. sel' = s /\ ObserveKept(u, T, s, lad, unl, left)
    BY <1>0, <1>5 DEF Observe
<1> DEFINE inferred == IF ~ladderHasStructuralRung(lad) /\ Len(contiguousHeads(T, s)) > 1
                       THEN inferPointerProgression(T, s, contiguousHeads(T, s)) ELSE lad
<1>7. DeriveInferring(u, T, s, ladderHasStructuralRung(lad), inferred, unl, left)
    BY <1>1, <1>4, <1>5, <1>6 DEF ObserveKept
<1>8. ASSUME ~ladderHasStructuralRung(lad)
      PROVE  s.a = s.f /\ Len(contiguousHeads(T, s)) = 1
  <2>1. plan = [inline |-> lad.anchor] /\ lad.anchor \in Notes /\ lad.anchor \in Present(T)
    BY <1>1, <1>2, <1>8 DEF Shown
  <2>2. ~isRange(plan) /\ plan.inline = lad.anchor
    BY <2>1, RangeIs
  <2>3. s.a = lad.anchor /\ s.f = lad.anchor
    BY <1>3, <2>2 DEF selectionOf, Between
  <2>4. contiguousHeads(T, s) = HeadsBetween(T, lad.anchor, lad.anchor)
    BY <1>4, <2>3 DEF contiguousHeads
  <2>5. contiguousHeads(T, s) = <<lad.anchor>>
    BY <2>1, <2>4, HeadsOne
  <2> QED
    BY <2>3, <2>5
<1>9. inferred = lad
  <2>1. CASE ladderHasStructuralRung(lad)
    BY <2>1
  <2>2. CASE ~ladderHasStructuralRung(lad)
    <3>1. Len(contiguousHeads(T, s)) = 1 /\ ~(1 > 1)
        BY <1>8, <2>2
    <3>2. ~(Len(contiguousHeads(T, s)) > 1)
        BY <3>1
    <3> QED
        BY <3>2
  <2> QED
    BY <2>1, <2>2
<1> HIDE DEF inferred
<1>10. /\ ladder' = lad /\ pending' = left
       /\ ladderHasStructuralRung(lad) => outline' = structural(contiguousHeads(T, s))
    BY <1>0, <1>7, <1>9 DEF DeriveInferring, Derive
<1> QED
    BY <1>2, <1>3, <1>4, <1>5, <1>6, <1>8, <1>10 DEF plan

\* What is shown and what is waiting to be set are the ladder's replay; a ladder of
\* text has one note selected.
Follows(T, z, s, lad, unl, out, pend) ==
    LET plan == ReplayOf(T, z, lad)
        rung == ladderHasStructuralRung(lad) IN
    /\ pend.snap = None
    /\ ~rung => s = None \/ s.a = s.f
    /\ rung => lad.anchor \in Notes
    /\ pend.reshape # None =>
           /\ rung /\ ~unl /\ lad.anchor \in Shown(T, Top)
           /\ isRange(plan) /\ pend.reshape = selectionOf(T, plan)
    /\ rung /\ s # None /\ s.a = lad.anchor =>
           /\ isRange(plan) /\ out = structural(headsOf(T, plan))
           /\ pend = NothingWaits => ~s.collapsed /\ contiguousHeads(T, s) = headsOf(T, plan)

FollowInv == trail.sweep = "down" => Follows(kids, zoom, sel, ladder, unlock, outline, pending)

\* A press that reaches a plan, or returns to a caret.
LEMMA ApplyFollows ==
    ASSUME TreeInv, Settled, kids' = kids, zoom' = zoom,
           NEW lad \in Ladders, lad.anchor \in Shown(kids, Top), ReplayOf(kids, zoom, lad) # None,
           Apply(selectionOf(kids, ReplayOf(kids, zoom, lad)), lad)
    PROVE  Follows(kids', zoom', sel', ladder', unlock', outline', pending')
<1> DEFINE s == selectionOf(kids, ReplayOf(kids, zoom, lad))  unl == TRUE
<1>1. Observe(Own, kids, s, lad, unl, pending) /\ s = selectionOf(kids, ReplayOf(kids, zoom, lad))
    BY DEF Apply
<1>2. IsTree(kids) /\ zoom \in Present(kids) \cup {Top} /\ unl \in BOOLEAN
    BY DEF TreeInv
<1>t. Own = Own \/ (Own = Selecting /\ unl)
    OBVIOUS
<1> HIDE DEF s, unl
<1>3. /\ sel' = s /\ s # None /\ ~s.collapsed /\ ladder' = lad /\ pending' = pending
      /\ ladderHasStructuralRung(lad) =>
             /\ isRange(ReplayOf(kids, zoom, lad))
             /\ outline' = structural(headsOf(kids, ReplayOf(kids, zoom, lad)))
             /\ contiguousHeads(kids, s) = headsOf(kids, ReplayOf(kids, zoom, lad))
      /\ ~ladderHasStructuralRung(lad) => s.a = s.f
    BY <1>1, <1>2, <1>t, ShowsLadder
<1>4. pending = NothingWaits /\ pending.snap = None /\ pending.reshape = None
    BY DEF Settled, NothingWaits
<1>5. lad.anchor \in Notes
    BY <1>2, ShownIs
<1> QED
    BY <1>3, <1>4, <1>5 DEF Follows

\* Shift+Up and Shift+Down.
LEMMA ArrowFollows ==
    ASSUME TreeInv, SweepInv, FollowInv, NEW dir \in Directions, ShiftArrow(dir)
    PROVE  FollowInv'
<1> SUFFICES ASSUME trail'.sweep = "down"
             PROVE  Follows(kids', zoom', sel', ladder', unlock', outline', pending')
    BY DEF FollowInv
<1> DEFINE lad == Resolved  anchor == AnchorOf(lad)
           continues == lad.anchor = anchor /\ lad.stack # <<>>
           shrinks == continues /\ lad.dir = Opposite(dir)
           base == IF continues THEN lad ELSE emptyLadder(anchor)
           next == IF shrinks THEN popStep(lad) ELSE pushStep(base, dir)
           plan == replayLadder(kids, zoom, anchor, next.stack, FALSE)
<1>1. /\ Settled /\ sel # None /\ kids' = kids /\ zoom' = zoom
      /\ \/ plan # None /\ Apply(selectionOf(kids, plan), next)
         \/ plan = None /\ shrinks /\ Apply(Caret(sel.a), emptyLadder(anchor))
         \/ plan = None /\ ~shrinks /\ Refused(lad)
    BY DEF ShiftArrow
<1>2. /\ sel.a \in Shown(kids, Top) /\ lad \in Ladders /\ sel.a \in Notes
      /\ anchor \in Shown(kids, Top) /\ anchor \in Notes /\ pending = NothingWaits
    BY <1>1, KeyStart, ShownIs
<1> HIDE DEF lad, anchor
<1>4. emptyLadder(anchor) \in Ladders /\ emptyLadder(anchor).anchor = anchor /\ emptyLadder(anchor).stack = <<>>
    BY <1>2, EmptyOk
<1>5. base \in Ladders /\ base.anchor = anchor
    BY <1>2, <1>4
<1> HIDE DEF base
<1>6. next \in Ladders /\ next.anchor = anchor
  <2>1. CASE shrinks
    BY <1>2, <2>1, PopOk
  <2>2. CASE ~shrinks
    BY <1>5, <2>2, PushOk
  <2> QED
    BY <2>1, <2>2
<1> HIDE DEF next
<1>7. plan = ReplayOf(kids, zoom, next)
    BY <1>6 DEF ReplayOf
<1> HIDE DEF plan
<1>8. CASE plan # None /\ Apply(selectionOf(kids, plan), next)
    BY <1>1, <1>2, <1>6, <1>7, <1>8, ApplyFollows
<1>9. CASE Apply(Caret(sel.a), emptyLadder(anchor))
  <2> DEFINE e == emptyLadder(anchor)  unl == TRUE  c == Caret(sel.a)
  <2>1. Observe(Own, kids, Caret(sel.a), e, unl, pending)
    BY <1>9 DEF Apply
  <2>2. ~ladderHasStructuralRung(e)
    BY <1>4 DEF ladderHasStructuralRung
  <2>c. c.collapsed /\ c.a = c.f /\ c = Caret(sel.a)
    BY DEF Caret
  <2> HIDE DEF e, unl, c
  <2>3. sel' = Caret(sel.a) /\ pending' = pending /\ c # None
    BY <1>2, <2>1, <2>c, ShowsCaret
  <2>4. ladder' = e
    <3>1. Own.progressive = TRUE
        BY DEF Own, Tagged
    <3>2. Observe(Own, kids, c, e, unl, pending)
        BY <2>1, <2>c
    <3> QED
        BY <2>3, <2>c, <3>1, <3>2 DEF Observe, ObserveKept
  <2>5. pending'.snap = None /\ pending'.reshape = None
    BY <1>2, <2>3 DEF NothingWaits
  <2> QED
    BY <2>2, <2>3, <2>4, <2>5, <2>c DEF Follows
<1>10. CASE Refused(lad)
  <2>1. ladder' = lad /\ unlock' = TRUE /\ sel' = sel /\ outline' = outline /\ pending' = pending
    BY <1>10 DEF Refused
  <2>2. trail.sweep = "down"
    <3>1. trail' = Pressed(dir) /\ trail \in Trails
        BY DEF ShiftArrow, SweepInv
    <3>2. CASE outline.kind = "caret"
      <4>1. trail' = NoTrail
        BY <2>1, <3>1, <3>2, PressedIs
      <4>2. trail'.sweep = None
        BY <4>1 DEF NoTrail
      <4> QED
        BY <4>2, NoneAssumption DEF Directions
    <3>3. CASE outline.kind # "caret" /\ trail.views # <<>>
      <4>1. trail.sweep \in Directions
        BY <3>3, SweepStart
      <4>2. CASE trail.sweep = dir
        <5>1. trail' = [trail EXCEPT !.undone = None]
            BY <2>1, <3>1, <3>3, <4>2, PressedIs
        <5> QED
            BY <3>1, <5>1 DEF Trails
      <4>3. CASE trail.sweep = Opposite(dir)
        <5>1. trail' = [views |-> Front(trail.views),
                        sweep |-> IF Len(trail.views) = 1 THEN None ELSE trail.sweep,
                        undone |-> Last(trail.views)]
            BY <3>1, <3>3, <4>3, PressedIs
        <5>2. trail'.sweep = None \/ trail'.sweep = trail.sweep
            BY <5>1
        <5> QED
            BY <5>2, NoneAssumption DEF Directions
      <4> QED
        BY <4>1, <4>2, <4>3 DEF Directions, Opposite
    <3>4. CASE outline.kind # "caret" /\ trail.views = <<>>
      <4>1. trail' = [trail EXCEPT !.undone = None]
        BY <3>1, <3>4, PressedIs
      <4> QED
        BY <3>1, <4>1 DEF Trails
    <3> QED
        BY <3>2, <3>3, <3>4
  <2>3. Follows(kids, zoom, sel, ladder, unlock, outline, pending)
    BY <2>2 DEF FollowInv
  <2>4. pending.reshape = None /\ pending.snap = None
    BY <1>2 DEF NothingWaits
  <2>5. CASE lad = ladder
    BY <1>1, <2>1, <2>3, <2>4, <2>5 DEF Follows
  <2>6. CASE lad # ladder
    <3>1. lad = INITIAL /\ sel.collapsed
        BY <2>6 DEF lad, Resolved
    <3>2. sel.a = sel.f
        BY <1>1, <3>1 DEF TreeInv, SelectionOk
    <3>3. ~ladderHasStructuralRung(lad)
        BY <3>1 DEF INITIAL, emptyLadder, ladderHasStructuralRung
    <3> QED
        BY <2>1, <2>4, <3>2, <3>3 DEF Follows
  <2> QED
    BY <2>5, <2>6
<1> QED
    BY <1>1, <1>8, <1>9, <1>10

\* The browser's version of the range shows the same ladder.
LEMMA NormalizeFollows ==
    ASSUME TreeInv, FollowInv, Normalize
    PROVE  FollowInv'
<1>1. /\ kids' = kids /\ zoom' = zoom /\ trail' = trail /\ Settled /\ sel # None /\ unlock
      /\ Observe(Selecting, kids, sel, ladder, unlock, pending)
    BY DEF Normalize
<1> SUFFICES ASSUME trail.sweep = "down"
             PROVE  Follows(kids, zoom, sel', ladder', unlock', outline', pending')
    BY <1>1 DEF FollowInv
<1> DEFINE rung == ladderHasStructuralRung(ladder)  plan == ReplayOf(kids, zoom, ladder)
<1>2. pending = NothingWaits /\ pending.snap = None /\ pending.reshape = None
    BY <1>1 DEF Settled, NothingWaits
<1>3. /\ ~rung => sel.a = sel.f
      /\ rung => ladder.anchor \in Notes
      /\ rung /\ sel.a = ladder.anchor =>
             isRange(plan) /\ ~sel.collapsed /\ contiguousHeads(kids, sel) = headsOf(kids, plan)
    BY <1>1, <1>2 DEF FollowInv, Follows
<1>4. Selecting.progressive = FALSE /\ Selecting.tree = FALSE
    BY DEF Selecting, Tagged
<1>5. sel' = sel /\ ObserveKept(Selecting, kids, sel, ladder, unlock, pending)
    BY <1>1 DEF Observe
<1> HIDE DEF rung, plan
<1>6. CASE sel.collapsed
  <2>1. ladder' = ladder /\ pending' = pending
    BY <1>1, <1>4, <1>5, <1>6 DEF ObserveKept
  <2> QED
    BY <1>2, <1>3, <1>5, <1>6, <2>1 DEF Follows, rung, plan
<1>7. CASE ~sel.collapsed
  <2> DEFINE inferred == IF ~ladderHasStructuralRung(ladder) /\ Len(contiguousHeads(kids, sel)) > 1
                         THEN inferPointerProgression(kids, sel, contiguousHeads(kids, sel)) ELSE ladder
  <2>1. DeriveInferring(Selecting, kids, sel, ladderHasStructuralRung(ladder), inferred, unlock, pending)
    BY <1>1, <1>4, <1>5, <1>7 DEF ObserveKept
  <2>2. inferred = ladder
    <3>1. CASE rung
        BY <3>1 DEF rung
    <3>2. CASE ~rung
      <4>1. sel.a \in Present(kids) /\ IsTree(kids)
        BY <1>1 DEF TreeInv, SelectionOk, Selections, Shown
      <4>2. contiguousHeads(kids, sel) = <<sel.a>>
        BY <1>3, <1>7, <3>2, <4>1, HeadsOne DEF contiguousHeads
      <4>3. ~(Len(contiguousHeads(kids, sel)) > 1)
        BY <4>2
      <4> QED
        BY <4>3
    <3> QED
        BY <3>1, <3>2
  <2> HIDE DEF inferred
  <2>3. /\ ladder' = ladder /\ pending' = pending
        /\ rung => outline' = structural(contiguousHeads(kids, sel))
    BY <1>1, <2>1, <2>2 DEF DeriveInferring, Derive, rung
  <2> QED
    BY <1>2, <1>3, <1>5, <1>7, <2>3 DEF Follows, rung, plan
<1> QED
    BY <1>6, <1>7

\* A microtask sets the ladder's replay.
LEMMA MicrotaskFollows ==
    ASSUME TreeInv, FollowInv, Microtask
    PROVE  FollowInv'
<1> DEFINE r == pending.reshape  left == [pending EXCEPT !.reshape = None]
           plan == ReplayOf(kids, zoom, ladder)
<1>1. kids' = kids /\ zoom' = zoom /\ trail' = trail
    BY DEF Microtask, Flush
<1> SUFFICES ASSUME trail.sweep = "down"
             PROVE  Follows(kids, zoom, sel', ladder', unlock', outline', pending')
    BY <1>1 DEF FollowInv
<1>2. Follows(kids, zoom, sel, ladder, unlock, outline, pending)
    BY DEF FollowInv
<1>3. Flush(Own, r, left) /\ r # None
    BY <1>2 DEF Microtask, Flush, Follows
<1>4. /\ ladderHasStructuralRung(ladder) /\ ladder.anchor \in Shown(kids, Top)
      /\ isRange(plan) /\ r = selectionOf(kids, plan) /\ ladder.anchor \in Notes
      /\ pending.snap = None
    BY <1>2, <1>3 DEF Follows
<1>5. left.snap = None /\ left.reshape = None /\ unlock \in BOOLEAN /\ ladder \in Ladders
      /\ IsTree(kids) /\ zoom \in Present(kids) \cup {Top}
    BY <1>4 DEF TreeInv, Pendings
<1>6. plan # None
    BY <1>4 DEF isRange
<1>7. CASE sel # None /\ {r.a, r.f} \subseteq Present(kids)
  <2>1. Observe(Own, kids, r, ladder, unlock, left)
    BY <1>3, <1>7 DEF Flush
  <2>2. Own = Own \/ (Own = Selecting /\ unlock)
    OBVIOUS
  <2>3. r = selectionOf(kids, ReplayOf(kids, zoom, ladder)) /\ ReplayOf(kids, zoom, ladder) # None
    BY <1>4, <1>6
  <2> HIDE DEF r, left, plan
  <2>4. /\ sel' = r /\ r # None /\ ~r.collapsed /\ ladder' = ladder /\ pending' = left
        /\ ladderHasStructuralRung(ladder) =>
               /\ isRange(ReplayOf(kids, zoom, ladder))
               /\ outline' = structural(headsOf(kids, ReplayOf(kids, zoom, ladder)))
               /\ contiguousHeads(kids, r) = headsOf(kids, ReplayOf(kids, zoom, ladder))
        /\ ~ladderHasStructuralRung(ladder) => r.a = r.f
    BY <1>4, <1>5, <2>1, <2>2, <2>3, ShowsLadder
  <2> QED
    BY <1>4, <1>5, <2>4 DEF Follows
<1>8. CASE ~(sel # None /\ {r.a, r.f} \subseteq Present(kids))
  <2>1. pending' = left /\ sel' = sel /\ ladder' = ladder /\ outline' = outline /\ unlock' = unlock
    BY <1>3, <1>8 DEF Flush
  <2>2. selectionOf(kids, plan) \in Selections(Shown(kids, Top))
    BY <1>4, <1>5, <1>6, LadderShows
  <2>3. r.a \in Present(kids) /\ r.f \in Present(kids)
    BY <1>4, <2>2 DEF Selections, Shown
  <2>4. sel' = None
    BY <1>8, <2>1, <2>3
  <2> QED
    BY <1>4, <1>5, <2>1, <2>4 DEF Follows
<1> QED
    BY <1>7, <1>8

\* What follows an edit is the replay of the ladder that is kept.
LEMMA FollowShows ==
    ASSUME NEW T, IsTree(T), NEW z \in Present(T) \cup {Top}, NEW lad \in Ladders,
           ladderHasStructuralRung(lad), lad.anchor \in Shown(T, Top)
    PROVE  LET F == reshapeStructuralLadder(T, z, lad) IN
           /\ F.ladder \in Ladders /\ F.ladder.anchor = lad.anchor
           /\ F.plan = ReplayOf(T, z, F.ladder) /\ isRange(F.plan)
           /\ ladderHasStructuralRung(F.ladder)
           /\ selectionOf(T, F.plan) # None
<1> DEFINE F == reshapeStructuralLadder(T, z, lad)
<1>0. Shown(T, Top) \in SUBSET Notes
    BY ShownIs
<1>1. /\ F.ladder \in Ladders /\ F.ladder.anchor = lad.anchor /\ F.plan \in Extents(Shown(T, Top))
    BY ReshapeShown
<1>2. F.plan = replayLadder(T, z, lad.anchor, F.ladder.stack, FALSE)
    BY DEF reshapeStructuralLadder
<1> HIDE DEF F
<1>3. F.plan = ReplayOf(T, z, F.ladder)
    BY <1>1, <1>2 DEF ReplayOf
<1>4. isRange(F.plan) /\ F.plan # None
    BY <1>0, <1>1, RangeIs
<1>5. ladderHasStructuralRung(F.ladder)
  <2> SUFFICES ASSUME ~ladderHasStructuralRung(F.ladder) PROVE FALSE
    OBVIOUS
  <2> DEFINE L == F.ladder
  <2>1. L \in Ladders /\ L.anchor \in Shown(T, Top) /\ ReplayOf(T, z, L) # None /\ ~ladderHasStructuralRung(L)
    BY <1>1, <1>3, <1>4
  <2> HIDE DEF L
  <2>2. ReplayOf(T, z, L) = [inline |-> L.anchor]
    BY <2>1, LadderShows
  <2>3. ~isRange([inline |-> L.anchor])
    BY <1>0, <2>1, RangeIs
  <2> QED
    BY <1>3, <1>4, <2>2, <2>3 DEF L
<1>6. selectionOf(T, F.plan) # None
  <2>1. selectionOf(T, F.plan) \in Selections(Shown(T, Top))
    BY <1>1, SelectionOfShown
  <2>2. selectionOf(T, F.plan) \in Selections(Notes)
    BY <1>0, <2>1 DEF Selections
  <2> QED
    BY <2>2, NoneAssumption
<1> QED
    BY <1>1, <1>3, <1>4, <1>5, <1>6 DEF F

\* An edit that keeps the ladder's anchor: the ladder follows the tree, or is left
\* behind by the selection.
LEMMA EditFollows ==
    ASSUME TreeInv, SweepInv, FollowInv, TreeInv', NEW K, NEW s, Edited(K, s),
           ~ladderHasStructuralRung(ladder) /\ (sel = None \/ sel.a = sel.f) => s = None \/ s.a = s.f
    PROVE  FollowInv'
<1> SUFFICES ASSUME trail'.sweep = "down"
             PROVE  Follows(kids', zoom', sel', ladder', unlock', outline', pending')
    BY DEF FollowInv
<1> DEFINE resets == ~Editing.progressive
                     /\ (s = None \/ (~unlock /\ (s.collapsed \/ ladder.anchor # s.a)))
           kept == IF resets THEN INITIAL ELSE ladder
           reshapes == /\ ~Editing.progressive /\ ~Editing.snapping /\ Editing.tree
                       /\ ladderHasStructuralRung(kept) /\ kept.anchor = s.a
           inferred == IF ~ladderHasStructuralRung(kept) /\ Len(contiguousHeads(K, s)) > 1
                       THEN inferPointerProgression(K, s, contiguousHeads(K, s)) ELSE kept
           rung == ladderHasStructuralRung(ladder)
<1>1. Editing.progressive = FALSE /\ Editing.snapping = FALSE /\ Editing.tree = TRUE
    BY DEF Editing, Tagged
<1>2. kids' = K /\ sel' = s /\ unlock' = FALSE
    BY <1>1 DEF Edited, Observe
<1>3. ObserveKept(Editing, K, s, kept, unlock, pending)
    BY DEF Edited, Observe
<1>4. zoom' = zoom /\ ladder'.anchor = ladder.anchor /\ trail.sweep = "down"
  <2> DEFINE d == IF zoom' = zoom /\ ladder'.anchor = ladder.anchor THEN trail.sweep ELSE None
  <2>1. trail' = [NoTrail EXCEPT !.sweep = d]
    BY DEF Edited
  <2>2. trail'.sweep = d
    BY <2>1 DEF NoTrail
  <2> QED
    BY <2>2, NoneAssumption DEF Directions
<1>5. /\ pending.snap = None
      /\ ~rung => s = None \/ s.a = s.f
      /\ rung => ladder.anchor \in Notes
      /\ pending.reshape # None => rung /\ ~unlock
    BY <1>4 DEF FollowInv, Follows
<1>6. INITIAL.anchor = None /\ ~ladderHasStructuralRung(INITIAL) /\ None \notin Notes
    BY NoneAssumption DEF INITIAL, emptyLadder, ladderHasStructuralRung, Owners
<1>7. /\ IsTree(K) /\ zoom' \in Present(K) \cup {Top} /\ SelectionOk(K, Top, s)
      /\ ladder \in Ladders /\ unlock \in BOOLEAN
  <2>1. /\ IsTree(K) /\ zoom' \in Present(K) \cup {Top} /\ SelectionOk(K, Area', s)
        /\ ladder \in Ladders /\ unlock \in BOOLEAN /\ Area' \in {zoom', Top}
    BY <1>2 DEF TreeInv, Area
  <2>2. Shown(K, Area') \subseteq Shown(K, Top)
    BY <2>1, ShownIs DEF Shown
  <2> QED
    BY <2>1, <2>2 DEF SelectionOk, Selections
<1>b. Boundary(K) = zoom'
    BY <1>4, <1>7, NotesAssumption, PresentBelowTop DEF Boundary, IsTree
<1>8. ASSUME ~rung, ladder' = kept, pending' = pending
      PROVE  Follows(kids', zoom', sel', ladder', unlock', outline', pending')
  <2>1. ~ladderHasStructuralRung(ladder') /\ pending'.snap = None /\ pending'.reshape = None
    BY <1>5, <1>6, <1>8
  <2> QED
    BY <1>2, <1>5, <1>8, <2>1 DEF Follows
<1>9. ASSUME rung, unlock, ladder' = ladder, pending' = pending, s # None => ladder.anchor # s.a
      PROVE  Follows(kids', zoom', sel', ladder', unlock', outline', pending')
    BY <1>2, <1>5, <1>9 DEF Follows
<1>10. \/ s = None /\ ladder' = kept /\ pending' = pending
       \/ s # None /\ reshapes /\ Follow(K, reshapeStructuralLadder(K, zoom', kept), pending)
       \/ s # None /\ ~reshapes /\ s.collapsed /\ ladder' = kept /\ pending' = pending
       \/ s # None /\ ~reshapes /\ ~s.collapsed
          /\ DeriveInferring(Editing, K, s, ladderHasStructuralRung(kept), inferred, unlock, pending)
    BY <1>3, <1>b DEF ObserveKept
<1>11. resets <=> s = None \/ (~unlock /\ (s.collapsed \/ ladder.anchor # s.a))
    BY <1>1
<1>12. reshapes <=> ladderHasStructuralRung(kept) /\ kept.anchor = s.a
    BY <1>1
<1>13. (resets => kept = INITIAL) /\ (~resets => kept = ladder)
    OBVIOUS
<1>14. ASSUME resets, ladder' = kept PROVE ~rung
    BY <1>4, <1>5, <1>6, <1>13, <1>14
<1> HIDE DEF resets, reshapes, kept, rung
<1>15. CASE s = None /\ ladder' = kept /\ pending' = pending
    BY <1>8, <1>11, <1>14, <1>15
<1>16. CASE s # None /\ reshapes /\ Follow(K, reshapeStructuralLadder(K, zoom', kept), pending)
  <2> DEFINE F == reshapeStructuralLadder(K, zoom', kept)
  <2>1. kept = ladder /\ ladderHasStructuralRung(ladder) /\ ladder.anchor = s.a
    BY <1>6, <1>12, <1>13, <1>16
  <2>2. ladder.anchor \in Shown(K, Top) /\ ladder.anchor \in Notes
    BY <1>5, <1>7, <1>16, <2>1 DEF SelectionOk, Selections, rung
  <2>3. /\ F.ladder \in Ladders /\ F.ladder.anchor = ladder.anchor
        /\ F.plan = ReplayOf(K, zoom', F.ladder) /\ isRange(F.plan)
        /\ ladderHasStructuralRung(F.ladder)
        /\ selectionOf(K, F.plan) # None
    BY <1>7, <2>1, <2>2, FollowShows
  <2>4. /\ ladder' = F.ladder /\ outline' = structural(headsOf(K, F.plan))
        /\ pending' = [pending EXCEPT !.reshape = selectionOf(K, F.plan)]
    BY <1>16 DEF Follow
  <2> HIDE DEF F
  <2>5. pending'.reshape = selectionOf(K, F.plan) /\ pending'.snap = None
    BY <1>5, <1>7, <2>4 DEF TreeInv, Pendings
  <2>6. pending' # NothingWaits
    BY <2>3, <2>5 DEF NothingWaits
  <2> QED
    BY <1>2, <2>2, <2>3, <2>4, <2>5, <2>6 DEF Follows
<1>17. CASE s # None /\ ~reshapes /\ s.collapsed /\ ladder' = kept /\ pending' = pending
  <2>1. CASE rung
    <3>1. kept = ladder /\ unlock
        BY <1>11, <1>13, <1>14, <1>17, <2>1
    <3>2. ladder.anchor # s.a
        BY <1>12, <1>17, <2>1, <3>1 DEF rung
    <3> QED
        BY <1>9, <1>17, <2>1, <3>1, <3>2
  <2>2. CASE ~rung
    BY <1>8, <1>17, <2>2
  <2> QED
    BY <2>1, <2>2
<1>18. CASE s # None /\ ~reshapes /\ ~s.collapsed
            /\ DeriveInferring(Editing, K, s, ladderHasStructuralRung(kept), inferred, unlock, pending)
  <2> DEFINE many == Len(contiguousHeads(K, s)) > 1
  <2>1. ladder' = inferred
    BY <1>18 DEF DeriveInferring, Derive
  <2>2. ~many \/ unlock => pending' = pending
    BY <1>18 DEF DeriveInferring, Derive
  <2>3. s.a \in Notes /\ s.a \in Present(K)
    BY <1>7, <1>18, ShownIs DEF SelectionOk, Selections, Shown
  <2>4. CASE resets
    <3>1. ladder.anchor # s.a /\ ~ladderHasStructuralRung(kept)
        BY <1>6, <1>11, <1>13, <1>18, <2>4
    <3>2. ~many
        <4> SUFFICES ASSUME many PROVE FALSE
            OBVIOUS
        <4>1. inferred.anchor = s.a
            BY <2>3, <3>1, InferOk
        <4> QED
            BY <1>4, <2>1, <3>1, <4>1
    <3>3. ladder' = kept
        BY <2>1, <3>2
    <3> QED
        BY <1>8, <1>14, <2>2, <2>4, <3>2, <3>3
  <2>5. CASE ~resets /\ rung
    <3>1. kept = ladder /\ ladder.anchor # s.a /\ unlock
        BY <1>7, <1>11, <1>12, <1>13, <1>18, <2>5 DEF rung
    <3>2. ladder' = ladder
        BY <2>1, <2>5, <3>1 DEF rung
    <3> QED
        BY <1>9, <2>2, <2>5, <3>1, <3>2
  <2>6. CASE ~resets /\ ~rung
    <3>1. s.a = s.f /\ kept = ladder
        BY <1>5, <1>13, <1>18, <2>6
    <3>2. contiguousHeads(K, s) = <<s.a>>
        BY <1>7, <1>18, <2>3, <3>1, HeadsOne DEF contiguousHeads
    <3>3. ~many
        BY <3>2
    <3>4. ladder' = kept
        BY <2>1, <3>3
    <3> QED
        BY <1>8, <2>2, <2>6, <3>3, <3>4
  <2> QED
    BY <2>4, <2>5, <2>6
<1> QED
    BY <1>10, <1>15, <1>16, <1>17, <1>18

\* Edits, by this user or another client.
LEMMA EditsFollow ==
    ASSUME TreeInv, SweepInv, FollowInv, TreeInv',
           EditText \/ InsertNote \/ DeleteNote \/ MoveSelected \/ MoveNote
    PROVE  FollowInv'
<1>1. ASSUME NEW K, Edited(K, sel) PROVE FollowInv'
    BY <1>1, EditFollows
<1>2. ASSUME NEW K, Edited(K, None) PROVE FollowInv'
    BY <1>2, EditFollows
<1>3. ASSUME NEW K, NEW m, Edited(K, Caret(m)) PROVE FollowInv'
  <2> DEFINE c == Caret(m)
  <2>1. c.a = c.f /\ Edited(K, c)
    BY <1>3 DEF Caret
  <2> HIDE DEF c
  <2> QED
    BY <2>1, EditFollows
<1>4. ASSUME NEW K, NEW s, Edited(K, s), sel # None, sel.a # sel.f PROVE FollowInv'
    BY <1>4, EditFollows
<1>5. CASE EditText
    BY <1>1, <1>5 DEF EditText
<1>6. CASE InsertNote
  <2>1. \E K : Edited(K, sel)
    BY <1>6 DEF InsertNote
  <2> QED
    BY <1>1, <2>1
<1>7. CASE MoveSelected
  <2>1. \E K : Edited(K, sel)
    BY <1>7 DEF MoveSelected
  <2> QED
    BY <1>1, <2>1
<1>8. ASSUME NEW K, NEW gone, NEW near, EditedAway(K, gone, near) PROVE FollowInv'
  <2>1. \/ Edited(K, None) \/ Edited(K, sel) \/ \E m : Edited(K, Caret(m))
        \/ /\ sel # None /\ {sel.a, sel.f} \cap gone # {} /\ ~({sel.a, sel.f} \subseteq gone)
           /\ \E s : Edited(K, s)
    BY <1>8 DEF EditedAway
  <2>2. sel # None /\ {sel.a, sel.f} \cap gone # {} /\ ~({sel.a, sel.f} \subseteq gone)
        => sel # None /\ sel.a # sel.f
    OBVIOUS
  <2> QED
    BY <1>1, <1>2, <1>3, <1>4, <2>1, <2>2
<1>9. CASE DeleteNote
  <2>1. \E K, gone, near : EditedAway(K, gone, near)
    BY <1>9 DEF DeleteNote
  <2> QED
    BY <1>8, <2>1
<1>10. CASE MoveNote
  <2>1. \E K, gone, near : EditedAway(K, gone, near)
    BY <1>10 DEF MoveNote
  <2> QED
    BY <1>8, <2>1
<1> QED
    BY <1>5, <1>6, <1>7, <1>9, <1>10

\* Keys that are not arrows, the pointer and zooming end a sweep.
LEMMA OthersFollow ==
    ASSUME SelectAll \/ PlainKey \/ Escape \/ ShiftHorizontal \/ Point \/ \E z \in Owners : ZoomTo(z)
    PROVE  FollowInv'
<1>1. trail' = NoTrail
    BY DEF SelectAll, PlainKey, Escape, Collapse, ShiftHorizontal, Point, ZoomTo
<1>2. trail'.sweep # "down"
    BY <1>1, NoneAssumption DEF NoTrail, Directions
<1> QED
    BY <1>2 DEF FollowInv

\* At the start nothing is swept.
LEMMA InitFollows == Init => FollowInv
<1> SUFFICES ASSUME Init PROVE FollowInv
    OBVIOUS
<1>1. trail.sweep = None
    BY DEF Init, NoTrail
<1> QED
    BY <1>1, NoneAssumption DEF FollowInv, Directions

\* Every step keeps what is shown the ladder's replay.
LEMMA NextFollows == TreeInv /\ SweepInv /\ FollowInv /\ [Next]_vars => FollowInv'
<1> SUFFICES ASSUME TreeInv, SweepInv, FollowInv, [Next]_vars PROVE FollowInv'
    OBVIOUS
<1>t. TreeInv'
    BY NextTree
<1>1. CASE \E d \in Directions : ShiftArrow(d)
    BY <1>1, ArrowFollows
<1>2. CASE Normalize
    BY <1>2, NormalizeFollows
<1>3. CASE Microtask
    BY <1>3, MicrotaskFollows
<1>4. CASE SelectAll \/ PlainKey \/ Escape \/ ShiftHorizontal \/ Point \/ \E z \in Owners : ZoomTo(z)
    BY <1>4, OthersFollow
<1>5. CASE EditText \/ InsertNote \/ DeleteNote \/ MoveSelected \/ MoveNote
    BY <1>5, <1>t, EditsFollow
<1>6. CASE UNCHANGED vars
    BY <1>6 DEF vars, FollowInv
<1> QED
    BY <1>1, <1>2, <1>3, <1>4, <1>5, <1>6 DEF Next

\* What is shown of a downward sweep whose anchor is selected is the anchor plus the
\* rungs, replayed on the tree as it is now, for documents of any size and whatever
\* the others do to them.
THEOREM FollowHolds == Spec => []SweepFollowsEdits
<1>1. Init => TreeInv /\ SweepInv /\ FollowInv
    BY InitTree, InitSweep, InitFollows
<1>2. TreeInv /\ SweepInv /\ FollowInv /\ [Next]_vars => (TreeInv /\ SweepInv /\ FollowInv)'
    BY NextTree, NextSweep, NextFollows
<1>3. FollowInv => SweepFollowsEdits
    BY DEF FollowInv, Follows, ReplayOf, SweepFollowsEdits
<1> QED
    BY <1>1, <1>2, <1>3, PTL DEF Spec
=============================================================================
