--------------------------- MODULE Popups_proofs ---------------------------
(***************************************************************************)
(* Proofs about Popups, for any notes to begin with, any number of presses *)
(* and any length.  The invariant PopupsInv adds to what the runs check    *)
(* how a pending press relates to the counts of presses and openings, and  *)
(* that the selection stays within the note: only then is the trigger that *)
(* syncFromSelection found the one that $resolvePinnedSession finds again. *)
(***************************************************************************)
EXTENDS Popups, FiniteSetTheorems, SequenceTheorems, TLAPS

SelOK(R, s) ==
    /\ s.at \in {"caret", "range", "token", "away", "structural"}
    /\ s.at = "caret" => s.p \in 0..Len(R)
    /\ s.at = "range" => s.p \in 0..Len(R) /\ s.q \in 0..Len(R) /\ s.p < s.q

Dues == {None} \cup [kind : {"insert"}, c : Triggers] \cup [kind : {"click"}, k : 1..MaxKeys]

NoteOK == row \in Seq(Cells) /\ Len(row) <= MaxLength /\ SelOK(row, sel)

\* The state of one trigger: a press waits only where there is no session.
SessionOK(x) ==
    /\ x \in [pin : Pins \cup {None}, pending : BOOLEAN, query : Seq(Chars) \cup {None}]
    /\ x.pin = None <=> x.query = None
    /\ x.pending => x.pin = None

TriggersOK == /\ trig \in [Triggers -> [pin : Pins \cup {None}, pending : BOOLEAN,
                                        query : Seq(Chars) \cup {None}]]
              /\ \A t \in Triggers : SessionOK(trig[t])

\* A pending press has not opened anything yet.
PressesCount ==
    /\ opened \in [Triggers -> Nat] /\ pressed \in [Triggers -> Nat]
    /\ \A t \in Triggers : /\ opened[t] <= pressed[t]
                           /\ trig[t].pending => opened[t] < pressed[t]

\* What an update of the editor must keep.
UpdateInv == NoteOK /\ TriggersOK /\ PressesCount /\ SessionsHold

PopupsInv == UpdateInv /\ due \in Dues /\ ShownIsReplaced
-----------------------------------------------------------------------------
(* Least and greatest elements                                             *)

\* A non-empty set of natural numbers has a least element.
LEMMA LeastNat ==
    ASSUME NEW S \in SUBSET Nat, S # {}
    PROVE  \E m \in S : \A n \in S : m <= n
<1> DEFINE Below == {0..n : n \in S}
<1>1. \A n \in S : IsFiniteSet(0..n)
    BY FS_Interval
<1>2. Below \subseteq FiniteSubsetsOf(Nat)
    BY <1>1 DEF FiniteSubsetsOf
<1>3. Below # {}
    OBVIOUS
<1>4. IsWellFoundedOn(StrictSubsetOrdering(Nat), FiniteSubsetsOf(Nat))
    BY FS_StrictSubsetOrderingWellFounded
<1>5. PICK b \in Below : \A c \in Below : ~(<<c, b>> \in StrictSubsetOrdering(Nat))
  <2> HIDE DEF Below
  <2> QED
    BY <1>2, <1>3, <1>4, WFMin
<1>6. PICK m \in S : b = 0..m
    OBVIOUS
<1>7. ASSUME NEW n \in S PROVE ~(0..n \subseteq 0..m /\ 0..n # 0..m)
  <2>1. 0..n \in Below /\ 0..n \in SUBSET Nat /\ 0..m \in SUBSET Nat
    OBVIOUS
  <2>2. <<0..n, 0..m>> \notin StrictSubsetOrdering(Nat)
    BY <1>5, <1>6, <2>1
  <2> HIDE DEF Below
  <2>3. QED
    BY <2>1, <2>2 DEF StrictSubsetOrdering
<1>8. ASSUME NEW n \in S, n < m PROVE 0..n \subseteq 0..m /\ 0..n # 0..m
  <2>1. m \in 0..m /\ m \notin 0..n
    BY n \in Nat, m \in Nat, <1>8
  <2>2. 0..n \subseteq 0..m
    BY n \in Nat, m \in Nat, <1>8
  <2> QED
    BY <2>1, <2>2
<1>9. \A n \in S : ~(n < m)
    BY <1>7, <1>8
<1> QED
    BY <1>9

\* The first cell of a key that is in use is one of its cells.
LEMMA FirstIsFirst ==
    \A R \in Seq(Cells) : \A k : Indices(R, k) # {} =>
        First(R, k) \in Indices(R, k) /\ \A j \in Indices(R, k) : First(R, k) <= j
<1> SUFFICES ASSUME NEW R \in Seq(Cells), NEW k, Indices(R, k) # {}
             PROVE  First(R, k) \in Indices(R, k) /\ \A j \in Indices(R, k) : First(R, k) <= j
    OBVIOUS
<1>1. Indices(R, k) \in SUBSET Nat
    BY DEF Indices
<1>2. \E m \in Indices(R, k) : \A n \in Indices(R, k) : m <= n
    BY <1>1, LeastNat
<1> QED
    BY <1>2 DEF First

\* What Scan finds is a trigger with only text between it and the caret.
LEMMA ScanReads ==
    \A R, t : \A p \in Nat : Scan(R, t, p) # 0 =>
        Scan(R, t, p) \in 1..p /\ Reads(R, t, Scan(R, t, p), p)
<1> SUFFICES ASSUME NEW R, NEW t, NEW p \in Nat, Scan(R, t, p) # 0
             PROVE  Scan(R, t, p) \in 1..p /\ Reads(R, t, Scan(R, t, p), p)
    OBVIOUS
<1> DEFINE found == {i \in 1..p : Reads(R, t, i, p)}
           back == {p - i : i \in found}
<1>1. found # {}
    BY DEF Scan
<1>2. back \in SUBSET Nat /\ back # {}
    BY <1>1
<1>3. PICK m \in back : \A n \in back : m <= n
  <2> HIDE DEF back
  <2> QED
    BY <1>2, LeastNat
<1>4. PICK i \in found : m = p - i
    OBVIOUS
<1>5. \A j \in found : j <= i
  <2> SUFFICES ASSUME NEW j \in found PROVE j <= i
    OBVIOUS
  <2>1. p - j \in back /\ i \in Nat /\ j \in Nat
    OBVIOUS
  <2> HIDE DEF back, found
  <2>2. p - i <= p - j
    BY <1>3, <1>4, <2>1
  <2> QED
    BY <2>1, <2>2
<1>6. Scan(R, t, p) \in found
  <2>1. Scan(R, t, p) = CHOOSE x \in found : \A j \in found : j <= x
    BY <1>1 DEF Scan
  <2> HIDE DEF found
  <2> QED
    BY <1>5, <2>1
<1> QED
    BY <1>6
-----------------------------------------------------------------------------
(* Node keys                                                               *)

\* A finite set grows by at most one with an element.
LEMMA AddOne ==
    \A S, x : \A n \in Nat : IsFiniteSet(S) /\ Cardinality(S) <= n =>
        IsFiniteSet(S \cup {x}) /\ Cardinality(S \cup {x}) <= n + 1
<1> SUFFICES ASSUME NEW S, NEW x, NEW n \in Nat, IsFiniteSet(S), Cardinality(S) <= n
             PROVE  IsFiniteSet(S \cup {x}) /\ Cardinality(S \cup {x}) <= n + 1
    OBVIOUS
<1>1. Cardinality(S) \in Nat
    BY FS_CardinalityType
<1> QED
    BY <1>1, FS_AddElement

\* Of n numbers one is not in a set of fewer.
LEMMA OneIsFree ==
    \A S : \A n \in Nat : IsFiniteSet(S) /\ Cardinality(S) < n => \E k \in 1..n : k \notin S
<1> SUFFICES ASSUME NEW S, NEW n \in Nat, IsFiniteSet(S), Cardinality(S) < n, 1..n \subseteq S
             PROVE  FALSE
    OBVIOUS
<1>1. Cardinality(1..n) = n /\ IsFiniteSet(1..n)
    BY FS_Interval
<1>2. Cardinality(1..n) <= Cardinality(S)
    BY FS_Subset
<1> QED
    BY <1>1, <1>2, FS_CardinalityType

\* The keys in use leave two free (FreshKey and OtherKey choose them).
LEMMA KeysAreFree ==
    ASSUME row \in Seq(Cells), Len(row) <= MaxLength
    PROVE  FreshKey \in 1..MaxKeys /\ OtherKey \in 1..MaxKeys
<1> USE BoundsAssumption DEF BoundsAssumption
<1> DEFINE InNote == {row[i].k : i \in 1..Len(row)}
           f == [i \in 1..Len(row) |-> row[i].k]
           U1 == InNote \cup {trig["@"].pin.k}
           U2 == U1 \cup {trig["!"].pin.k}
           U3 == U2 \cup {edit}
           U4 == U3 \cup {sel.k}
           U5 == U4 \cup {due.k}
           n == Len(row)
<1>1. n \in Nat
    OBVIOUS
<1>2. IsFiniteSet(InNote) /\ Cardinality(InNote) <= n
  <2>1. IsFiniteSet(1..n) /\ Cardinality(1..n) = n
    <3> HIDE DEF n
    <3> QED
      BY <1>1, FS_Interval
  <2>2. f \in Surjection(1..n, InNote)
    BY DEF Surjection
  <2> HIDE DEF InNote, f, n
  <2> QED
    BY <2>1, <2>2, FS_Surjection
<1>3. IsFiniteSet(U1) /\ Cardinality(U1) <= n + 1
  <2> HIDE DEF InNote, n
  <2> QED
    BY <1>1, <1>2, AddOne
<1>4. IsFiniteSet(U2) /\ Cardinality(U2) <= n + 2
  <2> HIDE DEF U1, n
  <2>1. n + 1 \in Nat /\ (n + 1) + 1 = n + 2
    BY <1>1
  <2>2. /\ IsFiniteSet(U1 \cup {trig["!"].pin.k})
        /\ Cardinality(U1 \cup {trig["!"].pin.k}) <= (n + 1) + 1
    BY <1>3, <2>1, AddOne
  <2> QED
    BY <2>1, <2>2
<1>5. IsFiniteSet(U3) /\ Cardinality(U3) <= n + 3
  <2> HIDE DEF U2, n
  <2>1. n + 2 \in Nat /\ (n + 2) + 1 = n + 3
    BY <1>1
  <2>2. /\ IsFiniteSet(U2 \cup {edit})
        /\ Cardinality(U2 \cup {edit}) <= (n + 2) + 1
    BY <1>4, <2>1, AddOne
  <2> QED
    BY <2>1, <2>2
<1>6. IsFiniteSet(U4) /\ Cardinality(U4) <= n + 4
  <2> HIDE DEF U3, n
  <2>1. n + 3 \in Nat /\ (n + 3) + 1 = n + 4
    BY <1>1
  <2>2. /\ IsFiniteSet(U3 \cup {sel.k})
        /\ Cardinality(U3 \cup {sel.k}) <= (n + 3) + 1
    BY <1>5, <2>1, AddOne
  <2> QED
    BY <2>1, <2>2
<1>7. IsFiniteSet(U5) /\ Cardinality(U5) <= n + 5
  <2> HIDE DEF U4, n
  <2>1. n + 4 \in Nat /\ (n + 4) + 1 = n + 5
    BY <1>1
  <2>2. /\ IsFiniteSet(U4 \cup {due.k})
        /\ Cardinality(U4 \cup {due.k}) <= (n + 4) + 1
    BY <1>6, <2>1, AddOne
  <2> QED
    BY <2>1, <2>2
<1>8. KeysUsed \subseteq U5
    BY DEF KeysUsed, Triggers
<1>9. IsFiniteSet(KeysUsed) /\ Cardinality(KeysUsed) <= n + 5
  <2> HIDE DEF U5, n
  <2>1. IsFiniteSet(KeysUsed) /\ Cardinality(KeysUsed) <= Cardinality(U5)
    BY <1>7, <1>8, FS_Subset
  <2> QED
    BY <1>1, <1>7, <2>1, FS_CardinalityType
<1>10. \E k \in 1..MaxKeys : k \notin KeysUsed
  <2>1. Cardinality(KeysUsed) < MaxKeys
    BY <1>1, <1>9, FS_CardinalityType
  <2> QED
    BY <1>9, <2>1, OneIsFree
<1>11. FreshKey \in 1..MaxKeys
    BY <1>10 DEF FreshKey
<1>12. \E k \in 1..MaxKeys : k \notin KeysUsed \cup {FreshKey}
  <2>1. IsFiniteSet(KeysUsed \cup {FreshKey}) /\ Cardinality(KeysUsed \cup {FreshKey}) <= (n + 5) + 1
    <3>1. n + 5 \in Nat
      BY <1>1
    <3> QED
      BY <1>9, <3>1, AddOne
  <2>2. Cardinality(KeysUsed \cup {FreshKey}) < MaxKeys
    BY <1>1, <2>1, FS_CardinalityType
  <2> QED
    BY <2>1, <2>2, OneIsFree
<1>13. OtherKey \in 1..MaxKeys
    BY <1>12 DEF OtherKey
<1> QED
    BY <1>11, <1>13
-----------------------------------------------------------------------------
(* Rows of cells                                                           *)

\* ConcatProperties for rows.
LEMMA ConcatCells ==
    \A a, b \in Seq(Cells) :
        /\ a \o b \in Seq(Cells) /\ Len(a \o b) = Len(a) + Len(b)
        /\ \A x \in 1..(Len(a) + Len(b)) :
              (a \o b)[x] = IF x <= Len(a) THEN a[x] ELSE b[x - Len(a)]
    BY ConcatProperties

\* Putting a character in leaves a note that is longer by one.
LEMMA PutSound ==
    ASSUME row \in Seq(Cells), Len(row) <= MaxLength,
           NEW R \in Seq(Cells), NEW i \in 0..Len(R), NEW c \in Chars
    PROVE  Put(R, i, c) \in Seq(Cells) /\ Len(Put(R, i, c)) = Len(R) + 1
<1> DEFINE k == IF i > 0 /\ IsText(R[i]) THEN R[i].k
                ELSE IF i < Len(R) /\ IsText(R[i + 1]) THEN R[i + 1].k ELSE FreshKey
           new == <<[c |-> c, k |-> k]>>
           A == SubSeq(R, 1, i)
           B == SubSeq(R, i + 1, Len(R))
<1>1. Len(R) \in Nat /\ i \in Int
    OBVIOUS
<1>2. \A x \in 1..Len(R) : R[x] \in Cells
    BY ElementOfSeq
<1>3. k \in 1..MaxKeys
  <2>1. FreshKey \in 1..MaxKeys
    BY KeysAreFree
  <2>2. i > 0 => R[i].k \in 1..MaxKeys
    BY <1>1, <1>2 DEF Cells
  <2>3. i < Len(R) => R[i + 1].k \in 1..MaxKeys
    BY <1>1, <1>2 DEF Cells
  <2> QED
    BY <2>1, <2>2, <2>3
<1>4. new \in Seq(Cells) /\ Len(new) = 1
  <2> HIDE DEF k
  <2>1. [c |-> c, k |-> k] \in Cells
    BY <1>3 DEF Cells
  <2> QED
    BY <2>1
<1>5. /\ A \in Seq(Cells) /\ Len(A) = i
      /\ B \in Seq(Cells) /\ Len(B) = Len(R) - i
    BY <1>1, <1>2, SubSeqProperties
<1>6. Put(R, i, c) = A \o new \o B
    BY DEF Put
<1> HIDE DEF new, A, B
<1>7. A \o new \in Seq(Cells) /\ Len(A \o new) = Len(A) + Len(new)
    BY <1>4, <1>5, ConcatCells
<1>8. (A \o new) \o B \in Seq(Cells) /\ Len((A \o new) \o B) = Len(A \o new) + Len(B)
    BY <1>5, <1>7, ConcatCells
<1> QED
    BY <1>1, <1>4, <1>5, <1>6, <1>7, <1>8

\* Cutting the cells i to j out leaves the others in their order.
LEMMA CutSound ==
    \A R \in Seq(Cells) : \A i, j \in Nat :
        i >= 1 /\ i <= j + 1 /\ j <= Len(R) =>
            /\ Cut(R, i, j) \in Seq(Cells) /\ Len(Cut(R, i, j)) = Len(R) - (j - i + 1)
            /\ \A x \in 1..Len(R) : x < i => Cut(R, i, j)[x] = R[x]
            /\ \A x \in 1..Len(R) : x > j => Cut(R, i, j)[x - (j - i + 1)] = R[x]
<1> SUFFICES ASSUME NEW R \in Seq(Cells), NEW i \in Nat, NEW j \in Nat,
                    i >= 1, i <= j + 1, j <= Len(R)
             PROVE  /\ Cut(R, i, j) \in Seq(Cells) /\ Len(Cut(R, i, j)) = Len(R) - (j - i + 1)
                    /\ \A x \in 1..Len(R) : x < i => Cut(R, i, j)[x] = R[x]
                    /\ \A x \in 1..Len(R) : x > j => Cut(R, i, j)[x - (j - i + 1)] = R[x]
    OBVIOUS
<1> DEFINE A == SubSeq(R, 1, i - 1)
           B == SubSeq(R, j + 1, Len(R))
<1>1. Len(R) \in Nat /\ \A x \in 1..Len(R) : R[x] \in Cells
    BY ElementOfSeq
<1>2. /\ A \in Seq(Cells) /\ Len(A) = i - 1
      /\ \A x \in 1..(i - 1) : A[x] = R[x]
    BY <1>1, SubSeqProperties
<1>3. /\ B \in Seq(Cells) /\ Len(B) = Len(R) - j
      /\ \A x \in 1..(Len(R) - j) : B[x] = R[j + x]
  <2>1. /\ B \in Seq(Cells) /\ Len(B) = IF j + 1 <= Len(R) THEN Len(R) - (j + 1) + 1 ELSE 0
        /\ \A x \in 1..(Len(R) - (j + 1) + 1) : B[x] = R[(j + 1) + x - 1]
    BY <1>1, SubSeqProperties
  <2> HIDE DEF B
  <2>2. \A x \in 1..(Len(R) - j) : B[x] = R[j + x]
    <3> SUFFICES ASSUME NEW x \in 1..(Len(R) - j) PROVE B[x] = R[j + x]
      OBVIOUS
    <3>1. (j + 1) + x - 1 = j + x /\ x \in 1..(Len(R) - (j + 1) + 1)
      BY <1>1
    <3> QED
      BY <2>1, <3>1
  <2> QED
    BY <1>1, <2>1, <2>2
<1>4. Cut(R, i, j) = A \o B
    BY DEF Cut
<1> HIDE DEF A, B
<1>5. /\ A \o B \in Seq(Cells) /\ Len(A \o B) = (i - 1) + (Len(R) - j)
      /\ \A x \in 1..((i - 1) + (Len(R) - j)) :
            (A \o B)[x] = IF x <= i - 1 THEN A[x] ELSE B[x - (i - 1)]
  <2>1. Len(R) - j \in Nat /\ i - 1 \in Nat
    BY <1>1
  <2>2. A \in Seq(Cells) /\ B \in Seq(Cells)
    BY <1>2, <1>3
  <2>3. Len(A) = i - 1 /\ Len(B) = Len(R) - j
    BY <1>2, <1>3
  <2>4. A \o B \in Seq(Cells)
    BY <2>2, ConcatCells
  <2>5. Len(A \o B) = Len(A) + Len(B)
    BY <2>2, ConcatCells
  <2>6. \A x \in 1..(Len(A) + Len(B)) : (A \o B)[x] = IF x <= Len(A) THEN A[x] ELSE B[x - Len(A)]
    BY <2>2, ConcatCells
  <2> QED
    BY <2>1, <2>3, <2>4, <2>5, <2>6
<1>6. ASSUME NEW x \in 1..Len(R), x < i PROVE (A \o B)[x] = R[x]
    BY <1>1, <1>2, <1>5, <1>6
<1>7. ASSUME NEW x \in 1..Len(R), x > j PROVE (A \o B)[x - (j - i + 1)] = R[x]
  <2> DEFINE y == x - (j - i + 1)
  <2>1. /\ y \in 1..((i - 1) + (Len(R) - j)) /\ ~(y <= i - 1)
        /\ y - (i - 1) \in 1..(Len(R) - j) /\ j + (y - (i - 1)) = x
    BY <1>1, <1>7
  <2> HIDE DEF y
  <2>2. (A \o B)[y] = B[y - (i - 1)] /\ B[y - (i - 1)] = R[j + (y - (i - 1))]
    BY <1>3, <1>5, <2>1
  <2> QED
    BY <2>1, <2>2 DEF y
<1> QED
    BY <1>1, <1>4, <1>5, <1>6, <1>7
-----------------------------------------------------------------------------
(* What the listeners of an update leave of a trigger                      *)

\* An open session has its trigger before the caret, and the query between.
Holds(R, s, t, y) ==
    y.pin # None => /\ InText(R, s) /\ Pinned(R, t, s.p, y.pin) # 0
                    /\ y.query = Query(R, Pinned(R, t, s.p, y.pin), s.p)

\* Only a pending press opens, and it opens once.
OpensOnce(x, y) ==
    /\ y.pending => x.pending
    /\ x.pin = None /\ y.pin # None => x.pending /\ ~y.pending

\* What is read behind a trigger is a sequence of characters.
LEMMA QueryTyped ==
    \A R \in Seq(Cells) : \A t, i, p :
        i \in Nat /\ p \in 0..Len(R) /\ Reads(R, t, i, p) => Query(R, i, p) \in Seq(Chars)
<1> SUFFICES ASSUME NEW R \in Seq(Cells), NEW t, NEW i \in Nat, NEW p \in 0..Len(R), Reads(R, t, i, p)
             PROVE  Query(R, i, p) \in Seq(Chars)
    OBVIOUS
<1>1. i <= p /\ \A j \in i..p : R[j].c \in Chars
    BY DEF Reads, IsText
<1>2. p - i \in Nat /\ \A j \in 1..(p - i) : i + j \in i..p
    BY <1>1
<1>3. \A j \in 1..(p - i) : R[i + j].c \in Chars
    BY <1>1, <1>2
<1> QED
    BY <1>2, <1>3, IsASeq DEF Query

\* A pin made of what Scan found is resolved to the same cell again.
LEMMA PinFindsItsCell ==
    \A R \in Seq(Cells) : \A t, p :
        p \in 0..Len(R) /\ Scan(R, t, p) # 0 =>
            /\ PinOf(R, Scan(R, t, p)) \in Pins
            /\ Pinned(R, t, p, PinOf(R, Scan(R, t, p))) = Scan(R, t, p)
<1> SUFFICES ASSUME NEW R \in Seq(Cells), NEW t, NEW p \in 0..Len(R), Scan(R, t, p) # 0
             PROVE  /\ PinOf(R, Scan(R, t, p)) \in Pins
                    /\ Pinned(R, t, p, PinOf(R, Scan(R, t, p))) = Scan(R, t, p)
    OBVIOUS
<1> DEFINE i == Scan(R, t, p)
           k == R[i].k
<1>1. p \in Nat /\ Len(R) \in Nat /\ p <= Len(R)
    OBVIOUS
<1>2. i \in 1..p /\ Reads(R, t, i, p)
    BY <1>1, ScanReads
<1>3. i \in 1..Len(R) /\ R[i] \in Cells
    BY <1>1, <1>2, ElementOfSeq
<1> HIDE DEF i
<1>4. i \in Indices(R, k)
    BY <1>3 DEF Indices
<1>5. First(R, k) \in Indices(R, k) /\ First(R, k) <= i
    BY <1>4, FirstIsFirst
<1>6. First(R, k) \in 1..Len(R)
    BY <1>5 DEF Indices
<1>7. k \in 1..MaxKeys
    BY <1>3 DEF Cells
<1>8. PinOf(R, i) = [k |-> k, offset |-> i - First(R, k)]
    BY DEF PinOf
<1>9. i - First(R, k) \in Nat
    BY <1>3, <1>5, <1>6
<1>10. PinOf(R, i) \in Pins
    BY <1>7, <1>8, <1>9 DEF Pins
<1>11. PinIndex(R, PinOf(R, i)) = i
    BY <1>3, <1>6, <1>8 DEF PinIndex
<1>12. PinOf(R, i).k = k
    BY <1>8
<1>13. Pinned(R, t, p, PinOf(R, i)) = i
    BY <1>2, <1>3, <1>4, <1>11, <1>12 DEF Pinned
<1> QED
    BY <1>10, <1>13 DEF i

\* What a pin resolves to is a cell that reads up to the caret.
LEMMA PinnedReads ==
    \A R \in Seq(Cells) : \A t, p, pin :
        pin \in Pins /\ p \in 0..Len(R) /\ Pinned(R, t, p, pin) # 0 =>
            /\ Pinned(R, t, p, pin) \in 1..Len(R)
            /\ Reads(R, t, Pinned(R, t, p, pin), p)
<1> SUFFICES ASSUME NEW R \in Seq(Cells), NEW t, NEW pin \in Pins, NEW p \in 0..Len(R),
                    Pinned(R, t, p, pin) # 0
             PROVE  /\ Pinned(R, t, p, pin) \in 1..Len(R)
                    /\ Reads(R, t, Pinned(R, t, p, pin), p)
    OBVIOUS
<1> DEFINE i == PinIndex(R, pin)
<1>1. /\ Pinned(R, t, p, pin) = i /\ Indices(R, pin.k) # {}
      /\ i <= Len(R) /\ Reads(R, t, i, p)
    BY DEF Pinned
<1>2. First(R, pin.k) \in 1..Len(R)
    BY <1>1, FirstIsFirst DEF Indices
<1>3. pin.offset \in Nat
    BY DEF Pins
<1>4. i \in 1..Len(R)
    BY <1>1, <1>2, <1>3 DEF PinIndex
<1> QED
    BY <1>1, <1>4

\* One listener (FindTrigger, SyncOf): what it leaves is a session that holds, and
\* it opens none without a press.
LEMMA SyncSound ==
    \A R \in Seq(Cells) : \A s, x : \A t \in Triggers :
        SelOK(R, s) /\ SessionOK(x) =>
            /\ SessionOK(SyncOf(R, s, t, x))
            /\ Holds(R, s, t, SyncOf(R, s, t, x))
            /\ OpensOnce(x, SyncOf(R, s, t, x))
<1> SUFFICES ASSUME NEW R \in Seq(Cells), NEW s, NEW x, NEW t \in Triggers,
                    SelOK(R, s), SessionOK(x)
             PROVE  /\ SessionOK(SyncOf(R, s, t, x))
                    /\ Holds(R, s, t, SyncOf(R, s, t, x))
                    /\ OpensOnce(x, SyncOf(R, s, t, x))
    OBVIOUS
<1> DEFINE i == IF s.at = "away" THEN 0
                ELSE IF x.pin # None THEN Pinned(R, t, s.p, x.pin) ELSE Scan(R, t, s.p)
           y == SyncOf(R, s, t, x)
<1>1. SessionOK(Shut) /\ Holds(R, s, t, Shut) /\ OpensOnce(x, Shut)
    BY DEF SessionOK, Holds, OpensOnce, Shut
<1>2. CASE y = Shut
    BY <1>1, <1>2
<1>3. CASE y # Shut /\ i = 0
  <2>1. y = x /\ x.pending
    BY <1>3 DEF SyncOf, FindTrigger
  <2>2. x.pin = None
    BY <2>1 DEF SessionOK
  <2> QED
    BY <2>1, <2>2 DEF Holds, OpensOnce
<1>4. CASE y # Shut /\ i # 0
  <2>1. InText(R, s) /\ s.p \in 0..Len(R)
    BY <1>4 DEF SyncOf, InText, SelOK
  <2>2. /\ ~(x.pin = None /\ ~x.pending)
        /\ y = [pin |-> IF x.pin = None THEN PinOf(R, i) ELSE x.pin,
                pending |-> FALSE, query |-> Query(R, i, s.p)]
    BY <1>4, <2>1 DEF SyncOf, FindTrigger
  <2>3. y.pin = (IF x.pin = None THEN PinOf(R, i) ELSE x.pin) /\ y.pending = FALSE /\ y.query = Query(R, i, s.p)
    BY <2>2
  <2>4. i = IF x.pin # None THEN Pinned(R, t, s.p, x.pin) ELSE Scan(R, t, s.p)
    BY <1>4
  <2> HIDE DEF i, y
  <2>5. y.pin \in Pins /\ Pinned(R, t, s.p, y.pin) = i
    <3>1. CASE x.pin = None
      <4>1. i = Scan(R, t, s.p) /\ y.pin = PinOf(R, i)
        BY <2>3, <2>4, <3>1
      <4> QED
        BY <1>4, <2>1, <4>1, PinFindsItsCell
    <3>2. CASE x.pin # None
      <4>1. x.pin \in Pins
        BY <3>2 DEF SessionOK
      <4> QED
        BY <2>3, <2>4, <3>2, <4>1
    <3> QED
      BY <3>1, <3>2
  <2>6. i \in 1..Len(R) /\ Reads(R, t, i, s.p)
    BY <1>4, <2>1, <2>5, PinnedReads
  <2>7. y.query \in Seq(Chars)
    BY <2>1, <2>3, <2>6, QueryTyped
  <2>8. y.pin # None /\ y.query # None
    BY <2>5, <2>7, NoneAssumption DEF NoneAssumption
  <2>9. SessionOK(y)
    <3>1. y \in [pin : Pins \cup {None}, pending : BOOLEAN, query : Seq(Chars) \cup {None}]
      BY <2>2, <2>3, <2>5, <2>7
    <3> QED
      BY <2>3, <2>8, <3>1 DEF SessionOK
  <2>10. Holds(R, s, t, y)
    BY <1>4, <2>1, <2>3, <2>5 DEF Holds
  <2>11. OpensOnce(x, y)
    BY <2>2, <2>3 DEF OpensOnce
  <2> QED
    BY <2>9, <2>10, <2>11 DEF y
<1> QED
    BY <1>2, <1>3, <1>4
-----------------------------------------------------------------------------
(* Updates, and steps without one                                          *)

\* A trigger without a session.
LEMMA ShutIsSound == SessionOK(Shut)
    BY DEF SessionOK, Shut

\* An update of the editor: whatever it makes of the note, the sessions hold
\* afterwards, the listeners run with it.
LEMMA ChangesSound ==
    ASSUME UpdateInv, pressed' = pressed,
           NEW R \in Seq(Cells), NEW s, NEW X, SelOK(R, s),
           \A t \in Triggers : X[t] = trig[t] \/ X[t] = Shut,
           Changes(R, s, X)
    PROVE  UpdateInv'
<1> USE DEF UpdateInv
<1>1. row' = R /\ sel' = s /\ trig' = Synced(R, s, X) /\ Len(R) <= MaxLength
    BY DEF Changes
<1>2. opened' = [t \in Triggers |-> opened[t] + Opens(X, Synced(R, s, X))[t]]
    BY DEF Changes
<1>3. NoteOK'
    BY <1>1 DEF NoteOK
<1>4. ASSUME NEW t \in Triggers
      PROVE  /\ trig'[t] = SyncOf(R, s, t, X[t])
             /\ SessionOK(trig'[t]) /\ Holds(R, s, t, trig'[t]) /\ OpensOnce(X[t], trig'[t])
  <2>1. trig'[t] = SyncOf(R, s, t, X[t])
    BY <1>1 DEF Synced
  <2>2. SessionOK(trig[t]) /\ SessionOK(Shut)
    BY ShutIsSound DEF TriggersOK
  <2>3. SessionOK(X[t])
    BY <2>2
  <2> QED
    BY <2>1, <2>3, SyncSound
<1>5. TriggersOK'
  <2>1. \A t \in Triggers : trig'[t] \in [pin : Pins \cup {None}, pending : BOOLEAN, query : Seq(Chars) \cup {None}]
    BY <1>4 DEF SessionOK
  <2>2. trig' = [t \in Triggers |-> trig'[t]]
    BY <1>1 DEF Synced
  <2>3. trig' \in [Triggers -> [pin : Pins \cup {None}, pending : BOOLEAN, query : Seq(Chars) \cup {None}]]
    BY <2>1, <2>2
  <2>4. \A t \in Triggers : SessionOK(trig'[t])
    BY <1>4
  <2> QED
    BY <2>3, <2>4 DEF TriggersOK, SessionOK
<1>6. PressesCount'
  <2> DEFINE n(t) == IF X[t].pin = None /\ trig'[t].pin # None THEN 1 ELSE 0
  <2>1. \A t \in Triggers : opened'[t] = opened[t] + n(t)
    BY <1>1, <1>2 DEF Opens
  <2>2. opened' = [t \in Triggers |-> opened'[t]]
    BY <1>2
  <2>3. /\ opened \in [Triggers -> Nat] /\ pressed \in [Triggers -> Nat]
        /\ \A t \in Triggers : opened[t] <= pressed[t]
        /\ \A t \in Triggers : trig[t].pending => opened[t] < pressed[t]
    BY DEF PressesCount
  <2>4. ASSUME NEW t \in Triggers
        PROVE  /\ opened'[t] \in Nat /\ opened'[t] <= pressed[t]
               /\ trig'[t].pending => opened'[t] < pressed[t]
    <3>1. X[t].pending => trig[t].pending
      BY DEF Shut
    <3>2. (trig'[t].pending => X[t].pending) /\ (n(t) # 0 => X[t].pending /\ ~trig'[t].pending)
      BY <1>4 DEF OpensOnce
    <3>3. n(t) \in {0, 1} /\ opened'[t] = opened[t] + n(t)
      BY <2>1
    <3>4. opened[t] \in Nat /\ pressed[t] \in Nat
      BY <2>3
    <3> HIDE DEF n
    <3> QED
      BY <2>3, <3>1, <3>2, <3>3, <3>4
  <2>5. opened' \in [Triggers -> Nat]
    BY <2>2, <2>4
  <2> QED
    BY <2>3, <2>4, <2>5 DEF PressesCount
<1>7. SessionsHold'
  <2>1. ASSUME NEW t \in Triggers
        PROVE  /\ trig'[t].pin = None <=> trig'[t].query = None
               /\ trig'[t].pin # None =>
                     Target(t)' # 0 /\ trig'[t].query = Query(row', Target(t)', sel'.p)
    <3>1. trig'[t].pin = None <=> trig'[t].query = None
      BY <1>4 DEF SessionOK
    <3>2. ASSUME trig'[t].pin # None
          PROVE  Target(t)' # 0 /\ trig'[t].query = Query(row', Target(t)', sel'.p)
      <4>1. Target(t)' = Pinned(R, t, s.p, trig'[t].pin)
        BY <1>1, <1>4, <3>2 DEF Target, Holds
      <4> QED
        BY <1>1, <1>4, <3>2, <4>1 DEF Holds
    <3> QED
      BY <3>1, <3>2
  <2> QED
    BY <2>1 DEF SessionsHold
<1> QED
    BY <1>3, <1>5, <1>6, <1>7

\* A step without an update may close sessions, and nothing else.
LEMMA StillSound ==
    ASSUME UpdateInv, pressed' = pressed, Still,
           trig' = [t \in Triggers |-> trig'[t]],
           \A t \in Triggers : trig'[t] = trig[t] \/ trig'[t] = Shut
    PROVE  UpdateInv'
<1> USE DEF UpdateInv
<1>1. row' = row /\ sel' = sel /\ opened' = opened
    BY DEF Still
<1>2. NoteOK'
    BY <1>1 DEF NoteOK
<1>3. ASSUME NEW t \in Triggers
      PROVE  SessionOK(trig'[t]) /\ (trig'[t].pending => trig[t].pending)
  <2>1. SessionOK(trig[t]) /\ SessionOK(Shut)
    BY ShutIsSound DEF TriggersOK
  <2>2. ~Shut.pending
    BY DEF Shut
  <2>3. CASE trig'[t] = Shut
    BY <2>1, <2>2, <2>3
  <2>4. CASE trig'[t] = trig[t]
    BY <2>1, <2>4
  <2> QED
    BY <2>3, <2>4
<1>4. TriggersOK'
  <2>1. \A t \in Triggers : trig'[t] \in [pin : Pins \cup {None}, pending : BOOLEAN, query : Seq(Chars) \cup {None}]
    BY <1>3 DEF SessionOK
  <2>2. trig' \in [Triggers -> [pin : Pins \cup {None}, pending : BOOLEAN, query : Seq(Chars) \cup {None}]]
    BY <2>1
  <2> QED
    BY <1>3, <2>2 DEF TriggersOK, SessionOK
<1>5. PressesCount'
    BY <1>1, <1>3 DEF PressesCount
<1>6. SessionsHold'
  <2>1. ASSUME NEW t \in Triggers
        PROVE  /\ trig'[t].pin = None <=> trig'[t].query = None
               /\ trig'[t].pin # None =>
                     Target(t)' # 0 /\ trig'[t].query = Query(row', Target(t)', sel'.p)
    <3>1. CASE trig'[t] = Shut
      BY <3>1 DEF Shut
    <3>2. CASE trig'[t] = trig[t]
      BY <1>1, <3>2 DEF SessionsHold, Target
    <3> QED
      BY <3>1, <3>2
  <2> QED
    BY <2>1 DEF SessionsHold
<1> QED
    BY <1>2, <1>4, <1>5, <1>6
-----------------------------------------------------------------------------
(* Selections and notes that the actions make                              *)

\* Carets and ranges within the note, tokens, and selections elsewhere.
LEMMA SelectionsSound ==
    /\ \A R, p : p \in 0..Len(R) => SelOK(R, Caret(p))
    /\ \A R, p, q : p \in 0..Len(R) /\ q \in 0..Len(R) /\ p < q => SelOK(R, Span(p, q))
    /\ \A R, k : SelOK(R, Token(k))
    /\ \A R : SelOK(R, Away) /\ SelOK(R, Structural)
<1>1. \A R, p : p \in 0..Len(R) => SelOK(R, Caret(p))
    BY DEF SelOK, Caret
<1>2. \A R, p, q : p \in 0..Len(R) /\ q \in 0..Len(R) /\ p < q => SelOK(R, Span(p, q))
    BY DEF SelOK, Span
<1>3. \A R, k : SelOK(R, Token(k))
    BY DEF SelOK, Token
<1>4. \A R : SelOK(R, Away) /\ SelOK(R, Structural)
    BY DEF SelOK, Away, Structural
<1> QED
    BY <1>1, <1>2, <1>3, <1>4

\* Closing some of the sessions (closeSession).
LEMMA ClosingSound ==
    ASSUME TriggersOK
    PROVE  /\ \A u, t \in Triggers : [trig EXCEPT ![u] = Shut][t] = trig[t] \/ [trig EXCEPT ![u] = Shut][t] = Shut
           /\ \A u \in Triggers : [trig EXCEPT ![u] = Shut] = [t \in Triggers |-> [trig EXCEPT ![u] = Shut][t]]
           /\ \A t \in Triggers : Ended[t] = trig[t] \/ Ended[t] = Shut
           /\ Ended = [t \in Triggers |-> Ended[t]]
           /\ trig = [t \in Triggers |-> trig[t]]
<1>1. trig = [t \in Triggers |-> trig[t]]
    BY DEF TriggersOK
<1>2. \A u, t \in Triggers : [trig EXCEPT ![u] = Shut][t] = trig[t] \/ [trig EXCEPT ![u] = Shut][t] = Shut
    BY <1>1
<1>3. \A u \in Triggers : [trig EXCEPT ![u] = Shut] = [t \in Triggers |-> [trig EXCEPT ![u] = Shut][t]]
    BY <1>1
<1>4. \A t \in Triggers : Ended[t] = trig[t] \/ Ended[t] = Shut
    BY DEF Ended
<1>5. Ended = [t \in Triggers |-> Ended[t]]
    BY DEF Ended
<1> QED
    BY <1>1, <1>2, <1>3, <1>4, <1>5

\* A date token of the note is a cell of it; the selected one is a date token.
LEMMA DatesSound ==
    ASSUME UpdateInv
    PROVE  /\ \A k \in Dates(row) : First(row, k) \in 1..Len(row) /\ row[First(row, k)].k = k
           /\ Selected # None => Selected \in Dates(row)
<1>1. ASSUME NEW k \in Dates(row)
      PROVE  First(row, k) \in 1..Len(row) /\ row[First(row, k)].k = k
  <2>1. row \in Seq(Cells)
    BY DEF UpdateInv, NoteOK
  <2>2. Indices(row, k) # {}
    BY DEF Dates, Indices
  <2> QED
    BY <2>1, <2>2, FirstIsFirst DEF Indices
<1>2. Selected # None => Selected \in Dates(row)
    BY DEF Selected
<1> QED
    BY <1>1, <1>2

\* A caret beside a token of the note.
LEMMA BesideSound ==
    ASSUME UpdateInv, NEW k \in Dates(row), NEW side
    PROVE  SelOK(row, Beside(row, k, side))
<1>1. First(row, k) \in 1..Len(row)
    BY DatesSound
<1>2. First(row, k) - 1 \in 0..Len(row) /\ First(row, k) \in 0..Len(row)
    BY <1>1
<1> QED
    BY <1>2, SelectionsSound DEF Beside

\* The target of a commit is the trigger before the caret, and the query its
\* popup shows lies between.
LEMMA TargetSound ==
    ASSUME UpdateInv, NEW t \in Triggers, Target(t) # 0
    PROVE  /\ trig[t].pin # None
           /\ sel.at = "caret" /\ sel.p \in 0..Len(row)
           /\ Target(t) \in 1..Len(row) /\ Target(t) <= sel.p
           /\ Reads(row, t, Target(t), sel.p)
           /\ trig[t].query = Query(row, Target(t), sel.p)
<1>1. trig[t].pin # None /\ InText(row, sel) /\ Target(t) = Pinned(row, t, sel.p, trig[t].pin)
    BY DEF Target
<1>2. sel.at = "caret" /\ sel.p \in 0..Len(row) /\ row \in Seq(Cells)
    BY <1>1 DEF InText, UpdateInv, NoteOK, SelOK
<1>3. trig[t].pin \in Pins
    BY <1>1 DEF UpdateInv, TriggersOK, SessionOK
<1>4. Target(t) \in 1..Len(row) /\ Reads(row, t, Target(t), sel.p)
    BY <1>1, <1>2, <1>3, PinnedReads
<1>5. trig[t].query = Query(row, Target(t), sel.p)
    BY <1>1 DEF UpdateInv, SessionsHold
<1>6. Target(t) <= sel.p
    BY <1>4 DEF Reads
<1> QED
    BY <1>1, <1>2, <1>4, <1>5, <1>6

\* The selection follows the insertion or the removal of one cell (Shifted).
LEMMA ShiftedSound ==
    ASSUME UpdateInv, NEW R, NEW i \in 1..(Len(row) + 1), NEW n \in {1, -1},
           Len(R) = Len(row) + n, n = -1 => i <= Len(row)
    PROVE  SelOK(R, Shifted(i, n))
<1> DEFINE move(p) == IF p >= i THEN p + n ELSE p
<1>1. SelOK(row, sel) /\ Len(row) \in Nat
    BY DEF UpdateInv, NoteOK
<1>2. ASSUME NEW p \in 0..Len(row) PROVE move(p) \in 0..Len(R)
    BY <1>1
<1>3. ASSUME NEW p \in 0..Len(row), NEW q \in 0..Len(row), p < q, move(p) # move(q)
      PROVE  move(p) < move(q)
    BY <1>1, <1>3
<1>4. Shifted(i, n) = CASE sel.at = "caret" -> Caret(move(sel.p))
                        [] sel.at = "range" -> IF move(sel.p) = move(sel.q) THEN Caret(move(sel.p))
                                               ELSE Span(move(sel.p), move(sel.q))
                        [] OTHER -> sel
    BY DEF Shifted
<1> HIDE DEF move
<1>5. CASE sel.at = "caret"
  <2>1. Shifted(i, n) = Caret(move(sel.p)) /\ sel.p \in 0..Len(row)
    BY <1>1, <1>4, <1>5 DEF SelOK
  <2> QED
    BY <1>2, <2>1, SelectionsSound
<1>6. CASE sel.at = "range"
  <2>1. sel.p \in 0..Len(row) /\ sel.q \in 0..Len(row) /\ sel.p < sel.q
    BY <1>1, <1>6 DEF SelOK
  <2>2. Shifted(i, n) = IF move(sel.p) = move(sel.q) THEN Caret(move(sel.p))
                        ELSE Span(move(sel.p), move(sel.q))
    BY <1>4, <1>6
  <2>3. move(sel.p) \in 0..Len(R) /\ move(sel.q) \in 0..Len(R)
    BY <1>2, <2>1
  <2>4. CASE move(sel.p) = move(sel.q)
    BY <2>2, <2>3, <2>4, SelectionsSound
  <2>5. CASE move(sel.p) # move(sel.q)
    <3>1. move(sel.p) < move(sel.q)
      BY <1>3, <2>1, <2>5
    <3> QED
      BY <2>2, <2>3, <2>5, <3>1, SelectionsSound
  <2> QED
    BY <2>4, <2>5
<1>7. CASE sel.at \notin {"caret", "range"}
  <2>1. Shifted(i, n) = sel
    BY <1>4, <1>7
  <2> QED
    BY <1>1, <1>7, <2>1 DEF SelOK
<1> QED
    BY <1>5, <1>6, <1>7
-----------------------------------------------------------------------------
(* The updates that the actions make                                       *)

\* The form in which ChangesSound is used: the triggers as they are.
LEMMA UpdateSound ==
    ASSUME UpdateInv, pressed' = pressed, NEW R \in Seq(Cells), NEW s, SelOK(R, s),
           Changes(R, s, trig)
    PROVE  UpdateInv'
    BY ChangesSound

\* A character arrives (Insert, Type).
LEMMA EntersSound ==
    ASSUME UpdateInv, pressed' = pressed, NEW c \in Chars, Enters(c)
    PROVE  UpdateInv'
<1>1. row \in Seq(Cells) /\ Len(row) <= MaxLength /\ SelOK(row, sel) /\ Len(row) \in Nat
    BY DEF UpdateInv, NoteOK
<1>2. CASE sel.at = "caret" /\ Update(Put(row, sel.p, c), Caret(sel.p + 1), trig)
  <2>1. sel.p \in 0..Len(row)
    BY <1>1, <1>2 DEF SelOK
  <2>2. Put(row, sel.p, c) \in Seq(Cells) /\ Len(Put(row, sel.p, c)) = Len(row) + 1
    BY <1>1, <2>1, PutSound
  <2>3. sel.p + 1 \in 0..Len(Put(row, sel.p, c))
    BY <1>1, <2>1, <2>2
  <2>4. SelOK(Put(row, sel.p, c), Caret(sel.p + 1))
    BY <2>3, SelectionsSound
  <2> QED
    BY <1>2, <2>2, <2>4, UpdateSound DEF Update
<1>3. CASE sel.at = "range" /\ Update(Put(Cut(row, sel.p + 1, sel.q), sel.p, c), Caret(sel.p + 1), trig)
  <2>1. sel.p \in 0..Len(row) /\ sel.q \in 0..Len(row) /\ sel.p < sel.q
    BY <1>1, <1>3 DEF SelOK
  <2>2. /\ Cut(row, sel.p + 1, sel.q) \in Seq(Cells)
        /\ Len(Cut(row, sel.p + 1, sel.q)) = Len(row) - (sel.q - (sel.p + 1) + 1)
    <3>1. sel.p + 1 \in Nat /\ sel.q \in Nat /\ sel.p + 1 >= 1 /\ sel.p + 1 <= sel.q + 1 /\ sel.q <= Len(row)
      BY <1>1, <2>1
    <3> QED
      BY <1>1, <3>1, CutSound
  <2> DEFINE C == Cut(row, sel.p + 1, sel.q)
  <2> HIDE DEF C
  <2>3. C \in Seq(Cells) /\ sel.p \in 0..Len(C) /\ Len(C) \in Nat
    BY <1>1, <2>1, <2>2 DEF C
  <2>4. Put(C, sel.p, c) \in Seq(Cells) /\ Len(Put(C, sel.p, c)) = Len(C) + 1
    BY <1>1, <2>3, PutSound
  <2>5. sel.p + 1 \in 0..Len(Put(C, sel.p, c))
    BY <2>3, <2>4
  <2>6. SelOK(Put(C, sel.p, c), Caret(sel.p + 1))
    BY <2>5, SelectionsSound
  <2> QED
    BY <1>3, <2>4, <2>6, UpdateSound DEF Update, C
<1> QED
    BY <1>2, <1>3 DEF Enters

\* Cells i to j are removed and the caret is put where they were.
LEMMA CutCaretSound ==
    ASSUME UpdateInv, pressed' = pressed, NEW i \in Nat, NEW j \in Nat, i >= 1, i <= j + 1, j <= Len(row),
           NEW X, \A t \in Triggers : X[t] = trig[t] \/ X[t] = Shut,
           Update(Cut(row, i, j), Caret(i - 1), X)
    PROVE  UpdateInv'
<1>1. row \in Seq(Cells) /\ Len(row) \in Nat
    BY DEF UpdateInv, NoteOK
<1>2. Cut(row, i, j) \in Seq(Cells) /\ Len(Cut(row, i, j)) = Len(row) - (j - i + 1)
    BY <1>1, CutSound
<1>3. i - 1 \in 0..Len(Cut(row, i, j))
    BY <1>1, <1>2
<1>4. SelOK(Cut(row, i, j), Caret(i - 1))
    BY <1>3, SelectionsSound
<1> QED
    BY <1>2, <1>4, ChangesSound DEF Update

\* Backspace and Delete (Erase).
LEMMA EraseSound ==
    ASSUME UpdateInv, NEW side, Erase(side)
    PROVE  UpdateInv'
<1>1. /\ row \in Seq(Cells) /\ Len(row) \in Nat /\ SelOK(row, sel) /\ pressed' = pressed
      /\ \A t \in Triggers : trig[t] = trig[t] \/ trig[t] = Shut
    BY DEF UpdateInv, NoteOK, Erase
<1>2. ASSUME NEW t \in Triggers, EraseTrigger(t) PROVE UpdateInv'
  <2> DEFINE i == Target(t)
             X == [trig EXCEPT ![t] = Shut]
  <2>1. i # 0 /\ Update(Cut(row, i, sel.p), Caret(i - 1), X)
    BY <1>2 DEF EraseTrigger
  <2>2. i \in 1..Len(row) /\ i <= sel.p /\ sel.p \in 0..Len(row)
    BY <2>1, TargetSound
  <2>3. \A u \in Triggers : X[u] = trig[u] \/ X[u] = Shut
    BY ClosingSound DEF UpdateInv
  <2>4. i \in Nat /\ sel.p \in Nat /\ i >= 1 /\ i <= sel.p + 1 /\ sel.p <= Len(row)
    BY <1>1, <2>2
  <2> HIDE DEF i, X
  <2> QED
    BY <1>1, <2>1, <2>3, <2>4, CutCaretSound
<1>3. CASE EraseDate(side)
  <2>1. CASE Selected # None /\ Update(Cut(row, First(row, Selected), First(row, Selected)),
                                       Caret(First(row, Selected) - 1), trig)
    <3>1. First(row, Selected) \in 1..Len(row)
      BY <2>1, DatesSound
    <3>2. First(row, Selected) \in Nat /\ First(row, Selected) >= 1
          /\ First(row, Selected) <= First(row, Selected) + 1 /\ First(row, Selected) <= Len(row)
      BY <1>1, <3>1
    <3> QED
      BY <1>1, <2>1, <3>2, CutCaretSound
  <2>2. CASE Update(row, Token(Adjacent(side)), trig)
    BY <1>1, <2>2, SelectionsSound, UpdateSound DEF Update
  <2> QED
    BY <1>3, <2>1, <2>2 DEF EraseDate
<1>4. CASE EraseText(side)
  <2>1. CASE sel.at = "range" /\ Update(Cut(row, sel.p + 1, sel.q), Caret(sel.p), trig)
    <3>1. /\ sel.p + 1 \in Nat /\ sel.q \in Nat /\ sel.p + 1 >= 1 /\ sel.p + 1 <= sel.q + 1
          /\ sel.q <= Len(row) /\ (sel.p + 1) - 1 = sel.p
      BY <1>1, <2>1 DEF SelOK
    <3> QED
      BY <1>1, <2>1, <3>1, CutCaretSound
  <2>2. CASE \E i \in 1..Len(row) : Update(Cut(row, i, i), Caret(i - 1), trig)
    <3>1. PICK i \in 1..Len(row) : Update(Cut(row, i, i), Caret(i - 1), trig)
      BY <2>2
    <3>2. i \in Nat /\ i >= 1 /\ i <= i + 1 /\ i <= Len(row)
      BY <1>1
    <3> QED
      BY <1>1, <3>1, <3>2, CutCaretSound
  <2> QED
    BY <1>4, <2>1, <2>2 DEF EraseText
<1> QED
    BY <1>2, <1>3, <1>4 DEF Erase

\* The cells behind p are cells, whatever node they join (Behind).
LEMMA BehindSound ==
    ASSUME row \in Seq(Cells), NEW p \in 0..Len(row), NEW k \in 1..MaxKeys
    PROVE  Behind(p, k) \in Seq(Cells) /\ Len(Behind(p, k)) = Len(row) - p
<1>1. Len(row) - p \in Nat
    OBVIOUS
<1>2. ASSUME NEW j \in 1..(Len(row) - p)
      PROVE  (IF row[p + j].k = row[p].k THEN [row[p + j] EXCEPT !.k = k] ELSE row[p + j]) \in Cells
  <2>1. p + j \in 1..Len(row)
    OBVIOUS
  <2>2. row[p + j] \in Cells
    BY <2>1, ElementOfSeq
  <2>3. [row[p + j] EXCEPT !.k = k] \in Cells
    BY <2>2 DEF Cells
  <2> QED
    BY <2>2, <2>3
<1> DEFINE cell(j) == IF row[p + j].k = row[p].k THEN [row[p + j] EXCEPT !.k = k] ELSE row[p + j]
<1>3. \A j \in 1..(Len(row) - p) : cell(j) \in Cells
    BY <1>2
<1>4. Behind(p, k) = [j \in 1..(Len(row) - p) |-> cell(j)]
    BY DEF Behind
<1> HIDE DEF cell
<1>5. /\ [j \in 1..(Len(row) - p) |-> cell(j)] \in Seq(Cells)
      /\ Len([j \in 1..(Len(row) - p) |-> cell(j)]) = Len(row) - p
    BY <1>1, <1>3, IsASeq
<1> QED
    BY <1>4, <1>5

\* A token and a space take the place of the trigger and its query (Commit).
LEMMA CommitSound ==
    ASSUME UpdateInv, pressed' = pressed, NEW t \in Triggers, Target(t) # 0, Commit(t)
    PROVE  UpdateInv'
<1> DEFINE i == Target(t)
           new == <<[c |-> TokenFor(t), k |-> FreshKey], [c |-> " ", k |-> OtherKey]>>
           A == SubSeq(row, 1, i - 1)
           B == Behind(sel.p, OtherKey)
           X == [trig EXCEPT ![t] = Shut]
<1>1. row \in Seq(Cells) /\ Len(row) \in Nat /\ Len(row) <= MaxLength
    BY DEF UpdateInv, NoteOK
<1>2. i \in 1..Len(row) /\ i <= sel.p /\ sel.p \in 0..Len(row)
    BY TargetSound
<1>3. new \in Seq(Cells) /\ Len(new) = 2
  <2>1. FreshKey \in 1..MaxKeys /\ OtherKey \in 1..MaxKeys
    BY <1>1, KeysAreFree
  <2>2. TokenFor(t) \in {"link", "date"}
    BY DEF TokenFor
  <2>3. [c |-> TokenFor(t), k |-> FreshKey] \in Cells /\ [c |-> " ", k |-> OtherKey] \in Cells
    BY <2>1, <2>2 DEF Cells, Chars
  <2>4. \A a, b \in Cells : <<a, b>> \in Seq(Cells) /\ Len(<<a, b>>) = 2
    OBVIOUS
  <2> QED
    BY <2>3, <2>4
<1>4. \A x \in 1..Len(row) : row[x] \in Cells
    BY <1>1, ElementOfSeq
<1>5. A \in Seq(Cells) /\ Len(A) = i - 1
  <2> HIDE DEF i
  <2> QED
    BY <1>1, <1>2, <1>4, SubSeqProperties
<1>6. B \in Seq(Cells) /\ Len(B) = Len(row) - sel.p
  <2> HIDE DEF i
  <2>1. OtherKey \in 1..MaxKeys
    BY <1>1, KeysAreFree
  <2> QED
    BY <1>1, <1>2, <1>4, <2>1, BehindSound
<1>7. Changes(A \o new \o B, Caret(i + 1), X)
    BY DEF Commit
<1>8. \A u \in Triggers : X[u] = trig[u] \/ X[u] = Shut
    BY ClosingSound DEF UpdateInv
<1> HIDE DEF i, new, A, B, X
<1>9. A \o new \in Seq(Cells) /\ Len(A \o new) = Len(A) + Len(new)
    BY <1>3, <1>5, ConcatCells
<1>10. (A \o new) \o B \in Seq(Cells) /\ Len((A \o new) \o B) = Len(A \o new) + Len(B)
    BY <1>6, <1>9, ConcatCells
<1>11. i + 1 \in 0..Len((A \o new) \o B)
    BY <1>1, <1>2, <1>3, <1>5, <1>6, <1>9, <1>10
<1>12. SelOK((A \o new) \o B, Caret(i + 1))
    BY <1>11, SelectionsSound
<1> QED
    BY <1>7, <1>8, <1>10, <1>12, ChangesSound

\* What a commit removes is what its popup showed.
LEMMA CommitRemovesWhatWasShown ==
    ASSUME UpdateInv, NEW t \in Triggers, Target(t) # 0, Commit(t)
    PROVE  ShownIsReplaced'
<1> DEFINE i == Target(t)
           p == sel.p
           q == Query(row, i, p)
           removed == [j \in 1..(p - i + 1) |-> row[i + j - 1].c]
<1>1. did' = [kind |-> "commit", shown |-> <<t>> \o trig[t].query, removed |-> removed]
    BY DEF Commit
<1>2. /\ row \in Seq(Cells) /\ i \in 1..Len(row) /\ i <= p /\ p \in 0..Len(row)
      /\ Reads(row, t, i, p) /\ trig[t].query = q
    BY TargetSound DEF UpdateInv, NoteOK
<1> HIDE DEF i, p
<1>3. q \in Seq(Chars) /\ Len(q) = p - i /\ \A j \in 1..(p - i) : q[j] = row[i + j].c
  <2>1. q \in Seq(Chars)
    BY <1>2, QueryTyped
  <2>2. p - i \in Nat
    BY <1>2
  <2> QED
    BY <2>1, <2>2 DEF Query
<1>4. row[i].c = t /\ t \in Chars /\ \A j \in i..p : row[j].c \in Chars
    BY <1>2 DEF Reads, IsText, Chars
<1>5. /\ removed \in Seq(Chars) /\ Len(removed) = p - i + 1
      /\ \A j \in 1..(p - i + 1) : removed[j] = row[i + j - 1].c
  <2>1. p - i + 1 \in Nat
    BY <1>2
  <2>2. \A j \in 1..(p - i + 1) : row[i + j - 1].c \in Chars
    <3> SUFFICES ASSUME NEW j \in 1..(p - i + 1) PROVE row[i + j - 1].c \in Chars
      OBVIOUS
    <3>1. i + j - 1 \in i..p
      BY <1>2
    <3> QED
      BY <1>4, <3>1
  <2> QED
    BY <2>1, <2>2, IsASeq
<1> HIDE DEF q, removed
<1>6. /\ <<t>> \in Seq(Chars) /\ Len(<<t>>) = 1 /\ <<t>>[1] = t
    BY <1>4
<1>7. /\ <<t>> \o q \in Seq(Chars) /\ Len(<<t>> \o q) = Len(<<t>>) + Len(q)
      /\ \A x \in 1..(Len(<<t>>) + Len(q)) :
            (<<t>> \o q)[x] = IF x <= Len(<<t>>) THEN <<t>>[x] ELSE q[x - Len(<<t>>)]
    BY <1>3, <1>6, ConcatProperties
<1>8. ASSUME NEW x \in 1..(p - i + 1) PROVE (<<t>> \o q)[x] = removed[x]
  <2>1. CASE x = 1
    <3>1. (<<t>> \o q)[1] = t
      BY <1>2, <1>3, <1>6, <1>7
    <3>2. removed[1] = row[i].c
      <4>1. 1 \in 1..(p - i + 1) /\ i + 1 - 1 = i
        BY <1>2
      <4> QED
        BY <1>5, <4>1
    <3> QED
      BY <1>4, <2>1, <3>1, <3>2
  <2>2. CASE x # 1
    <3>1. x - 1 \in 1..(p - i) /\ i + (x - 1) = i + x - 1 /\ x \in 1..(1 + (p - i)) /\ ~(x <= 1)
      BY <1>2, <2>2
    <3>2. (<<t>> \o q)[x] = q[x - 1]
      BY <1>3, <1>6, <1>7, <3>1
    <3>3. q[x - 1] = row[i + x - 1].c
      BY <1>3, <3>1
    <3> QED
      BY <1>5, <3>2, <3>3
  <2> QED
    BY <2>1, <2>2
<1>9. <<t>> \o q = removed
  <2> DEFINE shown == <<t>> \o q
  <2>1. shown \in Seq(Chars) /\ Len(shown) = p - i + 1
    BY <1>2, <1>3, <1>6, <1>7
  <2>2. removed \in Seq(Chars) /\ Len(removed) = p - i + 1
    BY <1>5
  <2>3. \A x \in 1..(p - i + 1) : shown[x] = removed[x]
    BY <1>8
  <2> HIDE DEF shown
  <2>4. shown = removed
    BY <2>1, <2>2, <2>3, SeqEqual
  <2> QED
    BY <2>4 DEF shown
<1>10. did'.shown = removed /\ did'.removed = removed
  <2>1. did'.shown = <<t>> \o q /\ did'.removed = removed
    BY <1>1, <1>2
  <2> QED
    BY <1>9, <2>1
<1> QED
    BY <1>10 DEF ShownIsReplaced
-----------------------------------------------------------------------------
(* The invariant                                                           *)

\* A step that is no commit shows nothing that could be replaced.
LEMMA NotACommit ==
    ASSUME did' = Other \/ did' = [kind |-> "erase"]
    PROVE  ShownIsReplaced'
    BY DEF ShownIsReplaced, Other

\* A press of a trigger key (PressTrigger).
LEMMA PressKeeps ==
    ASSUME PopupsInv, NEW t \in Triggers, PressTrigger(t)
    PROVE  PopupsInv'
<1> USE DEF PopupsInv, UpdateInv
<1>1. /\ trig' = (IF Arms(t) THEN [trig EXCEPT ![t].pending = TRUE] ELSE trig)
      /\ pressed' = [pressed EXCEPT ![t] = @ + 1] /\ did' = Other
      /\ row' = row /\ sel' = sel /\ opened' = opened
    BY DEF PressTrigger, Still
<1>2. NoteOK'
    BY <1>1 DEF NoteOK
<1>3. due' \in Dues
    BY DEF PressTrigger, Dues
<1>4. ShownIsReplaced'
    BY <1>1, NotACommit
<1>5. CASE ~Arms(t)
  <2>1. trig' = trig
    BY <1>1, <1>5
  <2>2. TriggersOK' /\ SessionsHold'
    BY <1>1, <2>1 DEF TriggersOK, SessionsHold, Target
  <2>3. PressesCount'
    BY <1>1, <2>1 DEF PressesCount
  <2> QED
    BY <1>2, <1>3, <1>4, <2>2, <2>3
<1>6. CASE Arms(t)
  <2> DEFINE Sessions == [pin : Pins \cup {None}, pending : BOOLEAN, query : Seq(Chars) \cup {None}]
  <2>1. trig \in [Triggers -> Sessions] /\ trig' = [trig EXCEPT ![t].pending = TRUE] /\ trig[t].pin = None
    BY <1>1, <1>6 DEF TriggersOK, Arms
  <2>2. \A u \in Triggers : u # t => trig'[u] = trig[u]
    BY <2>1
  <2>3. trig' \in [Triggers -> Sessions]
    BY <2>1
  <2>4. trig'[t].pin = trig[t].pin /\ trig'[t].query = trig[t].query
    BY <2>1
  <2>5. \A u \in Triggers : SessionOK(trig[u])
    BY DEF TriggersOK
  <2>6. ASSUME NEW u \in Triggers PROVE SessionOK(trig'[u])
    BY <2>1, <2>2, <2>3, <2>4, <2>5 DEF SessionOK
  <2>7. TriggersOK'
    BY <2>3, <2>6 DEF TriggersOK, SessionOK
  <2>8. SessionsHold'
    <3>1. ASSUME NEW u \in Triggers
          PROVE  /\ trig'[u].pin = None <=> trig'[u].query = None
                 /\ trig'[u].pin # None =>
                       Target(u)' # 0 /\ trig'[u].query = Query(row', Target(u)', sel'.p)
      <4>1. CASE u = t
        BY <2>1, <2>4, <2>6, <4>1 DEF SessionOK
      <4>2. CASE u # t
        BY <1>1, <2>2, <4>2 DEF SessionsHold, Target
      <4> QED
        BY <4>1, <4>2
    <3> QED
      BY <3>1 DEF SessionsHold
  <2>9. PressesCount'
    <3>1. /\ opened \in [Triggers -> Nat] /\ pressed \in [Triggers -> Nat]
          /\ \A u \in Triggers : opened[u] <= pressed[u] /\ (trig[u].pending => opened[u] < pressed[u])
      BY DEF PressesCount
    <3>2. pressed' \in [Triggers -> Nat] /\ pressed'[t] = pressed[t] + 1
      BY <1>1, <3>1
    <3>3. \A u \in Triggers : u # t => pressed'[u] = pressed[u]
      BY <1>1, <3>1
    <3>4. ASSUME NEW u \in Triggers
          PROVE  opened'[u] <= pressed'[u] /\ (trig'[u].pending => opened'[u] < pressed'[u])
      BY <1>1, <2>2, <3>1, <3>2, <3>3
    <3> QED
      BY <1>1, <3>1, <3>2, <3>4 DEF PressesCount
  <2> QED
    BY <1>2, <1>3, <1>4, <2>7, <2>8, <2>9
<1> QED
    BY <1>5, <1>6

\* The triggers with some of their sessions closed.
Closings == {trig, Ended} \cup {[trig EXCEPT ![t] = Shut] : t \in Triggers}

LEMMA ClosingsHold ==
    /\ trig \in Closings /\ Ended \in Closings
    /\ \A t \in Triggers : [trig EXCEPT ![t] = Shut] \in Closings
    BY DEF Closings

\* Sessions may close without an update (Still).
LEMMA ClosingKeeps ==
    ASSUME PopupsInv, trig' \in Closings, pressed' = pressed, due' \in Dues, Still, did' = Other
    PROVE  PopupsInv'
<1>1. UpdateInv /\ TriggersOK
    BY DEF PopupsInv, UpdateInv
<1>2. trig' = [t \in Triggers |-> trig'[t]] /\ \A t \in Triggers : trig'[t] = trig[t] \/ trig'[t] = Shut
    BY <1>1, ClosingSound DEF Closings
<1>3. UpdateInv'
    BY <1>1, <1>2, StillSound
<1> QED
    BY <1>3, NotACommit DEF PopupsInv

\* The selection may move within the note while sessions close.
LEMMA SelectingKeeps ==
    ASSUME PopupsInv, NEW s, SelOK(row, s), NEW X \in Closings, Changes(row, s, X),
           pressed' = pressed, due' \in Dues, did' = Other
    PROVE  PopupsInv'
<1>1. UpdateInv /\ TriggersOK /\ row \in Seq(Cells)
    BY DEF PopupsInv, UpdateInv, NoteOK
<1>2. \A t \in Triggers : X[t] = trig[t] \/ X[t] = Shut
    BY <1>1, ClosingSound DEF Closings
<1>3. UpdateInv'
    BY <1>1, <1>2, ChangesSound
<1> QED
    BY <1>3, NotACommit DEF PopupsInv

\* The calendar of a token is confirmed or left (ConfirmDate).
LEMMA ConfirmKeeps ==
    ASSUME PopupsInv, ConfirmDate, UNCHANGED <<pressed, due>>
    PROVE  PopupsInv'
<1>1. due' \in Dues /\ did' = Other /\ UpdateInv /\ trig \in Closings
    BY ClosingsHold DEF PopupsInv, ConfirmDate
<1>2. CASE edit \in Dates(row) /\ Update(row, Beside(row, edit, "after"), trig)
    BY <1>1, <1>2, BesideSound, SelectingKeeps DEF Update
<1>3. CASE Still /\ UNCHANGED trig
    BY <1>1, <1>3, ClosingKeeps
<1> QED
    BY <1>2, <1>3 DEF ConfirmDate

\* A commit (Commit).
LEMMA CommitKeeps ==
    ASSUME PopupsInv, NEW t \in Triggers, Target(t) # 0, Commit(t), UNCHANGED <<pressed, due>>
    PROVE  PopupsInv'
<1>1. UpdateInv'
    BY CommitSound DEF PopupsInv
<1>2. ShownIsReplaced'
    BY CommitRemovesWhatWasShown DEF PopupsInv
<1> QED
    BY <1>1, <1>2 DEF PopupsInv

\* What the keys do (Keys).
LEMMA KeysKeep ==
    ASSUME PopupsInv, Keys
    PROVE  PopupsInv'
<1>1. /\ UpdateInv /\ due \in Dues /\ row \in Seq(Cells) /\ Len(row) \in Nat /\ SelOK(row, sel)
      /\ TriggersOK
    BY DEF PopupsInv, UpdateInv, NoteOK
<1> USE DEF PopupsInv
<1>2. ASSUME NEW t \in Triggers, PressTrigger(t) PROVE PopupsInv'
    BY <1>2, PressKeeps
<1>3. ASSUME NEW c \in {"a", " "}, Type(c) PROVE PopupsInv'
  <2>1. UpdateInv'
    BY <1>1, <1>3, EntersSound DEF Type, Chars
  <2> QED
    BY <1>1, <1>3, <2>1, NotACommit DEF Type
<1>6. /\ \A t \in Triggers : [trig EXCEPT ![t] = Shut] \in Closings
      /\ trig \in Closings /\ Ended \in Closings
    BY <1>1, ClosingsHold
<1>4. ASSUME NEW side \in {"before", "after"}, Arrow(side) PROVE PopupsInv'
  <2>1. pressed' = pressed /\ due' = due /\ did' = Other
    BY <1>4 DEF Arrow
  <2>2. PICK s : SelOK(row, s) /\ Changes(row, s, trig)
    <3>1. CASE Selected # None /\ Update(row, Beside(row, Selected, side), trig)
      BY <1>1, <3>1, DatesSound, BesideSound DEF Update
    <3>2. CASE Update(row, Token(Adjacent(side)), trig)
      BY <3>2, SelectionsSound DEF Update
    <3>3. CASE \E p \in 0..Len(row) : Update(row, Caret(p), trig)
      BY <3>3, SelectionsSound DEF Update
    <3>4. CASE sel.at = "range" /\ Update(row, Caret(IF side = "before" THEN sel.p ELSE sel.q), trig)
      <4>1. (IF side = "before" THEN sel.p ELSE sel.q) \in 0..Len(row)
        BY <1>1, <3>4 DEF SelOK
      <4> QED
        BY <3>4, <4>1, SelectionsSound DEF Update
    <3> QED
      BY <1>4, <3>1, <3>2, <3>3, <3>4 DEF Arrow
  <2> QED
    BY <1>1, <1>6, <2>1, <2>2, SelectingKeeps
<1>5. ASSUME NEW side \in {"before", "after"}, Erase(side) PROVE PopupsInv'
  <2>1. UpdateInv'
    BY <1>1, <1>5, EraseSound
  <2> QED
    BY <1>1, <1>5, <2>1, NotACommit DEF Erase
<1>9. CASE Enter
  <2>1. pressed' = pressed /\ due' = due
    BY <1>9 DEF Enter
  <2>2. ASSUME NEW t \in Triggers, Target(t) # 0, Commit(t) PROVE PopupsInv'
    BY <2>1, <2>2, CommitKeeps
  <2>3. CASE trig' = [trig EXCEPT !["@"] = Shut] /\ did' = Other /\ Still
    BY <1>1, <1>6, <2>1, <2>3, ClosingKeeps DEF Triggers
  <2>4. CASE ConfirmDate
    BY <2>1, <2>4, ConfirmKeeps
  <2>5. CASE OpenEdit(Selected)
    BY <1>1, <1>6, <2>1, <2>5, ClosingKeeps DEF OpenEdit
  <2> QED
    BY <1>9, <2>2, <2>3, <2>4, <2>5 DEF Enter
<1>10. CASE SpaceOpens
    BY <1>1, <1>6, <1>10, ClosingKeeps DEF SpaceOpens, OpenEdit
<1>11. CASE Tab
  <2>1. pressed' = pressed /\ due' = due /\ did' = Other
    BY <1>11 DEF Tab
  <2>2. CASE edit \in Dates(row) /\ Update(row, Beside(row, edit, "after"), Ended)
    BY <1>1, <1>6, <2>1, <2>2, BesideSound, SelectingKeeps DEF Update
  <2>3. CASE Still /\ trig' = Ended
    BY <1>1, <1>6, <2>1, <2>3, ClosingKeeps
  <2> QED
    BY <1>11, <2>2, <2>3 DEF Tab
<1>12. CASE Escape
  <2>1. pressed' = pressed /\ due' = due /\ did' = Other
    BY <1>12 DEF Escape
  <2>2. ASSUME NEW t \in Triggers, trig' = [trig EXCEPT ![t] = Shut], Still PROVE PopupsInv'
    BY <1>1, <1>6, <2>1, <2>2, ClosingKeeps
  <2>3. CASE Still /\ UNCHANGED <<trig, menu>>
    BY <1>1, <1>6, <2>1, <2>3, ClosingKeeps
  <2>4. CASE ClearSelected
    BY <1>1, <1>6, <2>1, <2>4, DatesSound, BesideSound, SelectingKeeps DEF ClearSelected, Update
  <2>5. CASE Update(row, Structural, trig)
    BY <1>1, <1>6, <2>1, <2>5, SelectionsSound, SelectingKeeps DEF Update
  <2> QED
    BY <1>12, <2>2, <2>3, <2>4, <2>5 DEF Escape
<1>13. CASE DoubleShift
    BY <1>1, <1>6, <1>13, ClosingKeeps DEF DoubleShift
<1>14. CASE MenuShortcut
    BY <1>1, <1>6, <1>14, ClosingKeeps DEF MenuShortcut, RunItem
<1> QED
    BY <1>2, <1>3, <1>4, <1>5, <1>9, <1>10, <1>11, <1>12, <1>13, <1>14 DEF Keys

\* What the pointer does (Pointer).
LEMMA PointerKeeps ==
    ASSUME PopupsInv, Pointer
    PROVE  PopupsInv'
<1>1. UpdateInv /\ due \in Dues /\ trig \in Closings /\ Ended \in Closings
    BY ClosingsHold DEF PopupsInv
<1>2. CASE PressMenuButton
    BY <1>1, <1>2, ClosingKeeps DEF PressMenuButton
<1>3. CASE PressOutside
    BY <1>1, <1>3, ClosingKeeps DEF PressOutside
<1>4. CASE PressOption
    BY <1>4, CommitKeeps DEF PressOption, Triggers
<1>5. ASSUME NEW s \in Selections, PressText(s) PROVE PopupsInv'
  <2>1. SelOK(row, s)
    <3>1. row \in Seq(Cells) /\ Len(row) \in Nat
      BY <1>1 DEF UpdateInv, NoteOK
    <3>2. row # <<>> => 0 < Len(row)
      BY <3>1
    <3>3. CASE s \in {Caret(p) : p \in 0..Len(row)} \cup {Away}
      BY <3>3, SelectionsSound
    <3>4. CASE row # <<>> /\ s = Span(0, Len(row))
      <4>1. 0 \in 0..Len(row) /\ Len(row) \in 0..Len(row) /\ 0 < Len(row)
        BY <3>1, <3>2, <3>4
      <4> QED
        BY <3>4, <4>1, SelectionsSound
    <3> QED
      BY <3>3, <3>4 DEF Selections
  <2> QED
    BY <1>1, <1>5, <2>1, SelectingKeeps DEF PressText
<1>6. ASSUME NEW k \in Dates(row), PressToken(k) PROVE PopupsInv'
  <2>1. k \in 1..MaxKeys
    <3>1. row \in Seq(Cells)
      BY <1>1 DEF UpdateInv, NoteOK
    <3>2. \A j \in 1..Len(row) : row[j] \in Cells
      BY <3>1, ElementOfSeq
    <3>3. PICK j \in 1..Len(row) : row[j].k = k
      BY DEF Dates
    <3> QED
      BY <3>2, <3>3 DEF Cells
  <2>2. due' \in Dues
    BY <1>6, <2>1 DEF PressToken, Dues
  <2> QED
    BY <1>1, <1>6, <2>2, SelectionsSound, SelectingKeeps DEF PressToken
<1> QED
    BY <1>2, <1>3, <1>4, <1>5, <1>6 DEF Pointer

\* What the calendars and the menu do with focus (Popup).
LEMMA PopupKeeps ==
    ASSUME PopupsInv, Popup
    PROVE  PopupsInv'
<1>1. /\ due \in Dues /\ trig \in Closings /\ Ended \in Closings
      /\ \A t \in Triggers : [trig EXCEPT ![t] = Shut] \in Closings
    BY ClosingsHold DEF PopupsInv
<1>2. CASE CalendarTakesFocus
    BY <1>1, <1>2, ClosingKeeps DEF CalendarTakesFocus
<1>3. CASE CalendarGone
    BY <1>1, <1>3, ClosingKeeps DEF CalendarGone
<1>4. CASE InsertPicked
    BY <1>4, CommitKeeps DEF InsertPicked, InCalendar, Triggers
<1>5. CASE EditPicked \/ CancelEdit
    BY <1>5, ConfirmKeeps DEF EditPicked, CancelEdit, InCalendar
<1>6. CASE CancelInsert
    BY <1>1, <1>6, ClosingKeeps DEF CancelInsert, InCalendar, Triggers
<1>7. CASE MenuTakesFocus
    BY <1>1, <1>7, ClosingKeeps DEF MenuTakesFocus
<1>8. CASE MenuDone
    BY <1>1, <1>8, ClosingKeeps DEF MenuDone, RunItem
<1> QED
    BY <1>2, <1>3, <1>4, <1>5, <1>6, <1>7, <1>8 DEF Popup

\* What another client does (Remote).
LEMMA RemoteKeeps ==
    ASSUME PopupsInv, Remote
    PROVE  PopupsInv'
<1>1. /\ UpdateInv /\ due \in Dues /\ row \in Seq(Cells) /\ Len(row) \in Nat
      /\ Len(row) <= MaxLength /\ SelOK(row, sel)
    BY DEF PopupsInv, UpdateInv, NoteOK
<1>2. ASSUME NEW R \in Seq(Cells), NEW s, SelOK(R, s), Update(R, s, trig), did' = Other,
             UNCHANGED <<edit, focus, due, pressed>>
      PROVE  PopupsInv'
  <2>1. UpdateInv'
    BY <1>1, <1>2, UpdateSound DEF Update
  <2> QED
    BY <1>1, <1>2, <2>1, NotACommit DEF PopupsInv
<1>3. ASSUME NEW i \in 0..Len(row), RemoteInsert(i, "@") PROVE PopupsInv'
  <2> DEFINE R == Put(row, i, "@")
  <2>1. R \in Seq(Cells) /\ Len(R) = Len(row) + 1
    BY <1>1, PutSound DEF Chars, Triggers
  <2>2. i + 1 \in 1..(Len(row) + 1)
    BY <1>1
  <2>3. Update(R, Shifted(i + 1, 1), trig) /\ did' = Other /\ UNCHANGED <<edit, focus, due, pressed>>
    BY <1>3 DEF RemoteInsert
  <2> HIDE DEF R
  <2>4. SelOK(R, Shifted(i + 1, 1))
    BY <1>1, <2>1, <2>2, ShiftedSound
  <2> QED
    BY <1>2, <2>1, <2>3, <2>4
<1>4. ASSUME NEW i \in 1..Len(row), RemoteDelete(i) PROVE PopupsInv'
  <2> DEFINE R == Cut(row, i, i)
  <2>1. i \in Nat /\ i >= 1 /\ i <= i + 1 /\ i <= Len(row) /\ i \in 1..(Len(row) + 1)
    BY <1>1
  <2>2. R \in Seq(Cells) /\ Len(R) = Len(row) - (i - i + 1)
    BY <1>1, <2>1, CutSound
  <2>3. Update(R, Shifted(i, -1), trig) /\ did' = Other /\ UNCHANGED <<edit, focus, due, pressed>>
    BY <1>4 DEF RemoteDelete
  <2> HIDE DEF R
  <2>4. Len(R) = Len(row) + (-1)
    BY <1>1, <2>1, <2>2
  <2>5. SelOK(R, Shifted(i, -1))
    BY <1>1, <2>1, <2>4, ShiftedSound
  <2> QED
    BY <1>2, <2>2, <2>3, <2>5
<1>5. ASSUME NEW i \in 1..Len(row), RemoteFormat(i) PROVE PopupsInv'
  <2> DEFINE cell(j) == IF j >= i /\ row[j].k = row[i].k THEN [row[j] EXCEPT !.k = FreshKey] ELSE row[j]
             R == [j \in 1..Len(row) |-> cell(j)]
  <2>1. FreshKey \in 1..MaxKeys
    BY <1>1, KeysAreFree
  <2>2. \A j \in 1..Len(row) : row[j] \in Cells
    BY <1>1, ElementOfSeq
  <2>3. \A j \in 1..Len(row) : cell(j) \in Cells
    BY <2>1, <2>2 DEF Cells
  <2>4. Update(R, sel, trig) /\ did' = Other /\ UNCHANGED <<edit, focus, due, pressed>>
    BY <1>5 DEF RemoteFormat
  <2> HIDE DEF cell
  <2>5. R \in Seq(Cells) /\ Len(R) = Len(row)
    BY <1>1, <2>3, IsASeq
  <2>6. SelOK(R, sel)
    BY <1>1, <2>5 DEF SelOK
  <2> HIDE DEF R
  <2> QED
    BY <1>2, <2>4, <2>5, <2>6
<1> QED
    BY <1>3, <1>4, <1>5 DEF Remote

\* Every step keeps the invariant.
LEMMA NextKeeps ==
    ASSUME PopupsInv, [Next]_vars
    PROVE  PopupsInv'
<1>1. UpdateInv /\ due \in Dues /\ row \in Seq(Cells)
    BY DEF PopupsInv, UpdateInv, NoteOK
<1>2. CASE Insert
  <2>1. due.c \in Chars
    BY <1>1, <1>2 DEF Insert, Dues, Chars
  <2>2. UpdateInv'
    BY <1>1, <1>2, <2>1, EntersSound DEF Insert
  <2>3. due' \in Dues
    BY <1>2 DEF Insert, Dues
  <2> QED
    BY <1>2, <2>2, <2>3, NotACommit DEF PopupsInv, Insert
<1>3. CASE Click
  <2>1. due' \in Dues /\ trig \in Closings
    BY <1>3, ClosingsHold DEF Click, Dues
  <2>2. CASE Update(row, Token(due.k), trig)
    BY <1>3, <2>1, <2>2, SelectionsSound, SelectingKeeps DEF Click, Update
  <2>3. CASE Still /\ UNCHANGED trig
    BY <1>3, <2>1, <2>3, ClosingKeeps DEF Click
  <2> QED
    BY <1>3, <2>2, <2>3 DEF Click
<1>4. CASE UNCHANGED vars
    BY <1>4 DEF vars, PopupsInv, UpdateInv, NoteOK, TriggersOK, PressesCount, SessionsHold, Target, ShownIsReplaced
<1> QED
    BY <1>2, <1>3, <1>4, KeysKeep, PointerKeeps, PopupKeeps, RemoteKeeps DEF Next

\* The sessions hold, the presses count and the commits are true, for any notes.
THEOREM PopupsInvHolds == Spec => []PopupsInv
<1>1. Init => PopupsInv
  <2> SUFFICES ASSUME Init PROVE PopupsInv
    OBVIOUS
  <2>1. row \in Seq(Cells) /\ Len(row) <= MaxLength /\ Len(row) \in Nat
    BY RowsAssumption DEF Init, RowsAssumption
  <2>2. 0 \in 0..Len(row) /\ Len(row) \in 0..Len(row)
    BY <2>1
  <2>3. SelOK(row, sel)
    BY <2>2, SelectionsSound DEF Init
  <2>4. \A t \in Triggers : trig[t] = Shut
    BY DEF Init, AllShut
  <2>5. TriggersOK
    <3>1. \A t \in Triggers : SessionOK(trig[t])
      BY <2>4, ShutIsSound
    <3>2. Shut \in [pin : Pins \cup {None}, pending : BOOLEAN, query : Seq(Chars) \cup {None}]
      BY DEF Shut
    <3> QED
      BY <3>1, <3>2 DEF TriggersOK, Init, AllShut, SessionOK
  <2>6. PressesCount
    BY <2>4 DEF PressesCount, Init, Shut
  <2>7. SessionsHold
    BY <2>4 DEF SessionsHold, Shut
  <2>8. due \in Dues /\ ShownIsReplaced
    BY DEF Init, Dues, ShownIsReplaced, Other
  <2> QED
    BY <2>1, <2>3, <2>5, <2>6, <2>7, <2>8 DEF PopupsInv, UpdateInv, NoteOK
<1>2. PopupsInv /\ [Next]_vars => PopupsInv'
    BY NextKeeps
<1> QED
    BY <1>1, <1>2, PTL DEF Spec

\* An open session always has its trigger and its query before the caret.
THEOREM SessionsHoldAlways == Spec => []SessionsHold
    BY PopupsInvHolds, PTL DEF PopupsInv, UpdateInv

\* A press of a trigger opens at most one session, and none once it is spent;
\* at which trigger of the note it opens one is not said.
THEOREM PressesOpenAtMostOnce == Spec => []PressesOpenOnce
<1>1. ASSUME PopupsInv, NEW t \in Triggers
      PROVE  opened[t] + (IF trig[t].pending THEN 1 ELSE 0) <= pressed[t]
  <2>1. /\ opened[t] \in Nat /\ pressed[t] \in Nat /\ opened[t] <= pressed[t]
        /\ trig[t].pending => opened[t] < pressed[t]
    <3>1. /\ opened \in [Triggers -> Nat] /\ pressed \in [Triggers -> Nat]
          /\ opened[t] <= pressed[t] /\ (trig[t].pending => opened[t] < pressed[t])
      BY <1>1 DEF PopupsInv, UpdateInv, PressesCount
    <3> QED
      BY <3>1
  <2> QED
    BY <2>1
<1>2. PopupsInv => PressesOpenOnce
    BY <1>1 DEF PressesOpenOnce
<1> QED
    BY <1>2, PopupsInvHolds, PTL

\* A commit replaces the trigger and the query that its popup showed.
THEOREM CommitsReplaceWhatIsShown == Spec => []ShownIsReplaced
    BY PopupsInvHolds, PTL DEF PopupsInv
-----------------------------------------------------------------------------
(* Date tokens                                                             *)

\* A date token outside what is cut out stays.
LEMMA CutKeepsDates ==
    ASSUME NEW R \in Seq(Cells), NEW i \in Nat, NEW j \in Nat, i >= 1, i <= j + 1, j <= Len(R),
           NEW d \in 1..Len(R), R[d].c = "date", d < i \/ d > j
    PROVE  R[d].k \in Dates(Cut(R, i, j))
<1>1. /\ Len(R) \in Nat /\ Len(Cut(R, i, j)) = Len(R) - (j - i + 1)
      /\ \A x \in 1..Len(R) : x < i => Cut(R, i, j)[x] = R[x]
      /\ \A x \in 1..Len(R) : x > j => Cut(R, i, j)[x - (j - i + 1)] = R[x]
  <2>1. Len(R) \in Nat
    OBVIOUS
  <2> QED
    BY <2>1, CutSound
<1>2. \E x \in 1..Len(Cut(R, i, j)) : Cut(R, i, j)[x] = R[d]
  <2>1. CASE d < i
    <3>1. d \in 1..Len(Cut(R, i, j)) /\ Cut(R, i, j)[d] = R[d]
      BY <1>1, <2>1
    <3> QED
      BY <3>1
  <2>2. CASE d > j
    <3>1. d - (j - i + 1) \in 1..Len(Cut(R, i, j)) /\ Cut(R, i, j)[d - (j - i + 1)] = R[d]
      BY <1>1, <2>2
    <3> QED
      BY <3>1
  <2> QED
    BY <2>1, <2>2
<1> QED
    BY <1>2 DEF Dates

\* A calendar over a token is only open while a token is selected.
CalendarOverToken == edit # None => sel.at = "token"

\* No step opens a calendar without a token selected, or leaves the token with the
\* calendar open (OpenEdit, Click; all that moves the selection).
LEMMA CalendarStaysOverToken ==
    ASSUME CalendarOverToken, Next
    PROVE  CalendarOverToken'
<1>1. \A t : Target(t) # 0 => sel.at = "caret"
    BY DEF Target, InText
<1>2. sel.at \in {"caret", "range"} => edit = None
    BY DEF CalendarOverToken
<1>3. ASSUME edit' = None \/ sel'.at = "token" \/ (edit' = edit /\ (edit = None \/ sel' = sel))
      PROVE  CalendarOverToken'
    BY <1>3 DEF CalendarOverToken
<1>4. \A c : Enters(c) => edit = None
    BY <1>2 DEF Enters
<1>5. \A t : Target(t) # 0 => edit = None
    BY <1>1, <1>2
<1>6. ConfirmDate => edit' = None
    BY DEF ConfirmDate
<1>7. \A k : OpenEdit(k) => sel' = sel
    BY DEF OpenEdit, Still
<1>8. Selected # None => sel.at = "token"
    BY DEF Selected
<1>9. CASE Keys
  <2>1. ASSUME NEW t, PressTrigger(t) PROVE CalendarOverToken'
    BY <1>3, <2>1 DEF PressTrigger, Still
  <2>2. ASSUME NEW c, Type(c) PROVE CalendarOverToken'
    BY <1>3, <1>4, <2>2 DEF Type
  <2>3. ASSUME NEW side, Arrow(side) PROVE CalendarOverToken'
    BY <1>2, <1>3, <2>3 DEF Arrow
  <2>4. ASSUME NEW side, Erase(side) PROVE CalendarOverToken'
    <3>1. edit' = edit
      BY <2>4 DEF Erase
    <3>2. edit = None
      BY <1>2, <1>5, <2>4 DEF Erase, EraseTrigger, EraseText
    <3> QED
      BY <1>3, <3>1, <3>2
  <2>5. CASE Enter
    <3>1. CASE UNCHANGED edit /\ \E t \in Triggers : Target(t) # 0
      BY <1>3, <1>5, <3>1
    <3>2. CASE ConfirmDate
      BY <1>3, <1>6, <3>2
    <3>3. CASE Selected # None /\ OpenEdit(Selected)
      <4>1. sel'.at = "token"
        BY <1>7, <1>8, <3>3
      <4> QED
        BY <1>3, <4>1
    <3> QED
      BY <2>5, <3>1, <3>2, <3>3 DEF Enter, Triggers
  <2>6. CASE SpaceOpens
    <3>1. sel'.at = "token"
      BY <1>7, <1>8, <2>6 DEF SpaceOpens
    <3> QED
      BY <1>3, <3>1
  <2>7. CASE Tab
    BY <1>3, <2>7 DEF Tab
  <2>8. CASE Escape
    BY <1>3, <2>8 DEF Escape, ClearSelected, Still
  <2>9. CASE DoubleShift \/ MenuShortcut
    BY <1>3, <2>9 DEF DoubleShift, MenuShortcut, RunItem, Still
  <2> QED
    BY <1>9, <2>1, <2>2, <2>3, <2>4, <2>5, <2>6, <2>7, <2>8, <2>9 DEF Keys
<1>10. CASE Insert
    BY <1>3, <1>4, <1>10 DEF Insert
<1>11. CASE Click
  <2>1. Token(due.k).at = "token"
    BY DEF Token
  <2> QED
    BY <1>3, <1>11, <2>1 DEF Click, Update, Changes, Still
<1>12. CASE Pointer
  <2>1. CASE PressMenuButton
    BY <1>3, <2>1 DEF PressMenuButton, Still
  <2>2. PressCloses => CalendarOverToken'
    BY <1>3 DEF PressCloses
  <2>3. PressOutside \/ PressOption => PressCloses
    BY DEF PressOutside, PressOption
  <2>4. \A s : PressText(s) \/ PressToken(s) => PressCloses
    BY DEF PressText, PressToken
  <2> QED
    BY <1>12, <2>1, <2>2, <2>3, <2>4 DEF Pointer
<1>13. CASE Popup
  <2>1. CASE CalendarTakesFocus \/ CalendarGone \/ CancelInsert
    BY <1>3, <2>1 DEF CalendarTakesFocus, CalendarGone, CancelInsert, Still
  <2>2. CASE MenuTakesFocus \/ MenuDone
    BY <1>3, <2>2 DEF MenuTakesFocus, MenuDone, RunItem, Still
  <2>3. CASE InsertPicked
    BY <1>3, <1>5, <2>3 DEF InsertPicked
  <2>4. CASE EditPicked \/ CancelEdit
    BY <1>3, <1>6, <2>4 DEF EditPicked, CancelEdit
  <2> QED
    BY <1>13, <2>1, <2>2, <2>3, <2>4 DEF Popup
<1>14. CASE Remote
  <2>1. \A i, n : sel.at = "token" => Shifted(i, n) = sel
    BY DEF Shifted
  <2>2. ASSUME NEW i, RemoteInsert(i, "@") PROVE CalendarOverToken'
    BY <1>3, <2>1, <2>2 DEF RemoteInsert, Update, Changes, CalendarOverToken
  <2>3. ASSUME NEW i, RemoteDelete(i) PROVE CalendarOverToken'
    BY <1>3, <2>1, <2>3 DEF RemoteDelete, Update, Changes, CalendarOverToken
  <2>4. ASSUME NEW i, RemoteFormat(i) PROVE CalendarOverToken'
    <3>1. edit' = edit /\ sel' = sel
      BY <2>4 DEF RemoteFormat, Update, Changes
    <3> QED
      BY <1>3, <3>1
  <2> QED
    BY <1>14, <2>2, <2>3, <2>4 DEF Remote
<1> QED
    BY <1>9, <1>10, <1>11, <1>12, <1>13, <1>14 DEF Next

\* A calendar over a token needs a token selected: while one is open, Backspace and
\* Delete have no caret beside another token to work on.
THEOREM CalendarsStandOverTokens == Spec => []CalendarOverToken
<1>1. Init => CalendarOverToken
    BY DEF Init, CalendarOverToken
<1>2. CalendarOverToken /\ [Next]_vars => CalendarOverToken'
  <2>1. CalendarOverToken /\ UNCHANGED vars => CalendarOverToken'
    BY DEF CalendarOverToken, vars
  <2> QED
    BY <2>1, CalendarStaysOverToken
<1> QED
    BY <1>1, <1>2, PTL DEF Spec

\* A date token at the caret is the adjacent one ($resolveAdjacentDateToken).
LEMMA DatesAtTheCaretAreAdjacent ==
    ASSUME NoteOK, NEW side \in {"before", "after"}, sel.at = "caret",
           LET i == IF side = "before" THEN sel.p ELSE sel.p + 1
           IN  i \in 1..Len(row) /\ row[i].c = "date"
    PROVE  Adjacent(side) # None
<1> DEFINE i == IF side = "before" THEN sel.p ELSE sel.p + 1
           blank(a, b) == \A x \in a..b : row[x] = [c |-> " ", k |-> AnchorKey(row, sel.p)]
           near == {d \in 1..Len(row) :
                       /\ row[d].c = "date"
                       /\ IF side = "before" THEN d <= sel.p /\ blank(d + 1, sel.p)
                          ELSE d > sel.p /\ blank(sel.p + 1, d - 1)}
<1>1. i \in 1..Len(row) /\ row[i].c = "date" /\ sel.p \in Int /\ row \in Seq(Cells)
    BY DEF NoteOK, SelOK
<1>2. IF side = "before" THEN i <= sel.p /\ blank(i + 1, sel.p) ELSE i > sel.p /\ blank(sel.p + 1, i - 1)
  <2>1. CASE side = "before"
    <3>1. i = sel.p /\ i <= sel.p /\ \A x \in (i + 1)..sel.p : FALSE
      BY <1>1, <2>1
    <3>2. blank(i + 1, sel.p)
      BY <3>1
    <3> HIDE DEF i, blank
    <3> QED
      BY <2>1, <3>1, <3>2
  <2>2. CASE side = "after"
    <3>1. i = sel.p + 1 /\ i > sel.p /\ \A x \in (sel.p + 1)..(i - 1) : FALSE
      BY <1>1, <2>2
    <3>2. blank(sel.p + 1, i - 1)
      BY <3>1
    <3>3. side # "before"
      BY <2>2
    <3> HIDE DEF i, blank
    <3> QED
      BY <3>1, <3>2, <3>3
  <2> QED
    BY <2>1, <2>2
<1>3. i \in near
    BY <1>1, <1>2
<1>4. Adjacent(side) = row[CHOOSE d \in near : TRUE].k
    BY <1>3 DEF Adjacent
<1>5. (CHOOSE d \in near : TRUE) \in 1..Len(row)
  <2>1. near \subseteq 1..Len(row)
    OBVIOUS
  <2> HIDE DEF near
  <2> QED
    BY <1>3, <2>1
<1> DEFINE d == CHOOSE x \in near : TRUE
<1> HIDE DEF near
<1>6. d \in 1..Len(row) /\ Adjacent(side) = row[d].k
    BY <1>4, <1>5
<1> HIDE DEF d
<1>7. row[d] \in Cells
    BY <1>1, <1>6, ElementOfSeq
<1>8. row[d].k \in 1..MaxKeys /\ None \notin 1..MaxKeys
    BY <1>7, NoneAssumption DEF Cells, NoneAssumption
<1> QED
    BY <1>6, <1>8

\* Backspace and Delete take no date token that was not selected (Erase).
LEMMA EraseSparesDates ==
    ASSUME UpdateInv, CalendarOverToken, NEW side \in {"before", "after"}, Erase(side), sel.at # "range"
    PROVE  Dates(row) \subseteq Dates(row') \cup {Selected}
<1> SUFFICES ASSUME NEW d \in 1..Len(row), row[d].c = "date"
             PROVE  row[d].k \in Dates(row') \cup {Selected}
    BY DEF Dates
<1>1. row \in Seq(Cells) /\ Len(row) \in Nat
    BY DEF UpdateInv, NoteOK
<1>2. row[d].k \in Dates(row) /\ ~IsText(row[d])
    BY DEF Dates, IsText, Chars, Triggers
<1>3. ASSUME NEW t \in Triggers, EraseTrigger(t) PROVE row[d].k \in Dates(row')
  <2> DEFINE i == Target(t)
  <2>1. i # 0 /\ row' = Cut(row, i, sel.p)
    BY <1>3 DEF EraseTrigger, Update, Changes
  <2>2. i \in 1..Len(row) /\ i <= sel.p /\ sel.p \in 0..Len(row) /\ \A j \in i..sel.p : IsText(row[j])
    BY <2>1, TargetSound DEF Reads
  <2> HIDE DEF i
  <2>3. i \in Nat /\ sel.p \in Nat /\ i >= 1 /\ i <= sel.p + 1 /\ sel.p <= Len(row)
    BY <1>1, <2>2
  <2>4. d < i \/ d > sel.p
    BY <1>2, <2>2
  <2> QED
    BY <1>1, <2>1, <2>3, <2>4, CutKeepsDates
<1>4. ASSUME NEW i \in 1..Len(row), row' = Cut(row, i, i), d # i PROVE row[d].k \in Dates(row')
  <2>1. i \in Nat /\ i >= 1 /\ i <= i + 1 /\ i <= Len(row) /\ (d < i \/ d > i)
    BY <1>1, <1>4
  <2> QED
    BY <1>1, <1>4, <2>1, CutKeepsDates
<1>5. CASE EraseDate(side)
  <2>1. CASE Selected # None /\ row' = Cut(row, First(row, Selected), First(row, Selected))
    <3>1. First(row, Selected) \in 1..Len(row) /\ row[First(row, Selected)].k = Selected
      BY <2>1, DatesSound
    <3> QED
      BY <1>4, <2>1, <3>1
  <2>2. CASE row' = row
    BY <1>2, <2>2
  <2> QED
    BY <1>5, <2>1, <2>2 DEF EraseDate, Update, Changes
<1>7. ASSUME EraseText(side), edit = None => Adjacent(side) = None PROVE row[d].k \in Dates(row')
  <2> DEFINE i == IF side = "before" THEN sel.p ELSE sel.p + 1
  <2>1. sel.at = "caret" /\ i \in 1..Len(row) /\ row' = Cut(row, i, i)
    BY <1>7 DEF EraseText, Update, Changes
  <2>2. Adjacent(side) = None
    BY <1>7, <2>1 DEF CalendarOverToken
  <2>3. row[i].c # "date"
    BY <2>1, <2>2, DatesAtTheCaretAreAdjacent DEF UpdateInv
  <2> HIDE DEF i
  <2> QED
    BY <1>2, <1>4, <2>1, <2>3
<1> QED
    BY <1>3, <1>5, <1>7 DEF Erase

\* Only Backspace and Delete are recorded as such.
LEMMA OnlyErasesErase ==
    ASSUME Next, did'.kind = "erase"
    PROVE  \E side \in {"before", "after"} : Erase(side)
<1>1. Other.kind # "erase" /\ did' # Other
    BY DEF Other
<1>2. \A t : ~Commit(t)
  <2> SUFFICES ASSUME NEW t, Commit(t) PROVE FALSE
    OBVIOUS
  <2> DEFINE removed == [j \in 1..(sel.p - Target(t) + 1) |-> row[Target(t) + j - 1].c]
             shown == <<t>> \o trig[t].query
  <2>1. did' = [kind |-> "commit", shown |-> shown, removed |-> removed]
    BY DEF Commit
  <2> HIDE DEF removed, shown
  <2>2. did'.kind = "commit"
    BY <2>1
  <2> QED
    BY <2>2
<1>3. ~ConfirmDate /\ \A k : ~OpenEdit(k)
    BY <1>1 DEF ConfirmDate, OpenEdit
<1>4. \A c : ~PressTrigger(c) /\ ~Type(c) /\ ~Arrow(c)
    BY <1>1 DEF PressTrigger, Type, Arrow
<1>5. ~Enter /\ ~SpaceOpens /\ ~Tab /\ ~Escape /\ ~DoubleShift /\ ~MenuShortcut
  <2>1. ~Enter
    BY <1>1, <1>2, <1>3 DEF Enter
  <2>2. ~SpaceOpens /\ ~Tab /\ ~Escape
    BY <1>1, <1>3 DEF SpaceOpens, Tab, Escape
  <2>3. ~DoubleShift /\ ~MenuShortcut
    BY <1>1 DEF DoubleShift, MenuShortcut, RunItem
  <2> QED
    BY <2>1, <2>2, <2>3
<1>6. ~Insert /\ ~Click
    BY <1>1 DEF Insert, Click
<1>7. ~Pointer
  <2>1. ~PressMenuButton /\ ~PressOutside /\ ~PressOption
    BY <1>1, <1>2 DEF PressMenuButton, PressOutside, PressOption
  <2>2. \A s : ~PressText(s) /\ ~PressToken(s)
    BY <1>1 DEF PressText, PressToken
  <2> QED
    BY <2>1, <2>2 DEF Pointer
<1>8. ~Popup
  <2>1. ~CalendarTakesFocus /\ ~CalendarGone /\ ~CancelInsert
    BY <1>1 DEF CalendarTakesFocus, CalendarGone, CancelInsert
  <2>2. ~InsertPicked /\ ~EditPicked /\ ~CancelEdit
    BY <1>2, <1>3 DEF InsertPicked, EditPicked, CancelEdit
  <2>3. ~MenuTakesFocus /\ ~MenuDone
    BY <1>1 DEF MenuTakesFocus, MenuDone, RunItem
  <2> QED
    BY <2>1, <2>2, <2>3 DEF Popup
<1>9. ~Remote
  <2>1. \A i : ~RemoteInsert(i, "@") /\ ~RemoteDelete(i) /\ ~RemoteFormat(i)
    BY <1>1 DEF RemoteInsert, RemoteDelete, RemoteFormat
  <2> QED
    BY <2>1 DEF Remote
<1> QED
    BY <1>4, <1>5, <1>6, <1>7, <1>8, <1>9 DEF Next, Keys

\* Backspace and Delete never remove a date token that was not selected.
THEOREM TokensFallOnlySelected == Spec => TokensFallSelected
<1>1. PopupsInv /\ CalendarOverToken /\ [Next]_vars =>
        [did'.kind = "erase" /\ sel.at # "range" => Dates(row) \subseteq Dates(row') \cup {Selected}]_vars
  <2> SUFFICES ASSUME PopupsInv, CalendarOverToken, Next, did'.kind = "erase", sel.at # "range"
               PROVE  Dates(row) \subseteq Dates(row') \cup {Selected}
    OBVIOUS
  <2>1. PICK side \in {"before", "after"} : Erase(side)
    BY OnlyErasesErase
  <2> QED
    BY <2>1, EraseSparesDates DEF PopupsInv
<1> QED
    BY <1>1, PopupsInvHolds, CalendarsStandOverTokens, PTL DEF Spec, TokensFallSelected
=============================================================================
