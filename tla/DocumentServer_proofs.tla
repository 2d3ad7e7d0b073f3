------------------------ MODULE DocumentServer_proofs ------------------------
(***************************************************************************)
(* Proofs about DocumentServer, for any users and any number of requests:  *)
(* bootstraps agree, and what a projection lists can be opened; a refresh  *)
(* that runs alone repairs the projection, and one that knew it drops      *)
(* nothing.  The last needs, in parts: the edits against a known array     *)
(* (CommonPrefix, syncYjsOrderedMapArray), what Yjs makes of them (Places, *)
(* Merged), and the invariant of the requests that gives the premises: no  *)
(* entry is there twice with one inserter, what a request lists covers     *)
(* what it read.                                                           *)
(***************************************************************************)
EXTENDS DocumentServer, FiniteSetTheorems, SequenceTheorems, TLAPS

USE UsersAssumption DEF UsersAssumption

Rows == [owner : Users, kind : Kinds]

\* Entries of projections, whole projections and lists, over documents of a set.
EntriesOf(D) == [doc : D, by : Nat, live : BOOLEAN, access : SUBSET Users]
ArraysOf(D) == [array : Nat, entries : Seq(EntriesOf(D))]
ListsOf(D) == Seq([id : D, access : SUBSET Users])

Calls == [op : {"none", "bootstrap", "create", "share"},
          pc : {"idle", "grant", "find-data", "insert-data", "find-home", "insert-home", "insert",
                "open", "list-owned", "list-shared", "update", "answered", "done"},
          user : Users \cup {"none"}, peer : Users \cup {"none"}, of : Users \cup {"none"},
          doc : Nat, data : Nat, home : Nat, base : ArraysOf(Nat), owned : SUBSET Nat, list : ListsOf(Nat)]

TypeOK == documents \in Seq(Rows) /\ projection \in [Users -> ArraysOf(Nat)] /\ request \in [Requests -> Calls]

\* In given tables: the documents of a user and a kind, and those that a user gets
\* a token for with the whole document.
FoundIn(docs, u, kind) == {d \in DOMAIN docs : docs[d] = [owner |-> u, kind |-> kind]}
OpenIn(docs, grants, u) ==
    {d \in DOMAIN docs : IF docs[d].owner = u THEN docs[d].kind # "user-data-projection"
                         ELSE docs[d].kind = "document" /\ <<d, u>> \in grants}

\* The unique index: a user has at most one document of each special kind.
OnePerUser(docs) ==
    \A d, e \in DOMAIN docs : docs[d] = docs[e] /\ docs[d].kind # "document" => d = e

\* A request under way is somebody's and works for somebody; the ids it found are
\* those of the user it works for, and what it lists that user can open.
CallOK(q, docs, grants) ==
    /\ q.pc # "idle" => q.user \in Users /\ q.of \in Users /\ (q.op = "share" => q.peer \in Users)
    /\ q.data # 0 => q.data \in FoundIn(docs, q.of, "user-data-projection")
    /\ q.home # 0 => q.home \in FoundIn(docs, q.of, "home-document")
    /\ q.owned \subseteq OpenIn(docs, grants, q.of)
    /\ q.list \in ListsOf(OpenIn(docs, grants, q.of))

ServerInv ==
    /\ TypeOK /\ OnePerUser(documents)
    /\ \A r \in Requests : CallOK(request[r], documents, access)
    /\ \A u \in Users : projection[u] \in ArraysOf(OpenIn(documents, access, u))
-----------------------------------------------------------------------------
(* The list                                                                *)

\* The sorted list has each document of the set once (sortDocumentsForUser).
LEMMA SortSound ==
    ASSUME NEW u, NEW S \in SUBSET Nat, IsFiniteSet(S)
    PROVE  /\ Cardinality(S) \in Nat
           /\ sortDocumentsForUser(u, S) \in [1..Cardinality(S) -> S]
           /\ \A i, j \in 1..Cardinality(S) :
                 sortDocumentsForUser(u, S)[i] = sortDocumentsForUser(u, S)[j] => i = j
           /\ \A d \in S : \E i \in 1..Cardinality(S) : sortDocumentsForUser(u, S)[i] = d
<1> DEFINE order(d) == IF documents[d].kind = "home-document" THEN 0
                       ELSE IF documents[d].owner = u THEN 1 ELSE 2
           before(d) == {e \in S : order(e) < order(d) \/ (order(e) = order(d) /\ e < d)}
           n == Cardinality(S)
           f == [d \in S |-> Cardinality(before(d)) + 1]
<1>1. n \in Nat
    BY FS_CardinalityType
<1>2. \A d : order(d) \in {0, 1, 2}
    OBVIOUS
<1>3. /\ \A d \in S : before(d) \subseteq S /\ d \notin before(d)
      /\ \A d, e \in S : d # e => d \in before(e) \/ e \in before(d)
      /\ \A d, e \in S : d \in before(e) => before(d) \subseteq before(e)
  <2> HIDE DEF order
  <2>1. \A d \in S : before(d) \subseteq S /\ d \notin before(d)
    BY <1>2
  <2>2. \A d, e \in S : d # e => d \in before(e) \/ e \in before(d)
    BY <1>2
  <2>3. ASSUME NEW d \in S, NEW e \in S, d \in before(e), NEW x \in before(d) PROVE x \in before(e)
    BY <1>2, <2>3
  <2> QED
    BY <2>1, <2>2, <2>3
<1>4. sortDocumentsForUser(u, S) = [i \in 1..n |-> CHOOSE d \in S : Cardinality(before(d)) = i - 1]
    BY DEF sortDocumentsForUser
<1> HIDE DEF before, n
<1>5. ASSUME NEW d \in S
      PROVE  IsFiniteSet(before(d)) /\ Cardinality(before(d)) \in Nat /\ Cardinality(before(d)) < n
  <2>1. before(d) \subseteq S /\ before(d) # S
    BY <1>3
  <2>2. IsFiniteSet(before(d)) /\ Cardinality(before(d)) <= n /\ (n = Cardinality(before(d)) => S = before(d))
    BY <2>1, FS_Subset DEF n
  <2>3. Cardinality(before(d)) \in Nat
    BY <2>2, FS_CardinalityType
  <2> QED
    BY <1>1, <2>1, <2>2, <2>3
<1>6. f \in [S -> 1..n]
    BY <1>1, <1>5
<1>7. ASSUME NEW d \in S, NEW e \in S, d \in before(e) PROVE f[d] # f[e]
  <2>1. before(d) \subseteq before(e) /\ before(d) # before(e)
    BY <1>3, <1>7
  <2>2. Cardinality(before(d)) # Cardinality(before(e))
    BY <1>5, <2>1, FS_Subset
  <2> QED
    BY <1>5, <2>2
<1>8. f \in Injection(S, 1..n)
  <2>1. \A d, e \in S : f[d] = f[e] => d = e
    BY <1>3, <1>7
  <2> HIDE DEF f
  <2> QED
    BY <1>6, <2>1 DEF Injection, IsInjective
<1>9. f \in Surjection(S, 1..n)
  <2>1. IsFiniteSet(1..n) /\ Cardinality(1..n) = n
    BY <1>1, FS_Interval
  <2> HIDE DEF f
  <2> QED
    BY <1>8, <2>1, FS_Injection DEF n
<1>10. ASSUME NEW i \in 1..n PROVE \E d \in S : Cardinality(before(d)) = i - 1
  <2>1. PICK d \in S : f[d] = i
    <3> HIDE DEF f
    <3> QED
      BY <1>9 DEF Surjection
  <2>2. Cardinality(before(d)) = i - 1
    BY <1>1, <1>5, <2>1
  <2> QED
    BY <2>2
<1>11. \A i \in 1..n : (CHOOSE d \in S : Cardinality(before(d)) = i - 1) \in S
    BY <1>10
<1> DEFINE ids == sortDocumentsForUser(u, S)
<1>12. ASSUME NEW i \in 1..n PROVE ids[i] \in S /\ f[ids[i]] = i
  <2>1. ids[i] = CHOOSE d \in S : Cardinality(before(d)) = i - 1
    BY <1>4
  <2>2. ids[i] \in S /\ Cardinality(before(ids[i])) = i - 1
    BY <1>10, <2>1
  <2> HIDE DEF ids
  <2> QED
    BY <1>1, <2>2
<1>13. \A d, e \in S : f[d] = f[e] => d = e
    BY <1>3, <1>7
<1> HIDE DEF f
<1>14. ids \in [1..n -> S]
    BY <1>4, <1>11
<1> HIDE DEF ids
<1>15. \A i, j \in 1..n : ids[i] = ids[j] => i = j
    BY <1>12
<1>16. \A d \in S : \E i \in 1..n : ids[i] = d
    BY <1>6, <1>12, <1>13
<1> QED
    BY <1>1, <1>14, <1>15, <1>16 DEF n, ids
-----------------------------------------------------------------------------
(* The edits of a projection                                               *)

\* A common prefix is a number of entries.
LEMMA CommonPrefixSound ==
    \A a, b : Len(b) \in Nat => CommonPrefix(a, b) \in Nat
<1> SUFFICES ASSUME NEW a, NEW b, Len(b) \in Nat PROVE CommonPrefix(a, b) \in Nat
    OBVIOUS
<1> DEFINE n == Len(b)
           S == {k \in 1..n : k <= Len(a) /\ SubSeq(a, 1, k) = SubSeq(b, 1, k)}
<1>1. IsFiniteSet(1..n)
  <2> HIDE DEF n
  <2> QED
    BY FS_Interval DEF n
<1>2. S \subseteq 1..n
    OBVIOUS
<1>3. IsFiniteSet(S)
  <2> HIDE DEF S, n
  <2> QED
    BY <1>1, <1>2, FS_Subset
<1> QED
    BY <1>3, FS_CardinalityType DEF CommonPrefix

\* What a refresh inserts comes from its list (syncYjsOrderedMapArray).
LEMMA InsertedSound ==
    ASSUME NEW entries, NEW T, NEW list \in Seq(T)
    PROVE  syncYjsOrderedMapArray(entries, list).inserted \in Seq(T)
<1> DEFINE keys == Keys(entries)
           prefix == CommonPrefix(keys, list)
           rest(s) == Reverse(SubSeq(s, prefix + 1, Len(s)))
           suffix == CommonPrefix(rest(keys), rest(list))
<1>1. Len(list) \in Nat /\ \A i \in 1..Len(list) : list[i] \in T
    BY ElementOfSeq
<1>2. prefix \in Nat
    BY <1>1, CommonPrefixSound
<1> HIDE DEF prefix
<1>3. Len(rest(list)) \in Nat
  <2>1. \A i \in (prefix + 1)..Len(list) : list[i] \in T
    BY <1>1, <1>2
  <2>2. prefix + 1 \in Int /\ Len(list) \in Int
    BY <1>1, <1>2
  <2>3. SubSeq(list, prefix + 1, Len(list)) \in Seq(T)
    BY <2>1, <2>2, SubSeqProperties
  <2>4. \A s \in Seq(T) : Len(Reverse(s)) \in Nat
    BY DEF Reverse
  <2> QED
    BY <2>3, <2>4
<1>4. suffix \in Nat
  <2> HIDE DEF rest
  <2> QED
    BY <1>3, CommonPrefixSound
<1>5. syncYjsOrderedMapArray(entries, list).inserted = SubSeq(list, prefix + 1, Len(list) - suffix)
    BY DEF syncYjsOrderedMapArray, prefix
<1> HIDE DEF suffix
<1>6. /\ prefix + 1 \in Int /\ Len(list) - suffix \in Int
      /\ \A i \in (prefix + 1)..(Len(list) - suffix) : list[i] \in T
    BY <1>1, <1>2, <1>4
<1>7. SubSeq(list, prefix + 1, Len(list) - suffix) \in Seq(T)
    BY <1>6, SubSeqProperties
<1> QED
    BY <1>5, <1>7

\* Insertions have places within the array (Places).
LEMMA PlacesSound ==
    ASSUME NEW base, NEW prefix, NEW T, NEW now \in Seq(T), NEW i \in Places(base, prefix, now)
    PROVE  i \in 0..Len(now)
<1> DEFINE after == {j \in DOMAIN now : prefix > 0 /\ Id(now[j]) = Id(Live(base)[prefix])}
           left == IF after = {} THEN 0 ELSE CHOOSE j \in after : TRUE
<1>1. Len(now) \in Nat /\ DOMAIN now = 1..Len(now)
    OBVIOUS
<1>2. left \in Nat
  <2>1. after # {} => (CHOOSE j \in after : TRUE) \in after
    OBVIOUS
  <2>2. after \subseteq Nat
    BY <1>1
  <2> HIDE DEF after
  <2> QED
    BY <2>1, <2>2
<1>3. i \in left..Len(now)
    BY DEF Places
<1> HIDE DEF left
<1> QED
    BY <1>1, <1>2, <1>3

\* Concatenations and parts of sequences.
LEMMA ConcatSound ==
    \A T : \A a, b \in Seq(T) : a \o b \in Seq(T)
    BY ConcatProperties

LEMMA PartSound ==
    \A T : \A s \in Seq(T) : \A m, n \in Int : m >= 1 /\ n <= Len(s) => SubSeq(s, m, n) \in Seq(T)
<1> SUFFICES ASSUME NEW T, NEW s \in Seq(T), NEW m \in Int, NEW n \in Int, m >= 1, n <= Len(s)
             PROVE  SubSeq(s, m, n) \in Seq(T)
    OBVIOUS
<1>1. \A i \in 1..Len(s) : s[i] \in T
    BY ElementOfSeq
<1>2. \A i \in m..n : s[i] \in T
    BY <1>1
<1> QED
    BY <1>2, SubSeqProperties

\* However Y-Sweet merges a refresh, the array holds nothing but what was there
\* and what the refresh listed (Merged).
LEMMA MergedSound ==
    ASSUME NEW D, NEW r \in Nat, NEW base, NEW listed \in ListsOf(D), NEW now \in ArraysOf(D),
           NEW p \in Merged(r, base, listed, now)
    PROVE  p \in ArraysOf(D)
<1> DEFINE list == [i \in DOMAIN listed |-> listed[i].id]
           grants(d) == UNION {x.access : x \in {y \in ToSet(listed) : y.id = d}}
           edit == syncYjsOrderedMapArray(base.entries, list)
           block == [i \in DOMAIN edit.inserted |-> Entry(edit.inserted[i], r, grants(edit.inserted[i]))]
           known(e) == \E i \in DOMAIN base.entries : Id(base.entries[i]) = Id(e)
           new(e) == IF Id(e) \in edit.deleted THEN [e EXCEPT !.live = FALSE]
                     ELSE IF known(e) /\ e.live THEN [e EXCEPT !.access = @ \cup grants(e.doc)]
                     ELSE e
           kept == [i \in DOMAIN now.entries |-> new(now.entries[i])]
           E == EntriesOf(D)
<1>1. Len(listed) \in Nat /\ DOMAIN listed = 1..Len(listed)
    BY DEF ListsOf
<1>2. \A i \in 1..Len(listed) : listed[i] \in [id : D, access : SUBSET Users]
    BY ElementOfSeq DEF ListsOf
<1>3. list \in Seq(D)
  <2>1. \A i \in 1..Len(listed) : listed[i].id \in D
    BY <1>2
  <2> QED
    BY <1>1, <2>1, IsASeq
<1>4. \A d : grants(d) \in SUBSET Users
  <2>1. \A x \in ToSet(listed) : x.access \subseteq Users
    BY <1>1, <1>2 DEF ToSet
  <2> QED
    BY <2>1
<1> HIDE DEF grants, list
<1>5. edit.inserted \in Seq(D)
    BY <1>3, InsertedSound
<1> HIDE DEF edit
<1>6. block \in Seq(E)
  <2>1. Len(edit.inserted) \in Nat /\ DOMAIN edit.inserted = 1..Len(edit.inserted)
    BY <1>5
  <2>2. \A i \in 1..Len(edit.inserted) : edit.inserted[i] \in D
    BY <1>5, ElementOfSeq
  <2>3. \A i \in 1..Len(edit.inserted) : Entry(edit.inserted[i], r, grants(edit.inserted[i])) \in E
    BY <1>4, <2>2 DEF Entry, EntriesOf
  <2> QED
    BY <2>1, <2>3, IsASeq
<1>7. now.array \in Nat /\ now.entries \in Seq(E) /\ Len(now.entries) \in Nat
      /\ DOMAIN now.entries = 1..Len(now.entries)
    BY DEF ArraysOf
<1>8. kept \in Seq(E) /\ Len(kept) = Len(now.entries)
  <2>1. \A i \in 1..Len(now.entries) : now.entries[i] \in E
    BY <1>7, ElementOfSeq
  <2>2. ASSUME NEW e \in E PROVE new(e) \in E
    <3>1. [e EXCEPT !.live = FALSE] \in E
      BY DEF EntriesOf
    <3>2. [e EXCEPT !.access = @ \cup grants(e.doc)] \in E
      BY <1>4 DEF EntriesOf
    <3> HIDE DEF known, E
    <3> QED
      BY <3>1, <3>2
  <2>3. \A i \in 1..Len(now.entries) : new(now.entries[i]) \in E
    BY <2>1, <2>2
  <2> HIDE DEF new, E
  <2> QED
    BY <1>7, <2>3, IsASeq
<1> DEFINE places == Places(base.entries, edit.prefix, now.entries)
           made(i) == SubSeq(kept, 1, i) \o block \o SubSeq(kept, i + 1, Len(kept))
<1>9. p \in IF base.array = 0
            THEN {[array |-> r, entries |-> block]} \cup (IF now.array = 0 THEN {} ELSE {now})
            ELSE IF base.array # now.array THEN {now}
            ELSE {[now EXCEPT !.entries = made(i)] : i \in places}
    BY DEF Merged, grants, list, edit
<1> HIDE DEF block, kept, E
<1>10. \A i \in places : made(i) \in Seq(E)
  <2> SUFFICES ASSUME NEW i \in places PROVE made(i) \in Seq(E)
    OBVIOUS
  <2>1. i \in 0..Len(now.entries)
    BY <1>7, PlacesSound
  <2>2. /\ 1 \in Int /\ i \in Int /\ i <= Len(kept) /\ i + 1 \in Int /\ i + 1 >= 1
        /\ Len(kept) \in Int /\ Len(kept) <= Len(kept)
    BY <1>7, <1>8, <2>1
  <2>3. SubSeq(kept, 1, i) \in Seq(E) /\ SubSeq(kept, i + 1, Len(kept)) \in Seq(E)
    BY <1>8, <2>2, PartSound
  <2>4. SubSeq(kept, 1, i) \o block \in Seq(E)
    BY <1>6, <2>3, ConcatSound
  <2> QED
    BY <2>3, <2>4, ConcatSound
<1>11. CASE p = [array |-> r, entries |-> block]
    BY <1>6, <1>11 DEF ArraysOf, E
<1>12. CASE p = now
    BY <1>12
<1>13. CASE \E i \in places : p = [now EXCEPT !.entries = made(i)]
  <2> HIDE DEF made, places
  <2> QED
    BY <1>10, <1>13 DEF ArraysOf, E
<1> QED
    BY <1>9, <1>11, <1>12, <1>13
-----------------------------------------------------------------------------
(* The tables only grow                                                    *)

Grows(docs, newer) == \A d \in DOMAIN docs : d \in DOMAIN newer /\ newer[d] = docs[d]

\* What was found and what could be opened stays so.
LEMMA OpenStays ==
    \A docs, newer, grants, more :
        Grows(docs, newer) /\ grants \subseteq more =>
            /\ \A u : OpenIn(docs, grants, u) \subseteq OpenIn(newer, more, u)
            /\ \A u, kind : FoundIn(docs, u, kind) \subseteq FoundIn(newer, u, kind)
    BY DEF Grows, OpenIn, FoundIn

\* Arrays and lists over fewer documents are arrays and lists over more.
LEMMA OverMore ==
    \A D, E : D \subseteq E => ArraysOf(D) \subseteq ArraysOf(E) /\ ListsOf(D) \subseteq ListsOf(E)
<1> SUFFICES ASSUME NEW D, NEW E, D \subseteq E
             PROVE  ArraysOf(D) \subseteq ArraysOf(E) /\ ListsOf(D) \subseteq ListsOf(E)
    OBVIOUS
<1>1. EntriesOf(D) \subseteq EntriesOf(E)
    BY DEF EntriesOf
<1>2. Seq(EntriesOf(D)) \subseteq Seq(EntriesOf(E))
    BY <1>1, SeqMonotonic
<1>3. [id : D, access : SUBSET Users] \subseteq [id : E, access : SUBSET Users]
    OBVIOUS
<1>4. ListsOf(D) \subseteq ListsOf(E)
    BY <1>3, SeqMonotonic DEF ListsOf
<1>5. ArraysOf(D) \subseteq ArraysOf(E)
    BY <1>2 DEF ArraysOf
<1> QED
    BY <1>4, <1>5

\* A request's facts survive what others add to the tables.
LEMMA CallsStay ==
    \A q, docs, newer, grants, more :
        CallOK(q, docs, grants) /\ Grows(docs, newer) /\ grants \subseteq more => CallOK(q, newer, more)
<1> SUFFICES ASSUME NEW q, NEW docs, NEW newer, NEW grants, NEW more,
                    CallOK(q, docs, grants), Grows(docs, newer), grants \subseteq more
             PROVE  CallOK(q, newer, more)
    OBVIOUS
<1>1. /\ OpenIn(docs, grants, q.of) \subseteq OpenIn(newer, more, q.of)
      /\ \A kind : FoundIn(docs, q.of, kind) \subseteq FoundIn(newer, q.of, kind)
    BY OpenStays
<1>2. ListsOf(OpenIn(docs, grants, q.of)) \subseteq ListsOf(OpenIn(newer, more, q.of))
    BY <1>1, OverMore
<1> QED
    BY <1>1, <1>2 DEF CallOK

\* A new row: nothing is lost, and a document of a special kind is the only one of
\* its user if there was none.
LEMMA AppendSound ==
    ASSUME NEW docs \in Seq(Rows), NEW row \in Rows
    PROVE  /\ Append(docs, row) \in Seq(Rows) /\ Grows(docs, Append(docs, row))
           /\ Len(docs) + 1 \in DOMAIN Append(docs, row) /\ Append(docs, row)[Len(docs) + 1] = row
           /\ \A d \in DOMAIN Append(docs, row) : d # Len(docs) + 1 => d \in DOMAIN docs
           /\ OnePerUser(docs) /\ (row.kind = "document" \/ \A d \in DOMAIN docs : docs[d] # row) =>
                OnePerUser(Append(docs, row))
<1>1. /\ Len(docs) \in Nat /\ DOMAIN docs = 1..Len(docs)
      /\ Append(docs, row) \in Seq(Rows) /\ Len(Append(docs, row)) = Len(docs) + 1
      /\ DOMAIN Append(docs, row) = 1..(Len(docs) + 1)
    OBVIOUS
<1>2. /\ \A d \in 1..Len(docs) : Append(docs, row)[d] = docs[d]
      /\ Append(docs, row)[Len(docs) + 1] = row
    BY AppendProperties
<1> DEFINE newer == Append(docs, row)
<1> HIDE DEF newer
<1>3. \A d \in DOMAIN newer : d # Len(docs) + 1 => d \in DOMAIN docs /\ newer[d] = docs[d]
    BY <1>1, <1>2 DEF newer
<1>4. Grows(docs, newer)
    BY <1>1, <1>2 DEF Grows, newer
<1>5. Len(docs) + 1 \in DOMAIN newer /\ newer[Len(docs) + 1] = row
    BY <1>1, <1>2 DEF newer
<1>6. ASSUME OnePerUser(docs), row.kind = "document" \/ \A d \in DOMAIN docs : docs[d] # row
      PROVE  OnePerUser(newer)
    BY <1>3, <1>5, <1>6 DEF OnePerUser
<1> QED
    BY <1>1, <1>3, <1>4, <1>5, <1>6 DEF newer

\* One step of a request: the facts about the others follow from the growth of the
\* tables.
LEMMA StepSound ==
    ASSUME ServerInv, NEW r \in Requests, NEW q \in Calls, Step(r, q), CallOK(q, documents', access'),
           documents' \in Seq(Rows), Grows(documents, documents'), OnePerUser(documents'),
           access \subseteq access', projection' \in [Users -> ArraysOf(Nat)],
           \A u \in Users : projection'[u] \in ArraysOf(OpenIn(documents', access', u))
    PROVE  ServerInv'
<1>1. request \in [Requests -> Calls] /\ request' = [request EXCEPT ![r] = q]
    BY DEF ServerInv, TypeOK, Step
<1>2. request' \in [Requests -> Calls] /\ request'[r] = q /\ \A s \in Requests : s # r => request'[s] = request[s]
    BY <1>1
<1>3. TypeOK'
    BY <1>2 DEF TypeOK
<1>4. ASSUME NEW s \in Requests PROVE CallOK(request'[s], documents', access')
  <2>1. CASE s = r
    BY <1>2, <2>1
  <2>2. CASE s # r
    BY <1>2, <2>2, CallsStay DEF ServerInv
  <2> QED
    BY <2>1, <2>2
<1> QED
    BY <1>3, <1>4 DEF ServerInv

\* The same, for a step that leaves the projections alone.
LEMMA TablesSound ==
    ASSUME ServerInv, NEW r \in Requests, NEW q \in Calls, Step(r, q), CallOK(q, documents', access'),
           documents' \in Seq(Rows), Grows(documents, documents'), OnePerUser(documents'),
           access \subseteq access', projection' = projection
    PROVE  ServerInv'
<1>1. projection' \in [Users -> ArraysOf(Nat)]
    BY DEF ServerInv, TypeOK
<1>2. \A u \in Users : projection'[u] \in ArraysOf(OpenIn(documents', access', u))
    BY OpenStays, OverMore DEF ServerInv
<1> QED
    BY <1>1, <1>2, StepSound

\* The same, for a step that leaves the tables alone, too.
LEMMA ReadSound ==
    ASSUME ServerInv, NEW r \in Requests, NEW q \in Calls, Step(r, q), CallOK(q, documents, access),
           UNCHANGED <<documents, access, projection>>
    PROVE  ServerInv'
<1>1. documents' \in Seq(Rows) /\ Grows(documents, documents') /\ OnePerUser(documents')
    BY DEF ServerInv, TypeOK, Grows
<1> QED
    BY <1>1, TablesSound
-----------------------------------------------------------------------------
(* The steps of a request                                                  *)

\* What every step starts from.
LEMMA Facts ==
    ASSUME ServerInv, NEW r \in Requests
    PROVE  /\ request[r] \in Calls /\ CallOK(request[r], documents, access)
           /\ documents \in Seq(Rows) /\ OnePerUser(documents)
           /\ DOMAIN documents = 1..Len(documents) /\ Len(documents) \in Nat
           /\ \A d \in DOMAIN documents : documents[d] \in Rows
           /\ \A u \in Users : projection[u] \in ArraysOf(Nat)
           /\ \A u \in Users : projection[u] \in ArraysOf(OpenIn(documents, access, u))
    BY ElementOfSeq DEF ServerInv, TypeOK

\* The empty array and list are over any documents.
LEMMA EmptySound == \A D : NoArray \in ArraysOf(D) /\ <<>> \in ListsOf(D)
    BY DEF NoArray, ArraysOf, ListsOf

\* A request that has not arrived has found nothing.
LEMMA NoRequestSound ==
    /\ NoRequest \in Calls
    /\ NoRequest.op = "none" /\ NoRequest.pc = "idle" /\ NoRequest.peer = "none" /\ NoRequest.doc = 0
    /\ NoRequest.data = 0 /\ NoRequest.home = 0 /\ NoRequest.owned = {} /\ NoRequest.list = <<>>
<1>1. NoArray \in ArraysOf(Nat) /\ <<>> \in ListsOf(Nat)
    BY EmptySound
<1> QED
    BY <1>1 DEF NoRequest, Calls

\* Arrive
LEMMA ArriveKeeps ==
    ASSUME ServerInv, NEW r \in Requests, Arrive(r)
    PROVE  ServerInv'
<1>1. UNCHANGED <<documents, access, projection>>
    BY DEF Arrive
<1>2. ASSUME NEW u \in Users, NEW op \in {"bootstrap", "create"},
             Step(r, [NoRequest EXCEPT !.op = op, !.pc = "find-data", !.user = u, !.of = u])
      PROVE  ServerInv'
  <2> DEFINE q == [NoRequest EXCEPT !.op = op, !.pc = "find-data", !.user = u, !.of = u]
  <2>1. q \in Calls
    BY NoRequestSound DEF Calls
  <2>2. /\ q.op # "share" /\ q.user = u /\ q.of = u
        /\ q.data = 0 /\ q.home = 0 /\ q.owned = {} /\ q.list = <<>>
    BY NoRequestSound DEF Calls
  <2> HIDE DEF q
  <2>3. CallOK(q, documents, access)
    BY <2>2, EmptySound DEF CallOK
  <2> QED
    BY <1>1, <1>2, <2>1, <2>3, ReadSound DEF q
<1>3. ASSUME NEW u \in Users, NEW v \in Users, NEW d \in DOMAIN documents,
             Step(r, [NoRequest EXCEPT !.op = "share", !.pc = "grant", !.user = u, !.of = u, !.peer = v, !.doc = d])
      PROVE  ServerInv'
  <2>1. d \in Nat
    BY Facts
  <2> DEFINE q == [NoRequest EXCEPT !.op = "share", !.pc = "grant", !.user = u, !.of = u, !.peer = v, !.doc = d]
  <2>2. q \in Calls
    BY <2>1, NoRequestSound DEF Calls
  <2>3. /\ q.user = u /\ q.of = u /\ q.peer = v
        /\ q.data = 0 /\ q.home = 0 /\ q.owned = {} /\ q.list = <<>>
    BY NoRequestSound DEF Calls
  <2> HIDE DEF q
  <2>4. CallOK(q, documents, access)
    BY <2>3, EmptySound DEF CallOK
  <2> QED
    BY <1>1, <1>3, <2>2, <2>4, ReadSound DEF q
<1> QED
    BY <1>2, <1>3 DEF Arrive

\* grantDocumentAccess
LEMMA GrantKeeps ==
    ASSUME ServerInv, NEW r \in Requests, grantDocumentAccess(r)
    PROVE  ServerInv'
<1> DEFINE allowed == documents[request[r].doc] = [owner |-> request[r].user, kind |-> "document"]
                      /\ request[r].peer # request[r].user
           pc == IF allowed THEN "find-data" ELSE "done"
           q == [request[r] EXCEPT !.pc = pc]
<1>1. Step(r, q) /\ request[r].pc = "grant" /\ access \subseteq access' /\ UNCHANGED <<documents, projection>>
    BY DEF grantDocumentAccess
<1>2. pc \in {"find-data", "done"}
    OBVIOUS
<1> HIDE DEF pc
<1>3. q \in Calls /\ CallOK(q, documents, access)
    BY <1>1, <1>2, Facts DEF Calls, CallOK
<1> HIDE DEF q
<1>4. documents' \in Seq(Rows) /\ Grows(documents, documents') /\ OnePerUser(documents')
    BY <1>1, Facts DEF Grows
<1>5. CallOK(q, documents', access')
    BY <1>1, <1>3, <1>4, CallsStay
<1> QED
    BY <1>1, <1>3, <1>4, <1>5, TablesSound

\* findUserDataDocument and findHomeDocument
LEMMA FindKeeps ==
    ASSUME ServerInv, NEW r \in Requests, findUserDataDocument(r) \/ findHomeDocument(r)
    PROVE  ServerInv'
<1>1. UNCHANGED <<documents, access, projection>>
    BY DEF findUserDataDocument, findHomeDocument
<1>2. request[r] \in Calls /\ CallOK(request[r], documents, access) /\ DOMAIN documents \subseteq Nat
    BY Facts
<1>3. \A u, kind : getUserDocumentByKind(u, kind) = FoundIn(documents, u, kind)
    BY DEF getUserDocumentByKind, FoundIn
<1>4. ASSUME NEW pc \in {"insert-data", "insert-home"}, request[r].pc # "idle", Step(r, [request[r] EXCEPT !.pc = pc])
      PROVE  ServerInv'
  <2> DEFINE q == [request[r] EXCEPT !.pc = pc]
  <2>1. q \in Calls /\ CallOK(q, documents, access)
    BY <1>2, <1>4 DEF Calls, CallOK
  <2> HIDE DEF q
  <2> QED
    BY <1>1, <1>4, <2>1, ReadSound DEF q
<1>5. ASSUME NEW d \in FoundIn(documents, request[r].of, "user-data-projection"), request[r].pc # "idle",
             Step(r, [request[r] EXCEPT !.pc = "find-home", !.data = d])
      PROVE  ServerInv'
  <2> DEFINE q == [request[r] EXCEPT !.pc = "find-home", !.data = d]
  <2>1. d \in Nat
    BY <1>2 DEF FoundIn
  <2>2. q \in Calls /\ CallOK(q, documents, access)
    BY <1>2, <1>5, <2>1 DEF Calls, CallOK
  <2> HIDE DEF q
  <2> QED
    BY <1>1, <1>5, <2>2, ReadSound DEF q
<1>6. ASSUME NEW d \in FoundIn(documents, request[r].of, "home-document"), request[r].pc # "idle",
             Step(r, [request[r] EXCEPT !.pc = AfterHome(request[r]), !.home = d])
      PROVE  ServerInv'
  <2> DEFINE pc == AfterHome(request[r])
             q == [request[r] EXCEPT !.pc = pc, !.home = d]
  <2>1. d \in Nat /\ pc \in {"insert", "open"}
    BY <1>2 DEF FoundIn, AfterHome
  <2> HIDE DEF pc
  <2>2. q \in Calls /\ CallOK(q, documents, access)
    BY <1>2, <1>6, <2>1 DEF Calls, CallOK
  <2> HIDE DEF q
  <2> QED
    BY <1>1, <1>6, <2>2, ReadSound DEF q, pc
<1> QED
    BY <1>3, <1>4, <1>5, <1>6 DEF findUserDataDocument, findHomeDocument

\* The row that an insert leaves for a user and a special kind, its own or the one
\* that was there (insertSpecialDocument, SpecialDocument).
LEMMA InsertSound ==
    ASSUME NEW u \in Users, NEW kind \in {"user-data-projection", "home-document"},
           documents \in Seq(Rows), OnePerUser(documents), insertSpecialDocument(u, kind)
    PROVE  /\ documents' \in Seq(Rows) /\ Grows(documents, documents') /\ OnePerUser(documents')
           /\ SpecialDocument(documents', u, kind) \in FoundIn(documents', u, kind)
<1> DEFINE row == [owner |-> u, kind |-> kind]
<1>1. row \in Rows /\ row.kind = kind
    BY DEF Rows, Kinds
<1>2. SpecialDocument(documents', u, kind) =
        CHOOSE d \in DOMAIN documents' : documents'[d] = row /\ (d > Len(documents) \/ documents' = documents)
    BY DEF SpecialDocument
<1> HIDE DEF row
<1>3. CASE getUserDocumentByKind(u, kind) = {}
  <2>1. documents' = Append(documents, row) /\ \A d \in DOMAIN documents : documents[d] # row
    BY <1>3 DEF insertSpecialDocument, getUserDocumentByKind, row
  <2>2. /\ documents' \in Seq(Rows) /\ Grows(documents, documents') /\ OnePerUser(documents')
        /\ Len(documents) + 1 \in DOMAIN documents' /\ documents'[Len(documents) + 1] = row
    BY <1>1, <2>1, AppendSound
  <2>3. Len(documents) + 1 > Len(documents)
    OBVIOUS
  <2>4. \E d \in DOMAIN documents' : documents'[d] = row /\ (d > Len(documents) \/ documents' = documents)
    BY <2>2, <2>3
  <2>5. SpecialDocument(documents', u, kind) \in DOMAIN documents'
        /\ documents'[SpecialDocument(documents', u, kind)] = row
    BY <1>2, <2>4
  <2> QED
    BY <2>2, <2>5 DEF FoundIn, row
<1>4. CASE getUserDocumentByKind(u, kind) # {}
  <2>1. documents' = documents
    BY <1>4 DEF insertSpecialDocument
  <2>2. \E d \in DOMAIN documents' : documents'[d] = row /\ (d > Len(documents) \/ documents' = documents)
    BY <1>4, <2>1 DEF getUserDocumentByKind, row
  <2>3. SpecialDocument(documents', u, kind) \in DOMAIN documents'
        /\ documents'[SpecialDocument(documents', u, kind)] = row
    BY <1>2, <2>2
  <2> QED
    BY <2>1, <2>3 DEF FoundIn, Grows, row
<1> QED
    BY <1>3, <1>4

\* insertUserDataDocument and insertHomeDocument
LEMMA InsertKeeps ==
    ASSUME ServerInv, NEW r \in Requests, insertUserDataDocument(r) \/ insertHomeDocument(r)
    PROVE  ServerInv'
<1>1. /\ request[r] \in Calls /\ CallOK(request[r], documents, access)
      /\ documents \in Seq(Rows) /\ OnePerUser(documents)
    BY Facts
<1>2. /\ request[r].pc # "idle" /\ request[r].of \in Users
      /\ projection' = projection /\ access' = access /\ access \subseteq access'
    BY <1>1 DEF insertUserDataDocument, insertHomeDocument, CallOK
<1>3. CASE insertUserDataDocument(r)
  <2> DEFINE d == SpecialDocument(documents', request[r].of, "user-data-projection")
             q == [request[r] EXCEPT !.pc = "find-home", !.data = d]
  <2>1. insertSpecialDocument(request[r].of, "user-data-projection") /\ Step(r, q)
    BY <1>3 DEF insertUserDataDocument
  <2>2. /\ documents' \in Seq(Rows) /\ Grows(documents, documents') /\ OnePerUser(documents')
        /\ d \in FoundIn(documents', request[r].of, "user-data-projection")
    BY <1>1, <1>2, <2>1, InsertSound
  <2>3. CallOK(request[r], documents', access')
    BY <1>1, <1>2, <2>2, CallsStay
  <2> HIDE DEF d
  <2>4. d \in Nat
    BY <2>2 DEF FoundIn
  <2>5. q \in Calls /\ CallOK(q, documents', access')
    BY <1>1, <1>2, <2>2, <2>3, <2>4 DEF Calls, CallOK
  <2> HIDE DEF q
  <2> QED
    BY <1>2, <2>1, <2>2, <2>5, TablesSound
<1>4. CASE insertHomeDocument(r)
  <2> DEFINE d == SpecialDocument(documents', request[r].of, "home-document")
             pc == AfterHome(request[r])
             q == [request[r] EXCEPT !.pc = pc, !.home = d]
  <2>1. insertSpecialDocument(request[r].of, "home-document") /\ Step(r, q)
    BY <1>4 DEF insertHomeDocument
  <2>2. /\ documents' \in Seq(Rows) /\ Grows(documents, documents') /\ OnePerUser(documents')
        /\ d \in FoundIn(documents', request[r].of, "home-document")
    BY <1>1, <1>2, <2>1, InsertSound
  <2>3. CallOK(request[r], documents', access')
    BY <1>1, <1>2, <2>2, CallsStay
  <2>4. pc \in {"insert", "open"}
    BY DEF AfterHome
  <2> HIDE DEF d, pc
  <2>5. d \in Nat
    BY <2>2 DEF FoundIn
  <2>6. q \in Calls /\ CallOK(q, documents', access')
    BY <1>1, <1>2, <2>2, <2>3, <2>4, <2>5 DEF Calls, CallOK
  <2> HIDE DEF q
  <2> QED
    BY <1>2, <2>1, <2>2, <2>6, TablesSound
<1> QED
    BY <1>3, <1>4

\* createUserDocumentRecord
LEMMA CreateKeeps ==
    ASSUME ServerInv, NEW r \in Requests, createUserDocumentRecord(r)
    PROVE  ServerInv'
<1> DEFINE row == [owner |-> request[r].user, kind |-> "document"]
           d == Len(documents) + 1
           q == [request[r] EXCEPT !.pc = "find-data", !.doc = d]
<1>1. /\ request[r] \in Calls /\ CallOK(request[r], documents, access) /\ Len(documents) \in Nat
      /\ documents \in Seq(Rows) /\ OnePerUser(documents)
    BY Facts
<1>2. /\ request[r].pc = "insert" /\ documents' = Append(documents, row) /\ Step(r, q)
      /\ access' = access /\ access \subseteq access' /\ projection' = projection
    BY DEF createUserDocumentRecord
<1>3. row \in Rows /\ row.kind = "document"
    BY <1>1, <1>2 DEF CallOK, Rows, Kinds
<1> HIDE DEF row
<1>4. documents' \in Seq(Rows) /\ Grows(documents, documents') /\ OnePerUser(documents')
    BY <1>1, <1>2, <1>3, AppendSound
<1>5. CallOK(request[r], documents', access')
    BY <1>1, <1>2, <1>4, CallsStay
<1> HIDE DEF d
<1>6. d \in Nat
    BY <1>1 DEF d
<1>7. q \in Calls
    BY <1>1, <1>6 DEF Calls
<1>8. /\ q.user = request[r].user /\ q.of = request[r].of /\ q.op = request[r].op /\ q.peer = request[r].peer
      /\ q.data = request[r].data /\ q.home = request[r].home /\ q.owned = request[r].owned /\ q.list = request[r].list
    BY <1>1 DEF Calls
<1> HIDE DEF q
<1>9. CallOK(q, documents', access')
    BY <1>2, <1>5, <1>8 DEF CallOK
<1> QED
    BY <1>2, <1>4, <1>7, <1>9, TablesSound DEF q

\* getDocAsUpdate
LEMMA OpenKeeps ==
    ASSUME ServerInv, NEW r \in Requests, getDocAsUpdate(r)
    PROVE  ServerInv'
<1> DEFINE b == projection[request[r].of]
           q == [request[r] EXCEPT !.pc = "list-owned", !.base = b]
<1>1. request[r] \in Calls /\ CallOK(request[r], documents, access) /\ \A u \in Users : projection[u] \in ArraysOf(Nat)
    BY Facts
<1>2. request[r].pc = "open" /\ Step(r, q) /\ UNCHANGED <<documents, access, projection>>
    BY DEF getDocAsUpdate
<1>3. b \in ArraysOf(Nat)
    BY <1>1, <1>2 DEF CallOK
<1> HIDE DEF b
<1>4. q \in Calls /\ CallOK(q, documents, access)
    BY <1>1, <1>2, <1>3 DEF Calls, CallOK
<1> HIDE DEF q
<1> QED
    BY <1>2, <1>4, ReadSound

\* listOwnedDocuments
LEMMA ListOwnedKeeps ==
    ASSUME ServerInv, NEW r \in Requests, listOwnedDocuments(r)
    PROVE  ServerInv'
<1> DEFINE S == OwnedRows(request[r].of)
           q == [request[r] EXCEPT !.pc = "list-shared", !.owned = S]
<1>1. request[r] \in Calls /\ CallOK(request[r], documents, access) /\ DOMAIN documents \subseteq Nat
    BY Facts
<1>2. request[r].pc = "list-owned" /\ Step(r, q) /\ UNCHANGED <<documents, access, projection>>
    BY DEF listOwnedDocuments
<1>3. S \subseteq OpenIn(documents, access, request[r].of) /\ S \in SUBSET Nat
    BY <1>1 DEF OwnedRows, OpenIn
<1> HIDE DEF S
<1>4. q \in Calls /\ CallOK(q, documents, access)
    BY <1>1, <1>2, <1>3 DEF Calls, CallOK
<1> HIDE DEF q
<1> QED
    BY <1>2, <1>4, ReadSound

\* listUserDocuments
LEMMA ListKeeps ==
    ASSUME ServerInv, NEW r \in Requests, listUserDocuments(r)
    PROVE  ServerInv'
<1> DEFINE u == request[r].of
           S == request[r].owned \cup SharedRows(u)
           ids == sortDocumentsForUser(u, S)
           list == [i \in DOMAIN ids |-> [id |-> ids[i], access |-> listDocumentAccessForOwner(ids[i], u)]]
           q == [request[r] EXCEPT !.pc = "update", !.list = list]
           D == OpenIn(documents, access, u)
<1>1. /\ request[r] \in Calls /\ CallOK(request[r], documents, access)
      /\ DOMAIN documents = 1..Len(documents) /\ Len(documents) \in Nat
    BY Facts
<1>2. request[r].pc = "list-shared" /\ Step(r, q) /\ UNCHANGED <<documents, access, projection>>
    BY DEF listUserDocuments
<1>3. S \subseteq D /\ D \subseteq 1..Len(documents)
    BY <1>1 DEF CallOK, SharedRows, OpenIn, getDocumentAccessForGrantee
<1> HIDE DEF S, D
<1>4. S \in SUBSET Nat /\ IsFiniteSet(S)
  <2> DEFINE n == Len(documents)
             I == 1..n
  <2>1. n \in Nat /\ S \subseteq I
    BY <1>1, <1>3
  <2>2. I \subseteq Nat
    OBVIOUS
  <2> HIDE DEF n
  <2>3. IsFiniteSet(I)
    BY <2>1, FS_Interval
  <2> HIDE DEF I
  <2>4. IsFiniteSet(S)
    BY <2>1, <2>3, FS_Subset
  <2> QED
    BY <2>1, <2>2, <2>4
<1>5. Cardinality(S) \in Nat /\ ids \in [1..Cardinality(S) -> S]
    BY <1>4, SortSound
<1> HIDE DEF ids
<1>6. list \in ListsOf(D) /\ list \in ListsOf(Nat)
  <2>1. DOMAIN ids = 1..Cardinality(S) /\ \A i \in 1..Cardinality(S) : ids[i] \in D
    BY <1>3, <1>5
  <2>2. \A x : listDocumentAccessForOwner(x, u) \in SUBSET Users
    BY DEF listDocumentAccessForOwner
  <2>3. \A i \in 1..Cardinality(S) :
          [id |-> ids[i], access |-> listDocumentAccessForOwner(ids[i], u)] \in [id : D, access : SUBSET Users]
    BY <2>1, <2>2
  <2> DEFINE item(i) == [id |-> ids[i], access |-> listDocumentAccessForOwner(ids[i], u)]
             n == Cardinality(S)
             T == [id : D, access : SUBSET Users]
  <2>a. list = [i \in 1..n |-> item(i)]
    BY <2>1
  <2>b. n \in Nat /\ \A i \in 1..n : item(i) \in T
    BY <1>5, <2>3
  <2> HIDE DEF item, n, list, T
  <2>c. [i \in 1..n |-> item(i)] \in Seq(T)
    BY <2>b, IsASeq
  <2>4. list \in ListsOf(D)
    BY <2>a, <2>c DEF ListsOf, T
  <2>5. D \subseteq Nat
    BY <1>1, <1>3
  <2> QED
    BY <2>4, <2>5, OverMore
<1> HIDE DEF list
<1>7. q \in Calls
    BY <1>1, <1>6 DEF Calls
<1>8. CallOK(q, documents, access)
    BY <1>1, <1>2, <1>6 DEF Calls, CallOK, D
<1> HIDE DEF q
<1> QED
    BY <1>2, <1>7, <1>8, ReadSound

\* What a refresh leaves of a request: it answers, or goes on with the grantee's
\* projection, and has forgotten what it read (Refreshed).
LEMMA RefreshedSound ==
    ASSUME NEW q \in Calls, NEW docs, NEW grants, CallOK(q, docs, grants), q.pc # "idle"
    PROVE  Refreshed(q) \in Calls /\ CallOK(Refreshed(q), docs, grants)
<1> DEFINE rest == [q EXCEPT !.base = NoArray, !.owned = {}, !.list = <<>>]
           done == [rest EXCEPT !.pc = "answered"]
           next == [rest EXCEPT !.pc = "find-data", !.of = q.peer, !.data = 0, !.home = 0]
<1>1. NoArray \in ArraysOf(Nat) /\ <<>> \in ListsOf(Nat) /\ <<>> \in ListsOf(OpenIn(docs, grants, q.of))
      /\ <<>> \in ListsOf(OpenIn(docs, grants, q.peer))
    BY EmptySound
<1>2. /\ rest \in Calls /\ rest.owned = {} /\ rest.list = <<>>
      /\ rest.op = q.op /\ rest.user = q.user /\ rest.peer = q.peer /\ rest.of = q.of
      /\ rest.data = q.data /\ rest.home = q.home
    BY <1>1 DEF Calls
<1> HIDE DEF rest
<1>3. done \in Calls /\ CallOK(done, docs, grants)
  <2>1. /\ done \in Calls /\ done.owned = {} /\ done.list = <<>>
        /\ done.op = q.op /\ done.user = q.user /\ done.peer = q.peer /\ done.of = q.of
        /\ done.data = q.data /\ done.home = q.home
    BY <1>2 DEF Calls
  <2> HIDE DEF done
  <2> QED
    BY <1>1, <2>1 DEF CallOK
<1>4. ASSUME q.op = "share" PROVE next \in Calls /\ CallOK(next, docs, grants)
  <2>1. q.user \in Users /\ q.peer \in Users
    BY <1>4 DEF CallOK
  <2>2. /\ next \in Calls /\ next.owned = {} /\ next.list = <<>>
        /\ next.op = q.op /\ next.user = q.user /\ next.peer = q.peer /\ next.of = q.peer
        /\ next.data = 0 /\ next.home = 0
    BY <1>2, <2>1 DEF Calls
  <2> HIDE DEF next
  <2> QED
    BY <1>1, <2>1, <2>2 DEF CallOK
<1>5. Refreshed(q) \in {done} \/ (q.op = "share" /\ Refreshed(q) = next)
    BY DEF Refreshed, rest
<1> HIDE DEF done, next
<1> QED
    BY <1>3, <1>4, <1>5

\* The projections after a refresh reached Y-Sweet.
LEMMA ProjectionsSound ==
    ASSUME ServerInv, NEW r \in Requests, request[r].pc # "idle",
           NEW p \in Merged(r, request[r].base, request[r].list, projection[request[r].of])
    PROVE  /\ [projection EXCEPT ![request[r].of] = p] \in [Users -> ArraysOf(Nat)]
           /\ \A u \in Users :
                [projection EXCEPT ![request[r].of] = p][u] \in ArraysOf(OpenIn(documents, access, u))
<1> DEFINE of == request[r].of
           D == OpenIn(documents, access, of)
<1>1. /\ of \in Users /\ request[r].list \in ListsOf(D)
      /\ projection[of] \in ArraysOf(D)
    BY Facts DEF CallOK
<1>2. projection \in [Users -> ArraysOf(Nat)] /\ \A u \in Users : projection[u] \in ArraysOf(OpenIn(documents, access, u))
    BY DEF ServerInv, TypeOK
<1>3. D \subseteq Nat
    BY Facts DEF OpenIn
<1>4. r \in Nat
    BY RequestsAssumption DEF RequestsAssumption, Requests
<1> HIDE DEF of, D
<1>5. p \in ArraysOf(D)
    BY <1>1, <1>4, MergedSound DEF of
<1>6. p \in ArraysOf(Nat)
    BY <1>3, <1>5, OverMore
<1> DEFINE after == [projection EXCEPT ![of] = p]
<1>7. after \in [Users -> ArraysOf(Nat)] /\ \A u \in Users : after[u] = IF u = of THEN p ELSE projection[u]
    BY <1>1, <1>2, <1>6
<1> HIDE DEF after
<1>8. \A u \in Users : after[u] \in ArraysOf(OpenIn(documents, access, u))
    BY <1>2, <1>5, <1>7 DEF D
<1> QED
    BY <1>7, <1>8 DEF after, of

\* updateDoc and refreshFails
LEMMA UpdateKeeps ==
    ASSUME ServerInv, NEW r \in Requests, updateDoc(r) \/ refreshFails(r)
    PROVE  ServerInv'
<1> DEFINE failed == [request[r] EXCEPT !.pc = "done", !.base = NoArray, !.owned = {}, !.list = <<>>]
           merges == Merged(r, request[r].base, request[r].list, projection[request[r].of])
<1>1. request[r] \in Calls /\ CallOK(request[r], documents, access) /\ documents \in Seq(Rows) /\ OnePerUser(documents)
    BY Facts
<1>2. request[r].pc # "idle" /\ documents' = documents /\ access' = access
    BY DEF updateDoc, refreshFails
<1>3. failed \in Calls /\ CallOK(failed, documents, access)
  <2>1. NoArray \in ArraysOf(Nat) /\ <<>> \in ListsOf(Nat) /\ <<>> \in ListsOf(OpenIn(documents, access, request[r].of))
    BY EmptySound
  <2>2. /\ failed \in Calls /\ failed.owned = {} /\ failed.list = <<>>
        /\ failed.op = request[r].op /\ failed.user = request[r].user /\ failed.peer = request[r].peer
        /\ failed.of = request[r].of /\ failed.data = request[r].data /\ failed.home = request[r].home
    BY <1>1, <2>1 DEF Calls
  <2> HIDE DEF failed
  <2> QED
    BY <1>1, <1>2, <2>1, <2>2 DEF CallOK
<1>4. Refreshed(request[r]) \in Calls /\ CallOK(Refreshed(request[r]), documents, access)
    BY <1>1, <1>2, RefreshedSound
<1>5. \/ Step(r, Refreshed(request[r]))
      \/ Step(r, failed)
  <2>1. CASE updateDoc(r)
    BY <2>1 DEF updateDoc
  <2>2. CASE refreshFails(r)
    <3>1. Step(r, IF request[r].op = "bootstrap" THEN failed ELSE Refreshed(request[r]))
      BY <2>2 DEF refreshFails
    <3> HIDE DEF failed
    <3> QED
      BY <3>1
  <2> QED
    BY <2>1, <2>2
<1> HIDE DEF failed
<1>6. \/ projection' = projection
      \/ \E p \in merges : projection' = [projection EXCEPT ![request[r].of] = p]
    BY DEF updateDoc, refreshFails
<1>7. PICK q \in Calls : Step(r, q) /\ CallOK(q, documents, access)
    BY <1>3, <1>4, <1>5
<1>8. CASE projection' = projection
    BY <1>2, <1>7, <1>8, ReadSound
<1>9. CASE \E p \in merges : projection' = [projection EXCEPT ![request[r].of] = p]
  <2>1. /\ projection' \in [Users -> ArraysOf(Nat)]
        /\ \A u \in Users : projection'[u] \in ArraysOf(OpenIn(documents, access, u))
    BY <1>2, <1>9, ProjectionsSound
  <2>2. /\ documents' \in Seq(Rows) /\ Grows(documents, documents') /\ OnePerUser(documents')
        /\ CallOK(q, documents', access') /\ access \subseteq access'
        /\ \A u \in Users : projection'[u] \in ArraysOf(OpenIn(documents', access', u))
    BY <1>1, <1>2, <1>7, <2>1 DEF Grows
  <2> QED
    BY <1>7, <2>1, <2>2, StepSound
<1> QED
    BY <1>6, <1>8, <1>9

\* Every step of any request, and a step of none.
LEMMA NextKeeps == ServerInv /\ [Next]_vars => ServerInv'
<1> SUFFICES ASSUME ServerInv, [Next]_vars PROVE ServerInv'
    OBVIOUS
<1>1. CASE UNCHANGED vars
    BY <1>1 DEF vars, ServerInv, TypeOK
<1>2. CASE Next
    BY <1>2, ArriveKeeps, GrantKeeps, FindKeeps, InsertKeeps, CreateKeeps, OpenKeeps, ListOwnedKeeps, ListKeeps,
       UpdateKeeps DEF Next
<1> QED
    BY <1>1, <1>2
-----------------------------------------------------------------------------
(* The start                                                               *)

\* A finite set as a sequence has each of its elements once (SetToSeq).
LEMMA ListingSound ==
    ASSUME NEW S, IsFiniteSet(S)
    PROVE  /\ Cardinality(S) \in Nat /\ SetToSeq(S) \in [1..Cardinality(S) -> S]
           /\ \A i, j \in 1..Cardinality(S) : SetToSeq(S)[i] = SetToSeq(S)[j] => i = j
           /\ \A x \in S : \E i \in 1..Cardinality(S) : SetToSeq(S)[i] = x
<1> DEFINE n == Cardinality(S)
           f == SetToSeq(S)
<1>1. n \in Nat /\ ExistsBijection(1..n, S)
    BY FS_CardinalityType
<1>2. f = CHOOSE g \in [1..n -> S] : IsInjective(g)
    BY DEF SetToSeq
<1>3. \E g \in [1..n -> S] : IsInjective(g)
    BY <1>1 DEF ExistsBijection, Bijection, Injection
<1> HIDE DEF n, f
<1>4. f \in [1..n -> S] /\ IsInjective(f)
    BY <1>2, <1>3
<1>5. f \in Injection(1..n, S)
    BY <1>4 DEF Injection
<1>6. IsFiniteSet(1..n) /\ Cardinality(1..n) = n
    BY <1>1, FS_Interval
<1>7. f \in Surjection(1..n, S)
    BY <1>5, <1>6, FS_Injection DEF n
<1>8. \A i, j \in 1..n : f[i] = f[j] => i = j
    BY <1>4 DEF IsInjective
<1>9. \A x \in S : \E i \in 1..n : f[i] = x
    BY <1>7 DEF Surjection
<1> QED
    BY <1>1, <1>4, <1>8, <1>9 DEF n, f

\* The users who were here before have their two documents.
LEMMA TablesAtStart ==
    ASSUME NEW old \in SUBSET Users, NEW docs, NEW us, us = SetToSeq(old),
           docs = [i \in 1..Cardinality(old) |-> [owner |-> us[i], kind |-> "user-data-projection"]]
                  \o [i \in 1..Cardinality(old) |-> [owner |-> us[i], kind |-> "home-document"]]
    PROVE  /\ docs \in Seq(Rows) /\ OnePerUser(docs)
           /\ \A u \in old : FoundIn(docs, u, "home-document") # {}
<1> DEFINE n == Cardinality(old)
           A == [i \in 1..n |-> [owner |-> us[i], kind |-> "user-data-projection"]]
           B == [i \in 1..n |-> [owner |-> us[i], kind |-> "home-document"]]
<1>1. IsFiniteSet(old)
    BY FS_Subset
<1>2. /\ n \in Nat /\ us \in [1..n -> old]
      /\ \A i, j \in 1..n : us[i] = us[j] => i = j
      /\ \A x \in old : \E i \in 1..n : us[i] = x
    BY <1>1, ListingSound
<1> HIDE DEF n
<1>3. /\ \A i \in 1..n : [owner |-> us[i], kind |-> "user-data-projection"] \in Rows
      /\ \A i \in 1..n : [owner |-> us[i], kind |-> "home-document"] \in Rows
    BY <1>2 DEF Rows, Kinds
<1>4. A \in Seq(Rows) /\ Len(A) = n /\ B \in Seq(Rows) /\ Len(B) = n
    BY <1>2, <1>3, IsASeq
<1>5. /\ \A i \in 1..n : A[i].owner = us[i] /\ A[i].kind = "user-data-projection"
      /\ \A i \in 1..n : B[i] = [owner |-> us[i], kind |-> "home-document"]
    OBVIOUS
<1>6. docs = A \o B
    BY DEF n
<1> HIDE DEF A, B
<1>7. /\ docs \in Seq(Rows) /\ Len(docs) = n + n
      /\ \A i \in 1..(n + n) : docs[i] = IF i <= n THEN A[i] ELSE B[i - n]
  <2>1. \A a, b \in Seq(Rows) :
          /\ a \o b \in Seq(Rows) /\ Len(a \o b) = Len(a) + Len(b)
          /\ \A i \in 1..(Len(a) + Len(b)) : (a \o b)[i] = IF i <= Len(a) THEN a[i] ELSE b[i - Len(a)]
    BY ConcatProperties
  <2>2. /\ A \o B \in Seq(Rows) /\ Len(A \o B) = Len(A) + Len(B)
        /\ \A i \in 1..(Len(A) + Len(B)) : (A \o B)[i] = IF i <= Len(A) THEN A[i] ELSE B[i - Len(A)]
    BY <1>4, <2>1
  <2> QED
    BY <1>4, <1>6, <2>2, Zenon
<1>8. DOMAIN docs = 1..(n + n)
    BY <1>7
<1>9. /\ \A d \in 1..n : docs[d].owner = us[d] /\ docs[d].kind = "user-data-projection"
      /\ \A d \in (n + 1)..(n + n) : d - n \in 1..n /\ docs[d].owner = us[d - n] /\ docs[d].kind = "home-document"
  <2>1. \A d \in 1..n : docs[d] = A[d]
    BY <1>2, <1>7
  <2>2. \A d \in (n + 1)..(n + n) : d - n \in 1..n /\ docs[d] = B[d - n]
    BY <1>2, <1>7
  <2>3. \A d \in 1..n : docs[d].owner = us[d] /\ docs[d].kind = "user-data-projection"
    BY <1>5, <2>1
  <2>4. ASSUME NEW d \in (n + 1)..(n + n)
        PROVE  d - n \in 1..n /\ docs[d].owner = us[d - n] /\ docs[d].kind = "home-document"
    <3>1. d - n \in 1..n /\ docs[d] = B[d - n]
      BY <2>2
    <3>2. docs[d] = [owner |-> us[d - n], kind |-> "home-document"]
      BY <1>5, <3>1
    <3> QED
      BY <3>1, <3>2
  <2> QED
    BY <2>3, <2>4
<1>10. OnePerUser(docs)
  <2> SUFFICES ASSUME NEW d \in 1..(n + n), NEW e \in 1..(n + n), docs[d] = docs[e] PROVE d = e
    BY <1>8 DEF OnePerUser
  <2>1. (d <= n /\ e <= n) \/ (d > n /\ e > n)
    BY <1>2, <1>9
  <2>2. CASE d <= n /\ e <= n
    BY <1>2, <1>9, <2>2
  <2>3. CASE d > n /\ e > n
    <3>1. d \in (n + 1)..(n + n) /\ e \in (n + 1)..(n + n)
      BY <1>2, <2>3
    <3>2. d - n \in 1..n /\ e - n \in 1..n /\ us[d - n] = us[e - n]
      BY <1>9, <3>1
    <3>3. d - n = e - n
      BY <1>2, <3>2
    <3> QED
      BY <1>2, <3>3
  <2> QED
    BY <2>1, <2>2, <2>3
<1>11. ASSUME NEW u \in old PROVE FoundIn(docs, u, "home-document") # {}
  <2>1. PICK i \in 1..n : us[i] = u
    BY <1>2
  <2>2. /\ n + i \in 1..(n + n) /\ ~(n + i <= n) /\ (n + i) - n = i
    BY <1>2
  <2>3. docs[n + i] = B[i]
    BY <1>7, <2>2
  <2>4. docs[n + i] = [owner |-> u, kind |-> "home-document"]
    BY <1>5, <2>1, <2>3
  <2> QED
    BY <1>8, <2>2, <2>4 DEF FoundIn
<1> QED
    BY <1>7, <1>10, <1>11

\* The invariant holds at the start.
LEMMA InitSound == Init => ServerInv
<1> SUFFICES ASSUME Init PROVE ServerInv
    OBVIOUS
<1> DEFINE home(u) == CHOOSE d \in DOMAIN documents : documents[d] = [owner |-> u, kind |-> "home-document"]
           shown(u) == [array |-> MaxRequests + 1, entries |-> <<Entry(home(u), MaxRequests + 1, {})>>]
<1>1. PICK old \in SUBSET Users :
        /\ documents = [i \in 1..Cardinality(old) |-> [owner |-> SetToSeq(old)[i], kind |-> "user-data-projection"]]
                       \o [i \in 1..Cardinality(old) |-> [owner |-> SetToSeq(old)[i], kind |-> "home-document"]]
        /\ access = {}
        /\ projection = [u \in Users |-> IF u \in old THEN shown(u) ELSE NoArray]
        /\ request = [r \in Requests |-> NoRequest]
    BY DEF Init
<1>2. /\ documents \in Seq(Rows) /\ OnePerUser(documents)
      /\ \A u \in old : FoundIn(documents, u, "home-document") # {}
    BY <1>1, TablesAtStart
<1>3. MaxRequests + 1 \in Nat /\ DOMAIN documents \subseteq Nat
    BY <1>2, RequestsAssumption DEF RequestsAssumption
<1>4. ASSUME NEW u \in old PROVE shown(u) \in ArraysOf(OpenIn(documents, access, u))
  <2>1. home(u) \in FoundIn(documents, u, "home-document")
    BY <1>2 DEF FoundIn
  <2> HIDE DEF home
  <2> DEFINE D == OpenIn(documents, access, u)
  <2>2. home(u) \in D
    BY <2>1 DEF FoundIn, OpenIn
  <2> HIDE DEF D
  <2>3. Entry(home(u), MaxRequests + 1, {}) \in EntriesOf(D)
    BY <1>3, <2>2 DEF Entry, EntriesOf
  <2>4. \A E : \A e \in E : <<e>> \in Seq(E)
    OBVIOUS
  <2>5. <<Entry(home(u), MaxRequests + 1, {})>> \in Seq(EntriesOf(D))
    BY <2>3, <2>4
  <2> QED
    BY <1>3, <2>5 DEF ArraysOf, D
<1> HIDE DEF shown
<1>5. ASSUME NEW u \in Users PROVE projection[u] \in ArraysOf(OpenIn(documents, access, u))
    BY <1>1, <1>4, EmptySound
<1>6. \A u \in Users : OpenIn(documents, access, u) \subseteq Nat
    BY <1>3 DEF OpenIn
<1>7. projection \in [Users -> ArraysOf(Nat)]
  <2>1. \A u \in Users : projection[u] \in ArraysOf(Nat)
    BY <1>5, <1>6, OverMore
  <2> QED
    BY <1>1, <2>1
<1>8. \A r \in Requests : request[r] = NoRequest
    BY <1>1
<1>9. TypeOK
    BY <1>1, <1>2, <1>7, NoRequestSound DEF TypeOK
<1>10. CallOK(NoRequest, documents, access)
    BY NoRequestSound, EmptySound DEF CallOK
<1> QED
    BY <1>2, <1>5, <1>8, <1>9, <1>10 DEF ServerInv
-----------------------------------------------------------------------------
(* The theorems                                                            *)

\* The tables have the unique index, what a request found is its user's, and what
\* requests and projections list can be opened.
THEOREM ServerInvHolds == Spec => []ServerInv
    BY InitSound, NextKeeps, PTL DEF Spec

\* However the looks and the inserts of requests interleave
\* (ensureUserSpecialDocument), those of a user found the same two documents.
THEOREM BootstrapsAlwaysAgree == Spec => []BootstrapsAgree
<1>1. ServerInv => BootstrapsAgree
  <2> SUFFICES ASSUME ServerInv, NEW r \in Requests, NEW q \in Requests, request[r].of = request[q].of
               PROVE  /\ request[r].data # 0 /\ request[q].data # 0 => request[r].data = request[q].data
                      /\ request[r].home # 0 /\ request[q].home # 0 => request[r].home = request[q].home
    BY DEF BootstrapsAgree
  <2>1. \A u : \A d, e \in FoundIn(documents, u, "user-data-projection") : d = e
    BY Facts DEF OnePerUser, FoundIn
  <2>2. \A u : \A d, e \in FoundIn(documents, u, "home-document") : d = e
    BY Facts DEF OnePerUser, FoundIn
  <2>3. CallOK(request[r], documents, access) /\ CallOK(request[q], documents, access)
    BY Facts
  <2> QED
    BY <2>1, <2>2, <2>3 DEF CallOK
<1> QED
    BY <1>1, ServerInvHolds, PTL

\* Whatever overlapping refreshes left of the projection of a user, each entry
\* names a document that the collaboration token route opens for that user
\* (resolveDocumentAccess).
THEOREM ListedCanAlwaysBeOpened == Spec => []ListedCanBeOpened
<1>1. ServerInv => ListedCanBeOpened
  <2> SUFFICES ASSUME ServerInv, NEW u \in Users, NEW e \in ToSet(projection[u].entries)
               PROVE  resolveDocumentAccess(u, e.doc) = "full"
    BY DEF ListedCanBeOpened
  <2> DEFINE D == OpenIn(documents, access, u)
  <2>1. projection[u] \in ArraysOf(D)
    BY DEF ServerInv
  <2> HIDE DEF D
  <2>2. projection[u].entries \in Seq(EntriesOf(D))
    BY <2>1 DEF ArraysOf
  <2>3. e \in EntriesOf(D)
    BY <2>2, ElementOfSeq DEF ToSet
  <2>4. e.doc \in D
    BY <2>3 DEF EntriesOf
  <2> QED
    BY <2>4 DEF D, OpenIn, resolveDocumentAccess, getDocumentAccessForGrantee
<1> QED
    BY <1>1, ServerInvHolds, PTL
-----------------------------------------------------------------------------
(* The edits of a refresh that knows the projection as it is               *)

HIDE UsersAssumption DEF UsersAssumption

\* The places of the entries that were not deleted, and orders of places.
There(s) == {i \in DOMAIN s : s[i].live}
Below(s, i) == {j \in There(s) : j <= i}
Rises(f, m) == \A i, j \in 1..m : i < j => f[i] < f[j]
Lists(f, m, s) ==
    /\ There(s) \subseteq Nat /\ m \in Nat /\ f \in [1..m -> There(s)] /\ Rises(f, m)
    /\ \A i \in There(s) : \E k \in 1..m : f[k] = i

\* An enumeration of a finite set of numbers that rises counts its members.
LEMMA RisingCounts ==
    ASSUME NEW S, NEW m \in Nat, NEW f \in [1..m -> S], \A i \in S : \E k \in 1..m : f[k] = i,
           \A i, j \in 1..m : f[i] = f[j] => i = j
    PROVE  IsFiniteSet(S) /\ Cardinality(S) = m
<1>1. IsFiniteSet(1..m) /\ Cardinality(1..m) = m
    BY FS_Interval
<1>2. f \in Bijection(1..m, S)
    BY DEF Bijection, Injection, Surjection, IsInjective
<1> DEFINE I == 1..m
<1>3. f \in Bijection(I, S) /\ IsFiniteSet(I) /\ Cardinality(I) = m
    BY <1>1, <1>2
<1> HIDE DEF I
<1>4. IsFiniteSet(S) /\ Cardinality(S) = Cardinality(I)
    BY <1>3, FS_Bijection DEF ExistsBijection
<1> QED
    BY <1>3, <1>4

\* The entries that are left are those at the rising enumeration of their places.
LEMMA LiveByPlaces ==
    ASSUME NEW s, NEW m, NEW f, Lists(f, m, s)
    PROVE  /\ DOMAIN Live(s) = 1..m /\ Len(Live(s)) = m
           /\ \A k \in 1..m : Live(s)[k] = s[f[k]]
<1>1. There(s) \subseteq Nat
    BY DEF Lists
<1>0. m \in Nat /\ f \in [1..m -> There(s)] /\ Rises(f, m) /\ \A i \in There(s) : \E k \in 1..m : f[k] = i
    BY DEF Lists
<1>2. \A i, j \in 1..m : f[i] \in Int /\ f[j] \in Int /\ (f[i] = f[j] => i = j) /\ (f[i] <= f[j] => i <= j)
    BY <1>0, <1>1 DEF Rises
<1>3. Cardinality(There(s)) = m
    BY <1>0, <1>2, RisingCounts
<1>4. ASSUME NEW k \in 1..m PROVE Cardinality(Below(s, f[k])) = k
  <2> DEFINE g == [x \in 1..k |-> f[x]]
  <2>1. \A x \in 1..k : x \in 1..m /\ f[x] <= f[k]
    BY <1>0, <1>2 DEF Rises
  <2>2. g \in [1..k -> Below(s, f[k])]
    BY <1>0, <2>1 DEF Below
  <2>3. \A i \in Below(s, f[k]) : \E x \in 1..k : g[x] = i
    <3> SUFFICES ASSUME NEW i \in Below(s, f[k]) PROVE \E x \in 1..k : f[x] = i
      OBVIOUS
    <3>1. PICK x \in 1..m : f[x] = i
      BY <1>0 DEF Below
    <3>2. x <= k
      BY <1>2, <3>1 DEF Below
    <3> QED
      BY <3>1, <3>2
  <2>4. \A x, y \in 1..k : g[x] = g[y] => x = y
    BY <1>2, <2>1
  <2> HIDE DEF g
  <2>5. k \in Nat
    BY <1>0
  <2> QED
    BY <2>2, <2>3, <2>4, <2>5, RisingCounts
<1>5. ASSUME NEW k \in 1..m PROVE (CHOOSE i \in There(s) : Cardinality(Below(s, i)) = k) = f[k]
  <2>1. f[k] \in There(s) /\ Cardinality(Below(s, f[k])) = k
    BY <1>0, <1>4
  <2>2. \A i \in There(s) : Cardinality(Below(s, i)) = k => i = f[k]
    BY <1>0, <1>4
  <2> QED
    BY <2>1, <2>2
<1>6. Live(s) = [k \in 1..Cardinality(There(s)) |-> s[CHOOSE i \in There(s) : Cardinality(Below(s, i)) = k]]
    BY DEF Live, There, Below
<1> DEFINE shown == [k \in 1..m |-> s[f[k]]]
<1>7. Live(s) = shown
    BY <1>3, <1>5, <1>6
<1>8. DOMAIN shown = 1..m /\ Len(shown) = m /\ \A k \in 1..m : shown[k] = s[f[k]]
    BY <1>0
<1> HIDE DEF shown
<1>9. DOMAIN Live(s) = 1..m /\ Len(Live(s)) = m /\ \A k \in 1..m : Live(s)[k] = s[f[k]]
    BY <1>7, <1>8
<1> QED
    BY <1>9

\* Such an enumeration exists.
LEMMA PlacesRise ==
    ASSUME NEW s, NEW n \in Nat, DOMAIN s = 1..n
    PROVE  \E m, f : Lists(f, m, s)
<1> DEFINE m == Cardinality(There(s))
           rank == [i \in There(s) |-> Cardinality(Below(s, i))]
           f == [k \in 1..m |-> CHOOSE i \in There(s) : rank[i] = k]
<1>1. There(s) \subseteq 1..n
    BY DEF There
<1>2. IsFiniteSet(There(s)) /\ m \in Nat
  <2>1. IsFiniteSet(1..n)
    BY FS_Interval
  <2>2. IsFiniteSet(There(s))
    BY <1>1, <2>1, FS_Subset
  <2> QED
    BY <2>2, FS_CardinalityType
<1>3. ASSUME NEW i \in There(s)
      PROVE  IsFiniteSet(Below(s, i)) /\ rank[i] \in 1..m
  <2>1. Below(s, i) \subseteq There(s) /\ i \in Below(s, i)
    BY <1>1 DEF Below
  <2>2. IsFiniteSet(Below(s, i)) /\ Cardinality(Below(s, i)) <= m
    BY <1>2, <2>1, FS_Subset
  <2>3. Cardinality(Below(s, i)) \in Nat /\ Cardinality(Below(s, i)) # 0
    BY <2>1, <2>2, FS_CardinalityType, FS_EmptySet
  <2> HIDE DEF m
  <2> QED
    BY <1>2, <2>2, <2>3
<1>4. ASSUME NEW i \in There(s), NEW j \in There(s), i < j PROVE rank[i] < rank[j]
  <2>1. Below(s, i) \subseteq Below(s, j) /\ j \in Below(s, j) /\ j \notin Below(s, i)
    BY <1>1, <1>4 DEF Below
  <2>2. Cardinality(Below(s, i)) <= Cardinality(Below(s, j))
        /\ (Cardinality(Below(s, j)) = Cardinality(Below(s, i)) => Below(s, j) = Below(s, i))
    BY <1>3, <2>1, FS_Subset
  <2>3. rank[i] \in Nat /\ rank[j] \in Nat
    BY <1>3
  <2> QED
    BY <2>1, <2>2, <2>3
<1> HIDE DEF rank, m
<1>5. rank \in [There(s) -> 1..m]
    BY <1>3 DEF rank
<1>6. \A i, j \in There(s) : rank[i] = rank[j] => i = j
  <2>1. \A i, j \in There(s) : i < j \/ j < i \/ i = j
    BY <1>1
  <2>2. \A i \in There(s) : rank[i] \in Nat
    BY <1>5
  <2> QED
    BY <1>4, <2>1, <2>2
<1>7. rank \in Injection(There(s), 1..m)
    BY <1>5, <1>6 DEF Injection, IsInjective
<1>8. IsFiniteSet(1..m) /\ Cardinality(1..m) = m
    BY <1>2, FS_Interval
<1>9. rank \in Surjection(There(s), 1..m)
    BY <1>7, <1>8, FS_Injection DEF m
<1>10. \A k \in 1..m : \E i \in There(s) : rank[i] = k
    BY <1>9 DEF Surjection
<1>11. \A k \in 1..m : f[k] \in There(s) /\ rank[f[k]] = k
    BY <1>10
<1>12. f \in [1..m -> There(s)]
    BY <1>11
<1> HIDE DEF f
<1>13. Rises(f, m)
  <2> SUFFICES ASSUME NEW i \in 1..m, NEW j \in 1..m, i < j PROVE f[i] < f[j]
    BY DEF Rises
  <2>1. f[i] \in There(s) /\ f[j] \in There(s) /\ rank[f[i]] = i /\ rank[f[j]] = j
    BY <1>11
  <2>2. f[i] \in Nat /\ f[j] \in Nat
    BY <1>1, <2>1
  <2>3. f[j] < f[i] => j < i
    BY <1>4, <2>1
  <2>4. f[j] # f[i]
    BY <2>1
  <2> QED
    BY <2>2, <2>3, <2>4
<1>14. \A i \in There(s) : \E k \in 1..m : f[k] = i
    BY <1>5, <1>6, <1>11
<1>15. Lists(f, m, s)
  <2>1. There(s) \subseteq Nat
    BY <1>1
  <2> QED
    BY <1>2, <1>12, <1>13, <1>14, <2>1 DEF Lists
<1> QED
    BY <1>15

\* A common prefix is one: the entries are the same that far.
LEMMA CommonPrefixAgrees ==
    \A T : \A a, b \in Seq(T) :
       /\ CommonPrefix(a, b) \in Nat /\ CommonPrefix(a, b) <= Len(a) /\ CommonPrefix(a, b) <= Len(b)
       /\ \A i \in 1..CommonPrefix(a, b) : a[i] = b[i]
<1> SUFFICES ASSUME NEW T, NEW a \in Seq(T), NEW b \in Seq(T)
             PROVE  /\ CommonPrefix(a, b) \in Nat /\ CommonPrefix(a, b) <= Len(a) /\ CommonPrefix(a, b) <= Len(b)
                    /\ \A i \in 1..CommonPrefix(a, b) : a[i] = b[i]
    OBVIOUS
<1> DEFINE n == Len(b)
           S == {k \in 1..n : k <= Len(a) /\ SubSeq(a, 1, k) = SubSeq(b, 1, k)}
           c == Cardinality(S)
<1>1. n \in Nat /\ Len(a) \in Nat /\ S \subseteq 1..n
    OBVIOUS
<1>2. \A s \in Seq(T) : \A k \in Nat : k <= Len(s) =>
         SubSeq(s, 1, k) = [i \in 1..k |-> s[i]]
  OBVIOUS
<1>3. \A k \in S : \A i \in 1..k : a[i] = b[i]
  <2> SUFFICES ASSUME NEW k \in S, NEW i \in 1..k PROVE a[i] = b[i]
    OBVIOUS
  <2>1. k \in Nat /\ k <= Len(a) /\ k <= Len(b) /\ SubSeq(a, 1, k) = SubSeq(b, 1, k)
    OBVIOUS
  <2> HIDE DEF S
  <2>2. [x \in 1..k |-> a[x]] = [x \in 1..k |-> b[x]]
    BY <1>2, <2>1
  <2>3. [x \in 1..k |-> a[x]][i] = [x \in 1..k |-> b[x]][i]
    BY <2>2
  <2> QED
    BY <2>3
<1>4. \A k \in S : \A i \in 1..k : i \in S
  <2> SUFFICES ASSUME NEW k \in S, NEW i \in 1..k PROVE i \in S
    OBVIOUS
  <2>1. i \in Nat /\ i \in 1..n /\ i <= Len(a) /\ i <= Len(b) /\ \A x \in 1..i : x \in 1..k
    BY <1>1
  <2>2. \A x \in 1..i : a[x] = b[x]
    BY <1>3, <2>1
  <2>3. [x \in 1..i |-> a[x]] = [x \in 1..i |-> b[x]]
    BY <2>2
  <2>4. SubSeq(a, 1, i) = SubSeq(b, 1, i)
    BY <1>2, <2>1, <2>3
  <2> QED
    BY <2>1, <2>4
<1>5. CommonPrefix(a, b) = c
    BY DEF CommonPrefix
<1>6. \A k \in S : k <= Len(a)
    OBVIOUS
<1> HIDE DEF n, S
<1>7. IsFiniteSet(S) /\ c \in Nat
  <2>1. IsFiniteSet(1..n)
    BY <1>1, FS_Interval
  <2>2. IsFiniteSet(S)
    BY <1>1, <2>1, FS_Subset
  <2> QED
    BY <2>2, FS_CardinalityType
<1>8. c = 0 \/ c \in S
  <2> SUFFICES ASSUME c # 0, c \notin S PROVE FALSE
    OBVIOUS
  <2>1. \A k \in S : k \in Nat /\ k # 0
    BY <1>1
  <2>2. S \subseteq 1..(c - 1)
    <3> HIDE DEF c
    <3> QED
      BY <1>4, <1>7, <2>1
  <2>3. IsFiniteSet(1..(c - 1)) /\ Cardinality(1..(c - 1)) = c - 1
    <3> HIDE DEF c
    <3>1. 1 \in Int /\ c - 1 \in Int /\ c \in Nat /\ c # 0
      BY <1>7
    <3> QED
      BY <3>1, FS_Interval
  <2>4. c <= c - 1
    <3> DEFINE I == 1..(c - 1)
    <3>1. S \subseteq I /\ IsFiniteSet(I) /\ Cardinality(I) = c - 1
      BY <2>2, <2>3
    <3> HIDE DEF I
    <3>2. Cardinality(S) <= Cardinality(I)
      BY <3>1, FS_Subset
    <3> QED
      BY <3>1, <3>2
  <2> HIDE DEF c
  <2> QED
    BY <1>7, <2>4
<1> HIDE DEF c
<1>9. c <= Len(a) /\ c <= n /\ \A i \in 1..c : a[i] = b[i]
  <2>1. CASE c = 0
    BY <1>1, <2>1
  <2>2. CASE c \in S
    <3>1. c \in 1..n /\ c <= n
      BY <2>2 DEF S
    <3>2. c <= Len(a)
      BY <1>6, <2>2
    <3>3. \A i \in 1..c : a[i] = b[i]
      BY <1>3, <2>2
    <3> QED
      BY <3>1, <3>2, <3>3
  <2> QED
    BY <1>8, <2>1, <2>2
<1>10. c \in Nat /\ c <= Len(a) /\ c <= Len(b) /\ \A i \in 1..c : a[i] = b[i]
    BY <1>7, <1>9 DEF n
<1> QED
    BY <1>5, <1>10

\* What a refresh does to entries with given documents: the first and the last of
\* them that agree with the list stay, and between them the list's take the place
\* of the others (syncYjsOrderedMapArray).
EndsStay(entries, list, edit, x) ==
    LET keys == Keys(entries) IN
    /\ edit.prefix \in Nat /\ edit.prefix + x <= Len(keys) /\ edit.prefix + x <= Len(list)
    /\ \A i \in 1..edit.prefix : keys[i] = list[i]
    /\ \A i \in 1..x : keys[Len(keys) - i + 1] = list[Len(list) - i + 1]
    /\ edit.deleted = {Id(Live(entries)[i]) : i \in (edit.prefix + 1)..(Len(keys) - x)}
    /\ edit.inserted = SubSeq(list, edit.prefix + 1, Len(list) - x)

\* Such are the edits of a refresh.
LEMMA EditSound ==
    ASSUME NEW T, NEW entries, Keys(entries) \in Seq(T), NEW list \in Seq(T)
    PROVE  \E x \in Nat : EndsStay(entries, list, syncYjsOrderedMapArray(entries, list), x)
<1> DEFINE keys == Keys(entries)
           prefix == CommonPrefix(keys, list)
           rest(s) == Reverse(SubSeq(s, prefix + 1, Len(s)))
           suffix == CommonPrefix(rest(keys), rest(list))
<1>1. syncYjsOrderedMapArray(entries, list) =
        [prefix |-> prefix,
         deleted |-> {Id(Live(entries)[i]) : i \in (prefix + 1)..(Len(keys) - suffix)},
         inserted |-> SubSeq(list, prefix + 1, Len(list) - suffix)]
    BY DEF syncYjsOrderedMapArray
<1>2. /\ prefix \in Nat /\ prefix <= Len(keys) /\ prefix <= Len(list)
      /\ \A i \in 1..prefix : keys[i] = list[i]
    BY CommonPrefixAgrees
<1> HIDE DEF prefix
<1>3. \A s \in Seq(T) : prefix <= Len(s) =>
         /\ rest(s) \in Seq(T) /\ Len(rest(s)) = Len(s) - prefix
         /\ \A i \in 1..(Len(s) - prefix) : rest(s)[i] = s[Len(s) - i + 1]
  <2> SUFFICES ASSUME NEW s \in Seq(T), prefix <= Len(s)
               PROVE  /\ rest(s) \in Seq(T) /\ Len(rest(s)) = Len(s) - prefix
                      /\ \A i \in 1..(Len(s) - prefix) : rest(s)[i] = s[Len(s) - i + 1]
    OBVIOUS
  <2> DEFINE tail == SubSeq(s, prefix + 1, Len(s))
             n == Len(s) - prefix
  <2>1. n \in Nat /\ Len(s) \in Nat
    BY <1>2
  <2>2. \A i \in (prefix + 1)..Len(s) : s[i] \in T
    BY <1>2, ElementOfSeq
  <2>3. tail = [i \in 1..n |-> s[prefix + i]]
    BY <1>2, <2>1
  <2>4. \A i \in 1..n : s[prefix + i] \in T
    BY <1>2, <2>1, <2>2
  <2> HIDE DEF tail
  <2>5. Len(tail) = n /\ \A i \in 1..n : tail[i] = s[prefix + i]
    BY <2>1, <2>3
  <2>6. rest(s) = [i \in 1..n |-> tail[n - i + 1]]
    BY <2>5 DEF Reverse, tail
  <2>7. \A i \in 1..n : n - i + 1 \in 1..n /\ prefix + (n - i + 1) = Len(s) - i + 1
    BY <1>2, <2>1
  <2>8. ASSUME NEW i \in 1..n PROVE tail[n - i + 1] = s[Len(s) - i + 1] /\ tail[n - i + 1] \in T
    <3> DEFINE k == n - i + 1
    <3>1. k \in 1..n /\ prefix + k = Len(s) - i + 1
      BY <2>7
    <3> HIDE DEF k, n
    <3>2. tail[k] = s[prefix + k] /\ s[prefix + k] \in T
      BY <2>4, <2>5, <3>1
    <3> QED
      BY <3>1, <3>2 DEF k
  <2> HIDE DEF rest, n
  <2>9. rest(s) \in Seq(T) /\ Len(rest(s)) = n /\ \A i \in 1..n : rest(s)[i] = s[Len(s) - i + 1]
    BY <2>1, <2>6, <2>8, IsASeq
  <2> QED
    BY <2>9 DEF n
<1> HIDE DEF rest
<1>4. /\ suffix \in Nat /\ suffix <= Len(rest(keys)) /\ suffix <= Len(rest(list))
      /\ \A i \in 1..suffix : rest(keys)[i] = rest(list)[i]
    BY <1>2, <1>3, CommonPrefixAgrees
<1> HIDE DEF suffix
<1>5. Len(keys) \in Nat /\ Len(list) \in Nat
    OBVIOUS
<1> HIDE DEF keys
<1>a. keys \in Seq(T)
    BY DEF keys
<1>b. Len(rest(keys)) = Len(keys) - prefix /\ Len(rest(list)) = Len(list) - prefix
    BY <1>2, <1>3, <1>a
<1>6. prefix + suffix <= Len(keys) /\ prefix + suffix <= Len(list)
    BY <1>2, <1>4, <1>5, <1>b
<1>7. ASSUME NEW i \in 1..suffix PROVE keys[Len(keys) - i + 1] = list[Len(list) - i + 1]
  <2>1. i \in 1..(Len(keys) - prefix) /\ i \in 1..(Len(list) - prefix)
    BY <1>2, <1>4, <1>5, <1>6
  <2>2. rest(keys)[i] = keys[Len(keys) - i + 1]
    BY <1>2, <1>3, <1>a, <2>1
  <2>3. rest(list)[i] = list[Len(list) - i + 1]
    BY <1>2, <1>3, <2>1
  <2> QED
    BY <1>4, <2>2, <2>3
<1> DEFINE edit == syncYjsOrderedMapArray(entries, list)
<1> DEFINE out == {Id(Live(entries)[i]) : i \in (prefix + 1)..(Len(keys) - suffix)}
           in == SubSeq(list, prefix + 1, Len(list) - suffix)
<1>c. edit = [prefix |-> prefix, deleted |-> out, inserted |-> in]
    BY <1>1
<1> HIDE DEF edit, out, in
<1>d. edit.prefix = prefix /\ edit.deleted = out /\ edit.inserted = in
    BY <1>c
<1>8. /\ edit.prefix = prefix
      /\ edit.deleted = {Id(Live(entries)[i]) : i \in (prefix + 1)..(Len(keys) - suffix)}
      /\ edit.inserted = SubSeq(list, prefix + 1, Len(list) - suffix)
    BY <1>d DEF out, in
<1>9. EndsStay(entries, list, edit, suffix)
    BY <1>2, <1>6, <1>7, <1>8 DEF EndsStay, keys
<1> QED
    BY <1>4, <1>9 DEF edit

\* A sequence of N entries with a block of b behind place i.
Joined(R, kept, block, i, N, b) ==
    /\ DOMAIN R = 1..(N + b)
    /\ \A j \in 1..(N + b) : R[j] = IF j <= i THEN kept[j] ELSE IF j <= i + b THEN block[j - i] ELSE kept[j - b]

\* Entries of which all but the first a and the last x of those that are left go,
\* with a block behind place i: what is left is those, with the block between.
Spliced(N, m, a, x, b, i, f, kept, block, R) ==
    /\ N \in Nat /\ m \in Nat /\ a \in Nat /\ x \in Nat /\ b \in Nat /\ i \in Nat /\ a + x <= m /\ i <= N
    /\ f \in [1..m -> 1..N] /\ Rises(f, m) /\ \A k \in 1..m : IF k <= a THEN f[k] <= i ELSE f[k] > i
    /\ \A j \in 1..N : kept[j].live <=> \E k \in 1..m : f[k] = j /\ (k <= a \/ k > m - x)
    /\ \A j \in 1..b : block[j].live
    /\ Joined(R, kept, block, i, N, b)

\* The places of what is left, in order: those in front, the block, those behind.
LEMMA SplicedPlaces ==
    ASSUME NEW N, NEW m, NEW a, NEW x, NEW b, NEW i, NEW f, NEW kept, NEW block, NEW R,
           Spliced(N, m, a, x, b, i, f, kept, block, R)
    PROVE  \E g : /\ Lists(g, a + b + x, R)
                  /\ \A k \in 1..(a + b + x) : R[g[k]] = IF k <= a THEN kept[f[k]]
                                                         ELSE IF k <= a + b THEN block[k - a]
                                                         ELSE kept[f[k - (a + b + x) + m]]
<1> USE DEF Spliced, Joined
<1> DEFINE n == a + b + x
           later(k) == k - n + m
           g == [k \in 1..n |-> IF k <= a THEN f[k] ELSE IF k <= a + b THEN i + (k - a) ELSE f[later(k)] + b]
<1>1. \A k \in 1..m : f[k] \in Nat /\ f[k] >= 1 /\ f[k] <= N
    OBVIOUS
<1>2. ASSUME NEW k \in 1..n
      PROVE  /\ k <= a => k \in 1..m /\ k \in Nat
             /\ k > a /\ k <= a + b => k - a \in 1..b
             /\ k > a + b => later(k) \in 1..m /\ later(k) > a /\ later(k) > m - x
    OBVIOUS
<1>3. ASSUME NEW k \in 1..n, k <= a PROVE g[k] = f[k] /\ g[k] \in 1..i /\ R[g[k]] = kept[f[k]] /\ kept[f[k]].live
    BY <1>1, <1>2, <1>3
<1>4. ASSUME NEW k \in 1..n, k > a, k <= a + b
      PROVE  g[k] = i + (k - a) /\ g[k] \in (i + 1)..(i + b) /\ R[g[k]] = block[k - a] /\ block[k - a].live
  <2>1. g[k] = i + (k - a)
    BY <1>4
  <2>2. k - a \in 1..b
    BY <1>2, <1>4
  <2> HIDE DEF g
  <2>3. g[k] \in 1..(N + b) /\ ~(g[k] <= i) /\ g[k] <= i + b /\ g[k] - i = k - a
    BY <2>1, <2>2
  <2>4. R[g[k]] = block[k - a]
    BY <2>3
  <2>5. block[k - a].live
    BY <2>2
  <2>6. g[k] \in (i + 1)..(i + b)
    BY <2>1, <2>2
  <2> QED
    BY <2>1, <2>4, <2>5, <2>6
<1>5. ASSUME NEW k \in 1..n, k > a + b
      PROVE  /\ g[k] = f[later(k)] + b /\ g[k] \in (i + b + 1)..(N + b)
             /\ R[g[k]] = kept[f[later(k)]] /\ kept[f[later(k)]].live
  <2>1. g[k] = f[later(k)] + b
    BY <1>5
  <2>2. later(k) \in 1..m /\ later(k) > a /\ later(k) > m - x
    BY <1>2, <1>5
  <2> HIDE DEF g, later
  <2>3. f[later(k)] > i /\ f[later(k)] \in 1..N /\ kept[f[later(k)]].live
    BY <2>2
  <2>4. g[k] \in 1..(N + b) /\ ~(g[k] <= i) /\ ~(g[k] <= i + b) /\ g[k] - b = f[later(k)]
    BY <2>1, <2>3
  <2>5. R[g[k]] = kept[f[later(k)]]
    BY <2>4
  <2> QED
    BY <2>1, <2>3, <2>4, <2>5
<1>6. \A k \in 1..n : g[k] \in 1..(N + b) /\ R[g[k]].live
  <2> SUFFICES ASSUME NEW k \in 1..n PROVE g[k] \in 1..(N + b) /\ R[g[k]].live
    OBVIOUS
  <2> HIDE DEF g, later, n
  <2>1. k <= a \/ (k > a /\ k <= a + b) \/ k > a + b
    BY DEF n
  <2>2. \A j \in 1..i : j \in 1..(N + b)
    OBVIOUS
  <2>3. \A j \in (i + 1)..(i + b) : j \in 1..(N + b)
    OBVIOUS
  <2>4. \A j \in (i + b + 1)..(N + b) : j \in 1..(N + b)
    OBVIOUS
  <2> QED
    BY <1>3, <1>4, <1>5, <2>1, <2>2, <2>3, <2>4
<1>7. g \in [1..n -> There(R)]
  <2>1. DOMAIN g = 1..n /\ g = [k \in 1..n |-> g[k]]
    OBVIOUS
  <2> HIDE DEF g, n
  <2> QED
    BY <1>6, <2>1 DEF There
<1>8. Rises(g, n)
  <2> SUFFICES ASSUME NEW k \in 1..n, NEW l \in 1..n, k < l PROVE g[k] < g[l]
    BY DEF Rises
  <2>1. CASE l <= a
    <3>1. k \in 1..m /\ l \in 1..m /\ k <= a
      BY <1>2, <2>1
    <3> QED
      BY <1>3, <2>1, <3>1 DEF Rises
  <2>2. CASE k > a + b
    <3>1. later(k) \in 1..m /\ later(l) \in 1..m /\ later(k) < later(l) /\ l > a + b
      BY <1>2, <2>2
    <3>2. f[later(k)] < f[later(l)]
      BY <3>1 DEF Rises
    <3>3. g[k] = f[later(k)] + b /\ g[l] = f[later(l)] + b
      BY <1>5, <2>2, <3>1
    <3> HIDE DEF g, later
    <3> QED
      BY <1>1, <3>1, <3>2, <3>3
  <2>3. CASE k > a /\ l <= a + b
    BY <1>4, <2>3
  <2>4. CASE k <= a /\ l > a
    <3>1. g[k] \in 1..i
      BY <1>3, <2>4
    <3>2. g[l] \in (i + 1)..(i + b) \/ g[l] \in (i + b + 1)..(N + b)
      BY <1>4, <1>5, <2>4
    <3> HIDE DEF g
    <3> QED
      BY <3>1, <3>2
  <2>5. CASE k > a /\ k <= a + b /\ l > a + b
    <3>1. g[k] \in (i + 1)..(i + b) /\ g[l] \in (i + b + 1)..(N + b)
      BY <1>4, <1>5, <2>5
    <3> DEFINE v == i + b
    <3>2. v \in Nat
      OBVIOUS
    <3> HIDE DEF g, v
    <3>3. g[k] \in Int /\ g[l] \in Int /\ g[k] <= v /\ g[l] >= v + 1
      BY <3>1, <3>2 DEF v
    <3> QED
      BY <3>2, <3>3
  <2> QED
    BY <2>1, <2>2, <2>3, <2>4, <2>5
<1>9. ASSUME NEW j \in There(R) PROVE \E k \in 1..n : g[k] = j
  <2>1. j \in 1..(N + b) /\ R[j].live
    BY DEF There
  <2>2. CASE j <= i
    <3>1. j \in 1..N /\ kept[j].live
      BY <2>1, <2>2
    <3>2. PICK k \in 1..m : f[k] = j /\ (k <= a \/ k > m - x)
      BY <3>1
    <3>3. k <= a
      BY <1>1, <2>2, <3>2
    <3>4. k \in 1..n
      BY <3>3
    <3> HIDE DEF g, n
    <3> QED
      BY <1>3, <3>2, <3>3, <3>4
  <2>3. CASE j > i /\ j <= i + b
    <3> HIDE DEF g, later
    <3>0. j \in Int /\ i \in Int /\ a \in Int
      BY <2>1
    <3> DEFINE k == a + (j - i)
    <3>2. k \in Int /\ k - a = j - i
      BY <3>0
    <3>1. k > a /\ k <= a + b /\ i + (k - a) = j
      BY <2>3, <3>0, <3>2
    <3> HIDE DEF k
    <3>3. k \in 1..n
      BY <3>1, <3>2
    <3> HIDE DEF n
    <3> QED
      BY <1>4, <3>1, <3>3
  <2>4. CASE j > i + b
    <3>1. j - b \in 1..N /\ j - b > i /\ kept[j - b].live
      BY <2>1, <2>4
    <3>2. PICK k \in 1..m : f[k] = j - b /\ (k <= a \/ k > m - x)
      BY <3>1
    <3>3. k > m - x
      BY <1>1, <3>1, <3>2
    <3>4. k - m + n \in 1..n /\ k - m + n > a + b /\ later(k - m + n) = k
      BY <3>3
    <3> HIDE DEF n, later
    <3>5. g[k - m + n] = f[k] + b
      BY <1>5, <3>4
    <3> HIDE DEF g
    <3>6. f[k] + b = j
      BY <2>1, <3>2
    <3> QED
      BY <3>4, <3>5, <3>6
  <2>5. j <= i \/ (j > i /\ j <= i + b) \/ j > i + b
    BY <2>1
  <2> HIDE DEF g, n
  <2> QED
    BY <2>2, <2>3, <2>4, <2>5
<1>10. Lists(g, n, R)
  <2>1. n \in Nat /\ There(R) \subseteq Nat
    BY DEF There
  <2>2. \A j \in There(R) : \E k \in 1..n : g[k] = j
    BY <1>9
  <2> HIDE DEF g, n
  <2> QED
    BY <1>7, <1>8, <2>1, <2>2 DEF Lists
<1>11. ASSUME NEW k \in 1..n
       PROVE  R[g[k]] = IF k <= a THEN kept[f[k]] ELSE IF k <= a + b THEN block[k - a] ELSE kept[f[later(k)]]
  <2> HIDE DEF g, later, n
  <2>1. k <= a \/ (k > a /\ k <= a + b /\ ~(k <= a)) \/ (k > a + b /\ ~(k <= a) /\ ~(k <= a + b))
    BY DEF n
  <2> QED
    BY <1>3, <1>4, <1>5, <2>1
<1> HIDE DEF g
<1> QED
    BY <1>10, <1>11
\* The part of a sequence from place lo to place v.
LEMMA PartAt ==
    \A T : \A s \in Seq(T) : \A lo, v \in Nat : 1 <= lo /\ lo <= v + 1 /\ v <= Len(s) =>
       /\ Len(SubSeq(s, lo, v)) = v - lo + 1
       /\ \A j \in 1..(v - lo + 1) : SubSeq(s, lo, v)[j] = s[lo + j - 1]
<1> SUFFICES ASSUME NEW T, NEW s \in Seq(T), NEW lo \in Nat, NEW v \in Nat, 1 <= lo, lo <= v + 1, v <= Len(s)
             PROVE  /\ Len(SubSeq(s, lo, v)) = v - lo + 1
                    /\ \A j \in 1..(v - lo + 1) : SubSeq(s, lo, v)[j] = s[lo + j - 1]
    OBVIOUS
<1> DEFINE n == v - lo + 1
           part == SubSeq(s, lo, v)
<1>1. n \in Nat
    OBVIOUS
<1>2. part = [j \in 1..n |-> s[lo + j - 1]]
    BY <1>1
<1> HIDE DEF part
<1>3. Len(part) = n /\ \A j \in 1..n : part[j] = s[lo + j - 1]
    BY <1>1, <1>2
<1> QED
    BY <1>3 DEF part
-----------------------------------------------------------------------------
(* What a refresh makes of an array (Merged), in parts                     *)

\* The parts of Merged: whom a list names, its documents, the edits, the entries
\* it inserts, those that were there, and the whole.
Grants(listed, d) == UNION {x.access : x \in {y \in ToSet(listed) : y.id = d}}
IdsOf(listed) == [i \in DOMAIN listed |-> listed[i].id]
Edit(base, listed) == syncYjsOrderedMapArray(base.entries, IdsOf(listed))
Block(r, base, listed) ==
    [i \in DOMAIN Edit(base, listed).inserted |->
        Entry(Edit(base, listed).inserted[i], r, Grants(listed, Edit(base, listed).inserted[i]))]
Kept(base, listed, now) ==
    [i \in DOMAIN now.entries |->
        IF Id(now.entries[i]) \in Edit(base, listed).deleted THEN [now.entries[i] EXCEPT !.live = FALSE]
        ELSE IF (\E j \in DOMAIN base.entries : Id(base.entries[j]) = Id(now.entries[i])) /\ now.entries[i].live
        THEN [now.entries[i] EXCEPT !.access = @ \cup Grants(listed, now.entries[i].doc)]
        ELSE now.entries[i]]
Made(kept, block, i) == SubSeq(kept, 1, i) \o block \o SubSeq(kept, i + 1, Len(kept))

\* A refresh sets a new array, loses against another one, or edits the one there.
LEMMA MergedParts ==
    ASSUME NEW r, NEW base, NEW listed, NEW now, NEW p \in Merged(r, base, listed, now)
    PROVE  \/ base.array = 0 /\ p = [array |-> r, entries |-> Block(r, base, listed)]
           \/ p = now /\ base # now
           \/ /\ base.array # 0 /\ base.array = now.array
              /\ \E i \in Places(base.entries, Edit(base, listed).prefix, now.entries) :
                    p = [now EXCEPT !.entries = Made(Kept(base, listed, now), Block(r, base, listed), i)]
<1>1. Merged(r, base, listed, now) =
        IF base.array = 0
        THEN {[array |-> r, entries |-> Block(r, base, listed)]} \cup (IF now.array = 0 THEN {} ELSE {now})
        ELSE IF base.array # now.array THEN {now}
        ELSE {[now EXCEPT !.entries = Made(Kept(base, listed, now), Block(r, base, listed), i)] :
                 i \in Places(base.entries, Edit(base, listed).prefix, now.entries)}
    BY DEF Merged, Block, Kept, Made, Edit, IdsOf, Grants
<1> QED
    BY <1>1

\* A part of an array, a block, and the rest of it (Made).
LEMMA MadeParts ==
    ASSUME NEW T, NEW kept \in Seq(T), NEW block \in Seq(T), NEW N, N = Len(kept), NEW b, b = Len(block),
           NEW i \in 0..N, NEW R, R = Made(kept, block, i)
    PROVE  R \in Seq(T) /\ Joined(R, kept, block, i, N, b)
<1> DEFINE head == SubSeq(kept, 1, i)
           tail == SubSeq(kept, i + 1, N)
<1>1. N \in Nat /\ b \in Nat /\ i \in Nat /\ i <= N
    OBVIOUS
<1>2. \A j \in 1..N : kept[j] \in T
    BY ElementOfSeq
<1>3. head \in Seq(T) /\ Len(head) = i /\ \A j \in 1..i : head[j] = kept[j]
    BY <1>1, <1>2
<1>4. tail \in Seq(T) /\ Len(tail) = N - i /\ \A j \in 1..(N - i) : tail[j] = kept[i + j]
  <2>1. tail \in Seq(T)
    BY <1>1, <1>2, PartSound
  <2>2. Len(tail) = N - i
    BY <1>1
  <2>3. \A j \in 1..(N - i) : tail[j] = kept[i + j]
    BY <1>1
  <2> QED
    BY <2>1, <2>2, <2>3
<1>5. R = (head \o block) \o tail
    BY DEF Made
<1> HIDE DEF head, tail
<1>6. \A s, t \in Seq(T) :
        /\ s \o t \in Seq(T) /\ Len(s \o t) = Len(s) + Len(t)
        /\ \A j \in 1..(Len(s) + Len(t)) : (s \o t)[j] = IF j <= Len(s) THEN s[j] ELSE t[j - Len(s)]
    BY ConcatProperties
<1> DEFINE first == head \o block
<1>7. /\ first \in Seq(T) /\ Len(first) = i + b
      /\ \A j \in 1..(i + b) : first[j] = IF j <= i THEN head[j] ELSE block[j - i]
    BY <1>3, <1>6
<1> HIDE DEF first
<1>8. /\ first \o tail \in Seq(T) /\ Len(first \o tail) = Len(first) + Len(tail)
      /\ \A j \in 1..(Len(first) + Len(tail)) :
            (first \o tail)[j] = IF j <= Len(first) THEN first[j] ELSE tail[j - Len(first)]
    BY <1>4, <1>6, <1>7
<1>9. (i + b) + (N - i) = N + b
    BY <1>1
<1>10. R = first \o tail
    BY <1>5 DEF first
<1>11. R \in Seq(T) /\ Len(R) = N + b
    BY <1>4, <1>7, <1>8, <1>9, <1>10
<1>12. \A j \in 1..(N + b) : R[j] = IF j <= i + b THEN first[j] ELSE tail[j - (i + b)]
    BY <1>4, <1>7, <1>8, <1>9, <1>10
<1>13. ASSUME NEW j \in 1..(N + b)
       PROVE  R[j] = IF j <= i THEN kept[j] ELSE IF j <= i + b THEN block[j - i] ELSE kept[j - b]
  <2>1. CASE j <= i
    <3>1. j <= i + b /\ j \in 1..(i + b) /\ j \in 1..i
      BY <1>1, <2>1
    <3> QED
      BY <1>3, <1>7, <1>12, <2>1, <3>1
  <2>2. CASE ~(j <= i) /\ j <= i + b
    <3>1. j \in 1..(i + b)
      BY <1>1, <2>2
    <3> QED
      BY <1>7, <1>12, <2>2, <3>1
  <2>3. CASE ~(j <= i + b)
    <3>1. ~(j <= i) /\ j - (i + b) \in 1..(N - i) /\ i + (j - (i + b)) = j - b
      BY <1>1, <2>3
    <3> QED
      BY <1>4, <1>12, <2>3, <3>1
  <2> QED
    BY <1>1, <2>1, <2>2, <2>3
<1>14. DOMAIN R = 1..(N + b)
    BY <1>11
<1> QED
    BY <1>11, <1>13, <1>14 DEF Joined

\* The keys of entries are those at the enumeration of their places.
LEMMA KeysByPlaces ==
    ASSUME NEW D, NEW entries \in Seq(EntriesOf(D)), NEW m, NEW f, Lists(f, m, entries)
    PROVE  /\ m \in Nat /\ Keys(entries) \in Seq(D) /\ Len(Keys(entries)) = m /\ Len(Live(entries)) = m
           /\ \A k \in 1..m : f[k] \in 1..Len(entries) /\ Live(entries)[k] = entries[f[k]]
                              /\ Keys(entries)[k] = entries[f[k]].doc
<1>1. Len(entries) \in Nat /\ DOMAIN entries = 1..Len(entries)
    OBVIOUS
<1>2. DOMAIN Live(entries) = 1..m /\ Len(Live(entries)) = m /\ \A k \in 1..m : Live(entries)[k] = entries[f[k]]
    BY LiveByPlaces
<1>3. m \in Nat /\ \A k \in 1..m : f[k] \in 1..Len(entries)
    BY <1>1 DEF Lists, There
<1>4. \A k \in 1..m : entries[f[k]].doc \in D
  <2>1. \A k \in 1..m : entries[f[k]] \in EntriesOf(D)
    BY <1>3, ElementOfSeq
  <2> QED
    BY <2>1 DEF EntriesOf
<1>5. Keys(entries) = [k \in 1..m |-> Live(entries)[k].doc]
    BY <1>2 DEF Keys
<1>6. \A k \in 1..m : Live(entries)[k].doc \in D
    BY <1>2, <1>4
<1>7. Keys(entries) \in Seq(D) /\ Len(Keys(entries)) = m
    BY <1>3, <1>5, <1>6, IsASeq
<1>8. \A k \in 1..m : Keys(entries)[k] = entries[f[k]].doc
    BY <1>2, <1>5
<1> QED
    BY <1>2, <1>3, <1>7, <1>8

\* Entries have such an enumeration.
LEMMA PlacesExist ==
    ASSUME NEW D, NEW entries \in Seq(EntriesOf(D))
    PROVE  \E m, f : Lists(f, m, entries)
<1>1. Len(entries) \in Nat /\ DOMAIN entries = 1..Len(entries)
    OBVIOUS
<1> QED
    BY <1>1, PlacesRise

\* The list a refresh goes by.
LEMMA IdsOfSound ==
    ASSUME NEW D, NEW listed \in ListsOf(D)
    PROVE  /\ Len(listed) \in Nat /\ DOMAIN listed = 1..Len(listed)
           /\ IdsOf(listed) \in Seq(D) /\ Len(IdsOf(listed)) = Len(listed)
           /\ \A i \in 1..Len(listed) : IdsOf(listed)[i] = listed[i].id
           /\ \A d : Grants(listed, d) \in SUBSET Users
           /\ \A i \in 1..Len(listed) : listed[i].access \subseteq Grants(listed, listed[i].id)
<1>1. Len(listed) \in Nat /\ DOMAIN listed = 1..Len(listed)
    BY DEF ListsOf
<1>2. \A i \in 1..Len(listed) : listed[i] \in [id : D, access : SUBSET Users]
    BY ElementOfSeq DEF ListsOf
<1>3. IdsOf(listed) = [i \in 1..Len(listed) |-> listed[i].id]
    BY <1>1 DEF IdsOf
<1>4. \A i \in 1..Len(listed) : listed[i].id \in D
    BY <1>2
<1>5. IdsOf(listed) \in Seq(D) /\ Len(IdsOf(listed)) = Len(listed)
    BY <1>1, <1>3, <1>4, IsASeq
<1>6. \A d : Grants(listed, d) \in SUBSET Users
  <2>1. \A x \in ToSet(listed) : x.access \subseteq Users
    BY <1>1, <1>2 DEF ToSet
  <2> QED
    BY <2>1 DEF Grants
<1>7. ASSUME NEW i \in 1..Len(listed) PROVE listed[i].access \subseteq Grants(listed, listed[i].id)
  <2>1. listed[i] \in ToSet(listed)
    BY <1>1 DEF ToSet
  <2> QED
    BY <2>1 DEF Grants
<1> QED
    BY <1>1, <1>3, <1>5, <1>6, <1>7

\* The entries differ by what identifies them for Yjs.
IdsDiffer(entries) == \A i, j \in DOMAIN entries : Id(entries[i]) = Id(entries[j]) => i = j

\* A refresh that knows the array as it is has one place for what it inserts: right
\* behind the entries that stay in front (Places).
LEMMA PlaceIsKnown ==
    ASSUME NEW D, NEW now \in Seq(EntriesOf(D)), IdsDiffer(now), NEW m, NEW f, Lists(f, m, now),
           NEW a \in Nat, a <= m, NEW i \in Places(now, a, now)
    PROVE  /\ i \in 0..Len(now)
           /\ \A k \in 1..m : IF k <= a THEN f[k] <= i ELSE f[k] > i
<1> DEFINE N == Len(now)
           after == {j \in DOMAIN now : a > 0 /\ Id(now[j]) = Id(Live(now)[a])}
           left == IF after = {} THEN 0 ELSE CHOOSE j \in after : TRUE
           known == {Id(now[j]) : j \in DOMAIN now}
<1>1. N \in Nat /\ DOMAIN now = 1..N
    OBVIOUS
<1>2. /\ m \in Nat /\ \A k \in 1..m : f[k] \in 1..N /\ Live(now)[k] = now[f[k]]
      /\ Rises(f, m)
  <2>1. Rises(f, m)
    BY DEF Lists
  <2>2. /\ m \in Nat /\ Keys(now) \in Seq(D) /\ Len(Keys(now)) = m /\ Len(Live(now)) = m
        /\ \A k \in 1..m : f[k] \in 1..Len(now) /\ Live(now)[k] = now[f[k]] /\ Keys(now)[k] = now[f[k]].doc
    BY KeysByPlaces
  <2> QED
    BY <2>1, <2>2
<1>3. left = IF a = 0 THEN 0 ELSE f[a]
  <2>1. CASE a = 0
    <3>1. after = {}
      BY <2>1
    <3> QED
      BY <2>1, <3>1
  <2>2. CASE a # 0
    <3>1. a \in 1..m /\ a > 0
      BY <1>2, <2>2
    <3>2. f[a] \in DOMAIN now /\ Live(now)[a] = now[f[a]]
      BY <1>1, <1>2, <3>1
    <3>3. f[a] \in after /\ \A j \in after : j = f[a]
      BY <3>1, <3>2 DEF IdsDiffer
    <3> HIDE DEF after
    <3> QED
      BY <2>2, <3>3
  <2> QED
    BY <2>1, <2>2
<1>4. i \in left..N /\ \A j \in (left + 1)..i : Id(now[j]) \notin known
    BY DEF Places
<1> HIDE DEF after, left
<1>5. left \in 0..N
    BY <1>1, <1>2, <1>3
<1>6. i = left
  <2> SUFFICES ASSUME i # left PROVE FALSE
    OBVIOUS
  <2>1. left + 1 \in (left + 1)..i /\ left + 1 \in DOMAIN now
    BY <1>1, <1>4, <1>5
  <2>2. Id(now[left + 1]) \in known
    BY <2>1
  <2> HIDE DEF known
  <2> QED
    BY <1>4, <2>1, <2>2
<1>7. ASSUME NEW k \in 1..m PROVE IF k <= a THEN f[k] <= i ELSE f[k] > i
  <2>1. CASE a = 0
    BY <1>2, <1>3, <1>6, <2>1
  <2>2. CASE a # 0
    <3>1. a \in 1..m /\ i = f[a] /\ f[a] \in Nat /\ f[k] \in Nat
      BY <1>2, <1>3, <1>6, <2>2
    <3>2. k < a => f[k] < f[a]
      BY <1>2, <3>1 DEF Rises
    <3>3. a < k => f[a] < f[k]
      BY <1>2, <3>1 DEF Rises
    <3>4. k < a \/ k = a \/ a < k
      BY <1>2
    <3>5. k < a => k <= a
      BY <1>2
    <3>6. a < k => ~(k <= a)
      BY <1>2
    <3> QED
      BY <3>1, <3>2, <3>3, <3>4, <3>5, <3>6
  <2> QED
    BY <2>1, <2>2
<1> QED
    BY <1>1, <1>5, <1>6, <1>7

\* What a refresh makes of the entries it finds: the same documents, less what it
\* deletes, and with the access it lists where it knew the array.
KeptAs(D, kept, base, listed, now) ==
    /\ Len(now.entries) \in Nat /\ DOMAIN now.entries = 1..Len(now.entries)
    /\ kept \in Seq(EntriesOf(D)) /\ Len(kept) = Len(now.entries)
    /\ \A j \in 1..Len(now.entries) :
         /\ kept[j].doc = now.entries[j].doc /\ kept[j].by = now.entries[j].by
         /\ kept[j].live <=> now.entries[j].live /\ Id(now.entries[j]) \notin Edit(base, listed).deleted
         /\ base = now /\ kept[j].live => Grants(listed, now.entries[j].doc) \subseteq kept[j].access

\* The entries a refresh keeps: their documents and inserters stay, none comes back,
\* the listed access is added, and those between the agreeing ends go.
LEMMA KeptSound ==
    ASSUME NEW D, NEW now \in ArraysOf(D), NEW E, NEW base, NEW listed \in ListsOf(E)
    PROVE  KeptAs(D, Kept(base, listed, now), base, listed, now)
<1> DEFINE kept == Kept(base, listed, now)
           out == Edit(base, listed).deleted
           known(e) == \E j \in DOMAIN base.entries : Id(base.entries[j]) = Id(e)
           new(e) == IF Id(e) \in out THEN [e EXCEPT !.live = FALSE]
                     ELSE IF known(e) /\ e.live THEN [e EXCEPT !.access = @ \cup Grants(listed, e.doc)]
                     ELSE e
           T == EntriesOf(D)
           N == Len(now.entries)
<1>1. /\ N \in Nat /\ DOMAIN now.entries = 1..N /\ now.entries \in Seq(T)
      /\ \A j \in 1..N : now.entries[j] \in T
    BY ElementOfSeq DEF ArraysOf
<1>2. \A d : Grants(listed, d) \in SUBSET Users
    BY IdsOfSound
<1>3. kept = [j \in 1..N |-> new(now.entries[j])]
    BY <1>1 DEF Kept
<1> HIDE DEF out, known
<1>4. ASSUME NEW e \in T
      PROVE  /\ new(e) \in T /\ new(e).doc = e.doc /\ new(e).by = e.by
             /\ new(e).live <=> e.live /\ Id(e) \notin out
             /\ known(e) /\ new(e).live => Grants(listed, e.doc) \subseteq new(e).access
  <2>1. e.live \in BOOLEAN /\ e.access \subseteq Users
    BY DEF EntriesOf
  <2>2. CASE Id(e) \in out
    <3>1. new(e) = [e EXCEPT !.live = FALSE]
      BY <2>2
    <3>2. [e EXCEPT !.live = FALSE] \in T
      BY DEF EntriesOf
    <3>3. /\ [e EXCEPT !.live = FALSE].doc = e.doc /\ [e EXCEPT !.live = FALSE].by = e.by
          /\ ~[e EXCEPT !.live = FALSE].live
      BY DEF EntriesOf
    <3> HIDE DEF new, T
    <3> QED
      BY <2>2, <3>1, <3>2, <3>3
  <2>3. CASE Id(e) \notin out /\ known(e) /\ e.live
    <3> DEFINE v == [e EXCEPT !.access = @ \cup Grants(listed, e.doc)]
    <3>1. new(e) = v
      BY <2>3
    <3>2. v \in T
      BY <1>2 DEF EntriesOf
    <3>3. v.doc = e.doc /\ v.by = e.by /\ v.live = e.live /\ v.access = e.access \cup Grants(listed, e.doc)
      BY DEF EntriesOf
    <3> HIDE DEF new, T, v
    <3> QED
      BY <2>3, <3>1, <3>2, <3>3
  <2>4. CASE Id(e) \notin out /\ ~(known(e) /\ e.live)
    <3>1. new(e) = e
      BY <2>4
    <3> HIDE DEF new, T
    <3> QED
      BY <2>1, <2>4, <3>1
  <2> QED
    BY <2>2, <2>3, <2>4
<1> HIDE DEF new
<1>5. \A j \in 1..N : kept[j] = new(now.entries[j]) /\ kept[j] \in T
    BY <1>1, <1>3, <1>4
<1>6. kept \in Seq(T) /\ Len(kept) = N
  <2>1. \A j \in 1..N : new(now.entries[j]) \in T
    BY <1>1, <1>4
  <2> HIDE DEF kept, T
  <2> QED
    BY <1>1, <1>3, <2>1, IsASeq
<1>7. ASSUME base = now, NEW j \in 1..N PROVE known(now.entries[j])
    BY <1>1, <1>7 DEF known
<1> HIDE DEF kept, T, N
<1>8. ASSUME NEW j \in 1..N
      PROVE  /\ kept[j].doc = now.entries[j].doc /\ kept[j].by = now.entries[j].by
             /\ kept[j].live <=> now.entries[j].live /\ Id(now.entries[j]) \notin out
             /\ base = now /\ kept[j].live => Grants(listed, now.entries[j].doc) \subseteq kept[j].access
    BY <1>1, <1>4, <1>5, <1>7
<1> QED
    BY <1>1, <1>6, <1>8 DEF KeptAs, kept, T, N, out

\* What a refresh inserts are new entries of listed documents.
LEMMA BlockSound ==
    ASSUME NEW D, NEW listed \in ListsOf(D), NEW base, NEW r \in Nat
    PROVE  LET in == Edit(base, listed).inserted
               block == Block(r, base, listed)
           IN  /\ in \in Seq(D) /\ Len(in) \in Nat
               /\ block \in Seq(EntriesOf(D)) /\ Len(block) = Len(in)
               /\ \A j \in 1..Len(in) : /\ block[j].doc = in[j] /\ block[j].by = r /\ block[j].live
                                        /\ block[j].access = Grants(listed, in[j])
<1> DEFINE in == Edit(base, listed).inserted
           block == Block(r, base, listed)
           item(j) == Entry(in[j], r, Grants(listed, in[j]))
           T == EntriesOf(D)
<1>1. IdsOf(listed) \in Seq(D) /\ \A d : Grants(listed, d) \in SUBSET Users
    BY IdsOfSound
<1>2. in \in Seq(D)
    BY <1>1, InsertedSound DEF Edit
<1>3. Len(in) \in Nat /\ DOMAIN in = 1..Len(in) /\ \A j \in 1..Len(in) : in[j] \in D
    BY <1>2, ElementOfSeq
<1>4. block = [j \in 1..Len(in) |-> item(j)]
    BY <1>3 DEF Block
<1> HIDE DEF in
<1>5. ASSUME NEW j \in 1..Len(in)
      PROVE  /\ item(j) \in T /\ item(j).doc = in[j] /\ item(j).by = r /\ item(j).live
             /\ item(j).access = Grants(listed, in[j])
    BY <1>1, <1>3 DEF Entry, EntriesOf
<1> HIDE DEF item, T, block
<1>6. block \in Seq(T) /\ Len(block) = Len(in)
    BY <1>3, <1>4, <1>5, IsASeq
<1>7. \A j \in 1..Len(in) : block[j] = item(j)
    BY <1>4
<1> QED
    BY <1>2, <1>3, <1>5, <1>6, <1>7 DEF in, block, T

\* What is left of an array after a refresh that knew it as it is: the listed
\* documents in their order, each with the access the list names.
LEMMA ExactMerge ==
    ASSUME NEW D, NEW now \in ArraysOf(D), IdsDiffer(now.entries), now.array = 0 => now.entries = <<>>,
           NEW listed \in ListsOf(D), NEW r \in Nat, NEW p \in Merged(r, now, listed, now)
    PROVE  LET shown == Live(p.entries) IN
           /\ DOMAIN shown = 1..Len(listed)
           /\ \A k \in 1..Len(listed) : shown[k].doc = listed[k].id /\ listed[k].access \subseteq shown[k].access
<1> DEFINE list == IdsOf(listed)
           L == Len(listed)
           entries == now.entries
           N == Len(entries)
           edit == Edit(now, listed)
           a == edit.prefix
           in == edit.inserted
           kept == Kept(now, listed, now)
           block == Block(r, now, listed)
           b == Len(in)
           T == EntriesOf(D)
           keys == Keys(entries)
<1>1. /\ L \in Nat /\ DOMAIN listed = 1..L /\ list \in Seq(D) /\ Len(list) = L
      /\ \A k \in 1..L : list[k] = listed[k].id /\ listed[k].access \subseteq Grants(listed, list[k])
    BY IdsOfSound
<1>2. entries \in Seq(T) /\ N \in Nat /\ DOMAIN entries = 1..N
    BY DEF ArraysOf
<1>3. PICK m, f : Lists(f, m, entries)
    BY <1>2, PlacesExist
<1>4. /\ m \in Nat /\ keys \in Seq(D) /\ Len(keys) = m /\ Len(Live(entries)) = m
      /\ \A k \in 1..m : f[k] \in 1..N /\ Live(entries)[k] = entries[f[k]] /\ keys[k] = entries[f[k]].doc
    BY <1>2, <1>3, KeysByPlaces
<1>5. Rises(f, m) /\ f \in [1..m -> There(entries)] /\ \A j \in There(entries) : \E k \in 1..m : f[k] = j
    BY <1>3 DEF Lists
<1>6. PICK x \in Nat : EndsStay(entries, list, edit, x)
    BY <1>1, <1>4, EditSound DEF Edit
<1>7. /\ a \in Nat /\ a <= m /\ a <= L /\ a + x <= m /\ a + x <= L
      /\ \A k \in 1..a : keys[k] = list[k]
      /\ \A k \in 1..x : keys[m - k + 1] = list[L - k + 1]
      /\ edit.deleted = {Id(Live(entries)[k]) : k \in (a + 1)..(m - x)}
      /\ in = SubSeq(list, a + 1, L - x)
  <2>1. /\ a \in Nat /\ a + x <= Len(keys) /\ a + x <= Len(list)
        /\ \A k \in 1..a : keys[k] = list[k]
        /\ \A k \in 1..x : keys[Len(keys) - k + 1] = list[Len(list) - k + 1]
        /\ edit.deleted = {Id(Live(entries)[k]) : k \in (a + 1)..(Len(keys) - x)}
        /\ in = SubSeq(list, a + 1, Len(list) - x)
    BY <1>6 DEF EndsStay
  <2>2. m \in Nat /\ L \in Nat /\ Len(keys) = m /\ Len(list) = L
    BY <1>1, <1>4
  <2> HIDE DEF a, keys, list, edit, in, L
  <2>3. a <= m /\ a <= L
    BY <2>1, <2>2
  <2> QED
    BY <2>1, <2>2, <2>3
<1>8. /\ in \in Seq(D) /\ b \in Nat /\ block \in Seq(T) /\ Len(block) = b
      /\ \A j \in 1..b : /\ block[j].doc = in[j] /\ block[j].by = r /\ block[j].live
                         /\ block[j].access = Grants(listed, in[j])
    BY BlockSound
<1>9. /\ kept \in Seq(T) /\ Len(kept) = N
      /\ \A j \in 1..N : /\ kept[j].doc = entries[j].doc
                         /\ kept[j].live <=> entries[j].live /\ Id(entries[j]) \notin edit.deleted
                         /\ kept[j].live => Grants(listed, entries[j].doc) \subseteq kept[j].access
  <2>1. KeptAs(D, kept, now, listed, now)
    BY KeptSound
  <2> HIDE DEF kept
  <2> QED
    BY <2>1 DEF KeptAs
<1>10. \/ p = [array |-> r, entries |-> block] /\ now.array = 0
       \/ \E i \in Places(entries, a, entries) : p = [now EXCEPT !.entries = Made(kept, block, i)]
    BY MergedParts
<1> HIDE DEF list, L, kept, block, b, T, keys, edit, in
<1>11. b = L - x - a /\ \A j \in 1..b : in[j] = list[a + j]
  <2> DEFINE v == L - x
  <2>1. v \in Nat /\ a \in Nat /\ a <= v /\ v <= L /\ v - a = L - x - a
    BY <1>1, <1>7
  <2> HIDE DEF v
  <2> DEFINE lo == a + 1
  <2>2. lo \in Nat /\ 1 <= lo /\ lo <= v + 1 /\ v - lo + 1 = v - a /\ \A j \in 1..b : lo + j - 1 = a + j
    <3>1. \A j \in 1..b : j \in Nat
      BY <1>8
    <3>2. \A k, w, j \in Nat : k <= w => /\ k + 1 \in Nat /\ 1 <= k + 1 /\ k + 1 <= w + 1
                                       /\ w - (k + 1) + 1 = w - k /\ (k + 1) + j - 1 = k + j
      OBVIOUS
    <3>3. lo \in Nat /\ 1 <= lo /\ lo <= v + 1 /\ v - lo + 1 = v - a
      BY <2>1, <3>2
    <3>4. \A j \in 1..b : lo + j - 1 = a + j
      BY <2>1, <3>1, <3>2
    <3> QED
      BY <3>3, <3>4
  <2>3. in = SubSeq(list, lo, v)
    BY <1>7 DEF v
  <2> HIDE DEF lo
  <2>4. Len(SubSeq(list, lo, v)) = v - lo + 1 /\ \A j \in 1..(v - lo + 1) : SubSeq(list, lo, v)[j] = list[lo + j - 1]
    BY <1>1, <2>1, <2>2, PartAt
  <2> QED
    BY <1>8, <2>1, <2>2, <2>3, <2>4 DEF b
<1> HIDE DEF a, N, entries
<1>12. ASSUME NEW R, NEW g, Lists(g, L, R), p.entries = R,
              \A k \in 1..L : R[g[k]].doc = list[k] /\ Grants(listed, list[k]) \subseteq R[g[k]].access
       PROVE  /\ DOMAIN Live(p.entries) = 1..L
              /\ \A k \in 1..L : /\ Live(p.entries)[k].doc = listed[k].id
                                 /\ listed[k].access \subseteq Live(p.entries)[k].access
  <2>1. DOMAIN Live(R) = 1..L /\ \A k \in 1..L : Live(R)[k] = R[g[k]]
    BY <1>12, LiveByPlaces
  <2> QED
    BY <1>1, <1>12, <2>1
<1>13. CASE p = [array |-> r, entries |-> block] /\ now.array = 0
  <2>1. N = 0 /\ m = 0
    <3>1. entries = <<>>
      BY <1>13 DEF entries
    <3>2. N = 0
      BY <3>1 DEF N
    <3>3. m # 0 => 1 \in 1..m
      BY <1>4
    <3> QED
      BY <1>4, <3>2, <3>3
  <2>2. a = 0 /\ x = 0 /\ b = L
    BY <1>1, <1>7, <1>11, <2>1
  <2> DEFINE g == [k \in 1..L |-> k]
  <2>3. There(block) = 1..L
    BY <1>8, <2>2 DEF There
  <2>4. Lists(g, L, block)
    BY <1>1, <2>3 DEF Lists, Rises
  <2>5. ASSUME NEW k \in 1..L PROVE block[g[k]].doc = list[k] /\ Grants(listed, list[k]) \subseteq block[g[k]].access
    <3>1. k \in 1..b /\ a + k = k
      BY <2>2
    <3> QED
      BY <1>8, <1>11, <3>1
  <2>6. p.entries = block
    BY <1>13
  <2> HIDE DEF g
  <2> QED
    BY <1>12, <2>4, <2>5, <2>6 DEF L
<1>14. ASSUME NEW i \in Places(entries, a, entries), p = [now EXCEPT !.entries = Made(kept, block, i)]
       PROVE  /\ DOMAIN Live(p.entries) = 1..L
              /\ \A k \in 1..L : /\ Live(p.entries)[k].doc = listed[k].id
                                 /\ listed[k].access \subseteq Live(p.entries)[k].access
  <2> DEFINE R == Made(kept, block, i)
             n == a + b + x
             later(k) == k - n + m
  <2>1. i \in 0..N /\ \A k \in 1..m : IF k <= a THEN f[k] <= i ELSE f[k] > i
    <3>1. entries \in Seq(EntriesOf(D)) /\ IdsDiffer(entries) /\ a \in Nat /\ a <= m
      BY <1>2, <1>7 DEF entries, T
    <3> QED
      BY <1>3, <3>1, PlaceIsKnown DEF N
  <2>2. R \in Seq(T) /\ Joined(R, kept, block, i, N, b)
    <3> HIDE DEF R
    <3>1. R = Made(kept, block, i)
      BY DEF R
    <3> QED
      BY <1>8, <1>9, <2>1, <3>1, MadeParts
  <2>3. ASSUME NEW j \in 1..N PROVE kept[j].live <=> \E k \in 1..m : f[k] = j /\ (k <= a \/ k > m - x)
    <3>1. entries[j].live <=> \E k \in 1..m : f[k] = j
      <4>1. entries[j].live <=> j \in There(entries)
        BY <1>2 DEF There
      <4> QED
        BY <1>5, <4>1
    <3>2. Id(entries[j]) \in edit.deleted <=> \E k \in (a + 1)..(m - x) : f[k] = j
      <4>1. \A k \in (a + 1)..(m - x) : k \in 1..m
        BY <1>4, <1>7
      <4>2. \A k \in (a + 1)..(m - x) : Id(Live(entries)[k]) = Id(entries[f[k]]) /\ f[k] \in 1..N
        BY <1>4, <4>1
      <4>3. \A k \in (a + 1)..(m - x) : Id(entries[j]) = Id(entries[f[k]]) <=> f[k] = j
        BY <1>2, <4>2 DEF IdsDiffer, entries
      <4> QED
        BY <1>7, <4>2, <4>3
    <3>3. \A k, l \in 1..m : f[k] = f[l] => k = l
      <4>1. \A k \in 1..m : f[k] \in Nat
        BY <1>2, <1>4
      <4> QED
        BY <1>4, <1>5, <4>1 DEF Rises
    <3>4. \A k \in 1..m : k \in (a + 1)..(m - x) <=> ~(k <= a \/ k > m - x)
      BY <1>4, <1>7
    <3>5. \A k \in (a + 1)..(m - x) : k \in 1..m
      BY <1>4, <1>7
    <3> QED
      BY <1>9, <3>1, <3>2, <3>3, <3>4, <3>5
  <2> HIDE DEF R
  <2>4. PICK g : /\ Lists(g, n, R)
                 /\ \A k \in 1..n : R[g[k]] = IF k <= a THEN kept[f[k]]
                                              ELSE IF k <= a + b THEN block[k - a] ELSE kept[f[later(k)]]
    <3>1. f \in [1..m -> 1..N]
      <4>1. There(entries) \subseteq 1..N
        BY <1>2 DEF There
      <4> QED
        BY <1>5, <4>1
    <3>2. i \in Nat /\ i <= N /\ \A j \in 1..b : block[j].live
      BY <1>2, <1>8, <2>1
    <3>3. Spliced(N, m, a, x, b, i, f, kept, block, R)
      BY <1>2, <1>4, <1>5, <1>7, <1>8, <2>1, <2>2, <2>3, <3>1, <3>2 DEF Spliced
    <3> QED
      BY <3>3, SplicedPlaces
  <2>5. n = L
    BY <1>1, <1>7, <1>11
  <2>6. ASSUME NEW k \in 1..L PROVE R[g[k]].doc = list[k] /\ Grants(listed, list[k]) \subseteq R[g[k]].access
    <3>1. ASSUME NEW t \in 1..m, t <= a \/ t > m - x, keys[t] = list[k], R[g[k]] = kept[f[t]]
          PROVE  R[g[k]].doc = list[k] /\ Grants(listed, list[k]) \subseteq R[g[k]].access
      <4>1. f[t] \in 1..N /\ entries[f[t]].doc = list[k]
        BY <1>4, <3>1
      <4>2. kept[f[t]].live
        BY <2>3, <3>1, <4>1
      <4> QED
        BY <1>9, <3>1, <4>1, <4>2
    <3>2. /\ k \in 1..n
          /\ R[g[k]] = IF k <= a THEN kept[f[k]] ELSE IF k <= a + b THEN block[k - a] ELSE kept[f[later(k)]]
      BY <2>4, <2>5
    <3>3. CASE k <= a
      <4>1. k \in 1..m /\ k \in 1..a
        BY <1>4, <1>7, <3>3
      <4> QED
        BY <1>7, <3>1, <3>2, <3>3, <4>1
    <3>4. CASE ~(k <= a) /\ k <= a + b
      <4>1. k - a \in 1..b /\ a + (k - a) = k
        BY <1>7, <1>8, <3>4
      <4>2. R[g[k]] = block[k - a]
        BY <3>2, <3>4
      <4> QED
        BY <1>8, <1>11, <4>1, <4>2
    <3>5. CASE ~(k <= a) /\ ~(k <= a + b)
      <4> DEFINE t == later(k)
                 u == L - k + 1
      <4>1. /\ t \in 1..m /\ t > m - x
        BY <1>1, <1>4, <1>7, <1>11, <2>5, <3>5
      <4>2. u \in 1..x /\ m - u + 1 = t /\ L - u + 1 = k
        BY <1>1, <1>4, <1>7, <1>11, <2>5, <3>5
      <4>3. R[g[k]] = kept[f[t]]
        BY <3>2, <3>5
      <4> HIDE DEF t, u
      <4>4. keys[t] = list[k]
        BY <1>7, <4>2
      <4> QED
        BY <3>1, <4>1, <4>3, <4>4
    <3> QED
      BY <3>3, <3>4, <3>5
  <2>7. p.entries = R
    BY <1>14 DEF R, ArraysOf
  <2> QED
    BY <1>12, <2>4, <2>5, <2>6, <2>7
<1> QED
    BY <1>10, <1>13, <1>14 DEF L
-----------------------------------------------------------------------------
(* Entries stay told apart by their document and inserter                 *)

\* A request inserted none of the entries; an array whose entries differ; a list
\* that names no document twice.
NotBy(s, entries) == \A j \in DOMAIN entries : entries[j].by # s
Sound(array) == IdsDiffer(array.entries) /\ (array.array = 0 => array.entries = <<>>)
IdsOnce(listed) == \A i, j \in DOMAIN listed : listed[i].id = listed[j].id => i = j

\* A refresh inserts no document twice if its list has none twice.
LEMMA InsertedOnce ==
    ASSUME NEW base \in ArraysOf(Nat), NEW listed \in ListsOf(Nat), IdsOnce(listed)
    PROVE  \A i, j \in 1..Len(Edit(base, listed).inserted) :
              Edit(base, listed).inserted[i] = Edit(base, listed).inserted[j] => i = j
<1> DEFINE list == IdsOf(listed)
           L == Len(listed)
           edit == Edit(base, listed)
           in == edit.inserted
           b == Len(in)
           lo == edit.prefix + 1
<1>1. /\ L \in Nat /\ DOMAIN listed = 1..L /\ list \in Seq(Nat) /\ Len(list) = L
      /\ \A k \in 1..L : list[k] = listed[k].id
    BY IdsOfSound
<1>2. base.entries \in Seq(EntriesOf(Nat))
    BY DEF ArraysOf
<1>3. PICK m, f : Lists(f, m, base.entries)
    BY <1>2, PlacesExist
<1>4. Keys(base.entries) \in Seq(Nat)
    BY <1>2, <1>3, KeysByPlaces
<1>5. PICK x \in Nat : EndsStay(base.entries, list, edit, x)
    BY <1>1, <1>4, EditSound DEF Edit
<1> DEFINE v == L - x
<1>6. lo \in Nat /\ 1 <= lo /\ v \in Nat /\ lo <= v + 1 /\ v <= Len(list) /\ in = SubSeq(list, lo, v)
  <2>1. /\ edit.prefix \in Nat /\ edit.prefix + x <= Len(list)
        /\ in = SubSeq(list, edit.prefix + 1, Len(list) - x)
    BY <1>5 DEF EndsStay
  <2> HIDE DEF in
  <2> QED
    BY <1>1, <2>1
<1> HIDE DEF in, lo, v, list, L
<1>7. b = v - lo + 1 /\ \A j \in 1..b : in[j] = list[lo + j - 1]
  <2>1. Len(SubSeq(list, lo, v)) = v - lo + 1 /\ \A j \in 1..(v - lo + 1) : SubSeq(list, lo, v)[j] = list[lo + j - 1]
    BY <1>1, <1>6, PartAt
  <2> QED
    BY <1>6, <2>1
<1>8. \A i, j \in 1..b : in[i] = in[j] => i = j
  <2> SUFFICES ASSUME NEW i \in 1..b, NEW j \in 1..b, in[i] = in[j] PROVE i = j
    OBVIOUS
  <2> DEFINE k == lo + i - 1
             l == lo + j - 1
  <2>1. k \in 1..L /\ l \in 1..L /\ (k = l => i = j)
    BY <1>1, <1>6, <1>7
  <2>2. list[k] = list[l]
    BY <1>7
  <2> HIDE DEF k, l
  <2>3. listed[k].id = listed[l].id
    BY <1>1, <2>1, <2>2
  <2> QED
    BY <1>1, <2>1, <2>3 DEF IdsOnce
<1> QED
    BY <1>8 DEF in

\* Whatever array it finds, a refresh whose request has written nothing there leaves
\* no two entries with the same document and inserter, and writes for no other.
LEMMA MergedIds ==
    ASSUME NEW now \in ArraysOf(Nat), Sound(now), NEW r \in Nat, r # 0, NotBy(r, now.entries),
           NEW base \in ArraysOf(Nat), NEW listed \in ListsOf(Nat), IdsOnce(listed),
           NEW p \in Merged(r, base, listed, now)
    PROVE  Sound(p) /\ \A s : s # r /\ NotBy(s, now.entries) => NotBy(s, p.entries)
<1> DEFINE in == Edit(base, listed).inserted
           block == Block(r, base, listed)
           b == Len(in)
           kept == Kept(base, listed, now)
           N == Len(now.entries)
           T == EntriesOf(Nat)
<1>1. /\ block \in Seq(T) /\ Len(block) = b /\ b \in Nat
      /\ \A j \in 1..b : block[j].doc = in[j] /\ block[j].by = r
    BY BlockSound
<1>2. /\ N \in Nat /\ DOMAIN now.entries = 1..N /\ kept \in Seq(T) /\ Len(kept) = N
      /\ \A j \in 1..N : kept[j].doc = now.entries[j].doc /\ kept[j].by = now.entries[j].by
  <2>1. KeptAs(Nat, kept, base, listed, now)
    BY KeptSound
  <2> HIDE DEF kept
  <2> QED
    BY <2>1 DEF KeptAs
<1>3. \A i, j \in 1..b : in[i] = in[j] => i = j
    BY InsertedOnce
<1>4. \/ p = [array |-> r, entries |-> block] \/ p = now
      \/ /\ now.array # 0
         /\ \E i \in Places(base.entries, Edit(base, listed).prefix, now.entries) :
                p = [now EXCEPT !.entries = Made(kept, block, i)]
    BY MergedParts
<1>5. DOMAIN block = 1..b
    BY <1>1
<1> HIDE DEF in, block, b, kept, N, T
<1>6. CASE p = now
    BY <1>6
<1>7. CASE p = [array |-> r, entries |-> block]
  <2>1. p.array # 0 /\ p.entries = block
    BY <1>7
  <2>2. IdsDiffer(block)
    BY <1>1, <1>3, <1>5 DEF IdsDiffer, Id
  <2>3. \A s : s # r => NotBy(s, block)
    BY <1>1, <1>5 DEF NotBy
  <2> QED
    BY <2>1, <2>2, <2>3 DEF Sound
<1>8. ASSUME now.array # 0, NEW i \in Places(base.entries, Edit(base, listed).prefix, now.entries),
             p = [now EXCEPT !.entries = Made(kept, block, i)]
      PROVE  Sound(p) /\ \A s : s # r /\ NotBy(s, now.entries) => NotBy(s, p.entries)
  <2> DEFINE R == Made(kept, block, i)
  <2>1. i \in 0..N
    <3>1. now.entries \in Seq(T)
      BY DEF ArraysOf, T
    <3> QED
      BY <3>1, PlacesSound DEF N
  <2>2. p.array # 0 /\ p.entries = R
    BY <1>8 DEF ArraysOf
  <2> HIDE DEF R
  <2>3. Joined(R, kept, block, i, N, b)
    <3>1. R = Made(kept, block, i)
      BY DEF R
    <3> QED
      BY <1>1, <1>2, <2>1, <3>1, MadeParts
  <2>4. /\ DOMAIN R = 1..(N + b)
        /\ \A j \in 1..(N + b) : R[j] = IF j <= i THEN kept[j] ELSE IF j <= i + b THEN block[j - i] ELSE kept[j - b]
    BY <2>3 DEF Joined
  <2>5. ASSUME NEW j \in 1..(N + b), j <= i
        PROVE  j \in 1..N /\ R[j].doc = now.entries[j].doc /\ R[j].by = now.entries[j].by
    <3>1. j \in 1..N /\ R[j] = kept[j]
      BY <1>2, <2>1, <2>4, <2>5
    <3> QED
      BY <1>2, <3>1
  <2>6. ASSUME NEW j \in 1..(N + b), ~(j <= i), j <= i + b
        PROVE  j - i \in 1..b /\ R[j].doc = in[j - i] /\ R[j].by = r
    <3>1. j - i \in 1..b
      BY <1>1, <2>1, <2>6
    <3>2. R[j] = block[j - i]
      BY <2>4, <2>6
    <3> QED
      BY <1>1, <3>1, <3>2
  <2>7. ASSUME NEW j \in 1..(N + b), ~(j <= i), ~(j <= i + b)
        PROVE  /\ j - b \in 1..N /\ ~(j - b <= i)
               /\ R[j].doc = now.entries[j - b].doc /\ R[j].by = now.entries[j - b].by
    <3>1. j - b \in 1..N /\ ~(j - b <= i)
      BY <1>1, <1>2, <2>1, <2>7
    <3>2. R[j] = kept[j - b]
      BY <2>4, <2>7
    <3> QED
      BY <1>2, <3>1, <3>2
  <2>8. \A x \in 1..N : now.entries[x].by # r
    BY <1>2 DEF NotBy
  <2>9. \A x, y \in 1..N : now.entries[x].doc = now.entries[y].doc /\ now.entries[x].by = now.entries[y].by => x = y
    BY <1>2 DEF Sound, IdsDiffer, Id
  <2>10. \A j \in 1..(N + b) : j <= i + b \/ ~(j <= i)
    BY <1>1, <1>2, <2>1
  <2>11. ASSUME NEW s, s # r, NotBy(s, now.entries), NEW j \in 1..(N + b) PROVE R[j].by # s
    <3>1. \A x \in 1..N : now.entries[x].by # s
      BY <1>2, <2>11 DEF NotBy
    <3>2. CASE j <= i
      BY <2>5, <3>1, <3>2
    <3>3. CASE ~(j <= i) /\ j <= i + b
      BY <2>6, <2>11, <3>3
    <3>4. CASE ~(j <= i) /\ ~(j <= i + b)
      BY <2>7, <3>1, <3>4
    <3> QED
      BY <3>2, <3>3, <3>4
  <2>12. ASSUME NEW j \in 1..(N + b), NEW k \in 1..(N + b), R[j].doc = R[k].doc, R[j].by = R[k].by
         PROVE  j = k
    <3>1. /\ j <= i => j \in 1..N /\ R[j].doc = now.entries[j].doc /\ R[j].by = now.entries[j].by
          /\ ~(j <= i) /\ j <= i + b => j - i \in 1..b /\ R[j].doc = in[j - i] /\ R[j].by = r
          /\ ~(j <= i) /\ ~(j <= i + b) =>
               /\ j - b \in 1..N /\ ~(j - b <= i)
               /\ R[j].doc = now.entries[j - b].doc /\ R[j].by = now.entries[j - b].by
      BY <2>5, <2>6, <2>7
    <3>2. /\ k <= i => k \in 1..N /\ R[k].doc = now.entries[k].doc /\ R[k].by = now.entries[k].by
          /\ ~(k <= i) /\ k <= i + b => k - i \in 1..b /\ R[k].doc = in[k - i] /\ R[k].by = r
          /\ ~(k <= i) /\ ~(k <= i + b) =>
               /\ k - b \in 1..N /\ ~(k - b <= i)
               /\ R[k].doc = now.entries[k - b].doc /\ R[k].by = now.entries[k - b].by
      BY <2>5, <2>6, <2>7
    <3>3. j - i = k - i => j = k
      BY <2>1
    <3>4. j - b = k - b => j = k
      BY <1>1
    <3>5. CASE ~(j <= i) /\ j <= i + b
      <4>1. ~(k <= i) /\ k <= i + b
        BY <2>8, <2>12, <3>1, <3>2, <3>5
      <4> QED
        BY <1>3, <2>12, <3>1, <3>2, <3>3, <3>5, <4>1
    <3>6. CASE j <= i
      <4>1. k <= i \/ (~(k <= i) /\ ~(k <= i + b))
        BY <2>8, <2>12, <3>1, <3>2, <3>6
      <4>2. ~(k <= i) /\ ~(k <= i + b) => FALSE
        BY <2>9, <2>12, <3>1, <3>2, <3>6
      <4> QED
        BY <2>9, <2>12, <3>1, <3>2, <3>6, <4>1, <4>2
    <3>7. CASE ~(j <= i) /\ ~(j <= i + b)
      <4>1. k <= i \/ (~(k <= i) /\ ~(k <= i + b))
        BY <2>8, <2>12, <3>1, <3>2, <3>7
      <4>2. k <= i => FALSE
        BY <2>9, <2>12, <3>1, <3>2, <3>7
      <4> QED
        BY <2>9, <2>12, <3>1, <3>2, <3>4, <3>7, <4>1, <4>2
    <3> QED
      BY <3>5, <3>6, <3>7
  <2>13. IdsDiffer(R)
    BY <2>4, <2>12 DEF IdsDiffer, Id
  <2>14. \A s : s # r /\ NotBy(s, now.entries) => NotBy(s, R)
    BY <2>4, <2>11 DEF NotBy
  <2> QED
    BY <2>2, <2>13, <2>14 DEF Sound
<1> QED
    BY <1>4, <1>6, <1>7, <1>8
-----------------------------------------------------------------------------
(* The invariant of the refreshes                                          *)

\* Whether a request may yet write to the projection of a user, which it does once.
MayWrite(q, u) ==
    \/ q.pc = "idle"
    \/ /\ q.pc \notin {"answered", "done"}
       /\ q.of = u \/ (q.op = "share" /\ q.of = q.user /\ q.peer = u)

\* What a request read covers what it read before: its list has no document twice
\* and every document of the projection it opened.
ReadsOK(q, docs, grants) ==
    /\ IdsOnce(q.list)
    /\ q.op = "share" /\ q.pc \notin {"idle", "grant", "done"} => q.peer # q.user
    /\ q.pc \in {"list-owned", "list-shared"} =>
          \A i \in DOMAIN q.base.entries : q.base.entries[i].doc \in OpenIn(docs, grants, q.of)
    /\ q.pc = "list-shared" =>
          \A i \in DOMAIN q.base.entries : docs[q.base.entries[i].doc].owner = q.of => q.base.entries[i].doc \in q.owned
    /\ q.pc = "update" =>
          \A i \in DOMAIN q.base.entries : \E j \in DOMAIN q.list : q.list[j].id = q.base.entries[i].doc

RefreshInv ==
    /\ ServerInv
    /\ \A u \in Users : Sound(projection[u])
    /\ \A r \in Requests, u \in Users : MayWrite(request[r], u) => NotBy(r, projection[u].entries)
    /\ \A r \in Requests : ReadsOK(request[r], documents, access)

\* What a request read stays so while the tables grow.
LEMMA ReadsStay ==
    \A q, docs, newer, grants, more :
        ReadsOK(q, docs, grants) /\ Grows(docs, newer) /\ grants \subseteq more => ReadsOK(q, newer, more)
<1> SUFFICES ASSUME NEW q, NEW docs, NEW newer, NEW grants, NEW more,
                    ReadsOK(q, docs, grants), Grows(docs, newer), grants \subseteq more
             PROVE  ReadsOK(q, newer, more)
    OBVIOUS
<1>1. OpenIn(docs, grants, q.of) \subseteq OpenIn(newer, more, q.of)
    BY OpenStays
<1>2. \A d \in OpenIn(docs, grants, q.of) : newer[d] = docs[d]
    BY DEF OpenIn, Grows
<1> QED
    BY <1>1, <1>2 DEF ReadsOK

\* A step of a request that leaves the projections alone.
LEMMA ReadStep ==
    ASSUME RefreshInv, ServerInv', NEW r \in Requests, NEW q, Step(r, q),
           Grows(documents, documents'), access \subseteq access', projection' = projection,
           ReadsOK(q, documents', access'), \A u \in Users : MayWrite(q, u) => MayWrite(request[r], u)
    PROVE  RefreshInv'
<1>1. request' = [request EXCEPT ![r] = q] /\ request \in [Requests -> Calls]
    BY DEF Step, RefreshInv, ServerInv, TypeOK
<1>2. request'[r] = q /\ \A s \in Requests : s # r => request'[s] = request[s]
    BY <1>1
<1>3. ASSUME NEW s \in Requests PROVE ReadsOK(request'[s], documents', access')
    BY <1>2, ReadsStay DEF RefreshInv
<1>4. ASSUME NEW s \in Requests, NEW u \in Users, MayWrite(request'[s], u) PROVE NotBy(s, projection'[u].entries)
  <2>1. MayWrite(request[s], u)
    BY <1>2, <1>4
  <2> QED
    BY <2>1 DEF RefreshInv
<1>5. \A u \in Users : Sound(projection'[u])
    BY DEF RefreshInv
<1> QED
    BY <1>3, <1>4, <1>5 DEF RefreshInv

\* The same, for a step before the refresh or between its parts that reads nothing.
LEMMA PlainStep ==
    ASSUME RefreshInv, ServerInv', NEW r \in Requests, NEW q, Step(r, q),
           Grows(documents, documents'), access \subseteq access', projection' = projection,
           q.op = request[r].op, q.user = request[r].user, q.peer = request[r].peer, q.of = request[r].of,
           q.list = request[r].list, request[r].pc \notin {"idle", "answered", "done"},
           q.pc \notin {"idle", "list-owned", "list-shared", "update"},
           request[r].pc # "grant" \/ q.pc = "done" \/ q.peer # q.user
    PROVE  RefreshInv'
<1>1. ReadsOK(request[r], documents, access)
    BY DEF RefreshInv
<1>2. ReadsOK(q, documents', access')
    BY <1>1 DEF ReadsOK
<1>3. \A u \in Users : MayWrite(q, u) => MayWrite(request[r], u)
    BY DEF MayWrite
<1> QED
    BY <1>2, <1>3, ReadStep

\* What every step starts from.
LEMMA RefreshFacts ==
    ASSUME RefreshInv, NEW r \in Requests
    PROVE  /\ ServerInv /\ request[r] \in Calls /\ CallOK(request[r], documents, access)
           /\ ReadsOK(request[r], documents, access)
           /\ documents \in Seq(Rows) /\ DOMAIN documents = 1..Len(documents) /\ Len(documents) \in Nat
           /\ \A u \in Users : /\ projection[u] \in ArraysOf(Nat) /\ Sound(projection[u])
                               /\ projection[u] \in ArraysOf(OpenIn(documents, access, u))
                               /\ MayWrite(request[r], u) => NotBy(r, projection[u].entries)
<1>1. ServerInv
    BY DEF RefreshInv
<1>2. /\ request[r] \in Calls /\ CallOK(request[r], documents, access)
      /\ documents \in Seq(Rows) /\ DOMAIN documents = 1..Len(documents) /\ Len(documents) \in Nat
      /\ \A u \in Users : projection[u] \in ArraysOf(Nat)
      /\ \A u \in Users : projection[u] \in ArraysOf(OpenIn(documents, access, u))
    BY <1>1, Facts
<1> QED
    BY <1>1, <1>2 DEF RefreshInv

\* Arrive
LEMMA RefreshArrive ==
    ASSUME RefreshInv, ServerInv', NEW r \in Requests, Arrive(r)
    PROVE  RefreshInv'
<1>1. request[r].pc = "idle" /\ UNCHANGED <<documents, access, projection>> /\ Grows(documents, documents')
    BY DEF Arrive, Grows
<1>2. \A u \in Users : MayWrite(request[r], u)
    BY <1>1 DEF MayWrite
<1>3. ASSUME NEW q, Step(r, q), q.list = <<>>, q.op # "share" \/ q.pc = "grant", q.pc \in {"find-data", "grant"}
      PROVE  RefreshInv'
  <2>1. ReadsOK(q, documents', access')
    BY <1>3 DEF ReadsOK, IdsOnce
  <2> QED
    BY <1>1, <1>2, <1>3, <2>1, ReadStep
<1>4. ASSUME NEW u \in Users, NEW op \in {"bootstrap", "create"},
             Step(r, [NoRequest EXCEPT !.op = op, !.pc = "find-data", !.user = u, !.of = u])
      PROVE  RefreshInv'
  <2> DEFINE q == [NoRequest EXCEPT !.op = op, !.pc = "find-data", !.user = u, !.of = u]
  <2>1. q.list = <<>> /\ q.op # "share" /\ q.pc = "find-data"
    BY DEF NoRequest
  <2> HIDE DEF q
  <2> QED
    BY <1>3, <1>4, <2>1 DEF q
<1>5. ASSUME NEW u \in Users, NEW v \in Users, NEW d \in DOMAIN documents,
             Step(r, [NoRequest EXCEPT !.op = "share", !.pc = "grant", !.user = u, !.of = u, !.peer = v, !.doc = d])
      PROVE  RefreshInv'
  <2> DEFINE q == [NoRequest EXCEPT !.op = "share", !.pc = "grant", !.user = u, !.of = u, !.peer = v, !.doc = d]
  <2>1. q.list = <<>> /\ q.pc = "grant"
    BY DEF NoRequest
  <2> HIDE DEF q
  <2> QED
    BY <1>3, <1>5, <2>1 DEF q
<1> QED
    BY <1>4, <1>5 DEF Arrive

\* grantDocumentAccess: a refused grant ends the request.
LEMMA RefreshGrant ==
    ASSUME RefreshInv, ServerInv', NEW r \in Requests, grantDocumentAccess(r)
    PROVE  RefreshInv'
<1> DEFINE allowed == documents[request[r].doc] = [owner |-> request[r].user, kind |-> "document"]
                      /\ request[r].peer # request[r].user
           pc == IF allowed THEN "find-data" ELSE "done"
           q == [request[r] EXCEPT !.pc = pc]
<1>1. /\ Step(r, q) /\ request[r].pc = "grant" /\ access \subseteq access' /\ UNCHANGED <<documents, projection>>
      /\ Grows(documents, documents')
    BY DEF grantDocumentAccess, Grows
<1>2. pc = "done" \/ (pc = "find-data" /\ request[r].peer # request[r].user)
    OBVIOUS
<1> HIDE DEF pc
<1>3. request[r] \in Calls
    BY RefreshFacts
<1>4. /\ q.op = request[r].op /\ q.user = request[r].user /\ q.peer = request[r].peer /\ q.of = request[r].of
      /\ q.list = request[r].list /\ q.pc = pc
    BY <1>3 DEF Calls
<1> HIDE DEF q
<1> QED
    BY <1>1, <1>2, <1>4, PlainStep

\* The steps that find, insert or create a document: they read nothing for the
\* refresh.
LEMMA RefreshFinds ==
    ASSUME RefreshInv, ServerInv', NEW r \in Requests,
           \/ findUserDataDocument(r) \/ insertUserDataDocument(r)
           \/ findHomeDocument(r) \/ insertHomeDocument(r) \/ createUserDocumentRecord(r)
    PROVE  RefreshInv'
<1>1. request[r] \in Calls /\ documents \in Seq(Rows)
    BY RefreshFacts
<1>2. projection' = projection /\ access' = access /\ access \subseteq access'
    BY DEF findUserDataDocument, insertUserDataDocument, findHomeDocument, insertHomeDocument,
           createUserDocumentRecord
<1>3. request[r].pc \in {"find-data", "insert-data", "find-home", "insert-home", "insert"}
    BY DEF findUserDataDocument, insertUserDataDocument, findHomeDocument, insertHomeDocument,
           createUserDocumentRecord
<1>4. ServerInv /\ CallOK(request[r], documents, access) /\ OnePerUser(documents)
    BY RefreshFacts DEF ServerInv
<1>5. Grows(documents, documents')
  <2>1. CASE documents' = documents
    BY <2>1 DEF Grows
  <2>2. CASE \E row : documents' = Append(documents, row)
    <3>1. PICK row : documents' = Append(documents, row)
      BY <2>2
    <3>2. /\ \A d \in 1..Len(documents) : Append(documents, row)[d] = documents[d]
          /\ DOMAIN documents = 1..Len(documents) /\ DOMAIN Append(documents, row) = 1..(Len(documents) + 1)
          /\ Len(documents) \in Nat
      BY <1>1, AppendProperties
    <3> QED
      BY <3>1, <3>2 DEF Grows
  <2>3. documents' = documents \/ \E row : documents' = Append(documents, row)
    <3>1. \A u, kind : insertSpecialDocument(u, kind) =>
             documents' = documents \/ \E row : documents' = Append(documents, row)
      BY DEF insertSpecialDocument
    <3>2. CASE insertUserDataDocument(r)
      BY <3>1, <3>2 DEF insertUserDataDocument
    <3>3. CASE insertHomeDocument(r)
      BY <3>1, <3>3 DEF insertHomeDocument
    <3>4. CASE createUserDocumentRecord(r)
      BY <3>4 DEF createUserDocumentRecord
    <3>5. CASE findUserDataDocument(r) \/ findHomeDocument(r)
      BY <3>5 DEF findUserDataDocument, findHomeDocument
    <3> QED
      BY <3>2, <3>3, <3>4, <3>5
  <2> QED
    BY <2>1, <2>2, <2>3
<1> DEFINE plain(q) == /\ q.op = request[r].op /\ q.user = request[r].user /\ q.peer = request[r].peer
                       /\ q.of = request[r].of /\ q.list = request[r].list
                       /\ q.pc \in {"insert-data", "find-home", "insert-home", "insert", "open", "find-data"}
<1>6. ASSUME NEW q, Step(r, q), plain(q) PROVE RefreshInv'
    BY <1>2, <1>3, <1>5, <1>6, PlainStep
<1>7. AfterHome(request[r]) \in {"insert", "open"}
    BY DEF AfterHome
<1>8. ASSUME NEW pc \in {"insert-data", "insert-home"}
      PROVE  plain([request[r] EXCEPT !.pc = pc])
    BY <1>1 DEF Calls
<1>9. ASSUME NEW d PROVE plain([request[r] EXCEPT !.pc = "find-home", !.data = d])
    BY <1>1 DEF Calls
<1>10. ASSUME NEW d, NEW pc \in {"insert", "open"} PROVE plain([request[r] EXCEPT !.pc = pc, !.home = d])
    BY <1>1 DEF Calls
<1>11. ASSUME NEW d PROVE plain([request[r] EXCEPT !.pc = "find-data", !.doc = d])
    BY <1>1 DEF Calls
<1> HIDE DEF plain
<1>12. CASE findUserDataDocument(r)
    BY <1>6, <1>8, <1>9, <1>12 DEF findUserDataDocument
<1>13. CASE insertUserDataDocument(r)
    BY <1>6, <1>9, <1>13 DEF insertUserDataDocument
<1>14. CASE findHomeDocument(r)
    BY <1>6, <1>7, <1>8, <1>10, <1>14 DEF findHomeDocument
<1>15. CASE insertHomeDocument(r)
    BY <1>6, <1>7, <1>10, <1>15 DEF insertHomeDocument
<1>16. CASE createUserDocumentRecord(r)
    BY <1>6, <1>11, <1>16 DEF createUserDocumentRecord
<1> QED
    BY <1>12, <1>13, <1>14, <1>15, <1>16

\* getDocAsUpdate: what the projection shows can be opened.
LEMMA RefreshOpens ==
    ASSUME RefreshInv, ServerInv', NEW r \in Requests, getDocAsUpdate(r)
    PROVE  RefreshInv'
<1> DEFINE b == projection[request[r].of]
           q == [request[r] EXCEPT !.pc = "list-owned", !.base = b]
           D == OpenIn(documents, access, request[r].of)
<1>1. /\ Step(r, q) /\ request[r].pc = "open" /\ UNCHANGED <<documents, access, projection>>
      /\ Grows(documents, documents')
    BY DEF getDocAsUpdate, Grows
<1>2. /\ request[r] \in Calls /\ ReadsOK(request[r], documents, access)
      /\ request[r].of \in Users
    BY <1>1, RefreshFacts DEF CallOK
<1>3. b \in ArraysOf(D)
    BY <1>2, RefreshFacts
<1> HIDE DEF b, D
<1>4. \A i \in DOMAIN b.entries : b.entries[i].doc \in D
  <2>1. b.entries \in Seq(EntriesOf(D))
    BY <1>3 DEF ArraysOf
  <2>2. \A i \in DOMAIN b.entries : b.entries[i] \in EntriesOf(D)
    BY <2>1, ElementOfSeq
  <2> QED
    BY <2>2 DEF EntriesOf
<1>5. /\ q.op = request[r].op /\ q.user = request[r].user /\ q.peer = request[r].peer /\ q.of = request[r].of
      /\ q.list = request[r].list /\ q.pc = "list-owned" /\ q.base = b
    BY <1>2 DEF Calls
<1> HIDE DEF q
<1>6. ReadsOK(q, documents', access')
    BY <1>1, <1>2, <1>4, <1>5 DEF ReadsOK, D
<1>7. \A u \in Users : MayWrite(q, u) => MayWrite(request[r], u)
    BY <1>1, <1>5 DEF MayWrite
<1> QED
    BY <1>1, <1>6, <1>7, ReadStep

\* listOwnedDocuments: the user's own documents are among the rows.
LEMMA RefreshListsOwned ==
    ASSUME RefreshInv, ServerInv', NEW r \in Requests, listOwnedDocuments(r)
    PROVE  RefreshInv'
<1> DEFINE S == OwnedRows(request[r].of)
           q == [request[r] EXCEPT !.pc = "list-shared", !.owned = S]
<1>1. /\ Step(r, q) /\ request[r].pc = "list-owned" /\ UNCHANGED <<documents, access, projection>>
      /\ Grows(documents, documents') /\ access \subseteq access'
    BY DEF listOwnedDocuments, Grows
<1>2. request[r] \in Calls /\ ReadsOK(request[r], documents, access) /\ documents \in Seq(Rows)
    BY RefreshFacts
<1>3. \A d \in OpenIn(documents, access, request[r].of) : documents[d].owner = request[r].of => d \in S
  <2>1. ServerInv
    BY RefreshFacts
  <2>2. \A d \in DOMAIN documents : documents[d] \in Rows
    BY <2>1, Facts
  <2>3. \A d \in DOMAIN documents : documents[d].kind \in Kinds
    BY <2>2 DEF Rows
  <2> QED
    BY <2>3 DEF OpenIn, OwnedRows
<1> HIDE DEF S
<1>4. /\ q.op = request[r].op /\ q.user = request[r].user /\ q.peer = request[r].peer /\ q.of = request[r].of
      /\ q.list = request[r].list /\ q.pc = "list-shared" /\ q.base = request[r].base /\ q.owned = S
    BY <1>2 DEF Calls
<1> HIDE DEF q
<1>5. ReadsOK(q, documents, access)
    BY <1>1, <1>2, <1>3, <1>4 DEF ReadsOK
<1>6. ReadsOK(q, documents', access')
    BY <1>1, <1>5
<1>7. \A u \in Users : MayWrite(q, u) => MayWrite(request[r], u)
    BY <1>1, <1>4 DEF MayWrite
<1> QED
    BY <1>1, <1>6, <1>7, ReadStep

\* listUserDocuments: the list is each of the rows once, and has what was shown.
LEMMA RefreshLists ==
    ASSUME RefreshInv, ServerInv', NEW r \in Requests, listUserDocuments(r)
    PROVE  RefreshInv'
<1> DEFINE u == request[r].of
           S == request[r].owned \cup SharedRows(u)
           ids == sortDocumentsForUser(u, S)
           list == [i \in DOMAIN ids |-> [id |-> ids[i], access |-> listDocumentAccessForOwner(ids[i], u)]]
           q == [request[r] EXCEPT !.pc = "update", !.list = list]
           D == OpenIn(documents, access, u)
<1>1. /\ Step(r, q) /\ request[r].pc = "list-shared" /\ UNCHANGED <<documents, access, projection>>
      /\ Grows(documents, documents') /\ access \subseteq access'
    BY DEF listUserDocuments, Grows
<1>2. /\ request[r] \in Calls /\ ReadsOK(request[r], documents, access) /\ CallOK(request[r], documents, access)
      /\ DOMAIN documents = 1..Len(documents) /\ Len(documents) \in Nat
    BY RefreshFacts
<1>3. S \subseteq D /\ D \subseteq 1..Len(documents)
    BY <1>2 DEF CallOK, SharedRows, OpenIn, getDocumentAccessForGrantee
<1>4. \A d \in D : documents[d].owner # u => d \in S
    BY DEF OpenIn, SharedRows, getDocumentAccessForGrantee
<1>5. \A i \in DOMAIN request[r].base.entries : request[r].base.entries[i].doc \in S
    BY <1>1, <1>2, <1>4 DEF ReadsOK
<1> HIDE DEF S, D
<1>6. S \in SUBSET Nat /\ IsFiniteSet(S)
  <2> DEFINE n == Len(documents)
             I == 1..n
  <2>1. n \in Nat /\ S \subseteq I
    BY <1>2, <1>3
  <2>2. I \subseteq Nat
    OBVIOUS
  <2> HIDE DEF n
  <2>3. IsFiniteSet(I)
    BY <2>1, FS_Interval
  <2> HIDE DEF I
  <2>4. IsFiniteSet(S)
    BY <2>1, <2>3, FS_Subset
  <2> QED
    BY <2>1, <2>2, <2>4
<1>7. /\ DOMAIN ids = 1..Cardinality(S)
      /\ \A i, j \in DOMAIN ids : ids[i] = ids[j] => i = j
      /\ \A d \in S : \E i \in DOMAIN ids : ids[i] = d
    BY <1>6, SortSound
<1> HIDE DEF ids
<1>8. DOMAIN list = DOMAIN ids /\ \A i \in DOMAIN ids : list[i].id = ids[i]
    OBVIOUS
<1>9. /\ q.op = request[r].op /\ q.user = request[r].user /\ q.peer = request[r].peer /\ q.of = request[r].of
      /\ q.list = list /\ q.pc = "update" /\ q.base = request[r].base
    BY <1>2 DEF Calls
<1> HIDE DEF q, list
<1>10. ReadsOK(q, documents, access)
  <2>1. IdsOnce(list)
    BY <1>7, <1>8 DEF IdsOnce
  <2>2. q.op = "share" => q.peer # q.user
    BY <1>1, <1>2, <1>9 DEF ReadsOK
  <2>3. \A i \in DOMAIN q.base.entries : \E j \in DOMAIN q.list : q.list[j].id = q.base.entries[i].doc
    BY <1>5, <1>7, <1>8, <1>9
  <2> QED
    BY <1>9, <2>1, <2>2, <2>3 DEF ReadsOK
<1>11. ReadsOK(q, documents', access')
    BY <1>1, <1>10
<1>12. \A v \in Users : MayWrite(q, v) => MayWrite(request[r], v)
    BY <1>1, <1>9 DEF MayWrite
<1> QED
    BY <1>1, <1>11, <1>12, ReadStep

\* updateDoc and refreshFails: the request has written to the projection, or never
\* will, and it may go on with the projection of another.
LEMMA RefreshUpdates ==
    ASSUME RefreshInv, ServerInv', NEW r \in Requests, updateDoc(r) \/ refreshFails(r)
    PROVE  RefreshInv'
<1> DEFINE c == request[r]
           of == c.of
           rest == [c EXCEPT !.base = NoArray, !.owned = {}, !.list = <<>>]
           failed == [c EXCEPT !.pc = "done", !.base = NoArray, !.owned = {}, !.list = <<>>]
           answered == [rest EXCEPT !.pc = "answered"]
           next == [rest EXCEPT !.pc = "find-data", !.of = c.peer, !.data = 0, !.home = 0]
           merges == Merged(r, c.base, c.list, projection[of])
           like(q) == q.op = c.op /\ q.user = c.user /\ q.peer = c.peer /\ q.list = <<>>
           over(q) == q.pc \in {"answered", "done"}
           goes(q) == q.pc = "find-data" /\ c.op = "share" /\ of = c.user /\ q.of = c.peer
<1>1. /\ c \in Calls /\ ReadsOK(c, documents, access) /\ ServerInv /\ CallOK(c, documents, access)
    BY RefreshFacts
<1>2. c.pc \in {"open", "update"} /\ documents' = documents /\ access' = access
    BY DEF updateDoc, refreshFails
<1>3. \/ projection' = projection
      \/ \E p \in merges : projection' = [projection EXCEPT ![of] = p]
    BY DEF updateDoc, refreshFails
<1>4. PICK q : Step(r, q) /\ like(q) /\ (over(q) \/ goes(q))
  <2>1. like(failed) /\ over(failed)
    BY <1>1 DEF Calls
  <2>2. /\ rest.op = c.op /\ rest.user = c.user /\ rest.peer = c.peer /\ rest.list = <<>> /\ rest.of = of
    BY <1>1 DEF Calls
  <2>3. like(answered) /\ over(answered)
    BY <1>1 DEF Calls
  <2>4. like(next) /\ next.pc = "find-data" /\ next.of = c.peer
    BY <1>1 DEF Calls
  <2>5. Refreshed(c) = IF c.op = "share" /\ of = c.user THEN next ELSE answered
    BY <2>2 DEF Refreshed
  <2>6. \/ Step(r, Refreshed(c))
        \/ Step(r, failed)
    <3>1. CASE updateDoc(r)
      BY <3>1 DEF updateDoc
    <3>2. CASE refreshFails(r)
      <4>1. Step(r, IF c.op = "bootstrap" THEN failed ELSE Refreshed(c))
        BY <3>2 DEF refreshFails
      <4> HIDE DEF failed, c
      <4> QED
        BY <4>1
    <3> QED
      BY <3>1, <3>2
  <2> HIDE DEF next, answered, failed, rest
  <2> QED
    BY <2>1, <2>3, <2>4, <2>5, <2>6
<1> HIDE DEF rest, failed, answered, next
<1>5. c.op = "share" => c.peer # c.user
    BY <1>1, <1>2 DEF ReadsOK
<1>6. ReadsOK(q, documents', access')
  <2>1. IdsOnce(q.list)
    BY <1>4 DEF IdsOnce
  <2> QED
    BY <1>4, <1>5, <2>1 DEF ReadsOK
<1>7. ASSUME NEW u \in Users, MayWrite(q, u) PROVE MayWrite(c, u) /\ u # of
    BY <1>2, <1>4, <1>5, <1>7 DEF MayWrite
<1>8. of \in Users
    BY <1>1, <1>2 DEF CallOK
<1> HIDE DEF merges
<1>9. ASSUME NEW u \in Users
      PROVE  /\ Sound(projection'[u])
             /\ \A s : s # r /\ NotBy(s, projection[u].entries) => NotBy(s, projection'[u].entries)
             /\ u # of => projection'[u] = projection[u]
  <2>1. /\ projection[u] \in ArraysOf(Nat) /\ Sound(projection[u])
        /\ MayWrite(c, u) => NotBy(r, projection[u].entries)
    BY RefreshFacts
  <2>2. CASE projection' = projection
    BY <2>1, <2>2
  <2>3. ASSUME NEW p \in merges, projection' = [projection EXCEPT ![of] = p]
        PROVE  /\ Sound(projection'[u])
               /\ \A s : s # r /\ NotBy(s, projection[u].entries) => NotBy(s, projection'[u].entries)
               /\ u # of => projection'[u] = projection[u]
    <3>1. projection'[u] = IF u = of THEN p ELSE projection[u]
      BY <1>1, <2>3 DEF ServerInv, TypeOK
    <3>2. CASE u # of
      BY <2>1, <3>1, <3>2
    <3>3. CASE u = of
      <4>1. MayWrite(c, u)
        BY <1>2, <3>3 DEF MayWrite
      <4>2. r \in Nat /\ r # 0
        BY RequestsAssumption DEF RequestsAssumption, Requests
      <4>3. c.base \in ArraysOf(Nat) /\ c.list \in ListsOf(Nat)
        BY <1>1 DEF Calls
      <4>4. IdsOnce(c.list)
        BY <1>1 DEF ReadsOK
      <4>5. p \in Merged(r, c.base, c.list, projection[u])
        BY <2>3, <3>3 DEF merges
      <4> HIDE DEF c
      <4>6. Sound(p) /\ \A s : s # r /\ NotBy(s, projection[u].entries) => NotBy(s, p.entries)
        BY <2>1, <4>1, <4>2, <4>3, <4>4, <4>5, MergedIds
      <4> QED
        BY <3>1, <3>3, <4>6
    <3> QED
      BY <3>2, <3>3
  <2> QED
    BY <1>3, <2>2, <2>3
<1>10. request' = [request EXCEPT ![r] = q] /\ request \in [Requests -> Calls]
    BY <1>1, <1>4 DEF Step, ServerInv, TypeOK
<1>11. request'[r] = q /\ \A s \in Requests : s # r => request'[s] = request[s]
    BY <1>10
<1>12. ASSUME NEW s \in Requests PROVE ReadsOK(request'[s], documents', access')
    BY <1>2, <1>6, <1>11 DEF RefreshInv
<1>13. ASSUME NEW s \in Requests, NEW u \in Users, MayWrite(request'[s], u) PROVE NotBy(s, projection'[u].entries)
  <2>1. CASE s = r
    <3>1. MayWrite(c, u) /\ u # of
      BY <1>7, <1>11, <1>13, <2>1
    <3>2. projection'[u] = projection[u] /\ NotBy(r, projection[u].entries)
      BY <1>9, <3>1 DEF RefreshInv
    <3> QED
      BY <2>1, <3>2
  <2>2. CASE s # r
    <3>1. NotBy(s, projection[u].entries)
      BY <1>11, <1>13, <2>2 DEF RefreshInv
    <3> QED
      BY <1>9, <2>2, <3>1
  <2> QED
    BY <2>1, <2>2
<1> QED
    BY <1>9, <1>12, <1>13 DEF RefreshInv

\* Every step of any request, and a step of none, keeps it.
LEMMA RefreshNext == RefreshInv /\ [Next]_vars => RefreshInv'
<1> SUFFICES ASSUME RefreshInv, [Next]_vars PROVE RefreshInv'
    OBVIOUS
<1>1. ServerInv'
    BY NextKeeps DEF RefreshInv
<1>2. CASE UNCHANGED vars
    BY <1>1, <1>2 DEF vars, RefreshInv
<1>3. CASE Next
    BY <1>1, <1>3, RefreshArrive, RefreshGrant, RefreshFinds, RefreshOpens, RefreshListsOwned, RefreshLists,
       RefreshUpdates DEF Next
<1> QED
    BY <1>2, <1>3

\* The start: a projection shows one entry or none, and no request has read anything.
LEMMA RefreshInit == Init => RefreshInv
<1> SUFFICES ASSUME Init PROVE RefreshInv
    OBVIOUS
<1> DEFINE home(u) == CHOOSE d \in DOMAIN documents : documents[d] = [owner |-> u, kind |-> "home-document"]
           shown(u) == [array |-> MaxRequests + 1, entries |-> <<Entry(home(u), MaxRequests + 1, {})>>]
<1>1. /\ \A u \in Users : projection[u] = shown(u) \/ projection[u] = NoArray
      /\ request = [r \in Requests |-> NoRequest]
  <2>1. PICK old \in SUBSET Users :
          /\ projection = [u \in Users |-> IF u \in old THEN shown(u) ELSE NoArray]
          /\ request = [r \in Requests |-> NoRequest]
    BY DEF Init
  <2> HIDE DEF shown
  <2> QED
    BY <2>1
<1>2. MaxRequests \in Nat /\ MaxRequests + 1 # 0 /\ \A r \in Requests : MaxRequests + 1 # r
    BY RequestsAssumption DEF RequestsAssumption, Requests
<1> HIDE DEF home
<1>3. ASSUME NEW u PROVE Sound(shown(u)) /\ \A r \in Requests : NotBy(r, shown(u).entries)
  <2> DEFINE e == Entry(home(u), MaxRequests + 1, {})
  <2>1. shown(u).array # 0 /\ shown(u).entries = <<e>> /\ e.by = MaxRequests + 1
    BY <1>2 DEF Entry
  <2> HIDE DEF e
  <2>2. DOMAIN <<e>> = {1} /\ <<e>>[1] = e
    OBVIOUS
  <2> HIDE DEF shown
  <2> QED
    BY <1>2, <2>1, <2>2 DEF Sound, IdsDiffer, NotBy
<1>4. Sound(NoArray) /\ \A r \in Requests : NotBy(r, NoArray.entries)
    BY DEF NoArray, Sound, IdsDiffer, NotBy
<1> HIDE DEF shown
<1>5. ReadsOK(NoRequest, documents, access)
    BY DEF NoRequest, ReadsOK, IdsOnce
<1> QED
    BY <1>1, <1>3, <1>4, <1>5, InitSound DEF RefreshInv
-----------------------------------------------------------------------------
(* The theorems                                                            *)

\* How a request leaves the write: with its edits at Y-Sweet, or without; a bootstrap
\* that goes on as refreshed wrote.
LEMMA WriteSteps ==
    ASSUME Next, NEW r \in Requests, request \in [Requests -> Calls],
           request[r].pc = "update", request'[r] # request[r]
    PROVE  LET c == request[r]
               wrote == \E p \in Merged(r, c.base, c.list, projection[c.of]) : projection' = [projection EXCEPT ![c.of] = p]
           IN  /\ wrote \/ projection' = projection
               /\ request'[r] = Refreshed(c) /\ c.op = "bootstrap" => wrote
<1> DEFINE c == request[r]
           merges == Merged(r, c.base, c.list, projection[c.of])
           wrote == \E p \in merges : projection' = [projection EXCEPT ![c.of] = p]
           failed == [c EXCEPT !.pc = "done", !.base = NoArray, !.owned = {}, !.list = <<>>]
<1>1. PICK s \in Requests :
        \/ Arrive(s) \/ grantDocumentAccess(s)
        \/ findUserDataDocument(s) \/ insertUserDataDocument(s)
        \/ findHomeDocument(s) \/ insertHomeDocument(s) \/ createUserDocumentRecord(s)
        \/ getDocAsUpdate(s) \/ listOwnedDocuments(s) \/ listUserDocuments(s)
        \/ updateDoc(s) \/ refreshFails(s)
    BY DEF Next
<1>2. \E q : Step(s, q)
  <2>1. CASE Arrive(s)
    BY <2>1 DEF Arrive
  <2>2. CASE grantDocumentAccess(s)
    BY <2>2 DEF grantDocumentAccess
  <2>3. CASE findUserDataDocument(s) \/ findHomeDocument(s)
    BY <2>3 DEF findUserDataDocument, findHomeDocument
  <2>4. CASE insertUserDataDocument(s) \/ insertHomeDocument(s) \/ createUserDocumentRecord(s)
    BY <2>4 DEF insertUserDataDocument, insertHomeDocument, createUserDocumentRecord
  <2>5. CASE getDocAsUpdate(s) \/ listOwnedDocuments(s) \/ listUserDocuments(s)
    BY <2>5 DEF getDocAsUpdate, listOwnedDocuments, listUserDocuments
  <2>6. CASE updateDoc(s) \/ refreshFails(s)
    BY <2>6 DEF updateDoc, refreshFails
  <2> QED
    BY <1>1, <2>1, <2>2, <2>3, <2>4, <2>5, <2>6
<1>3. s = r
    BY <1>2 DEF Step
<1>4. updateDoc(r) \/ refreshFails(r)
    BY <1>1, <1>3 DEF Arrive, grantDocumentAccess, findUserDataDocument, insertUserDataDocument, findHomeDocument,
       insertHomeDocument, createUserDocumentRecord, getDocAsUpdate, listOwnedDocuments, listUserDocuments
<1>5. CASE updateDoc(r)
    BY <1>5 DEF updateDoc
<1>6. CASE refreshFails(r)
  <2>1. wrote \/ projection' = projection
    BY <1>6 DEF refreshFails
  <2>2. ASSUME c.op = "bootstrap" PROVE request'[r] # Refreshed(c)
    <3>1. request'[r] = failed
      <4>1. Step(r, failed)
        BY <1>6, <2>2 DEF refreshFails
      <4> HIDE DEF failed
      <4> QED
        BY <4>1 DEF Step
    <3>2. failed.pc = "done"
      BY DEF Calls
    <3>3. Refreshed(c).pc = "answered"
      BY <2>2 DEF Refreshed, Calls
    <3> HIDE DEF failed
    <3> QED
      BY <3>1, <3>2, <3>3
  <2> QED
    BY <2>1, <2>2
<1> QED
    BY <1>4, <1>5, <1>6

\* What is shown is what was listed, each with the access of the list.
IsListed(shown, list) ==
    /\ DOMAIN shown = 1..Len(list)
    /\ \A k \in 1..Len(list) : shown[k].doc = list[k].id /\ list[k].access \subseteq shown[k].access

\* A write that knew the projection as it stands leaves the listed documents.
LEMMA KnownWrite ==
    ASSUME RefreshInv, NEW r \in Requests, request[r].pc = "update", request[r].base = projection[request[r].of],
           NEW p \in Merged(r, request[r].base, request[r].list, projection[request[r].of]),
           projection' = [projection EXCEPT ![request[r].of] = p]
    PROVE  /\ request[r].of \in Users /\ DOMAIN request[r].list = 1..Len(request[r].list)
           /\ IsListed(Live(projection'[request[r].of].entries), request[r].list)
<1> DEFINE c == request[r]
           now == projection[c.of]
<1>1. c \in Calls /\ CallOK(c, documents, access) /\ ServerInv
    BY RefreshFacts
<1>2. c.of \in Users
    BY <1>1 DEF CallOK
<1>3. now \in ArraysOf(Nat) /\ Sound(now)
    BY <1>2, RefreshFacts
<1>4. c.list \in ListsOf(Nat)
    BY <1>1 DEF Calls
<1>5. r \in Nat
    BY RequestsAssumption DEF RequestsAssumption, Requests
<1>6. projection'[c.of] = p
    BY <1>1, <1>2 DEF ServerInv, TypeOK
<1>7. p \in Merged(r, now, c.list, now) /\ IdsDiffer(now.entries) /\ (now.array = 0 => now.entries = <<>>)
    BY <1>3 DEF Sound
<1> HIDE DEF c, now
<1>8. LET shown == Live(p.entries) IN
      /\ DOMAIN shown = 1..Len(c.list)
      /\ \A k \in 1..Len(c.list) : shown[k].doc = c.list[k].id /\ c.list[k].access \subseteq shown[k].access
    BY <1>3, <1>4, <1>5, <1>7, ExactMerge
<1>9. DOMAIN c.list = 1..Len(c.list)
    BY <1>4, IdsOfSound
<1>10. IsListed(Live(projection'[c.of].entries), c.list)
    BY <1>6, <1>8 DEF IsListed
<1> QED
    BY <1>2, <1>9, <1>10 DEF c

\* What is shown of a projection is among its entries.
LEMMA ShownIsThere ==
    ASSUME NEW entries \in Seq(EntriesOf(Nat)), NEW d \in ToSet(Keys(entries))
    PROVE  \E i \in DOMAIN entries : entries[i].doc = d
<1>1. PICK m, f : Lists(f, m, entries)
    BY PlacesExist
<1>2. /\ m \in Nat /\ Keys(entries) \in Seq(Nat) /\ Len(Keys(entries)) = m
      /\ \A k \in 1..m : f[k] \in 1..Len(entries) /\ Keys(entries)[k] = entries[f[k]].doc
    BY <1>1, KeysByPlaces
<1>3. DOMAIN Keys(entries) = 1..m /\ DOMAIN entries = 1..Len(entries)
    BY <1>2
<1>4. PICK k \in 1..m : Keys(entries)[k] = d
    BY <1>3 DEF ToSet
<1> QED
    BY <1>2, <1>3, <1>4

\* Overlapping refreshes leave entries twice or lose them; a bootstrap whose refresh
\* has the projection and the registry to itself leaves exactly the user's documents
\* in their order, whatever it found (refreshUserDataProjection, Yjs).
THEOREM QuietRefreshesAreExact == Spec => QuietRefreshIsExact
<1> DEFINE exact(r) ==
             LET q == request[r]
                 shown == Live(projection'[q.of].entries)
                 alone == q.base = projection[q.of] /\ [i \in DOMAIN q.list |-> q.list[i].id] = Listed(q.of)
             IN  q.pc = "update" /\ request'[r] = Refreshed(q) /\ q.op = "bootstrap" /\ alone =>
                   /\ [i \in DOMAIN shown |-> shown[i].doc] = Listed(q.of)
                   /\ \A i \in DOMAIN q.list : q.list[i].access \subseteq shown[i].access
<1>1. ASSUME RefreshInv, [Next]_vars, NEW r \in Requests PROVE exact(r)
  <2> DEFINE q == request[r]
             shown == Live(projection'[q.of].entries)
  <2> SUFFICES ASSUME q.pc = "update", request'[r] = Refreshed(q), q.op = "bootstrap", q.base = projection[q.of],
                      [i \in DOMAIN q.list |-> q.list[i].id] = Listed(q.of)
               PROVE  /\ [i \in DOMAIN shown |-> shown[i].doc] = Listed(q.of)
                      /\ \A i \in DOMAIN q.list : q.list[i].access \subseteq shown[i].access
    OBVIOUS
  <2>1. q \in Calls /\ request \in [Requests -> Calls]
    <3>1. q \in Calls /\ ServerInv
      BY <1>1, RefreshFacts
    <3> QED
      BY <3>1 DEF ServerInv, TypeOK
  <2>2. Refreshed(q).pc = "answered"
    BY <2>1 DEF Refreshed, Calls
  <2>3. request'[r] # request[r] /\ Next
    <3>1. request'[r] # request[r]
      BY <2>2
    <3>2. UNCHANGED vars => request' = request
      BY DEF vars
    <3> QED
      BY <1>1, <3>1, <3>2
  <2>4. PICK p \in Merged(r, q.base, q.list, projection[q.of]) : projection' = [projection EXCEPT ![q.of] = p]
    BY <1>1, <2>1, <2>3, WriteSteps
  <2>5. /\ DOMAIN shown = 1..Len(q.list) /\ DOMAIN q.list = 1..Len(q.list)
        /\ \A k \in 1..Len(q.list) : shown[k].doc = q.list[k].id /\ q.list[k].access \subseteq shown[k].access
    <3>1. DOMAIN q.list = 1..Len(q.list) /\ IsListed(shown, q.list)
      BY <1>1, <2>4, KnownWrite
    <3> HIDE DEF q, shown
    <3> QED
      BY <3>1 DEF IsListed
  <2> HIDE DEF q, shown
  <2>6. [i \in DOMAIN shown |-> shown[i].doc] = [i \in DOMAIN q.list |-> q.list[i].id]
    BY <2>5
  <2> QED
    BY <2>5, <2>6
<1>2. RefreshInv /\ [Next]_vars => [\A r \in Requests : exact(r)]_vars
    BY <1>1
<1> QED
    BY <1>2, RefreshInit, RefreshNext, PTL DEF Spec, QuietRefreshIsExact

\* A refresh that knew the projection as it stands takes no document from it,
\* however stale its list (refreshUserDataProjection reads the list last).
THEOREM NothingIsEverDropped == Spec => NothingIsDropped
<1> DEFINE kept(r) ==
             LET q == request[r] IN
             q.pc = "update" /\ request'[r] # q /\ q.base = projection[q.of] =>
                ToSet(Keys(projection[q.of].entries)) \subseteq ToSet(Keys(projection'[q.of].entries))
<1>1. ASSUME RefreshInv, [Next]_vars, NEW r \in Requests PROVE kept(r)
  <2> DEFINE q == request[r]
             before == Keys(projection[q.of].entries)
             after == Keys(projection'[q.of].entries)
             shown == Live(projection'[q.of].entries)
  <2> SUFFICES ASSUME q.pc = "update", request'[r] # q, q.base = projection[q.of], NEW d \in ToSet(before)
               PROVE  d \in ToSet(after)
    OBVIOUS
  <2>1. q \in Calls /\ request \in [Requests -> Calls] /\ ReadsOK(q, documents, access)
    <3>1. q \in Calls /\ ServerInv /\ ReadsOK(q, documents, access)
      BY <1>1, RefreshFacts
    <3> QED
      BY <3>1 DEF ServerInv, TypeOK
  <2>2. Next
    <3>1. UNCHANGED vars => request' = request
      BY DEF vars
    <3> QED
      BY <1>1, <3>1
  <2>3. \/ projection' = projection
        \/ \E p \in Merged(r, q.base, q.list, projection[q.of]) : projection' = [projection EXCEPT ![q.of] = p]
    BY <1>1, <2>1, <2>2, WriteSteps
  <2>4. CASE projection' = projection
    BY <2>4
  <2>5. ASSUME NEW p \in Merged(r, q.base, q.list, projection[q.of]), projection' = [projection EXCEPT ![q.of] = p]
        PROVE  d \in ToSet(after)
    <3>1. /\ DOMAIN shown = 1..Len(q.list) /\ DOMAIN q.list = 1..Len(q.list)
          /\ \A k \in 1..Len(q.list) : shown[k].doc = q.list[k].id
      <4>1. DOMAIN q.list = 1..Len(q.list) /\ IsListed(shown, q.list)
        BY <1>1, <2>5, KnownWrite
      <4> HIDE DEF q, shown
      <4> QED
        BY <4>1 DEF IsListed
    <3>2. q.base.entries \in Seq(EntriesOf(Nat))
      BY <2>1 DEF Calls, ArraysOf
    <3>3. PICK i \in DOMAIN q.base.entries : q.base.entries[i].doc = d
      BY <3>2, ShownIsThere
    <3>4. PICK j \in DOMAIN q.list : q.list[j].id = d
      BY <2>1, <3>3 DEF ReadsOK
    <3>5. after = [k \in DOMAIN shown |-> shown[k].doc]
      BY DEF Keys
    <3> HIDE DEF q, after, shown
    <3>6. j \in DOMAIN after /\ after[j] = d
      BY <3>1, <3>4, <3>5
    <3> QED
      BY <3>6 DEF ToSet
  <2> QED
    BY <2>3, <2>4, <2>5
<1>2. RefreshInv /\ [Next]_vars => [\A r \in Requests : kept(r)]_vars
    BY <1>1
<1> QED
    BY <1>2, RefreshInit, RefreshNext, PTL DEF Spec, NothingIsDropped

\* What overlapping refreshes did wrong the next undisturbed one puts right, and no
\* refresh that saw the projection takes a document from it (current-user.ts).
THEOREM RefreshesAlwaysRepair == Spec => RefreshesRepair
    BY QuietRefreshesAreExact, NothingIsEverDropped DEF RefreshesRepair
=============================================================================
