---------------------------- MODULE OutlineTrees ----------------------------
(***************************************************************************)
(* A document's notes as a tree: kids[o] is the sequence of the children   *)
(* of o, a note or Top, the document root (docs/specs/outliner/            *)
(* note-model.md).  The operators are the queries of                       *)
(* src/client/editor/outline/selection/tree.ts, for any kids.              *)
(***************************************************************************)
EXTENDS Naturals, FiniteSets, SequencesExt

CONSTANTS Notes, Top

ASSUME NotesAssumption == IsFiniteSet(Notes) /\ Top \notin Notes

Owners == Notes \cup {Top}

Present(K) == UNION {ToSet(K[o]) : o \in Owners}

\* getParentContentItem, with Top for none.
Parent(K, n) == CHOOSE o \in Owners : \E i \in DOMAIN K[o] : K[o][i] = n

IndexIn(s, x) == CHOOSE i \in DOMAIN s : s[i] = x

\* getPreviousContentSibling and getNextContentSibling, as a set of at most one.
PreviousSibling(K, n) ==
    LET s == K[Parent(K, n)] IN {s[i] : i \in {j \in DOMAIN s : j + 1 = IndexIn(s, n)}}

NextSibling(K, n) ==
    LET s == K[Parent(K, n)] IN {s[i] : i \in {j \in DOMAIN s : j = IndexIn(s, n) + 1}}

\* getSubtreeItems: o and everything below it (isContentDescendantOf, from the top).
Subtree(K, o) ==
    LET below[p \in Owners] == {p} \cup UNION {below[c] : c \in ToSet(K[p])} IN below[o]

Ancestors(K, n) == {o \in Present(K) \ {n} : n \in Subtree(K, o)}

\* getSubtreeTail: the last note of the subtree in document order.
SubtreeTail(K, n) ==
    LET tail[m \in Owners] == IF K[m] = <<>> THEN m ELSE tail[Last(K[m])] IN tail[n]

\* The notes below o in document order, by depth-first traversal.
DocumentOrder(K, o) ==
    LET below[p \in Owners] ==
            FlattenSeq([j \in DOMAIN K[p] |-> <<K[p][j]>> \o below[K[p][j]]])
    IN  below[o]

\* The notes shown when the view is zoomed to z: no ancestor below z is folded.
Visible(K, folded, z) ==
    LET view == Subtree(K, z)
        hiding == (view \ {z}) \cap folded
    IN  {n \in view \ {Top} : \A o \in hiding \ {n} : n \notin Subtree(K, o)}

\* resolveContiguousSiblingRange: the visible runs of siblings within z.
Runs(K, folded, z) ==
    LET shown == Visible(K, folded, z) IN
    {r \in UNION {{SubSeq(K[o], i, j) : i, j \in DOMAIN K[o]} : o \in Owners} :
        r # <<>> /\ ToSet(r) \subseteq shown}

\* Sequence helpers: the members of s outside X; t spliced into s before index i.
Without(s, X) ==
    LET kept[i \in 0..Len(s)] ==
            IF i = 0 THEN <<>>
            ELSE IF s[i] \in X THEN kept[i - 1] ELSE Append(kept[i - 1], s[i])
    IN  kept[Len(s)]

Splice(s, i, t) == SubSeq(s, 1, i - 1) \o t \o SubSeq(s, i, Len(s))
=============================================================================
