------------------------------ MODULE Outline ------------------------------
(***************************************************************************)
(* What the outline editor promises: the structural commands on a tree of  *)
(* notes, without the list nodes, wrappers and fold states that carry it.  *)
(* LexicalOutline implements it.                                           *)
(***************************************************************************)
EXTENDS OutlineTrees

VARIABLES kids,     \* the children of every note and of the document
          bodies,   \* the notes that have a body
          zoom      \* the zoom root, or Top

vars == <<kids, bodies, zoom>>

Boundary == Subtree(kids, zoom)

Init ==
    /\ \E n \in Notes : kids = [o \in Owners |-> IF o = Top THEN <<n>> ELSE <<>>]
    /\ bodies = {} /\ zoom = Top

\* The runs of siblings a command can act on.
Run(o, i, j) == SubSeq(kids[o], i, j)

\* Every place a run of o's children could be, with the run itself taken out.
TakenOut(r) == [p \in Owners |-> Without(kids[p], ToSet(r))]

\* The run becomes the last children of its preceding sibling.
Indent(o, i, j) ==
    /\ i > 1 /\ o \in Boundary
    /\ kids' = [TakenOut(Run(o, i, j)) EXCEPT ![kids[o][i - 1]] = @ \o Run(o, i, j)]
    /\ UNCHANGED <<bodies, zoom>>

\* The run moves right behind its former parent.
Outdent(o, i, j) ==
    /\ o \in Boundary \ {zoom}
    /\ LET p == Parent(kids, o) IN
       kids' = [TakenOut(Run(o, i, j)) EXCEPT
                    ![p] = Splice(@, IndexIn(kids[p], o) + 1, Run(o, i, j))]
    /\ UNCHANGED <<bodies, zoom>>

\* The first of: behind the next sibling; first in the parent's next sibling;
\* right behind the parent.
MoveDown(o, i, j) ==
    /\ o \in Boundary
    /\ LET r == Run(o, i, j)
           aunts == NextSibling(kids, o) \cap Boundary
       IN  \/ /\ j < Len(kids[o])
              /\ kids' = [kids EXCEPT ![o] = Splice(Without(@, ToSet(r)), i + 1, r)]
           \/ /\ j = Len(kids[o]) /\ o # Top
              /\ \/ \E a \in aunts : kids' = [TakenOut(r) EXCEPT ![a] = r \o @]
                 \/ /\ aunts = {} /\ o # zoom
                    /\ kids' = [TakenOut(r) EXCEPT ![Parent(kids, o)] =
                                    Splice(@, IndexIn(@, o) + 1, r)]
    /\ UNCHANGED <<bodies, zoom>>

\* The first of: before the previous sibling; last in the parent's previous
\* sibling; right before the parent.
MoveUp(o, i, j) ==
    /\ o \in Boundary
    /\ LET r == Run(o, i, j)
           aunts == PreviousSibling(kids, o) \cap Boundary
       IN  \/ /\ i > 1
              /\ kids' = [kids EXCEPT ![o] = Splice(Without(@, ToSet(r)), i - 1, r)]
           \/ /\ i = 1 /\ o # Top
              /\ \/ \E a \in aunts : kids' = [TakenOut(r) EXCEPT ![a] = @ \o r]
                 \/ /\ aunts = {} /\ o # zoom
                    /\ kids' = [TakenOut(r) EXCEPT ![Parent(kids, o)] =
                                    Splice(@, IndexIn(@, o), r)]
    /\ UNCHANGED <<bodies, zoom>>

\* The run goes with its subtrees; a document keeps at least one note.
Delete(o, i, j) ==
    LET gone == UNION {Subtree(kids, n) : n \in ToSet(Run(o, i, j))}
        left == [p \in Owners |-> IF p \in gone THEN <<>> ELSE Without(kids[p], gone)]
    IN  /\ ToSet(Run(o, i, j)) \subseteq Boundary
        /\ \/ left[Top] # <<>> /\ kids' = left
           \/ left[Top] = <<>> /\ \E n \in Notes : kids' = [left EXCEPT ![Top] = <<n>>]
        /\ bodies' = bodies \ gone
        /\ zoom' = IF zoom \in gone THEN Top ELSE zoom

\* A new note appears somewhere in the boundary.
Insert(n, o, i) ==
    /\ n \notin Present(kids) /\ o \in Boundary
    /\ kids' = [kids EXCEPT ![o] = InsertAt(@, i, n)]
    /\ UNCHANGED <<bodies, zoom>>

\* Adjacent notes become one and no body is lost: b's children stay where they
\* are in document order.  Or a, an empty leaf, makes way for b.
Merge(a, b) ==
    /\ {a, b} \subseteq Boundary /\ ~({a, b} \subseteq bodies)
    /\ LET order == DocumentOrder(kids, Top) IN
       \E i \in 2..Len(order) : order[i] = b /\ order[i - 1] = a
    /\ \E gone \in {a, b} :
          /\ LET rest == [p \in Owners |-> IF p = gone THEN <<>> ELSE kids[p]] IN
             \/ gone = a /\ kids[a] = <<>>
                /\ kids' = [p \in Owners |-> Without(rest[p], {a})]
             \/ gone = b /\ Parent(kids, b) = a
                /\ kids' = [rest EXCEPT ![a] = kids[b] \o Tail(@)]
             \/ gone = b /\ Parent(kids, b) # a
                /\ kids' = [[p \in Owners |-> Without(rest[p], {b})] EXCEPT ![a] = @ \o kids[b]]
          /\ bodies' = IF bodies \cap {a, b} = {} THEN bodies
                       ELSE (bodies \ {a, b}) \cup ({a, b} \ {gone})
    /\ UNCHANGED zoom

SetBodies ==
    /\ bodies' \in SUBSET Present(kids)
    /\ UNCHANGED <<kids, zoom>>

Zoom(z) ==
    /\ z \in Present(kids) \cup {Top}
    /\ zoom' = z /\ UNCHANGED <<kids, bodies>>

Next ==
    \/ \E o \in Owners : \E i, j \in DOMAIN kids[o] :
          /\ i <= j
          /\ Indent(o, i, j) \/ Outdent(o, i, j) \/ MoveDown(o, i, j) \/ MoveUp(o, i, j)
             \/ Delete(o, i, j)
    \/ \E n \in Notes, o \in Owners : \E i \in 1..Len(kids[o]) + 1 : Insert(n, o, i)
    \/ \E a, b \in Notes : Merge(a, b)
    \/ SetBodies
    \/ \E z \in Owners : Zoom(z)

Spec == Init /\ [][Next]_vars
=============================================================================
