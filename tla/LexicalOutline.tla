--------------------------- MODULE LexicalOutline ---------------------------
(***************************************************************************)
(* The outline as the editor keeps it: nested Lexical lists whose items    *)
(* are notes, body-wrappers and children-wrappers side by side.  A body    *)
(* follows its note, the wrapper of its children follows both; nothing but *)
(* this order says to which note they belong.  The commands are those of   *)
(* src/client/editor (outline/note-ops.ts, indentation.ts, selection/      *)
(* tree.ts, the Insertion, Deletion, Folding, NoteBody and Zoom plugins).  *)
(*                                                                         *)
(* An item is <<kind, note>>; the nested list inside <<"list", n>> is      *)
(* lists[n], and lists[Top] is the root list.  Text is abstracted to       *)
(* whether it is empty, chosen when a command asks.  Only this editor's    *)
(* edits are modelled, not those merged from other clients.                *)
(***************************************************************************)
EXTENDS OutlineTrees

VARIABLES lists,    \* the items of every nested list; <<>> where there is none
          folded,   \* the notes whose folded state is set
          zoom      \* the view root, or Top for null

vars == <<lists, folded, zoom>>

N(n) == <<"note", n>>
B(n) == <<"body", n>>
W(n) == <<"list", n>>
Items == {"note", "body", "list"} \X Notes

\* isContentItem, getContentSiblings: the notes among a list's items.
Content(s) ==
    LET notes == SelectSeq(s, LAMBDA x : x[1] = "note") IN [i \in DOMAIN notes |-> notes[i][2]]

Kids(L) == [o \in Owners |-> Content(L[o])]
BodiesIn(L) == {n \in Notes : \E o \in Owners : B(n) \in ToSet(L[o])}

TypeOK ==
    /\ lists \in [Owners -> Seq(Items)]
    /\ folded \subseteq Present(Kids(lists))
    /\ zoom \in Present(Kids(lists)) \cup {Top}

Init ==
    /\ \E n \in Notes : lists = [o \in Owners |-> IF o = Top THEN <<N(n)>> ELSE <<>>]
    /\ folded = {} /\ zoom = Top

-----------------------------------------------------------------------------
(* list-structure.ts: items, their neighbours, and how Lexical moves them  *)

Home(L, x) == CHOOSE o \in Owners : \E i \in DOMAIN L[o] : L[o][i] = x

\* The item after x, or one before it, in its list; <<>> for none.
Neighbour(L, x, d) ==
    LET s == L[Home(L, x)]  i == IndexIn(s, x) + d IN IF i \in DOMAIN s THEN s[i] ELSE <<>>

IsKind(x, kind) == x # <<>> /\ x[1] = kind

getBodyWrapper(L, n) ==
    LET x == Neighbour(L, N(n), 1) IN IF IsKind(x, "body") THEN <<x>> ELSE <<>>

\* getWrapperForContent: behind the note and its body.
getWrapper(L, n) ==
    LET x == Neighbour(L, Last(<<N(n)>> \o getBodyWrapper(L, n)), 1)
    IN  IF IsKind(x, "list") THEN <<x>> ELSE <<>>

getNodesForNote(L, n) == <<N(n)>> \o getBodyWrapper(L, n) \o getWrapper(L, n)
flattenNoteNodes(L, r) == FlattenSeq([i \in DOMAIN r |-> getNodesForNote(L, r[i])])

noteHasChildren(L, n) == getWrapper(L, n) # <<>> /\ Content(L[n]) # <<>>

\* insertAfter, insertBefore and append take the nodes from where they are.
Detach(L, xs) == [o \in Owners |-> Without(L[o], ToSet(xs))]

insertAfter(L, ref, xs) ==
    LET D == Detach(L, xs) IN
    [D EXCEPT ![Home(L, ref)] = Splice(@, IndexIn(@, ref) + 1, xs)]

insertBefore(L, ref, xs) ==
    LET D == Detach(L, xs) IN [D EXCEPT ![Home(L, ref)] = Splice(@, IndexIn(@, ref), xs)]

appendTo(L, o, xs) == [Detach(L, xs) EXCEPT ![o] = @ \o xs]

\* Lexical's ListItemNode.remove: what hangs below the item is gone with it, and
\* two children-wrappers that become neighbours are merged into the first.
RemoveItem(L, x) ==
    LET below == IF x[1] = "list" THEN Subtree(Kids(L), x[2]) ELSE {}
        before == Neighbour(L, x, -1)
        after == Neighbour(L, x, 1)
        rest == [o \in Owners |-> IF o \in below THEN <<>> ELSE Without(L[o], {x})]
    IN  IF IsKind(before, "list") /\ IsKind(after, "list")
        THEN [o \in Owners |->
                IF o = before[2] THEN L[o] \o L[after[2]]
                ELSE IF o = after[2] THEN <<>> ELSE Without(rest[o], {after})]
        ELSE rest

\* maybeRemoveEmptyWrapper: a nested list that lost its last item goes.
maybeRemoveEmptyWrapper(L, o) ==
    IF o # Top /\ L[o] = <<>> THEN RemoveItem(L, W(o)) ELSE L

\* $getOrCreateChildList: the lists with one for n, and its owner.
getOrCreateChildList(L, n) ==
    IF getWrapper(L, n) # <<>> THEN L
    ELSE insertAfter(L, Last(getNodesForNote(L, n)), <<W(n)>>)

childList(L, n) == IF getWrapper(L, n) # <<>> THEN getWrapper(L, n)[1][2] ELSE n

\* removeNoteSubtree: the children-wrapper, the body-wrapper, then the note.
removeNoteSubtree(L, n) ==
    LET o == Home(L, N(n)) IN
    maybeRemoveEmptyWrapper(FoldLeft(RemoveItem, L, Reverse(getNodesForNote(L, n))), o)
-----------------------------------------------------------------------------
(* What every command ends with                                            *)

\* The list and neighbours of a note's item: Lexical marks the item dirty, and
\* runs its transforms, when one of them changes.
Links(L, n) == <<Home(L, N(n)), Neighbour(L, N(n), -1), Neighbour(L, N(n), 1)>>

\* FoldingPlugin's transform unfolds a dirty note without children.
FoldTransform(L, F) ==
    LET here == Present(Kids(lists)) IN
    {n \in F \cap Present(Kids(L)) :
        noteHasChildren(L, n) \/ (n \in here /\ Links(L, n) = Links(lists, n))}

\* An update: new lists, fold flags set along the way, and the transforms.
Update(L, F) ==
    /\ lists' = L
    /\ folded' = FoldTransform(L, F)

K == Kids(lists)
Shown == Visible(K, folded, zoom)

isWithinBoundary(n) == n \in Subtree(K, zoom)
-----------------------------------------------------------------------------
(* Indentation and reordering of a run of siblings                         *)

canIndentNote(n) ==
    isWithinBoundary(n) /\ \E p \in PreviousSibling(K, n) : isWithinBoundary(p)

\* Mutant: the target stays folded.
indentNoteFolded(S, n) ==
    LET p == CHOOSE q \in PreviousSibling(Kids(S.l), n) : TRUE
        L == getOrCreateChildList(S.l, p)
    IN  [l |-> appendTo(L, childList(L, p), getNodesForNote(L, n)), f |-> S.f]

indentNote(S, n) ==
    LET p == CHOOSE q \in PreviousSibling(Kids(S.l), n) : TRUE
        L == getOrCreateChildList(S.l, p)
    IN  [l |-> appendTo(L, childList(L, p), getNodesForNote(L, n)), f |-> S.f \ {p}]

Indent(r) ==
    /\ \A n \in ToSet(r) : canIndentNote(n)
    /\ LET S == FoldLeft(indentNote, [l |-> lists, f |-> folded], r) IN Update(S.l, S.f)
    /\ UNCHANGED zoom

canOutdentNote(n) ==
    /\ isWithinBoundary(n) /\ Parent(K, n) # Top
    /\ zoom = Top \/ (isWithinBoundary(Parent(K, n)) /\ Parent(K, n) # zoom)

\* Mutant: the emptied wrapper stays.
outdentLeavingWrapper(L, n) == insertAfter(L, W(Home(L, N(n))), getNodesForNote(L, n))

outdentNote(L, n) ==
    LET o == Home(L, N(n)) IN
    maybeRemoveEmptyWrapper(insertAfter(L, W(o), getNodesForNote(L, n)), o)

\* Mutant: the notes are moved in their order, each behind the wrapper.
outdentInOrder(L, r) == FoldLeft(outdentNote, L, r)

outdentNotes(L, r) == FoldLeft(outdentNote, L, Reverse(r))

Outdent(r) ==
    /\ \A n \in ToSet(r) : canOutdentNote(n)
    /\ Update(outdentNotes(lists, r), folded)
    /\ UNCHANGED zoom

moveWithinList(r, down) ==
    \E t \in IF down THEN NextSibling(K, Last(r)) ELSE PreviousSibling(K, Head(r)) :
        /\ isWithinBoundary(t)
        /\ LET xs == flattenNoteNodes(lists, r) IN
           Update(IF down THEN insertAfter(lists, Last(getNodesForNote(lists, t)), xs)
                          ELSE insertBefore(lists, N(t), xs), folded)

\* The parent's neighbour the run could move to.
ParentSiblings(r, down) ==
    LET p == Parent(K, Head(r)) IN
    IF p = Top THEN {}
    ELSE {t \in IF down THEN NextSibling(K, p) ELSE PreviousSibling(K, p) : isWithinBoundary(t)}

moveToParentSiblingChildList(r, down) ==
    /\ isWithinBoundary(Parent(K, Head(r)))
    /\ \E t \in ParentSiblings(r, down) :
         LET xs == flattenNoteNodes(lists, r)
             L == getOrCreateChildList(lists, t)
             o == childList(L, t)
             M == IF down /\ Content(L[o]) # <<>>
                  THEN insertBefore(L, N(Head(Content(L[o]))), xs)
                  ELSE appendTo(L, o, xs)
         IN  Update(maybeRemoveEmptyWrapper(M, Parent(K, Head(r))), folded \ {t})

outdentMoveFallback(r, down) ==
    LET p == Parent(K, Head(r)) IN
    /\ p # Top /\ isWithinBoundary(p) /\ p # zoom
    /\ LET xs == flattenNoteNodes(lists, r)
           M == IF down THEN insertAfter(lists, Last(getNodesForNote(lists, p)), xs)
                        ELSE insertBefore(lists, N(p), xs)
       IN  Update(maybeRemoveEmptyWrapper(M, p), folded)

\* The first step of the cascade that applies.
Move(r, down) ==
    LET siblings == IF down THEN NextSibling(K, Last(r)) ELSE PreviousSibling(K, Head(r))
        within == {t \in siblings : isWithinBoundary(t)}
    IN  /\ \A n \in ToSet(r) : isWithinBoundary(n)
        /\ \/ moveWithinList(r, down)
           \/ within = {} /\ moveToParentSiblingChildList(r, down)
           \/ within = {} /\ (ParentSiblings(r, down) = {} \/ ~isWithinBoundary(Parent(K, Head(r))))
              /\ outdentMoveFallback(r, down)
        /\ UNCHANGED zoom
-----------------------------------------------------------------------------
(* Deletion, merging, insertion and bodies                                 *)

\* The view root no longer resolves: ZoomPlugin goes to the document.
ZoomAfter(L) == IF zoom \in Present(Kids(L)) \cup {Top} THEN zoom ELSE Top

\* $deleteSelectedNotes, heads in reverse; an emptied document gets a new note.
DeleteNotes(r) ==
    LET L == FoldLeft(removeNoteSubtree, lists, Reverse(r)) IN
    /\ \/ L[Top] # <<>> /\ Update(L, folded)
       \/ L[Top] = <<>> /\ \E n \in Notes \ (Present(K) \ ToSet(r)) : Update([L EXCEPT ![Top] = <<N(n)>>], {})
    /\ zoom' = IF L[Top] = <<>> THEN Top ELSE ZoomAfter(L)

\* $carryBodyToSurvivor; the body is named after the note that has it.
carryBody(L, removed, survivor) ==
    LET D == Detach(L, getBodyWrapper(L, removed)) IN
    IF D = L THEN L ELSE insertAfter(D, N(survivor), <<B(survivor)>>)

\* $moveChildrenToTarget, in place of the note or behind the target's children.
moveChildren(L, from, target) ==
    LET xs == flattenNoteNodes(L, Kids(L)[from])
        M == getOrCreateChildList(L, target)
    IN  IF xs = <<>> THEN L
        ELSE IF Parent(Kids(L), from) = target THEN insertBefore(L, N(from), xs)
        ELSE appendTo(M, childList(M, target), xs)

getPreviousNote(n) ==
    IF PreviousSibling(K, n) # {} THEN {SubtreeTail(K, p) : p \in PreviousSibling(K, n)}
    ELSE {Parent(K, n)} \ {Top}

\* $mergeAtStartOfNote: a note that is empty and has no children just goes.
mergeAtStartOfNote(current, currentEmpty, targetEmpty) ==
    \E target \in getPreviousNote(current) :
      /\ getBodyWrapper(lists, current) = <<>> \/ getBodyWrapper(lists, target) = <<>>
      /\ IF targetEmpty /\ ~noteHasChildren(lists, target)
         THEN Update(removeNoteSubtree(carryBody(lists, target, current), target), folded)
         ELSE IF currentEmpty /\ ~noteHasChildren(lists, current)
         THEN Update(removeNoteSubtree(carryBody(lists, current, target), current), folded)
         ELSE LET L == carryBody(moveChildren(lists, current, target), current, target) IN
              Update(removeNoteSubtree(L, current),
                     IF K[current] # <<>> /\ Parent(K, current) # target
                     THEN folded \ {target} ELSE folded)

\* Backspace with the caret at the start of a note.
Backspace(n) ==
    /\ n # zoom
    /\ \E noteEmpty, targetEmpty \in BOOLEAN : mergeAtStartOfNote(n, noteEmpty, targetEmpty)
    /\ UNCHANGED zoom

\* getNextNoteInDocumentOrder: the first child, or the next sibling of the
\* nearest of the note and its ancestors that has one.
getNextNote(n) ==
    IF K[n] # <<>> THEN {Head(K[n])}
    ELSE LET up[m \in Owners] ==
                 IF m = Top THEN {}
                 ELSE IF NextSibling(K, m) # {} THEN NextSibling(K, m) ELSE up[Parent(K, m)]
         IN  up[n]

\* Delete with the caret at the end of a note; bodyEmpty also for no body.
ForwardDelete(n) ==
    \E noteEmpty, bodyEmpty \in BOOLEAN :
      LET within == {m \in getNextNote(n) : isWithinBoundary(m)} IN
      /\ getBodyWrapper(lists, n) = <<>> => bodyEmpty
      /\ IF ~noteHasChildren(lists, n) /\ noteEmpty /\ bodyEmpty
         THEN /\ ~(n = zoom /\ within = {})
              /\ getPreviousNote(n) \cup getNextNote(n) # {}
              /\ Update(removeNoteSubtree(lists, n), folded)
              /\ zoom' = ZoomAfter(removeNoteSubtree(lists, n))
         ELSE \E m \in within, nextEmpty \in BOOLEAN :
              /\ ~(noteHasChildren(lists, n) /\ noteHasChildren(lists, m))
              /\ mergeAtStartOfNote(m, nextEmpty, noteEmpty)
              /\ UNCHANGED zoom

\* Enter: where the new note goes depends on the caret, and on the view root,
\* which always gets a first child.
InsertFirstChild(n, new) ==
    LET L == getOrCreateChildList(lists, n)
        o == childList(L, n)
    IN  Update(IF L[o] = <<>> THEN appendTo(L, o, <<N(new)>>)
               ELSE insertBefore(L, Head(L[o]), <<N(new)>>), folded \ {n})

EnterAtStart(n, new) == Update(insertBefore(lists, N(n), <<N(new)>>), folded)

EnterAtEnd(n, new) ==
    IF noteHasChildren(lists, n) /\ n \notin folded THEN InsertFirstChild(n, new)
    ELSE Update(insertAfter(lists, Last(getNodesForNote(lists, n)), <<N(new)>>), folded)

\* $splitContentItemAtSelection: what is before the caret becomes a note in front;
\* of the view root, what is behind it becomes its first child.
SplitNote(n, new) == IF n = zoom THEN InsertFirstChild(n, new) ELSE EnterAtStart(n, new)

\* Text that was selected is removed first; a note cleared by that has its caret
\* at the end.
Enter(n, new) ==
    /\ new \notin Present(K)
    /\ \/ n = zoom /\ InsertFirstChild(n, new)
       \/ n # zoom /\ (EnterAtStart(n, new) \/ EnterAtEnd(n, new))
       \/ SplitNote(n, new)
    /\ UNCHANGED zoom

\* $addNoteBody and $removeNoteBody.
AddBody(n) ==
    /\ getBodyWrapper(lists, n) = <<>>
    /\ Update(insertAfter(lists, N(n), <<B(n)>>), folded)
    /\ UNCHANGED zoom

RemoveBody(n) ==
    /\ getBodyWrapper(lists, n) # <<>>
    /\ Update(RemoveItem(lists, getBodyWrapper(lists, n)[1]), folded)
    /\ UNCHANGED zoom
-----------------------------------------------------------------------------
(* Where commands put the caret: a set of at most one note                 *)

\* Mutant: the sibling of the first of the notes, which may be deleted too.
caretPlanOfFirst(r) ==
    LET within(X) == {m \in X : isWithinBoundary(m)}
        next == within(NextSibling(K, Head(r)))
        previous == within(PreviousSibling(K, Head(r)))
    IN  IF next # {} THEN next
        ELSE IF previous # {} THEN {SubtreeTail(K, p) : p \in previous}
        ELSE within({Parent(K, Head(r))} \ {Top})

\* $resolveStructuralDeletionTargets, before the notes r go.
caretPlan(r) ==
    LET within(X) == {m \in X : isWithinBoundary(m)}
        next == within(NextSibling(K, Last(r)))
        previous == within(PreviousSibling(K, Head(r)))
    IN  IF next # {} THEN next
        ELSE IF previous # {} THEN {SubtreeTail(K, p) : p \in previous}
        ELSE within({Parent(K, Head(r))} \ {Top})

\* resolveCaretPlanAfterRemoval: the same without the view, for an empty note
\* that Delete takes away.
caretPlanAfterRemoval(n) ==
    IF NextSibling(K, n) # {} THEN NextSibling(K, n)
    ELSE IF PreviousSibling(K, n) # {} THEN {SubtreeTail(K, p) : p \in PreviousSibling(K, n)}
    ELSE {Parent(K, n)} \ {Top}

\* Mutant: the children of a folded note are entered.
noteBelowInFolds(n) == getNextNote(n)

\* $noteBelow: the next note in document order that no fold hides.
noteBelow(n) ==
    IF n \in folded /\ K[n] # <<>> THEN getNextNote(SubtreeTail(K, n)) ELSE getNextNote(n)

\* $noteAbove: the last note below the previous sibling, unless that one itself is
\* folded; folds further down are not looked at.
noteAbove(n) ==
    IF PreviousSibling(K, n) # {}
    THEN {IF p \in folded THEN p ELSE SubtreeTail(K, p) : p \in PreviousSibling(K, n)}
    ELSE {Parent(K, n)} \ {Top}

\* $skipBodyForVerticalNav and $skipBodyForHorizontalNav: from the last line or the
\* end of n (forward), from its first line or start (back).  The empty set
\* leaves the arrow to the browser.
skipBodyForward(n) ==
    LET below == {m \in noteBelow(n) : isWithinBoundary(m)}
    IN  IF getBodyWrapper(lists, n) = <<>> THEN {}
        ELSE IF below # {} THEN below ELSE {n}

skipBodyBack(n) ==
    {m \in noteAbove(n) : isWithinBoundary(m) /\ getBodyWrapper(lists, m) # <<>>}
-----------------------------------------------------------------------------
(* The view                                                                *)

ToggleFold(n) ==
    /\ noteHasChildren(lists, n)
    /\ folded' = IF n \in folded THEN folded \ {n} ELSE folded \cup {n}
    /\ UNCHANGED <<lists, zoom>>

\* $applyFoldViewToLevel; level 0 unfolds the view.
FoldViewToLevel(level) ==
    LET below == Subtree(K, zoom) \ {zoom}
        depth(n) == 1 + Cardinality(Ancestors(K, n) \cap below)
    IN  /\ folded' = (folded \ Subtree(K, zoom)) \cup
                     {n \in below : depth(n) = level /\ noteHasChildren(lists, n)}
        /\ UNCHANGED <<lists, zoom>>

ZoomTo(z) ==
    /\ z \in Present(K) \cup {Top}
    /\ zoom' = z
    /\ UNCHANGED <<lists, folded>>

Structural == \E r \in Runs(K, folded, zoom) :
                 Indent(r) \/ Outdent(r) \/ Move(r, TRUE) \/ Move(r, FALSE)

Editing == \/ \E r \in Runs(K, folded, zoom) : DeleteNotes(r)
           \/ \E n \in Shown : Backspace(n) \/ ForwardDelete(n) \/ AddBody(n) \/ RemoveBody(n)
           \/ \E n \in Shown, new \in Notes : Enter(n, new)

View == \/ \E n \in Shown : ToggleFold(n)
        \/ \E level \in 0..Cardinality(Notes) : FoldViewToLevel(level)
        \/ \E z \in Owners : ZoomTo(z)

Next == Structural \/ Editing \/ View

Spec == Init /\ [][Next]_vars
-----------------------------------------------------------------------------
(* Properties                                                              *)

\* The outline schema: every list is a row of notes, each with at most one body
\* and one children-wrapper right behind it, its own; no wrapper is empty, no
\* list is left behind, and no item is in two places.  Every command relies on
\* it (list-structure.ts) and none checks it.
SchemaHolds ==
    /\ TypeOK /\ lists[Top] # <<>>
    /\ \A o \in Owners : lists[o] = flattenNoteNodes(lists, Content(lists[o]))
    /\ \A n \in Present(K) : /\ getBodyWrapper(lists, n) \in {<<>>, <<B(n)>>}
                             /\ getWrapper(lists, n) = IF lists[n] = <<>> THEN <<>> ELSE <<W(n)>>
    /\ \A n \in Notes \ Present(K) : lists[n] = <<>>
    /\ Len(DocumentOrder(K, Top)) = Cardinality(Present(K))

\* The list manipulation implements the tree commands the documents describe.
Tree == INSTANCE Outline WITH kids <- Kids(lists), bodies <- BodiesIn(lists)
ImplementsOutline == Tree!Spec

\* zoom.md:27: while a note is the view root, no command creates, merges, moves
\* or removes a note outside its subtree.
StaysInZoom ==
    [][zoom # Top /\ zoom' = zoom =>
         \A o \in Owners \ Subtree(K, zoom) :
            K'[o] = K[o] /\ (o \in BodiesIn(lists)' <=> o \in BodiesIn(lists))]_vars

\* Only a deletion, a merge or a view command takes notes out of sight: a note
\* the user could see before an indent, an outdent, a move or an insertion is
\* not hidden by it (folding.md rule 6).
NothingIsHidden ==
    [][Present(K) \subseteq Present(K') /\ lists' # lists /\ zoom' = zoom
         => Shown \subseteq Shown']_vars

\* The two together: commands work on what the user sees, and leave it in sight.
ViewHolds == StaysInZoom /\ NothingIsHidden

\* A deletion puts the caret into a note that is still there, and every command
\* and arrow into one of the view, unless it takes the view root away
\* ($resolveStructuralDeletionTargets, resolveCaretPlanAfterRemoval).
CaretsStayInView ==
    /\ \A r \in Runs(K, folded, zoom) :
          /\ caretPlan(r) \cap UNION {Subtree(K, n) : n \in ToSet(r)} = {}
          /\ zoom \in ToSet(r) \/ caretPlan(r) \subseteq Subtree(K, zoom)
    /\ \A n \in Shown :
          /\ n = zoom \/ caretPlanAfterRemoval(n) \subseteq Subtree(K, zoom)
          /\ skipBodyForward(n) \cup skipBodyBack(n) \subseteq Subtree(K, zoom)

\* body.md:45: arrows never enter a body from outside.  Down and Right go from a
\* note with a body to the next note the user sees, and Up and Left come back, if
\* they end in a note the user sees at all.  (A folded view root shows its
\* children, but noteBelow passes them.)
ArrowsSkipBodies ==
    LET rows == SelectSeq(DocumentOrder(K, Top), LAMBDA n : n \in Shown)
        at(n) == IndexIn(rows, n)
    IN  \A n \in Shown :
          /\ (n = zoom => n \notin folded) /\ getBodyWrapper(lists, n) # <<>> =>
                skipBodyForward(n) = {IF at(n) < Len(rows) THEN rows[at(n) + 1] ELSE n}
          /\ \A m \in skipBodyBack(n) \cap Shown : at(m) = at(n) - 1
=============================================================================
