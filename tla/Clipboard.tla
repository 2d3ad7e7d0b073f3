------------------------------ MODULE Clipboard ------------------------------
(***************************************************************************)
(* Cut, copy and paste of notes                                            *)
(* (src/client/editor/editing/clipboard/ClipboardPlugin.tsx) over the      *)
(* lists of LexicalOutline.  A cut leaves its notes in place and remembers *)
(* them; a paste of a clipboard that says "cut" moves the remembered       *)
(* notes, whatever the clipboard holds.  In between anyone may edit: this  *)
(* user, another client, and the user of another tab, who shares the       *)
(* clipboard.  What is pasted without a cut is copied under new names.     *)
(*                                                                         *)
(* Text is abstracted away.  The selection is an argument of the action,   *)
(* and so are the notes of a copy: another document's may be on the        *)
(* clipboard at any time, so any small forest can be.                      *)
(***************************************************************************)
EXTENDS LexicalOutline

CONSTANTS MaxPayload,   \* bound: notes pasted at once
          None

VARIABLES marker,      \* cutMarkerRef: the first and last head, and markedKeys
          clipboard,   \* the system clipboard: "cut" if it says remdoCut, else "notes"
          pasted       \* history: the last step was a paste

clipVars == <<lists, folded, zoom, marker, clipboard, pasted>>

ClipInit == Init /\ marker = None /\ clipboard = "notes" /\ pasted = FALSE
-----------------------------------------------------------------------------
(* Ranges                                                                  *)

\* $resolveStructuralHeadsFromRange: the siblings from the first head to the
\* last; none if one is gone, or they are no longer siblings in this order.
HeadsOf(T, first, last) ==
    LET here == {first, last} \subseteq Present(T)
        s == T[Parent(T, first)]
    IN  IF here /\ last \in ToSet(s) /\ IndexIn(s, first) <= IndexIn(s, last)
        THEN SubSeq(s, IndexIn(s, first), IndexIn(s, last)) ELSE <<>>

\* $collectStructuralItemKeysFromRange.
KeysOf(T, r) == UNION {Subtree(T, n) : n \in ToSet(r)}

\* $resolveStructuralClipboardContext: the runs a copy, a cut or a paste may find
\* selected.
Ranges == Runs(K, folded, zoom)

CutHeads(T) == HeadsOf(T, marker.first, marker.last)

\* What the marker knows while T is the document: hasMarkedDirtyKey and
\* hasBoundaryDirtyKey.
Guarded(T) == marker.keys \cup KeysOf(T, CutHeads(T))
-----------------------------------------------------------------------------
(* Which notes an update dirties                                           *)

ItemLinks(L, x) ==
    LET o == Home(L, x)  i == IndexIn(L[o], x) IN
    <<o, {<<j < i, L[o][j]>> : j \in DOMAIN L[o] \cap {i - 1, i + 1}}>>
ItemsIn(L) == UNION {ToSet(L[o]) : o \in Owners}

\* Lexical marks the items that were added, moved, taken out or given other
\* neighbours, and the elements above them.  The items below one that is taken
\* out go with it unmarked.
DirtyItems(L, M) ==
    LET before == ItemsIn(L)
        after == ItemsIn(M)
        there == Present(Kids(M)) \cup {Top}
    IN  {x \in after : x \in before => ItemLinks(L, x) # ItemLinks(M, x)}
        \cup {x \in before \ after : Home(L, x) \in there}

\* $getContentKeyFromNodeKey: an item, a body or a wrapper counts as its note.
DirtyNotes(L, M, F, G) ==
    LET direct == {x[2] : x \in DirtyItems(L, M)} \cup ((F \ G) \cup (G \ F))
        above(T) == UNION {Ancestors(T, n) : n \in direct \cap Present(T)}
    IN  direct \cup above(Kids(L)) \cup above(Kids(M))

\* Mutant: only the notes the cut began with and ended with are watched.
CutSurvivesEnds(dirty) ==
    marker # None /\ dirty \cap {marker.first, marker.last} = {}

CutSurvives(dirty) ==
    marker # None /\ dirty \cap (Guarded(Kids(lists)) \cup Guarded(Kids(lists'))) = {}

\* The update listener: an edit inside the pending cut cancels it.
Watch == marker' = IF CutSurvives(DirtyNotes(lists, lists', folded, folded'))
                   THEN marker ELSE None
-----------------------------------------------------------------------------
(* Edits between cut and paste                                             *)

\* Keys are never used twice: a note that was cut and is gone does not return.
NewNotesAreNew ==
    marker # None => (Present(Kids(lists')) \ Present(K)) \cap marker.keys = {}

\* This editor's commands; folding to a level is folding note by note.
LocalEdit ==
    /\ \/ Structural \/ Editing
       \/ \E n \in Shown : ToggleFold(n)
       \/ \E z \in Owners : ZoomTo(z)
    /\ NewNotesAreNew /\ Watch /\ UNCHANGED clipboard

\* Another client's deletions and insertions, wherever they are.
RemoteDelete ==
    \E r \in Runs(K, {}, Top) :
      LET L == FoldLeft(removeNoteSubtree, lists, Reverse(r)) IN
      /\ L[Top] # <<>>
      /\ Update(L, folded)
      /\ zoom' = ZoomAfter(L)
      /\ Watch /\ UNCHANGED clipboard

RemoteInsert ==
    \E n \in Present(K), new \in Notes \ Present(K) :
      /\ \/ Update(insertBefore(lists, N(n), <<N(new)>>), folded)
         \/ LET L == getOrCreateChildList(lists, n) IN
            Update(appendTo(L, childList(L, n), <<N(new)>>), folded)
      /\ NewNotesAreNew /\ Watch
      /\ UNCHANGED <<zoom, clipboard>>

\* Typing, here or elsewhere, in a note or its body.
EditText ==
    /\ UNCHANGED <<lists, folded, zoom, clipboard>>
    /\ \E n \in Present(K) : ~CutSurvives({n} \cup Ancestors(K, n))
    /\ marker' = None
-----------------------------------------------------------------------------
(* Copy and cut                                                            *)

Copy ==
    /\ clipboard' = "notes"
    /\ marker' = None
    /\ UNCHANGED <<lists, folded, zoom>>

Cut(r) ==
    /\ clipboard' = "cut"
    /\ marker' = [first |-> Head(r), last |-> Last(r), keys |-> KeysOf(K, r)]
    /\ UNCHANGED <<lists, folded, zoom>>

\* A copy or a cut in another tab or program.
CopyElsewhere ==
    /\ clipboard' \in {"cut", "notes"} \ {clipboard}
    /\ UNCHANGED <<lists, folded, zoom, marker>>
-----------------------------------------------------------------------------
(* Where a paste goes: lists and flags made ready, the list, and the item  *)
(* it goes in front of, <<>> for the end of the list                       *)

FirstOf(s) == IF s = <<>> THEN <<>> ELSE N(Head(s))
NextOf(L, n) == LET t == NextSibling(Kids(L), n) IN
                IF t = {} THEN <<>> ELSE N(CHOOSE m \in t : TRUE)

BesidesChildren(n) ==
    LET L == getOrCreateChildList(lists, n)  o == childList(L, n) IN
    [l |-> L, f |-> folded \ {n}, o |-> o, before |-> FirstOf(Content(L[o]))]

InFront(n) == [l |-> lists, f |-> folded, o |-> Home(lists, N(n)), before |-> N(n)]

Behind(n) == [InFront(n) EXCEPT !.before = NextOf(lists, n)]

\* $splitContentItemAtSelection: what is before the caret becomes a new note;
\* of the view root, what is behind it, as its first child.
Split(n, new) ==
    IF n = zoom
    THEN LET p == BesidesChildren(n)
             L == IF p.before = <<>> THEN appendTo(p.l, p.o, <<N(new)>>)
                                     ELSE insertBefore(p.l, p.before, <<N(new)>>)
         IN  [p EXCEPT !.l = L, !.before = N(new)]
    ELSE [InFront(n) EXCEPT !.l = insertBefore(lists, N(n), <<N(new)>>)]

\* Mutant: the view root is treated like any other note.
AtCaretAnywhere(n, at) ==
    CASE at = "start" -> InFront(n)
      [] at = "end" -> IF noteHasChildren(lists, n) THEN BesidesChildren(n) ELSE Behind(n)
      [] at = "inside" -> Behind(n)

\* Where a caret that splits nothing may be: inside for one in a link, which is
\* never split.
Carets == {"start", "end", "inside"}

\* $insertNodesAtSelection, for a caret.
AtCaret(n, at) ==
    CASE n = zoom -> BesidesChildren(n)
      [] at = "start" -> InFront(n)
      [] at = "end" -> IF noteHasChildren(lists, n) THEN BesidesChildren(n) ELSE Behind(n)
      [] at = "inside" -> Behind(n)

\* The same, for selected notes: behind the last, or in the view root.
AtRange(r) == IF zoom \in ToSet(r) THEN BesidesChildren(zoom) ELSE Behind(Last(r))

\* The notes a paste replaces; of the view root, its children.
Replaced(r) == IF ToSet(r) = {zoom} THEN K[zoom] ELSE Without(r, {zoom})

\* Lexical's insertBefore, node after node from the last: the first node may be
\* the one they go in front of.
placeNodes(p, xs) ==
    LET D == Detach(p.l, Without(xs, {p.before}))  h == Home(p.l, p.before) IN
    IF p.before = <<>> THEN appendTo(p.l, p.o, xs)
    ELSE IF p.before \notin ToSet(xs) THEN insertBefore(p.l, p.before, xs)
    ELSE [D EXCEPT ![h] = LET i == IndexIn(@, p.before) IN
                          SubSeq(@, 1, i - 1) \o xs \o SubSeq(@, i + 1, Len(@))]

\* A single item cannot go in front of itself: the update is dropped.
Inserts(p, xs) == xs # <<p.before>>

\* RootSchemaPlugin's transform: an emptied root list gets a note.
UpdateOrStartAnew(L, F) ==
    \/ L[Top] # <<>> /\ Update(L, F)
    \/ L[Top] = <<>> /\ \E n \in Notes : Update([L EXCEPT ![Top] = <<N(n)>>], {})

insertNodesAtSelection(p, xs, replaced) ==
    IF Inserts(p, xs)
    THEN UpdateOrStartAnew(FoldLeft(removeNoteSubtree, placeNodes(p, xs), Reverse(replaced)), p.f)
    ELSE UNCHANGED <<lists, folded>>
-----------------------------------------------------------------------------
(* Pasting a cut                                                           *)

\* Mutant: a paste inside the cut goes ahead.
OutsideCutAlways(X) == TRUE

OutsideCut(X) == X \cap marker.keys = {}

\* A caret, or selected text that is deleted first.
MoveToCaret(n) ==
    /\ OutsideCut({n}) /\ CutHeads(K) # <<>>
    /\ LET xs == flattenNoteNodes(lists, CutHeads(K)) IN
       \/ \E at \in Carets : insertNodesAtSelection(AtCaret(n, at), xs, <<>>)
       \/ \E new \in Notes \ (Present(K) \cup marker.keys) :
             insertNodesAtSelection(Split(n, new), xs, <<>>)

\* The view root pasted into itself.  Its children-wrapper, if it has one, is put
\* into the list that it holds: with all that is in there it is cut off from the
\* document.  A wrapper made for the purpose is left in the note's place, and the
\* repair that follows (normalizeOrphanWrappers) puts the note below its previous
\* sibling, or back where there is none.
MoveRootIntoItself ==
    LET xs == getNodesForNote(lists, zoom)
        below == Subtree(K, zoom)
        previous == PreviousSibling(K, zoom)
        L(p) == getOrCreateChildList(lists, p)
    IN  IF getWrapper(lists, zoom) # <<>>
        THEN UpdateOrStartAnew(
               [o \in Owners |-> IF o \in below THEN <<>> ELSE Without(lists[o], ToSet(xs))],
               folded \ {zoom})
        ELSE IF previous = {} THEN Update(lists, folded \ {zoom})
        ELSE \E p \in previous :
               Update(appendTo(L(p), childList(L(p), p), xs), folded \ {zoom})

\* Selected notes.  $resolveStructuralDeletionHeads takes the selected notes
\* themselves when those that were cut cannot be found.
MoveToRange(r) ==
    /\ OutsideCut(KeysOf(K, r))
    /\ LET heads == IF CutHeads(K) # <<>> THEN CutHeads(K) ELSE r IN
       IF zoom \in ToSet(heads) THEN MoveRootIntoItself
       ELSE insertNodesAtSelection(AtRange(r), flattenNoteNodes(lists, heads), Replaced(r))

\* Nothing happens without a marker, inside the cut, and in a body.
PasteCut ==
    /\ clipboard = "cut" /\ marker # None
    /\ \/ \E n \in Shown : MoveToCaret(n)
       \/ \E r \in Ranges : MoveToRange(r)
       \/ CutHeads(K) = <<>> /\ (\E n \in Shown : OutsideCut({n})) /\ UNCHANGED <<lists, folded>>
    /\ marker' = None
    /\ zoom' = ZoomAfter(lists')
    /\ UNCHANGED clipboard
-----------------------------------------------------------------------------
(* Pasting copied notes or lines                                           *)

\* A payload: the copied notes in document order, each with its depth and
\* whether it has a body ($populateClipboardFromSelection).
Payloads ==
    {rows \in UNION {[1..k -> [depth : 0..(MaxPayload - 1), body : BOOLEAN]] : k \in 1..MaxPayload} :
        /\ rows[1].depth = 0
        /\ \A i \in DOMAIN rows : i > 1 => rows[i].depth <= rows[i - 1].depth + 1}

\* $regenerateClipboardNoteIds: rows become notes with the new names.
RowKids(rows, i) ==
    SelectSeq([j \in DOMAIN rows |-> j],
        LAMBDA j : /\ j > i /\ rows[j].depth = rows[i].depth + 1
                   /\ \A k \in (i + 1)..j : rows[k].depth > rows[i].depth)

RowNodes(rows, names, at) ==
    FlattenSeq([j \in DOMAIN at |->
        <<N(names[at[j]])>>
        \o (IF rows[at[j]].body THEN <<B(names[at[j]])>> ELSE <<>>)
        \o (IF RowKids(rows, at[j]) # <<>> THEN <<W(names[at[j]])>> ELSE <<>>)])

RowHeads(rows) ==
    SelectSeq([j \in DOMAIN rows |-> j], LAMBDA j : rows[j].depth = 0)

WithRows(L, rows, names) ==
    [o \in Owners |-> IF o \in ToSet(names)
                      THEN RowNodes(rows, names, RowKids(rows, IndexIn(names, o)))
                      ELSE L[o]]

\* Names for the rows, and one for the half of a note that is split.
NewNames(k) ==
    {s \in [1..k -> Notes \ Present(K)] : \A i, j \in 1..k : s[i] = s[j] => i = j}

pasteRows(p, rows, names, replaced) ==
    insertNodesAtSelection([p EXCEPT !.l = WithRows(@, rows, names)],
                           RowNodes(rows, names, RowHeads(rows)), replaced)

\* The lines of the text of rows: a note's own, then its body's.
LinesOf(rows) == Len(rows) + Cardinality({i \in DOMAIN rows : rows[i].body})

\* Over selected text: the first line replaces it, and each further line is a new
\* first child.
PasteOverText(n, rows) ==
    LET p == BesidesChildren(n) IN
    \E names \in NewNames(LinesOf(rows) - 1) :
       IF names = <<>> THEN UNCHANGED <<lists, folded>>
       ELSE Update(placeNodes(p, [i \in DOMAIN names |-> N(names[i])]), p.f)

PasteCopied ==
    /\ clipboard = "notes"
    /\ \E rows \in Payloads :
         LET k == Len(rows) IN
         \/ \E n \in Shown, at \in Carets, names \in NewNames(k) :
               pasteRows(AtCaret(n, at), rows, names, <<>>)
         \/ \E n \in Shown, s \in NewNames(k + 1) :
               pasteRows(Split(n, s[k + 1]), rows, SubSeq(s, 1, k), <<>>)
         \/ \E r \in Ranges, names \in NewNames(k) :
               pasteRows(AtRange(r), rows, names, Replaced(r))
         \/ \E n \in Shown : PasteOverText(n, rows)
    /\ marker' = None
    /\ zoom' = ZoomAfter(lists')
    /\ UNCHANGED clipboard

\* Into a body whatever is pasted goes as text, and a URL of a note becomes a link
\* in the note or body it is pasted in: no list changes.
PasteInBody ==
    /\ clipboard = "notes" /\ Shown \cap BodiesIn(lists) # {}
    /\ marker' = None
    /\ UNCHANGED <<lists, folded, zoom, clipboard>>

PasteLink ==
    /\ clipboard = "notes" /\ Shown # {}
    /\ marker' = None
    /\ UNCHANGED <<lists, folded, zoom, clipboard>>

ClipNext ==
    \/ /\ \/ LocalEdit \/ RemoteDelete \/ RemoteInsert \/ EditText
          \/ \E r \in Ranges : Cut(r)
          \/ Copy \/ CopyElsewhere
       /\ pasted' = FALSE
    \/ (PasteCut \/ PasteCopied \/ PasteInBody \/ PasteLink) /\ pasted' = TRUE

ClipSpec == ClipInit /\ [][ClipNext]_clipVars
-----------------------------------------------------------------------------
(* Properties                                                              *)

\* clipboard.md:15: while the cut is pending, nothing happens to its notes.
\* Whatever others do, each keeps its children and its body, and the heads stay
\* a run; or the whole of them is gone with a note above.
CutStaysWhole ==
    [][marker # None /\ marker' = marker =>
         LET heads == CutHeads(K) IN
         \/ heads # <<>> /\ ToSet(heads) \cap Present(K') = {}
         \/ /\ CutHeads(K') = heads
            /\ \A n \in KeysOf(K, heads) :
                 K'[n] = K[n] /\ (n \in BodiesIn(lists)' <=> n \in BodiesIn(lists))]_clipVars

\* Moving a cut loses nothing: its notes arrive as one run, with everything they
\* own, and the notes that go are those of the replaced selection.
MoveLosesNothing ==
    [][pasted' /\ clipboard = "cut" /\ CutHeads(K) # <<>> =>
         LET cut == KeysOf(K, CutHeads(K)) IN
         /\ CutHeads(K') = CutHeads(K)
         /\ \A n \in cut : K'[n] = K[n] /\ (n \in BodiesIn(lists)' <=> n \in BodiesIn(lists))
         /\ \/ Present(K) \subseteq Present(K')
            \/ \E r \in Runs(K, folded, zoom) :
                 Present(K) \ Present(K') = KeysOf(K, Replaced(r))]_clipVars

\* What is pasted lands where the user sees it: below the view root, if there is
\* one, and in no folded note (zoom.md, folding.md rule 6).  A cut whose notes
\* cannot be found any more pastes the selection over itself, and so deletes it (MoveToRange,
\* against clipboard.md:20-21): nothing is claimed of where that lands.
PastedIsShown ==
    [][pasted' /\ lists' # lists /\ (clipboard = "cut" => CutHeads(K) # <<>>) =>
         /\ zoom' = zoom
         /\ Present(K') \ Present(K) \subseteq Shown'
         /\ clipboard = "cut" => ToSet(CutHeads(K)) \subseteq Shown']_clipVars

\* Every list is still a row of notes with what they own (list-structure.ts:
\* getNodesForNote reads this order).
ListsHold ==
    /\ lists[Top] # <<>>
    /\ \A o \in Owners : lists[o] = flattenNoteNodes(lists, Content(lists[o]))
    /\ \A n \in Present(K) : /\ getBodyWrapper(lists, n) \in {<<>>, <<B(n)>>}
                             /\ getWrapper(lists, n) \in {<<>>, <<W(n)>>}
    /\ \A n \in Notes \ Present(K) : lists[n] = <<>>
    /\ Len(DocumentOrder(K, Top)) = Cardinality(Present(K))

\* The notes with a children-wrapper that holds nothing.
EmptyWrappers(L) == {n \in Notes : (\E o \in Owners : W(n) \in ToSet(L[o])) /\ Content(L[n]) = <<>>}

\* The notes whose children a paste of a cut moves away; of a lost cut, those
\* beside the view root.
MovedFrom == IF CutHeads(K) # <<>> THEN {Parent(K, Head(CutHeads(K)))}
             ELSE IF zoom # Top THEN {Parent(K, zoom)} ELSE {}

\* A children-wrapper that loses its last note goes with it.  Only the move of a
\* cut leaves one behind, in the one place the cut came from: insertBefore and
\* append take the notes out of their list and do not look back.
WrappersGoWithNotes ==
    [][EmptyWrappers(lists') \subseteq
         EmptyWrappers(lists) \cup (IF pasted' /\ clipboard = "cut" THEN MovedFrom ELSE {})]_clipVars

\* The three together: a paste fits into the outline, and into the view of it.
PastedFits == []ListsHold /\ PastedIsShown /\ WrappersGoWithNotes
=============================================================================
