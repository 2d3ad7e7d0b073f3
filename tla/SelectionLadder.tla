--------------------------- MODULE SelectionLadder ---------------------------
(***************************************************************************)
(* The selection ladder (src/client/editor/outline/selection/): Shift+Up,  *)
(* Shift+Down and Cmd/Ctrl+A grow and shrink a selection of whole notes by *)
(* pushing and popping rungs, and every other update is observed by a      *)
(* listener that re-derives the ladder, the selection that commands act on *)
(* (editor.selection) and corrections of Lexical's own selection, which    *)
(* are applied in microtasks.  Meanwhile others edit the tree.             *)
(*                                                                         *)
(* Every note has text and none a body; text is abstracted away.           *)
(***************************************************************************)
EXTENDS OutlineTrees

CONSTANTS None,
          MaxRungs      \* bound: rungs of a ladder

VARIABLES kids,      \* the children of every note and of the document
          zoom,      \* the view root, or Top
          sel,       \* Lexical's selection, or None
          ladder,    \* ladderRef
          unlock,    \* unlockRef: a directional unlock is pending
          outline,   \* editor.selection: its kind and range of heads
          pending,   \* the selections that scheduled microtasks will set
          trail,     \* history: what the arrows did since the last caret
          strayed    \* history: others have moved the view root since the last caret

vars == <<kids, zoom, sel, ladder, unlock, outline, pending, trail, strayed>>

Directions == {"up", "down"}
Opposite(d) == IF d = "up" THEN "down" ELSE "up"

\* A selection runs from note a to note f; a caret is collapsed.  It is exact if
\* its points are at the edges of their notes.
Caret(n) == [a |-> n, f |-> n, collapsed |-> TRUE, exact |-> FALSE]
Between(a, f) == [a |-> a, f |-> f, collapsed |-> FALSE, exact |-> TRUE]
Selections(V) == [a : V, f : V, collapsed : BOOLEAN, exact : BOOLEAN]

emptyLadder(n) == [anchor |-> n, stack |-> <<>>, dir |-> None]
INITIAL == emptyLadder(None)

ladderHasStructuralRung(lad) == \E i \in DOMAIN lad.stack : lad.stack[i] # "inline"

caretAt(n) == [kind |-> "caret", heads |-> <<n>>]
structural(heads) == [kind |-> "structural", heads |-> heads]

\* history: the views before each step of the present sweep, and what the last
\* press should have brought back.
NoTrail == [views |-> <<>>, sweep |-> None, undone |-> None]

Init ==
    /\ \E n \in Notes :
          /\ kids = [o \in Owners |-> IF o = Top THEN <<n>> ELSE <<>>]
          /\ sel = Caret(n) /\ outline = caretAt(n)
    /\ zoom = Top
    /\ ladder = INITIAL /\ unlock = FALSE
    /\ pending = [reshape |-> None, snap |-> None]
    /\ trail = NoTrail /\ strayed = FALSE
-----------------------------------------------------------------------------
(* Queries                                                                 *)

within(T, z, n) == z = Top \/ n \in Subtree(T, z)

\* normalizeContentRange and $getContiguousSelectionHeads: the siblings that
\* hold the two ends, as deep as they can be.
HeadsBetween(T, a, f) ==
    LET below[o \in Owners] ==
            LET ends == {i \in DOMAIN T[o] : {a, f} \cap Subtree(T, T[o][i]) # {}}
                c == T[o][Min(ends)]
            IN  IF Cardinality(ends) = 1 /\ c \notin {a, f} THEN below[c]
                ELSE SubSeq(T[o], Min(ends), Max(ends))
    IN  below[Top]

\* $getContiguousSelectionHeads: a caret has none.
contiguousHeads(T, s) == IF s.collapsed THEN <<>> ELSE HeadsBetween(T, s.a, s.f)

isBackward(T, s) ==
    IndexIn(DocumentOrder(T, Top), s.f) < IndexIn(DocumentOrder(T, Top), s.a)

\* One rung of $replayLadder: from the range [first, last] whose level is that of
\* context, to the next sibling, or every sibling (expand), or the parent.
\* None if there is none within the boundary.
Extent(first, last, context) == [first |-> first, last |-> last, context |-> context]
Extents(V) == [first : V, last : V, context : V]

Step(T, z, r, dir, expand) ==
    LET beside == IF dir = "down" THEN NextSibling(T, r.context) ELSE PreviousSibling(T, r.context)
        all == Without(T[Parent(T, r.context)], {n \in Notes : ~within(T, z, n)})
        parent == Parent(T, r.context)
    IN  IF expand /\ Len(all) > 1 /\ ~(r.first = Head(all) /\ r.last = Last(all))
        THEN Extent(Head(all), Last(all), Last(all))
        ELSE IF ~expand /\ \E n \in beside : within(T, z, n)
        THEN LET n == CHOOSE m \in beside : TRUE IN
             IF dir = "down" THEN Extent(r.first, n, n) ELSE Extent(n, r.last, n)
        ELSE IF parent # Top /\ within(T, z, parent)
        THEN Extent(parent, parent, parent)
        ELSE None

\* $replayLadder: None, the anchor's text, or a range of heads.
replayLadder(T, z, anchor, stack, expand) ==
    LET from[i \in 0..Len(stack)] ==
            IF i = 0 THEN Extent(anchor, anchor, anchor)
            ELSE IF from[i - 1] = None \/ stack[i] \notin Directions THEN from[i - 1]
            ELSE Step(T, z, from[i - 1], stack[i], expand)
    IN  IF stack = <<>> THEN None
        ELSE IF Last(stack) = "inline" THEN [inline |-> anchor]
        ELSE from[Len(stack)]

\* None is neither a note nor any other value.
ASSUME NoneAssumption ==
    /\ None \notin Owners \cup Directions
    /\ None \notin Selections(Notes) \cup Extents(Notes) \cup [inline : Notes]

isRange(plan) == plan # None /\ "first" \in DOMAIN plan

\* $applyProgressivePlan: text, or from the first head to the last one's tail.
selectionOf(T, plan) ==
    IF isRange(plan) THEN Between(plan.first, SubtreeTail(T, plan.last))
    ELSE Between(plan.inline, plan.inline)

headsOf(T, plan) == HeadsBetween(T, plan.first, plan.last)
-----------------------------------------------------------------------------
(* Rungs                                                                   *)

pushStep(lad, dir) ==
    [lad EXCEPT !.stack = Append(@, CASE Len(@) = 0 -> "inline"
                                      [] Len(@) = 1 -> "subtree"
                                      [] OTHER -> dir),
                !.dir = dir]

\* Mutant: a ladder that has shrunk does not know which way it was grown.
popStepForgetting(lad) == [lad EXCEPT !.stack = Front(@), !.dir = None]

popStep(lad) ==
    [lad EXCEPT !.stack = Front(@), !.dir = IF Len(lad.stack) = 1 THEN None ELSE @]

\* A sweep from the anchor that ends where heads do.
covers(T, plan, dir, heads) ==
    /\ isRange(plan)
    /\ IF dir = "down" THEN SubtreeTail(T, plan.last) = SubtreeTail(T, Last(heads))
                       ELSE plan.first = Head(heads)

sweepStack(dir, k) == <<"subtree">> \o [i \in 1..k |-> dir]

\* No arrow if no sweep ends there.
sweepOf(anchor, dir, found) ==
    IF found = {} THEN [anchor |-> anchor, stack |-> <<"subtree">>, dir |-> None]
    ELSE [anchor |-> anchor, stack |-> sweepStack(dir, Min(found)),
          dir |-> IF Min(found) = 0 THEN None ELSE dir]

\* $inferPointerProgressionState: the shortest sweep from the anchor that gives heads.
inferPointerProgression(T, s, heads) ==
    LET dir == IF Head(heads) = s.a THEN "down" ELSE "up" IN
    sweepOf(s.a, dir,
            {k \in 0..(2 * Cardinality(Notes)) :
                covers(T, replayLadder(T, Top, s.a, sweepStack(dir, k), FALSE), dir, heads)})

\* Mutant: the rungs that no longer resolve are kept.
reshapeKeepingRungs(T, z, lad) ==
    LET prefix(k) == [lad EXCEPT !.stack = SubSeq(@, 1, k)]
        replays == {k \in DOMAIN lad.stack :
                       isRange(replayLadder(T, z, lad.anchor, prefix(k).stack, FALSE))}
    IN  [ladder |-> lad, plan |-> replayLadder(T, z, lad.anchor, prefix(Max(replays)).stack, FALSE)]

\* Mutant: a ladder that follows an edit ignores the view.
reshapeAnywhere(T, z, lad) == reshapeKeepingRungs(T, Top, lad)

\* $reshapeStructuralLadder: the longest prefix that still replays to a range.
\* (The subtree rung always does, so the reshape to a caret is never reached.)
reshapeStructuralLadder(T, z, lad) ==
    LET prefix(k) == [lad EXCEPT !.stack = SubSeq(@, 1, k)]
        replays == {k \in DOMAIN lad.stack :
                       isRange(replayLadder(T, z, lad.anchor, prefix(k).stack, FALSE))}
        kept == prefix(Max(replays))
    IN  [ladder |-> kept, plan |-> replayLadder(T, z, lad.anchor, kept.stack, FALSE)]
-----------------------------------------------------------------------------
(* The update listener: $computeOutlineSelectionSnapshot                   *)

\* $createSnapPayload: the selection to correct s to.
snapped(T, s, anchor) ==
    LET heads == HeadsBetween(T, anchor, s.f)
        tail == SubtreeTail(T, Last(heads))
    IN  IF isBackward(T, s) THEN Between(tail, Head(heads)) ELSE Between(Head(heads), tail)

\* $selectionMatchesPayload: the same notes, and the points at their edges.
selectionMatchesPayload(s, wanted) == s.a = wanted.a /\ s.f = wanted.f /\ s.exact

\* Updates: the ladder's own, a collapse, a correction, a selection, an edit.
Tagged(progressive, snapping, tree) ==
    [progressive |-> progressive, snapping |-> snapping, tree |-> tree]
Own == Tagged(TRUE, TRUE, FALSE)
Collapsing == Tagged(TRUE, FALSE, FALSE)
Correcting == Tagged(FALSE, TRUE, FALSE)
Selecting == Tagged(FALSE, FALSE, FALSE)
Editing == Tagged(FALSE, FALSE, TRUE)

\* An edit: the range follows the tree.
Follow(T, followed, left) ==
    /\ ladder' = followed.ladder
    /\ outline' = structural(headsOf(T, followed.plan))
    /\ pending' = [left EXCEPT !.reshape = selectionOf(T, followed.plan)]

corrected(T, s, wanted, left) ==
    IF selectionMatchesPayload(s, wanted) THEN left ELSE [left EXCEPT !.snap = wanted]

\* A range of notes, or of a note's text: several notes are corrected to the
\* ones between the anchor and the focus.
Derive(u, T, s, structured, lad, anchor, unl, left) ==
    /\ ladder' = lad
    /\ outline' = IF structured \/ s.a # s.f
                  THEN structural(contiguousHeads(T, s))
                  ELSE [kind |-> "inline", heads |-> <<s.a>>]
    /\ pending' = IF /\ ~u.snapping /\ ~unl /\ Len(contiguousHeads(T, s)) > 1
                     /\ anchor \in Present(T)
                  THEN corrected(T, s, snapped(T, s, anchor), left) ELSE left

DeriveInferring(u, T, s, structured, lad, unl, left) ==
    Derive(u, T, s, structured, lad,
           IF ladderHasStructuralRung(lad) THEN lad.anchor ELSE s.a, unl, left)

\* The listener runs before the zoom follows its note to a new key, and a key that
\* is gone bounds nothing.
Boundary(T) == IF zoom \in Present(T) THEN zoom ELSE Top

\* With kept, what is left of the ladder.
ObserveKept(u, T, s, kept, unl, left) ==
    LET reshapes == /\ ~u.progressive /\ ~u.snapping /\ u.tree
                    /\ ladderHasStructuralRung(kept) /\ kept.anchor = s.a
    IN  \/ /\ s = None
           /\ ladder' = kept /\ outline' = [kind |-> "none", heads |-> <<>>]
           /\ pending' = left
        \/ /\ s # None /\ reshapes
           /\ Follow(T, reshapeStructuralLadder(T, Boundary(T), kept), left)
        \/ /\ s # None /\ ~reshapes /\ s.collapsed
           /\ ladder' = kept /\ outline' = caretAt(s.a)
           /\ pending' = left
        \/ /\ s # None /\ ~reshapes /\ ~s.collapsed
           /\ DeriveInferring(u, T, s, ladderHasStructuralRung(kept),
                              IF ~ladderHasStructuralRung(kept) /\ Len(contiguousHeads(T, s)) > 1
                              THEN inferPointerProgression(T, s, contiguousHeads(T, s)) ELSE kept,
                              unl, left)

\* Observe update u, which leaves the tree T, the selection s and the ladder lad.
Observe(u, T, s, lad, unl, left) ==
    LET resets == ~u.progressive
                  /\ (s = None \/ (~unl /\ (s.collapsed \/ lad.anchor # s.a)))
    IN  /\ sel' = s
        /\ unlock' = (unl /\ u.progressive)
        /\ ObserveKept(u, T, s, IF resets THEN INITIAL ELSE lad, unl, left)

\* Microtasks run before the next event.
Settled == pending = [reshape |-> None, snap |-> None]
-----------------------------------------------------------------------------
(* Keys: $runDirectionalPlan and the select-all command                    *)

\* $resolveProgressionAnchorContent: a caret starts over.
Resolved ==
    IF sel.collapsed /\ ~(ladderHasStructuralRung(ladder) /\ ladder.anchor = sel.a)
    THEN INITIAL ELSE ladder

AnchorOf(lad) == IF lad.anchor \in Present(kids) THEN lad.anchor ELSE sel.a

\* The selection becomes s and the ladder lad.
Apply(s, lad) == Observe(Own, kids, s, lad, TRUE, pending)

\* The ladder does not grow: nothing is selected and no update is observed.
Refused(lad) ==
    /\ ladder' = lad /\ unlock' = TRUE
    /\ UNCHANGED <<sel, outline, pending>>

\* history: a press from a caret starts a sweep, further presses add to it, and
\* those the other way take back.
Pressed(dir) ==
    LET v == trail.views IN
    CASE outline.kind = "caret" ->
            IF ladder.stack = <<>> /\ outline' # outline
            THEN [views |-> <<outline>>, sweep |-> dir, undone |-> None] ELSE NoTrail
      [] outline.kind # "caret" /\ v # <<>> /\ trail.sweep = Opposite(dir) ->
            [views |-> Front(v), sweep |-> IF Len(v) = 1 THEN None ELSE trail.sweep, undone |-> Last(v)]
      [] outline.kind # "caret" /\ v # <<>> /\ trail.sweep = dir /\ outline' # outline ->
            [trail EXCEPT !.views = Append(v, outline), !.undone = None]
      [] OTHER -> [trail EXCEPT !.undone = None]

\* $computeDirectionalPlan.
ShiftArrow(dir) ==
    /\ Settled /\ sel # None
    /\ UNCHANGED <<kids, zoom, strayed>>
    /\ LET lad == Resolved
           anchor == AnchorOf(lad)
           continues == lad.anchor = anchor /\ lad.stack # <<>>
           shrinks == continues /\ lad.dir = Opposite(dir)
           base == IF continues THEN lad ELSE emptyLadder(anchor)
           next == IF shrinks THEN popStep(lad) ELSE pushStep(base, dir)
           plan == replayLadder(kids, zoom, anchor, next.stack, FALSE)
       IN  /\ Len(next.stack) <= MaxRungs
           /\ \/ plan # None /\ Apply(selectionOf(kids, plan), next)
              \/ plan = None /\ shrinks /\ Apply(Caret(sel.a), emptyLadder(anchor))
              \/ plan = None /\ ~shrinks /\ Refused(lad)
    /\ trail' = Pressed(dir)

\* $computeProgressivePlan: at the edge, what the view holds.
SelectAll ==
    /\ Settled /\ sel # None
    /\ UNCHANGED <<kids, zoom, strayed>>
    /\ LET lad == Resolved
           anchor == AnchorOf(lad)
           base == IF lad.anchor = anchor THEN [lad EXCEPT !.dir = "down"] ELSE emptyLadder(anchor)
           next == pushStep(base, "down")
           plan == replayLadder(kids, zoom, anchor, next.stack, TRUE)
           last == replayLadder(kids, Top, anchor, base.stack, TRUE)
       IN  /\ Len(next.stack) <= MaxRungs
           /\ \/ plan # None /\ Apply(selectionOf(kids, plan), next)
              \/ plan = None /\ zoom # Top
                 /\ Apply(selectionOf(kids, Extent(zoom, zoom, zoom)), lad)
              \/ plan = None /\ zoom = Top /\ last # None /\ Apply(selectionOf(kids, last), lad)
    /\ trail' = NoTrail

\* $collapseStructuralSelectionToCaretAndReset, at an edge of the selected notes
\* or where the selection began.
Collapse(edge) ==
    /\ Settled /\ sel # None /\ ~sel.collapsed
    /\ UNCHANGED <<kids, zoom, strayed>>
    /\ LET n == IF edge = "anchor" \/ outline.kind # "structural" THEN sel.a
                ELSE IF edge = "start" THEN Head(outline.heads) ELSE Last(outline.heads)
       IN  Observe(Collapsing, kids, Caret(n), INITIAL, FALSE, pending)
    /\ trail' = NoTrail

\* Up, Left, Home and PageUp without modifiers; Down, Right, End and PageDown.
PlainKey == outline.kind = "structural" /\ \E edge \in {"start", "end"} : Collapse(edge)

Escape == Collapse("anchor")

\* Shift+Left and Shift+Right, unless $shouldBlockHorizontalArrow stops them at
\* the edge of a note or because several notes are selected.
ShiftHorizontal ==
    /\ Settled /\ sel # None /\ sel.a = sel.f
    /\ UNCHANGED <<kids, zoom, strayed>>
    /\ \E c \in BOOLEAN :
         Observe(Selecting, kids, [sel EXCEPT !.collapsed = c, !.exact = FALSE], ladder, unlock, pending)
    /\ trail' = NoTrail
-----------------------------------------------------------------------------
(* The pointer, the browser, and the view                                  *)

View == IF zoom = Top THEN Present(kids) ELSE Subtree(kids, zoom)

\* A click, a drag, or a Shift+Click from where the selection began.
Point ==
    /\ Settled
    /\ UNCHANGED <<kids, zoom>>
    /\ \E a \in View \cup (IF sel = None THEN {} ELSE {sel.a}), f \in View, c \in BOOLEAN :
         /\ c => a = f
         /\ LET s == [a |-> a, f |-> f, collapsed |-> c, exact |-> FALSE] IN
            Observe(Selecting, kids, s, ladder, unlock, pending)
         /\ strayed' = (strayed /\ ~c)
    /\ trail' = NoTrail

\* The browser's own version of the range that a key has set (snapshot.ts:181).
Normalize ==
    /\ Settled /\ sel # None /\ unlock
    /\ UNCHANGED <<kids, zoom, trail, strayed>>
    /\ Observe(Selecting, kids, sel, ladder, unlock, pending)

\* ZOOM_TO_NOTE_COMMAND places the caret in the view of a note.
ZoomTo(z) ==
    /\ Settled /\ z \in Present(kids) \cup {Top} /\ z # zoom
    /\ zoom' = z
    /\ \/ z = Top /\ UNCHANGED <<sel, ladder, unlock, outline, pending>>
       \/ z # Top /\ \E n \in Subtree(kids, z) :
                      Observe(Selecting, kids, Caret(n), ladder, unlock, pending)
    /\ UNCHANGED kids
    /\ trail' = NoTrail /\ strayed' = FALSE
-----------------------------------------------------------------------------
(* Edits, by this user or another client, at any time                      *)

\* An update leaves the tree K and the selection s.  (history: a sweep goes on in the
\* same view and from the same anchor.)
Edited(K, s) ==
    /\ kids' = K
    /\ Observe(Editing, K, s, ladder, unlock, pending)
    /\ trail' = [NoTrail EXCEPT !.sweep =
                   IF zoom' = zoom /\ ladder'.anchor = ladder.anchor THEN trail.sweep ELSE None]

\* Where the selection goes from notes that are gone is Lexical's affair: near them.
EditedAway(K, gone, near) ==
    \/ sel = None /\ Edited(K, None)
    \/ sel # None /\ {sel.a, sel.f} \cap gone = {} /\ Edited(K, sel)
    \/ sel # None /\ {sel.a, sel.f} \cap gone # {}
       /\ \/ Edited(K, None)
          \/ \E m \in near : Edited(K, Caret(m))
          \/ \E m \in near :
               /\ ~({sel.a, sel.f} \subseteq gone)
               /\ Edited(K, IF sel.a \in gone THEN [sel EXCEPT !.a = m, !.exact = FALSE]
                           ELSE [sel EXCEPT !.f = m, !.exact = FALSE])

EditText == UNCHANGED <<zoom, strayed>> /\ Edited(kids, sel)

\* The keys of notes are never used twice.
Remembered ==
    {ladder.anchor} \cup UNION {{s.a, s.f} : s \in {pending.reshape, pending.snap} \ {None}}

Unused == Notes \ (Present(kids) \cup Remembered)

InsertNote ==
    /\ UNCHANGED <<zoom, strayed>>
    /\ \E n \in Unused, o \in {Top} \cup Present(kids) :
         \E i \in 1..(Len(kids[o]) + 1) : Edited([kids EXCEPT ![o] = Splice(@, i, <<n>>)], sel)

\* The notes below the one that others were below.
Near(K, o) == IF o = Top THEN Present(K) ELSE Subtree(K, o)

DeleteNote ==
    \E n \in Present(kids) :
      LET gone == Subtree(kids, n)
          K == [o \in Owners |-> IF o \in gone THEN <<>> ELSE Without(kids[o], {n})]
      IN  /\ K[Top] # <<>>
          /\ zoom' = IF zoom \in gone THEN Top ELSE zoom
          /\ EditedAway(K, gone, Near(K, Parent(kids, n)))
          /\ UNCHANGED strayed

\* The siblings r taken elsewhere in K.
TakenOut(K, r) == [o \in Owners |-> Without(K[o], ToSet(r))]
PutIn(K, r, o, i) == [K EXCEPT ![o] = Splice(@, i, r)]

\* Indenting, outdenting and moving take the selected notes elsewhere in the view.
MoveSelected ==
    /\ Settled /\ outline.kind = "structural"
    /\ UNCHANGED <<zoom, strayed>>
    /\ LET r == outline.heads
           K == TakenOut(kids, r)
       IN  /\ zoom \notin ToSet(r) /\ \A n \in ToSet(r) : within(kids, zoom, n)
           /\ \E o \in (IF zoom = Top THEN {Top} \cup Present(K) ELSE Subtree(K, zoom)) :
                /\ o \notin UNION {Subtree(kids, n) : n \in ToSet(r)}
                /\ \E i \in 1..(Len(K[o]) + 1) : Edited(PutIn(K, r, o, i), sel)

\* What others have moved comes back under new keys, those of fresh, with the ids that
\* it had.
Exchanged(fresh) ==
    [o \in Owners |-> IF o \in DOMAIN fresh THEN fresh[o]
                      ELSE IF \E x \in DOMAIN fresh : fresh[x] = o
                      THEN CHOOSE x \in DOMAIN fresh : fresh[x] = o ELSE o]

Rekeyed(K, p) == [o \in Owners |-> [i \in DOMAIN K[p[o]] |-> p[K[p[o]][i]]]]

\* Others move a note, and the zoom follows the id of its root, but the caret does
\* not: it stays near where the note was.
MoveNote ==
    \E n \in Present(kids) :
      LET gone == Subtree(kids, n) IN
      \E fresh \in Injection(gone, Unused) :
        LET p == Exchanged(fresh)
            copy == Rekeyed(kids, p)
            rest == TakenOut(copy, <<p[n]>>)
        IN  \E o \in ({Top} \cup Present(copy)) \ Subtree(copy, p[n]) :
              \E i \in 1..(Len(rest[o]) + 1) :
                LET K == PutIn(rest, <<p[n]>>, o, i) IN
                /\ zoom' = p[zoom]
                /\ EditedAway(K, gone, Near(K, Parent(kids, n)))
                /\ strayed' = (strayed \/ zoom \in gone)
-----------------------------------------------------------------------------
(* The microtasks                                                          *)

\* A correction is set unless one of its ends is gone.
Flush(u, s, left) ==
    /\ s # None
    /\ IF sel # None /\ {s.a, s.f} \subseteq Present(kids)
       THEN Observe(u, kids, s, ladder, unlock, left)
       ELSE pending' = left /\ UNCHANGED <<sel, ladder, unlock, outline>>
    /\ UNCHANGED <<trail, strayed>>

\* scheduleReshapeSelection and scheduleSnapSelection.
Microtask ==
    /\ UNCHANGED <<kids, zoom>>
    /\ \/ Flush(Own, pending.reshape, [pending EXCEPT !.reshape = None])
       \/ Flush(Correcting, pending.snap, [pending EXCEPT !.snap = None])

Next ==
    \/ \E d \in Directions : ShiftArrow(d)
    \/ SelectAll \/ PlainKey \/ Escape \/ ShiftHorizontal \/ Point \/ Normalize
    \/ \E z \in Owners : ZoomTo(z)
    \/ EditText \/ InsertNote \/ DeleteNote \/ MoveSelected \/ MoveNote
    \/ Microtask

Spec == Init /\ [][Next]_vars
-----------------------------------------------------------------------------
(* Properties                                                              *)

Selected == UNION {Subtree(kids, n) : n \in ToSet(outline.heads)}

\* zoom.md rule 4: whatever the keys, the pointer and the edits of others do, no
\* note outside the view is selected; after a move of the view root by others (which
\* leaves the caret behind, ZoomPlugin.tsx:109), from the next caret on.
SelectionStaysInView == zoom # Top /\ ~strayed => Selected \subseteq Subtree(kids, zoom)

\* selection.md: pressing the opposite direction exactly inverts the previous
\* step, from whatever the sweep has reached back to the caret.
ArrowsUndoArrows ==
    trail.undone # None => outline = trail.undone

\* selection.md, collaboration reshaping: a sweep from the first selected note is
\* the anchor plus the rungs, replayed on the tree as it is now.
SweepFollowsEdits ==
    Settled /\ trail.sweep = "down" /\ ladderHasStructuralRung(ladder) /\ sel # None
        /\ sel.a = ladder.anchor
    => LET plan == replayLadder(kids, zoom, ladder.anchor, ladder.stack, FALSE) IN
       isRange(plan) /\ outline = structural(headsOf(kids, plan))
=============================================================================
