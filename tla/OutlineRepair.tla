---------------------------- MODULE OutlineRepair ----------------------------
(***************************************************************************)
(* How a document that comes from outside, a persisted file, an import or  *)
(* the merge of what several editors did, is brought into the shape the    *)
(* editor works on: one list in the root, every children-wrapper right     *)
(* behind the note it belongs to, one body a note, every note with an id   *)
(* of its own (outline/normalization.ts, runtime/RootSchemaPlugin.tsx,     *)
(* features/note-body, runtime/note-ids, and the validator of dev/schema). *)
(*                                                                         *)
(* An item is <<"note", n>>, <<"body", b>> or <<"list", l>>: the last is a *)
(* children-wrapper and items[l] is what its list holds.  A wrapper with   *)
(* anything but one list inside is not modelled.                           *)
(***************************************************************************)
EXTENDS Naturals, SequencesExt

CONSTANTS MaxItems,     \* bound: notes, bodies and lists of the document
          MaxNotes,     \* bound: notes of the file
          MaxRoots,     \* bound: children of the file's root
          MaxMerges,    \* bound: edits of others after the load
          PersistedIds, \* bound: the ids that occur in the file
          ListTypes     \* bullet, number, check: two of them suffice

Lists == 0..MaxItems + MaxMerges    \* 0 is the list that the repair creates
Made(l) == MaxItems + MaxMerges + 1 + l   \* the note that list l's wrapper becomes
Notes == 0..Made(MaxItems + MaxMerges)    \* 0 is the note that the repair creates

NoId == <<"none", 0>>
Persisted(i) == <<"persisted", i>>
Fresh(n) == <<"fresh", n>>          \* createUniqueNoteId
Ids == {NoId} \cup {Persisted(i) : i \in PersistedIds}

VARIABLES root,     \* the root's children: <<"list", l>>, or a block of text
          items,    \* what every list holds
          type,     \* the lists' types
          id,       \* noteIdState
          docId,    \* the document's own id, which may be one of the file's
          text,     \* the words of every body: the bodies folded into it, in order
          pc,       \* "load", "repair", "ids", "bodies" or "ready"
          open,     \* the lists that the file has not closed yet
          stack,    \* the frames of normalizeOrphanWrappers
          merges,   \* the edits of others so far
          before    \* history: the document as this repair found it

vars == <<root, items, type, id, docId, text, pc, open, stack, merges, before>>

N(n) == <<"note", n>>
B(b) == <<"body", b>>
W(l) == <<"list", l>>
IsKind(x, kind) == x[1] = kind

\* The lists below s, with their wrappers' places.
ListsIn(s) == {s[i][2] : i \in {j \in DOMAIN s : IsKind(s[j], "list")}}

Reachable(I, s) ==
    LET below[l \in Lists] == {l} \cup UNION {below[m] : m \in ListsIn(I[l])}
    IN  UNION {below[l] : l \in ListsIn(s)}

\* The notes and bodies of s in document order.
Flat(I, s) ==
    LET below[l \in Lists] ==
            FlattenSeq([i \in DOMAIN I[l] |->
                IF IsKind(I[l][i], "list") THEN below[I[l][i][2]] ELSE <<I[l][i]>>])
    IN  FlattenSeq([i \in DOMAIN s |-> IF IsKind(s[i], "list") THEN below[s[i][2]] ELSE <<s[i]>>])

NotesOf(s) == SelectSeq(s, LAMBDA x : IsKind(x, "note"))
Size == Len(Flat(items, root)) + Cardinality(Reachable(items, root))

NoDocument == [root |-> <<>>, items |-> [l \in Lists |-> <<>>], id |-> [n \in Notes |-> NoId]]

Init ==
    /\ root = <<>> /\ items = [l \in Lists |-> <<>>]
    /\ type = [l \in Lists |-> "bullet"]
    /\ id = [n \in Notes |-> NoId]
    /\ docId \in {Persisted(i) : i \in PersistedIds \cup {0}}
    /\ text = [b \in Lists |-> <<b>>]
    /\ pc = "load" /\ open = <<>> /\ stack = <<>>
    /\ merges = 0 /\ before = NoDocument
-----------------------------------------------------------------------------
(* The file, in document order: any arrangement of its items               *)

Reading == pc = "load" /\ Size < MaxItems

LoadItem(x) ==
    /\ Reading /\ open # <<>>
    /\ items' = [items EXCEPT ![Last(open)] = Append(@, x)]
    /\ UNCHANGED <<root, type, docId, text, pc, stack, merges, before>>

LoadNote(i) ==
    /\ Len(NotesOf(Flat(items, root))) < MaxNotes
    /\ LoadItem(N(Size + 1)) /\ id' = [id EXCEPT ![Size + 1] = i]
    /\ UNCHANGED open

LoadBody == LoadItem(B(Size + 1)) /\ UNCHANGED <<id, open>>

LoadNested == LoadItem(W(Size + 1)) /\ open' = Append(open, Size + 1) /\ UNCHANGED id

LoadClose ==
    /\ pc = "load" /\ open # <<>>
    /\ open' = Front(open)
    /\ UNCHANGED <<root, items, type, id, docId, text, pc, stack, merges, before>>

LoadRootList(t) ==
    /\ Reading /\ open = <<>> /\ Len(root) < MaxRoots
    /\ root' = Append(root, W(Size + 1)) /\ type' = [type EXCEPT ![Size + 1] = t]
    /\ open' = <<Size + 1>>
    /\ UNCHANGED <<items, id, docId, text, pc, stack, merges, before>>

LoadBlock ==
    /\ Reading /\ open = <<>> /\ Len(root) < MaxRoots
    /\ root' = Append(root, N(Size + 1))
    /\ UNCHANGED <<items, type, id, docId, text, pc, open, stack, merges, before>>
-----------------------------------------------------------------------------
(* list-structure.ts, within one list                                      *)

ItemAt(s, i, kind) == i \in DOMAIN s /\ IsKind(s[i], kind)

PlaceOf(s, x) == CHOOSE i \in DOMAIN s : s[i] = x

\* getPreviousContentSibling, as a set of at most one place.
getPreviousContentSibling(s, i) ==
    LET notes == {j \in 1..i - 1 : IsKind(s[j], "note")} IN
    {j \in notes : \A k \in notes : k <= j}

\* $isContentImmediatelyBeforeWrapper.
ImmediatelyBefore(s, j, i) == i = j + 1 \/ (i = j + 2 /\ IsKind(s[j + 1], "body"))

WellPlaced(s, i) == \E j \in getPreviousContentSibling(s, i) : ImmediatelyBefore(s, j, i)

\* getWrapperForContent.
getWrapper(s, j) == {k \in DOMAIN s : IsKind(s[k], "list") /\ ImmediatelyBefore(s, j, k)}

\* ListItemNode.remove of the item at place i of list l: two children-wrappers
\* that become neighbours are merged, and a list that is left empty goes: the
\* item it was in then is an empty note.
RemoveItem(I, l, i) ==
    LET s == I[l] IN
    IF ItemAt(s, i - 1, "list") /\ ItemAt(s, i + 1, "list")
    THEN [I EXCEPT ![l] = RemoveAt(RemoveAt(@, i + 1), i),
                   ![s[i - 1][2]] = @ \o I[s[i + 1][2]], ![s[i + 1][2]] = <<>>]
    ELSE [m \in Lists |->
            IF m = l THEN RemoveAt(s, i)
            ELSE IF Len(s) > 1 THEN I[m]
            ELSE ReplaceAll(I[m], W(l), N(Made(l)))]
-----------------------------------------------------------------------------
(* normalization.ts                                                        *)

needsListNormalization(r, I) ==
    ~(Len(r) = 1 /\ ItemAt(r, 1, "list") /\ I[r[1][2]] # <<>>)

hasOrphanWrapper(r, I) ==
    \E l \in Reachable(I, r) : \E i \in DOMAIN I[l] :
        IsKind(I[l][i], "list") /\ ~WellPlaced(I[l], i)

shouldNormalizeOutlineRoot(r, I) == needsListNormalization(r, I) \/ hasOrphanWrapper(r, I)

\* $ensureSingleListRoot: the first list, or a new one in front, takes the items
\* of every list of its type; anything else is wrapped in an item of its own.
canonicalList(r) == IF ItemAt(r, 1, "list") THEN r[1][2] ELSE 0

canonicalType(r) ==
    LET lists == SelectSeq(r, LAMBDA x : IsKind(x, "list"))
    IN  IF lists = <<>> THEN "bullet" ELSE type[lists[1][2]]

Lifted(r) == {x[2] : x \in {y \in ToSet(r) : IsKind(y, "list") /\ type[y[2]] = canonicalType(r)}}

ensureSingleListRoot(r, I) ==
    LET lift(x) == IF IsKind(x, "list") /\ x[2] \in Lifted(r) THEN I[x[2]] ELSE <<x>>
        all == FlattenSeq([i \in DOMAIN r |-> lift(r[i])])
    IN  IF ~needsListNormalization(r, I) THEN [root |-> r, items |-> I]
        ELSE [root |-> <<W(canonicalList(r))>>,
              items |-> [l \in Lists |->
                  IF l = canonicalList(r) THEN IF all = <<>> THEN <<N(0)>> ELSE all
                  ELSE IF l \in Lifted(r) THEN <<>> ELSE I[l]]]

\* hoistWrapperChildren: the wrapper's items come before it, and it goes.  The
\* second form takes along no more than the notes.
hoistItems(I, l, i, s) ==
    LET m == I[l][i][2]
        rest == [I EXCEPT ![l] = SubSeq(@, 1, i - 1) \o s \o SubSeq(@, i, Len(@)), ![m] = <<>>]
    IN  RemoveItem(rest, l, i + Len(s))

hoistNotes(I, l, i) == hoistItems(I, l, i, NotesOf(I[I[l][i][2]]))

hoist(I, l, i) == hoistItems(I, l, i, I[I[l][i][2]])

\* The wrapper's items join the list of the previous note's own wrapper.
mergeInFront(I, l, i, target) ==
    RemoveItem([I EXCEPT ![target] = I[I[l][i][2]] \o @, ![I[l][i][2]] = <<>>], l, i)

mergeInto(I, l, i, target) ==
    RemoveItem([I EXCEPT ![target] = @ \o I[I[l][i][2]], ![I[l][i][2]] = <<>>], l, i)

Frame(I, l) == [list |-> l, children |-> I[l], index |-> 1]

Next1(frames) == [frames EXCEPT ![Len(frames)].index = @ + 1]

\* resetFrame: the loop starts again on the list as it is now.
resetFrame(I, frames) == [frames EXCEPT ![Len(frames)] = Frame(I, @.list)]

\* The frames for the list of a well-placed wrapper, and the same without the
\* step to the next item.
enterAgain(I, frames, m) == Append(frames, Frame(I, m))

enter(I, frames, m) == Append(Next1(frames), Frame(I, m))

\* One turn of the loop of normalizeOrphanWrappers.
Turn(I, frames) ==
    LET frame == Last(frames)
        l == frame.list
        child == frame.children[frame.index]
        i == PlaceOf(I[l], child)
        own == UNION {getWrapper(I[l], j) : j \in getPreviousContentSibling(I[l], i)}
        target == I[l][CHOOSE k \in own : TRUE][2]
    IN  IF frame.index > Len(frame.children) THEN [items |-> I, stack |-> Front(frames)]
        ELSE IF ~IsKind(child, "list") \/ child \notin ToSet(I[l])
        THEN [items |-> I, stack |-> Next1(frames)]
        ELSE IF WellPlaced(I[l], i) THEN [items |-> I, stack |-> enter(I, frames, child[2])]
        ELSE IF own = {}
        THEN LET J == hoist(I, l, i) IN [items |-> J, stack |-> resetFrame(J, frames)]
        ELSE LET J == mergeInto(I, l, i, target)
             IN  [items |-> J, stack |-> Append(resetFrame(J, frames), Frame(J, target))]
-----------------------------------------------------------------------------
(* RootSchemaPlugin and NoteIdPlugin                                       *)

\* normalizeRootOnce of a document that has arrived, and the repair that the
\* update listener schedules for one that was imported.
Hydrate ==
    LET new == ensureSingleListRoot(root, items)
        wrapped == {n \in Notes : N(n) \in ToSet(root)} \cup {0}
    IN  /\ pc = "load"
        /\ root' = new.root /\ items' = new.items
        /\ type' = [type EXCEPT ![0] = canonicalType(root)]
        /\ id' = [n \in Notes |-> IF n \in wrapped THEN Fresh(n) ELSE id[n]]
        /\ stack' = <<Frame(new.items, canonicalList(root))>>
        /\ pc' = "repair" /\ open' = <<>>
        /\ before' = [root |-> root, items |-> items, id |-> id]
        /\ UNCHANGED <<docId, text, merges>>

RepairStep ==
    /\ pc = "repair" /\ stack # <<>>
    /\ LET t == Turn(items, stack) IN items' = t.items /\ stack' = t.stack
    /\ UNCHANGED <<root, type, id, docId, text, pc, open, merges, before>>

\* The update ends: the transform of the root runs, and once the document is
\* loaded the one that gives an id to an item without.
EndOfRepair ==
    LET new == ensureSingleListRoot(root, items) IN
    /\ pc = "repair" /\ stack = <<>>
    /\ root' = new.root /\ items' = new.items
    /\ pc' = IF merges = 0 THEN "ids" ELSE "ready"
    /\ id' = IF merges = 0 THEN id ELSE [n \in Notes |-> IF id[n] = NoId THEN Fresh(n) ELSE id[n]]
    /\ UNCHANGED <<type, docId, text, open, stack, merges, before>>

\* $normalizeNoteIdsOnLoad: in document order, a note keeps an id that is neither
\* the document's nor that of a note before it.  The first form begins at the end.
idsInOrder(notes) ==
    LET keep(acc, x) ==
            LET i == IF id[x[2]] \in acc.used \cup {NoId} THEN Fresh(x[2]) ELSE id[x[2]]
            IN  [used |-> acc.used \cup {i}, id |-> [acc.id EXCEPT ![x[2]] = i]]
    IN  FoldLeft(keep, [used |-> {docId}, id |-> id], notes).id

idsFromTheEnd == idsInOrder(Reverse(NotesOf(Flat(items, root))))

idsNormalized == idsInOrder(NotesOf(Flat(items, root)))

NormalizeNoteIdsOnLoad ==
    /\ pc = "ids"
    /\ id' = idsNormalized
    /\ pc' = "bodies"
    /\ UNCHANGED <<root, items, type, docId, text, open, stack, merges, before>>
-----------------------------------------------------------------------------
(* note-body-ops.ts: one body a note, right behind it                      *)

\* The items behind the note at place j of list l, up to the next note.
RunEnd(s, j) ==
    CHOOSE k \in j + 1..Len(s) + 1 :
        k \in {i \in DOMAIN s : IsKind(s[i], "note")} \cup {Len(s) + 1}
        /\ \A i \in j + 1..k - 1 : ~IsKind(s[i], "note")

BodiesBehind(s, j) == SelectSeq(SubSeq(s, j + 1, RunEnd(s, j) - 1), LAMBDA x : IsKind(x, "body"))

\* The first body comes right behind the note, the others are folded into it.
reconcileNoteBodyWrappers(I, l, j) ==
    LET bodies == BodiesBehind(I[l], j)
        moved == InsertAt(SelectSeq(I[l], LAMBDA x : x # bodies[1]), j + 1, bodies[1])
        drop(J, b) == RemoveItem(J, l, PlaceOf(J[l], b))
    IN  IF bodies = <<>> THEN I
        ELSE FoldLeft(drop, [I EXCEPT ![l] = moved], Tail(bodies))

foldedText(I, l, j) ==
    LET bodies == BodiesBehind(I[l], j)
    IN  IF bodies = <<>> THEN text
        ELSE [text EXCEPT ![bodies[1][2]] =
                 FlattenSeq([i \in DOMAIN bodies |-> text[bodies[i][2]]])]

\* The notes with something to reconcile: all of them are looked at when the
\* plugin mounts, later the one that an update touches, or whose body it does.
Scattered ==
    {p \in Reachable(items, root) \X (1..MaxItems + MaxMerges + 1) :
        /\ ItemAt(items[p[1]], p[2], "note")
        /\ reconcileNoteBodyWrappers(items, p[1], p[2]) # items}

ReconcileBody(l, j) ==
    /\ pc \in {"bodies", "ready"}
    /\ items' = reconcileNoteBodyWrappers(items, l, j)
    /\ text' = foldedText(items, l, j)
    /\ UNCHANGED <<root, type, id, docId, pc, open, stack, merges, before>>

BodiesReconciled ==
    /\ pc = "bodies" /\ Scattered = {}
    /\ pc' = "ready"
    /\ UNCHANGED <<root, items, type, id, docId, text, open, stack, merges, before>>
-----------------------------------------------------------------------------
(* What others' edits, made at the same time, merge to                     *)

\* The update listener looks at the merged document and repairs it at once.  The
\* update that brought the merge may have reconciled the bodies of one note.
Merged(I, reconciled) ==
    /\ pc = "ready" /\ merges < MaxMerges /\ Size < MaxItems
    /\ merges' = merges + 1
    /\ before' = [root |-> root, items |-> I, id |-> id]
    /\ \/ items' = I /\ UNCHANGED text
       \/ \E p \in reconciled :
             /\ items' = reconcileNoteBodyWrappers(I, p[1], p[2])
             /\ text' = foldedText(I, p[1], p[2])
    /\ IF shouldNormalizeOutlineRoot(root, items')
       THEN pc' = "repair" /\ stack' = <<Frame(items', canonicalList(root))>>
       ELSE UNCHANGED <<pc, stack>>
    /\ UNCHANGED <<root, type, docId, open>>

New == MaxItems + merges + 1

\* One deletes a note, others have just given it a body or children.
MergeDeletion(l, i) ==
    /\ ItemAt(items[l], i, "note")
    /\ LET left == {<<l, j>> : j \in getPreviousContentSibling(items[l], i)}
       IN  Merged([items EXCEPT ![l] = RemoveAt(@, i)], left)
    /\ UNCHANGED id

\* Two make the same note the first child of another: a move is a deletion and
\* an insertion, so both copies are there.
MergeIndents(l, i) ==
    /\ ItemAt(items[l], i, "list")
    /\ LET m == items[l][i][2] IN
       /\ Len(items[m]) = 1 /\ ItemAt(items[m], 1, "note")
       /\ Merged([items EXCEPT ![l] = InsertAt(@, i + 1, W(New)), ![New] = <<N(New)>>], {})
       /\ id' = [id EXCEPT ![New] = id[items[m][1][2]]]

\* One gives a note a body, others a body or children.
MergeBody(l, i) ==
    /\ \E j \in DOMAIN items[l] :
          /\ ItemAt(items[l], j, "note") /\ i \in {j + 1, j + 2}
          /\ i = j + 2 => (i - 1 \in DOMAIN items[l] /\ ~ItemAt(items[l], j + 1, "note"))
    /\ LET owner == {<<l, j>> : j \in getPreviousContentSibling(items[l], i)}
       IN  Merged([items EXCEPT ![l] = InsertAt(@, i, B(New))], owner)
    /\ UNCHANGED id
-----------------------------------------------------------------------------
Load ==
    \/ \E i \in Ids : LoadNote(i)
    \/ LoadBody \/ LoadNested \/ LoadClose \/ LoadBlock
    \/ \E t \in ListTypes : LoadRootList(t)

Next ==
    \/ Load
    \/ Hydrate \/ RepairStep \/ EndOfRepair \/ NormalizeNoteIdsOnLoad
    \/ \E p \in Scattered : ReconcileBody(p[1], p[2])
    \/ BodiesReconciled
    \/ \E l \in Reachable(items, root) : \E i \in 1..Len(items[l]) + 1 :
          MergeDeletion(l, i) \/ MergeIndents(l, i) \/ MergeBody(l, i)

Spec == Init /\ [][Next]_vars
FairSpec == Spec /\ WF_vars(RepairStep)
-----------------------------------------------------------------------------
\* What traverseSerializedOutline, the validator of the tests, rejects: a body or
\* a wrapper without its note, a wrapper without a note inside.
Invalid(d) ==
    UNION {{d.items[l][i] : i \in {j \in DOMAIN d.items[l] :
               \/ IsKind(d.items[l][j], "body") /\ ~ItemAt(d.items[l], j - 1, "note")
               \/ /\ IsKind(d.items[l][j], "list")
                  /\ \/ ~WellPlaced(d.items[l], j)
                     \/ NotesOf(Flat(d.items, d.items[d.items[l][j][2]])) = <<>>}} :
           l \in Reachable(d.items, d.root)}

Document == [root |-> root, items |-> items]

Repaired == pc \in {"ids", "bodies", "ready"}

\* The loop of the repair ends on every document: what it merges and hoists is
\* looked at again, the frames it resets included (normalizeOrphanWrappers).
RepairEnds == (pc = "repair") ~> (stack = <<>>)

\* One repair is enough.  The update listener schedules another one as long as
\* the document needs it, so a repair that left something to do would repeat
\* itself forever (RootSchemaPlugin).
OneRepairSuffices == Repaired => ~shouldNormalizeOutlineRoot(root, items)

\* What the validator rejects after a repair was already wrong before it: only an
\* empty list of another type beside the document's own, which the validator does
\* not look at, is wrapped as it is ($ensureSingleListRoot).
NothingGetsInvalid ==
    Repaired => Invalid(Document) \subseteq Invalid(before) \cup ToSet(before.root)

\* The repair of any document, whoever wrote it, comes to an end, needs no second
\* one and makes nothing worse.
RepairsSettle == []OneRepairSuffices /\ []NothingGetsInvalid /\ RepairEnds

\* A repair loses no note and no body and leaves the notes in document order,
\* whatever it lifts, wraps, hoists, merges and folds: a body's words are in one
\* body of the document, and what is added are empty notes.
NothingIsLost ==
    LET was == Flat(before.items, before.root)
        is == Flat(items, root)
        kept == SelectSeq(NotesOf(is), LAMBDA x : x \in ToSet(was))
        added == ToSet(is) \ ToSet(was)
    IN  Repaired =>
        /\ kept = NotesOf(was)
        /\ \A x \in ToSet(was) : IsKind(x, "body") =>
              \E y \in ToSet(is) : IsKind(y, "body") /\ x[2] \in ToSet(text[y[2]])
        /\ added \subseteq {N(0)} \cup {N(Made(l)) : l \in Lists}

\* A body's words go on following its note (body.md: a body belongs to that one
\* note), wherever the note is hoisted or merged to.
BodiesStay ==
    Repaired =>
        \A l \in Reachable(before.items, before.root) : \A i \in DOMAIN before.items[l] :
            ItemAt(before.items[l], i, "note") /\ ItemAt(before.items[l], i + 1, "body") =>
                \E m \in Reachable(items, root) : \E j \in DOMAIN items[m] :
                    /\ items[m][j] = before.items[l][i]
                    /\ ItemAt(items[m], j + 1, "body")
                    /\ before.items[l][i + 1][2] \in ToSet(text[items[m][j + 1][2]])

\* The notes whose place needed no repair keep their parent: only what is inside
\* an orphaned wrapper changes its level.
Parents(d) ==
    UNION {UNION {{<<d.items[l][j], x>> :
                      j \in {k \in {i - 1, i - 2} :
                                /\ ItemAt(d.items[l], k, "note")
                                /\ k = i - 1 \/ ItemAt(d.items[l], i - 1, "body")},
                      x \in ToSet(NotesOf(d.items[d.items[l][i][2]]))} :
                  i \in {k \in DOMAIN d.items[l] : IsKind(d.items[l][k], "list")}} :
           l \in Reachable(d.items, d.root)}

ParentsStay == Repaired => Parents(before) \subseteq Parents(Document)

\* A repair takes no body from its note and no child from a note that was in order.
OwnersStay == BodiesStay /\ ParentsStay

\* Of the file's notes with one id the first in document order keeps it, unless it is
\* the document's; only the others, and the notes without one, get another, and no two
\* notes of the loaded document have the same (note-ids.md).
FirstNotesKeepIds ==
    LET file == NotesOf(Flat(before.items, before.root))
        notes == NotesOf(Flat(items, root))
        was(i) == before.id[file[i][2]]
    IN  pc = "ready" /\ merges = 0 =>
        /\ \A i, j \in DOMAIN notes : i # j => id[notes[i][2]] # id[notes[j][2]]
        /\ \A i \in DOMAIN notes : id[notes[i][2]] \notin {NoId, docId}
        /\ \A i \in DOMAIN file :
              id[file[i][2]] = was(i) <=>
                  was(i) \notin {NoId, docId} \cup {was(j) : j \in 1..i - 1}
=============================================================================
