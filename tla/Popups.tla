------------------------------- MODULE Popups -------------------------------
(***************************************************************************)
(* The popups of the editor: the trigger pickers of "@" (a note link) and  *)
(* "!" (a date) of src/client/editor/triggers, the calendar over a date    *)
(* token (features/date/DatePlugin.tsx) and the note menu (menu).          *)
(*                                                                         *)
(* One note is modelled: a row of characters and inline tokens.  A text    *)
(* node is a run of characters with one key; Lexical gives part of it      *)
(* another key when another client formats it.  A key press and the        *)
(* character it inserts are two steps, and so are the press and the click  *)
(* of a pointer: an edit of another client may land between them, but no   *)
(* other input of this user does.  Dates and links have no values.         *)
(***************************************************************************)
EXTENDS Integers, Sequences, FiniteSets

CONSTANTS MaxLength,   \* bound: characters and tokens of the note
          MaxPresses,  \* bound: presses of each trigger
          MaxKeys,     \* bound: node keys in use at once
          Rows,        \* the notes to begin with
          None       \* no session, no query, no token

Triggers == {"@", "!"}
Chars == Triggers \cup {"a", " "}
Cells == [c : Chars \cup {"date", "link"}, k : 1..MaxKeys]
Pins == [k : 1..MaxKeys, offset : Nat]

\* Two keys are free beside those of the note, the pins, the calendar, the
\* selection and the click.
ASSUME BoundsAssumption ==
    MaxLength \in Nat /\ MaxPresses \in Nat /\ MaxKeys \in Nat /\ MaxKeys >= MaxLength + 7
ASSUME RowsAssumption == \A R \in Rows : R \in Seq(Cells) /\ Len(R) <= MaxLength
ASSUME NoneAssumption == None \notin Pins /\ None \notin Seq(Chars) /\ None \notin 1..MaxKeys

VARIABLES row,      \* the note: [c: character or token, k: node key]
          sel,      \* the selection, see Selections
          trig,     \* per trigger: sessionRef, pendingTriggerRef and pickerRef
          edit,     \* pickerRef of DatePlugin: the key of the token, or None
          menu,     \* menuRef of NoteMenuPlugin is not null
          focus,    \* what has DOM focus
          due,      \* the input event the browser owes for the last press
          did,      \* history: what the last step was, shown and removed
          pressed,  \* history: presses of each trigger
          opened    \* history: sessions opened for each trigger

vars == <<row, sel, trig, edit, menu, focus, due, did, pressed, opened>>

Caret(p) == [at |-> "caret", p |-> p]
Span(p, q) == [at |-> "range", p |-> p, q |-> q]
Token(k) == [at |-> "token", k |-> k]
Away == [at |-> "away"]              \* a caret in another note
Structural == [at |-> "structural"]  \* whole notes

Shut == [pin |-> None, pending |-> FALSE, query |-> None]
Other == [kind |-> "other"]
-----------------------------------------------------------------------------
(* The note                                                                *)

IsText(e) == e.c \in Chars
KeysUsed == {row[i].k : i \in 1..Len(row)} \cup {trig[t].pin.k : t \in {u \in Triggers : trig[u].pin # None}}
            \cup ({edit} \ {None}) \cup (IF sel.at = "token" THEN {sel.k} ELSE {})
            \cup (IF due # None /\ due.kind = "click" THEN {due.k} ELSE {})
FreshKey == CHOOSE k \in 1..MaxKeys : k \notin KeysUsed
OtherKey == CHOOSE k \in 1..MaxKeys : k \notin KeysUsed \cup {FreshKey}

Indices(R, k) == {i \in 1..Len(R) : R[i].k = k}
First(R, k) == CHOOSE i \in Indices(R, k) : \A j \in Indices(R, k) : i <= j

\* The node of a caret: at a border the text node on the left; None beside
\* tokens only.
AnchorKey(R, p) ==
    IF p > 0 /\ IsText(R[p]) THEN R[p].k
    ELSE IF p < Len(R) /\ IsText(R[p + 1]) THEN R[p + 1].k ELSE None

\* The character a pin points at: an offset in a node.
PinIndex(R, pin) == First(R, pin.k) + pin.offset
PinOf(R, i) == [k |-> R[i].k, offset |-> i - First(R, R[i].k)]

\* readQueryAcrossTextNodes: is the caret p behind the trigger at i, with text only between?
Reads(R, t, i, p) == i <= p /\ R[i].c = t /\ \A j \in i..p : IsText(R[j])
Query(R, i, p) == [j \in 1..(p - i) |-> R[i + j].c]

\* inferSessionFromAnchor: the nearest trigger before the caret.
Scan(R, t, p) ==
    LET found == {i \in 1..p : Reads(R, t, i, p)}
    IN  IF found = {} THEN 0 ELSE CHOOSE i \in found : \A j \in found : j <= i

\* $resolvePinnedSession: the pinned character and no other.
Pinned(R, t, p, pin) ==
    IF /\ Indices(R, pin.k) # {}
       /\ PinIndex(R, pin) <= Len(R) /\ R[PinIndex(R, pin)].k = pin.k
       /\ Reads(R, t, PinIndex(R, pin), p)
    THEN PinIndex(R, pin) ELSE 0

\* $isTriggerAtBoundary.
AtBoundary(R, i) == i = 1 \/ R[i - 1].c \in {" ", "date"}
-----------------------------------------------------------------------------
(* After an update: syncFromSelection of each trigger                      *)

InText(R, s) == s.at = "caret" /\ AnchorKey(R, s.p) # None

\* Mutant: a caret beside a trigger opens its picker, pressed or not.
FindTriggerUnpressed(R, s, t, x) ==
    LET i == IF s.at = "away" THEN 0
             ELSE IF x.pin # None THEN Pinned(R, t, s.p, x.pin) ELSE Scan(R, t, s.p)
    IN  IF i = 0 THEN IF x.pending THEN x ELSE Shut
        ELSE IF x.pin = None /\ ~AtBoundary(R, i) THEN Shut
        ELSE [pin |-> IF x.pin = None THEN PinOf(R, i) ELSE x.pin,
              pending |-> FALSE, query |-> Query(R, i, s.p)]

\* An open session looks at its pinned trigger only.  A pressed one looks for
\* the nearest, opens there if it stands at a boundary, and waits if there is
\* none.
FindTrigger(R, s, t, x) ==
    LET i == IF s.at = "away" THEN 0
             ELSE IF x.pin # None THEN Pinned(R, t, s.p, x.pin) ELSE Scan(R, t, s.p)
    IN  IF x.pin = None /\ ~x.pending THEN Shut
        ELSE IF i = 0 THEN IF x.pending THEN x ELSE Shut
        ELSE IF x.pin = None /\ ~AtBoundary(R, i) THEN Shut
        ELSE [pin |-> IF x.pin = None THEN PinOf(R, i) ELSE x.pin,
              pending |-> FALSE, query |-> Query(R, i, s.p)]

\* Mutant: a session outlives a selection that is no caret in text.
SyncLingers(R, s, t, x) ==
    IF s.at = "away" \/ InText(R, s) THEN FindTrigger(R, s, t, x)
    ELSE [x EXCEPT !.pending = FALSE]

\* The state of trigger t once it has seen the note R with selection s.
SyncOf(R, s, t, x) ==
    IF s.at = "away" \/ InText(R, s) THEN FindTrigger(R, s, t, x) ELSE Shut

Synced(R, s, X) == [t \in Triggers |-> SyncOf(R, s, t, X[t])]
Opens(X, Y) == [t \in Triggers |-> IF X[t].pin = None /\ Y[t].pin # None THEN 1 ELSE 0]

\* An editor update to the note R with selection s; X are the triggers before
\* their listeners run.
Changes(R, s, X) ==
    /\ Len(R) <= MaxLength
    /\ row' = R /\ sel' = s /\ trig' = Synced(R, s, X)
    /\ opened' = [t \in Triggers |-> opened[t] + Opens(X, Synced(R, s, X))[t]]

\* A selection change closes the menu while the editor has focus.
handleSelectionChange(s) == menu' = (menu /\ (s = sel \/ focus # "editor"))

Update(R, s, X) == Changes(R, s, X) /\ handleSelectionChange(s)

Still == UNCHANGED <<row, sel, opened>>
AllShut == [t \in Triggers |-> Shut]

\* closeSession of each trigger that has one.
Ended == [t \in Triggers |-> IF trig[t].pin # None THEN Shut ELSE trig[t]]

\* The popups that active-popup.ts knows of.
Registered == {t \in Triggers : trig[t].query # None} \cup (IF menu THEN {"menu"} ELSE {})

Init == /\ row \in Rows
        /\ sel \in {Caret(0), Caret(Len(row))}
        /\ trig = AllShut
        /\ edit = None /\ menu = FALSE /\ focus = "editor" /\ due = None /\ did = Other
        /\ pressed = [t \in Triggers |-> 0] /\ opened = [t \in Triggers |-> 0]

\* The user's next input: the browser owes none for the last.
Free == due = None
AtKeys == Free /\ focus = "editor"
-----------------------------------------------------------------------------
(* Typing                                                                  *)

\* The LOW handler of KEY_DOWN_COMMAND: arm the trigger, unless it has a
\* session, another popup is open, or notes are selected.
Arms(t) == trig[t].pin = None /\ Registered \ {t} = {} /\ sel.at # "structural"

PressTrigger(t) ==
    /\ AtKeys /\ sel.at # "away" /\ pressed[t] < MaxPresses
    /\ trig' = IF Arms(t) THEN [trig EXCEPT ![t].pending = TRUE] ELSE trig
    /\ pressed' = [pressed EXCEPT ![t] = @ + 1]
    /\ due' = IF sel.at \in {"caret", "range"} THEN [kind |-> "insert", c |-> t] ELSE None
    /\ did' = Other
    /\ Still /\ UNCHANGED <<edit, menu, focus>>

Put(R, i, c) ==
    LET k == IF i > 0 /\ IsText(R[i]) THEN R[i].k
             ELSE IF i < Len(R) /\ IsText(R[i + 1]) THEN R[i + 1].k ELSE FreshKey
    IN  SubSeq(R, 1, i) \o <<[c |-> c, k |-> k]>> \o SubSeq(R, i + 1, Len(R))
Cut(R, i, j) == SubSeq(R, 1, i - 1) \o SubSeq(R, j + 1, Len(R))

\* The character arrives: at the caret, or in place of the range.
Enters(c) ==
    \/ sel.at = "caret" /\ Update(Put(row, sel.p, c), Caret(sel.p + 1), trig)
    \/ /\ sel.at = "range"
       /\ Update(Put(Cut(row, sel.p + 1, sel.q), sel.p, c), Caret(sel.p + 1), trig)

Insert ==
    /\ due # None /\ due.kind = "insert"
    /\ Enters(due.c)
    /\ due' = None /\ did' = Other
    /\ UNCHANGED <<edit, focus, pressed>>

Type(c) ==
    /\ AtKeys /\ Enters(c)
    /\ did' = Other
    /\ UNCHANGED <<edit, focus, due, pressed>>
-----------------------------------------------------------------------------
(* The date tokens                                                         *)

IsDate(R, i) == i \in 1..Len(R) /\ R[i].c = "date"
Dates(R) == {R[i].k : i \in {j \in 1..Len(R) : R[j].c = "date"}}
Selected == IF sel.at = "token" /\ sel.k \in Dates(row) THEN sel.k ELSE None

\* $resolveAdjacentDateToken: white space of the caret's own text node may stand
\* between it and the caret.
Adjacent(side) ==
    LET p == sel.p
        blank(i, j) == \A x \in i..j : row[x] = [c |-> " ", k |-> AnchorKey(row, p)]
        near == {d \in 1..Len(row) :
                    /\ row[d].c = "date"
                    /\ IF side = "before" THEN d <= p /\ blank(d + 1, p)
                       ELSE d > p /\ blank(p + 1, d - 1)}
    IN  IF sel.at = "caret" /\ near # {} THEN row[CHOOSE d \in near : TRUE].k ELSE None

\* $collapseDateTokenSelection.
Beside(R, k, side) == Caret(IF side = "before" THEN First(R, k) - 1 ELSE First(R, k))

\* ArrowLeft and ArrowRight: $selectAdjacentDateToken, or the browser's step.
Arrow(side) ==
    /\ AtKeys
    /\ LET step == IF side = "before" THEN -1 ELSE 1
       IN  \/ /\ edit = None /\ Selected # None
              /\ Update(row, Beside(row, Selected, side), trig)
           \/ /\ edit = None /\ Adjacent(side) # None
              /\ Update(row, Token(Adjacent(side)), trig)
           \/ /\ sel.at = "caret" /\ (edit # None \/ Adjacent(side) = None)
              /\ sel.p + step \in 0..Len(row)
              /\ Update(row, Caret(sel.p + step), trig)
           \/ /\ sel.at = "range"
              /\ Update(row, Caret(IF side = "before" THEN sel.p ELSE sel.q), trig)
    /\ did' = Other
    /\ UNCHANGED <<edit, focus, due, pressed>>

\* Mutant: from the nearest trigger.
TargetNearest(t) == IF InText(row, sel) /\ trig[t].pin # None THEN Scan(row, t, sel.p) ELSE 0

\* $resolveCommitTarget: the pinned trigger to the caret; 0 if it does not hold.
Target(t) ==
    IF InText(row, sel) /\ trig[t].pin # None THEN Pinned(row, t, sel.p, trig[t].pin) ELSE 0

\* Backspace on an empty query: $deleteTriggerChar.
EraseTrigger(t) ==
    /\ trig[t].pin # None /\ trig[t].query = <<>> /\ Target(t) # 0
    /\ Update(Cut(row, Target(t), sel.p), Caret(Target(t) - 1), [trig EXCEPT ![t] = Shut])

TriggerErases == \E t \in Triggers : trig[t].pin # None /\ trig[t].query = <<>> /\ Target(t) # 0

\* Mutant: an adjacent token is removed at once.
EraseDateAtOnce(side) ==
    /\ Adjacent(side) # None
    /\ LET i == First(row, Adjacent(side)) IN Update(Cut(row, i, i), Caret(i - 1), trig)

\* $deleteSelectedOrAdjacentDateToken.
EraseDate(side) ==
    \/ /\ Selected # None
       /\ Update(Cut(row, First(row, Selected), First(row, Selected)),
                 Caret(First(row, Selected) - 1), trig)
    \/ /\ Selected = None /\ Adjacent(side) # None
       /\ Update(row, Token(Adjacent(side)), trig)

\* What Lexical removes: the range, or the character or date token before or
\* after the caret; of a link a letter of its title, which the row does not show.
EraseText(side) ==
    \/ sel.at = "range" /\ Update(Cut(row, sel.p + 1, sel.q), Caret(sel.p), trig)
    \/ /\ sel.at = "caret"
       /\ LET i == IF side = "before" THEN sel.p ELSE sel.p + 1
          IN  /\ i \in 1..Len(row) /\ row[i].c # "link"
              /\ Update(Cut(row, i, i), Caret(i - 1), trig)

\* Backspace ("before") and Delete ("after").  While a calendar is open over a
\* token that exists, nothing is removed.
Erase(side) ==
    /\ AtKeys
    /\ \/ side = "before" /\ \E t \in Triggers : EraseTrigger(t)
       \/ /\ ~(side = "before" /\ TriggerErases)
          /\ \/ edit = None /\ EraseDate(side)
             \/ /\ edit = None => Selected = None /\ Adjacent(side) = None
                /\ edit \notin Dates(row)
                /\ EraseText(side)
    /\ did' = [kind |-> "erase"]
    /\ UNCHANGED <<edit, focus, due, pressed>>
-----------------------------------------------------------------------------
(* Committing and dismissing                                               *)

TokenFor(t) == IF t = "@" THEN "link" ELSE "date"

\* The cells behind p, the rest of the text node at p in the node k.
Behind(p, k) ==
    [j \in 1..(Len(row) - p) |->
        IF row[p + j].k = row[p].k THEN [row[p + j] EXCEPT !.k = k] ELSE row[p + j]]

\* spec.$commit: a token and a space in place of the trigger and its query; the
\* rest of the caret's text node joins the space.
Commit(t) ==
    LET i == Target(t)
        new == <<[c |-> TokenFor(t), k |-> FreshKey],
                 [c |-> " ", k |-> OtherKey]>>
    IN  /\ Changes(SubSeq(row, 1, i - 1) \o new \o Behind(sel.p, OtherKey),
                   Caret(i + 1), [trig EXCEPT ![t] = Shut])
        /\ did' = [kind |-> "commit", shown |-> <<t>> \o trig[t].query,
                   removed |-> [j \in 1..(sel.p - i + 1) |-> row[i + j - 1].c]]

\* $confirmDate: the caret goes behind the token, if it still exists.
ConfirmDate ==
    /\ edit' = None /\ did' = Other
    /\ IF edit \in Dates(row) THEN Update(row, Beside(row, edit, "after"), trig)
       ELSE Still /\ UNCHANGED <<trig, menu>>

OpenEdit(k) == edit' = k /\ did' = Other /\ Still /\ UNCHANGED <<trig, menu>>

\* Enter: an option of "@" may or may not be there for the query; then the
\* session closes.  With no session it confirms or opens the calendar.
Enter ==
    /\ AtKeys
    /\ \/ \E t \in Triggers :
              Target(t) # 0 /\ Commit(t) /\ handleSelectionChange(sel') /\ UNCHANGED edit
       \/ /\ trig["@"].pin # None /\ Target("@") # 0
          /\ trig' = [trig EXCEPT !["@"] = Shut]
          /\ did' = Other /\ Still /\ UNCHANGED <<menu, edit>>
       \/ /\ \A t \in Triggers : trig[t].pin = None
          /\ \/ edit # None /\ ConfirmDate
             \/ edit = None /\ Selected # None /\ OpenEdit(Selected)
    /\ UNCHANGED <<focus, due, pressed>>

\* Space on a selected token.
SpaceOpens ==
    /\ AtKeys /\ edit = None /\ Selected # None /\ OpenEdit(Selected)
    /\ UNCHANGED <<focus, due, pressed>>

\* Tab closes every session and goes on to the calendar, which it confirms.
Tab ==
    /\ AtKeys
    /\ IF edit # None /\ edit \in Dates(row)
       THEN Update(row, Beside(row, edit, "after"), Ended)
       ELSE Still /\ UNCHANGED menu /\ trig' = Ended
    /\ edit' = None /\ did' = Other
    /\ UNCHANGED <<focus, due, pressed>>

\* $clearSelectedDateToken.
ClearSelected ==
    edit = None /\ Selected # None /\ Update(row, Beside(row, Selected, "after"), trig)

\* Escape: the first of a session, the calendar, the selected token; else the
\* notes themselves are selected (the ladder of SelectionLadder).
Escape ==
    /\ AtKeys /\ did' = Other
    /\ \/ \E t \in Triggers :
              /\ trig[t].pin # None /\ trig' = [trig EXCEPT ![t] = Shut]
              /\ Still /\ UNCHANGED <<edit, menu>>
       \/ /\ \A t \in Triggers : trig[t].pin = None
          /\ \/ edit # None /\ edit' = None /\ Still /\ UNCHANGED <<trig, menu>>
             \/ ClearSelected /\ UNCHANGED edit
             \/ /\ edit = None /\ Selected = None
                /\ Update(row, Structural, trig) /\ UNCHANGED edit
    /\ UNCHANGED <<focus, due, pressed>>

\* A calendar is rendered and takes focus.  handleRootBlur: a session stays
\* only when focus goes into a trigger picker.
CalendarTakesFocus ==
    /\ Free /\ focus = "editor" /\ focus' = "calendar"
    /\ \/ trig["!"].query # None /\ UNCHANGED trig
       \/ trig["!"].query = None /\ edit # None /\ trig' = Ended
    /\ did' = Other /\ Still /\ UNCHANGED <<edit, menu, due, pressed>>

\* What is done in a calendar gives focus back to the editor.
InCalendar == Free /\ focus = "calendar" /\ focus' = "editor" /\ UNCHANGED <<due, pressed>>

\* A day is chosen: over the pinned span (handleCommitOption) ...
InsertPicked ==
    /\ InCalendar /\ trig["!"].query # None /\ Target("!") # 0
    /\ Commit("!") /\ handleSelectionChange(sel') /\ UNCHANGED edit

\* ... or for the token of the calendar (handlePickerChange).
EditPicked == InCalendar /\ edit # None /\ ConfirmDate

\* Escape in a calendar: handleCancel ...
CancelInsert ==
    /\ InCalendar /\ trig["!"].query # None /\ trig' = [trig EXCEPT !["!"] = Shut]
    /\ did' = Other /\ Still /\ UNCHANGED <<edit, menu>>

\* ... and handlePickerCancel, which leaves the date as it is.
CancelEdit == InCalendar /\ edit # None /\ ConfirmDate

\* A calendar that closed while it had focus gives it back.
CalendarGone ==
    /\ focus = "calendar" /\ trig["!"].query = None /\ edit = None
    /\ focus' = "editor"
    /\ did' = Other /\ Still /\ UNCHANGED <<trig, edit, menu, due, pressed>>
-----------------------------------------------------------------------------
(* The note menu                                                           *)

\* openMenuForKey: not over another popup, and closed if it was open.
OpenMenu(X) == menu' = (~menu /\ \A t \in Triggers : X[t].query = None)

\* Shift twice: handleDoubleShift does nothing while the menu is open.
DoubleShift ==
    /\ AtKeys /\ ~menu /\ OpenMenu(trig)
    /\ did' = Other /\ Still /\ UNCHANGED <<trig, edit, focus, due, pressed>>

\* The button of the note controls.  Its pointerdown ends the sessions first
\* (handleOutsidePointer); the handler prevents the default, so that no
\* mousedown follows and focus stays where it is.
PressMenuButton ==
    /\ Free /\ trig' = Ended /\ OpenMenu(Ended)
    /\ did' = Other /\ Still /\ UNCHANGED <<edit, focus, due, pressed>>

\* The menu is rendered and takes focus, which a calendar does not give up.
MenuTakesFocus ==
    /\ Free /\ menu /\ focus \in {"editor", "outside"} /\ focus' = "menu"
    /\ trig' = IF focus = "editor" THEN Ended ELSE trig
    /\ did' = Other /\ Still /\ UNCHANGED <<edit, menu, due, pressed>>

\* What an item of the menu does ends with focus in the editor and no menu; what
\* it does to the outline is LexicalOutline's.
RunItem ==
    /\ focus' = "editor" /\ menu' = FALSE
    /\ did' = Other /\ Still /\ UNCHANGED <<trig, edit, due, pressed>>

\* An item is chosen, or Escape or Tab.
MenuDone == Free /\ focus = "menu" /\ RunItem

\* A digit, "f" or "z" before the menu has taken focus.
MenuShortcut == AtKeys /\ menu /\ RunItem
-----------------------------------------------------------------------------
(* The pointer                                                             *)

\* handlePointerDown of the menu, and handleDocumentMouseDown of the calendar:
\* any press but their own closes them.
PressCloses == menu' = FALSE /\ edit' = None

\* A press outside the editor: handleOutsidePointer, and focus is taken back from
\* an abandoned calendar.
PressOutside ==
    /\ Free /\ trig' = Ended /\ PressCloses
    /\ focus' = IF edit # None THEN "editor" ELSE "outside"
    /\ did' = Other /\ Still /\ UNCHANGED <<due, pressed>>

\* A press in the text: the caret, a range, or another note.
PressText(s) ==
    /\ Free /\ focus' = "editor" /\ did' = Other
    /\ PressCloses /\ Changes(row, s, trig)
    /\ UNCHANGED <<due, pressed>>

\* handleRootMouseDown: the token is selected ...
PressToken(k) ==
    /\ Free /\ focus' = "editor" /\ did' = Other
    /\ PressCloses /\ Changes(row, Token(k), trig)
    /\ due' = [kind |-> "click", k |-> k]
    /\ UNCHANGED pressed

\* ... and handleRootClick opens the calendar over it, if it is still there.
Click ==
    /\ due # None /\ due.kind = "click"
    /\ IF due.k \in Dates(row)
       THEN edit' = due.k /\ Update(row, Token(due.k), trig)
       ELSE Still /\ UNCHANGED <<trig, edit, menu>>
    /\ due' = None /\ did' = Other
    /\ UNCHANGED <<focus, pressed>>

\* handleItemMouseDown: an option of the "@" list is pressed, and commits.  A
\* press in any picker leaves every session open.
PressOption ==
    /\ Free /\ trig["@"].query # None /\ Target("@") # 0
    /\ Commit("@") /\ PressCloses
    /\ focus' = IF edit # None THEN "editor" ELSE focus
    /\ UNCHANGED <<due, pressed>>
-----------------------------------------------------------------------------
(* Another client: its edits move the caret, not the pins                  *)

Shifted(i, n) ==
    LET move(p) == IF p >= i THEN p + n ELSE p
    IN  CASE sel.at = "caret" -> Caret(move(sel.p))
          [] sel.at = "range" -> IF move(sel.p) = move(sel.q) THEN Caret(move(sel.p))
                                 ELSE Span(move(sel.p), move(sel.q))
          [] OTHER -> sel

RemoteInsert(i, c) ==
    /\ Update(Put(row, i, c), Shifted(i + 1, 1), trig)
    /\ did' = Other /\ UNCHANGED <<edit, focus, due, pressed>>

RemoteDelete(i) ==
    /\ Update(Cut(row, i, i), Shifted(i, -1), trig)
    /\ did' = Other /\ UNCHANGED <<edit, focus, due, pressed>>

\* Formatting: the end of a text node, from i on, becomes another node.
RemoteFormat(i) ==
    /\ IsText(row[i]) /\ i # First(row, row[i].k)
    /\ Update([j \in 1..Len(row) |->
                  IF j >= i /\ row[j].k = row[i].k THEN [row[j] EXCEPT !.k = FreshKey] ELSE row[j]],
              sel, trig)
    /\ did' = Other /\ UNCHANGED <<edit, focus, due, pressed>>
-----------------------------------------------------------------------------
\* The pointer puts the caret anywhere, or selects the whole note.
Selections == {Caret(p) : p \in 0..Len(row)} \cup {Away}
              \cup (IF row = <<>> THEN {} ELSE {Span(0, Len(row))})

Keys == \/ \E t \in Triggers : PressTrigger(t)
        \/ \E c \in {"a", " "} : Type(c)
        \/ \E side \in {"before", "after"} : Arrow(side) \/ Erase(side)
        \/ Enter \/ SpaceOpens \/ Tab \/ Escape \/ DoubleShift \/ MenuShortcut

Pointer == \/ PressMenuButton \/ PressOutside \/ PressOption
           \/ \E s \in Selections : PressText(s)
           \/ \E k \in Dates(row) : PressToken(k)

Popup == \/ CalendarTakesFocus \/ CalendarGone
         \/ InsertPicked \/ EditPicked \/ CancelInsert \/ CancelEdit
         \/ MenuTakesFocus \/ MenuDone

\* The most that another client can type is a trigger.
Remote == \/ \E i \in 0..Len(row) : RemoteInsert(i, "@")
          \/ \E i \in 1..Len(row) : RemoteDelete(i) \/ RemoteFormat(i)

Next == Keys \/ Insert \/ Click \/ Pointer \/ Popup \/ Remote

Spec == Init /\ [][Next]_vars
-----------------------------------------------------------------------------
(* Properties                                                              *)

\* An open session always has its trigger, with the caret behind it in text and
\* the query of its popup between them: a session that lingers after the user
\* has left the query would take the Enter and Escape meant for another popup
\* (syncFromSelection).
SessionsHold ==
    \A t \in Triggers :
        /\ trig[t].pin = None <=> trig[t].query = None
        /\ trig[t].pin # None =>
              Target(t) # 0 /\ trig[t].query = Query(row, Target(t), sel.p)

\* No press of a trigger opens two sessions, and none that has opened one waits
\* on: with every press spent, carets that come back beside a trigger, edits of
\* others and returns of focus open nothing (the open gate, useTriggerSession.tsx:187).
\* Which trigger a waiting press opens it does not say: another client's edit, or a
\* caret that comes beside an older trigger, may answer the press.
PressesOpenOnce ==
    \A t \in Triggers : opened[t] + (IF trig[t].pending THEN 1 ELSE 0) <= pressed[t]

\* What a commit removes is the trigger and the query the popup showed, whatever
\* others did to the note meanwhile ($resolveCommitTarget).
ShownIsReplaced == did.kind = "commit" => did.removed = did.shown

\* Backspace and Delete never remove a date token that was not selected, or in
\* a selected range, before the press (dates.md: atomic token).
TokensFallSelected ==
    [][did'.kind = "erase" /\ sel.at # "range" =>
           Dates(row) \subseteq Dates(row') \cup {Selected}]_vars
=============================================================================
