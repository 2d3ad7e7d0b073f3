# TLA+ specifications of RemDo

RemDo is a collaborative outliner: notes in a tree, edited in a Lexical editor,
synchronised through Yjs and a Y-Sweet server, cached in IndexedDB, behind a
login shared by every tab of a browser. This directory holds specifications of
the parts of it whose behaviour depends on the order in which things happen, or
on a long chain of small steps that each assume the last one was right, TLC
configurations that check them on small instances, and TLAPS proofs.

Paths in this file are relative to the repository (`src/collaboration/...`,
`docs/specs/...`); the manifest `PROJECT.json` names the lines each definition
stands for.

Contents

1. The system: components, state, operations, hard behaviours
2. The modules and how they correspond to the code
3. The runs: what is checked, on which instances, and what it shows
4. Disagreements between the code and its documents
5. The proofs
6. What is only model-checked, and what is not modelled
7. Plan

To repeat a run: `tlc -workers 2 -config SignOut.cfg MCSignOut.tla`; to check the
proofs: `tlapm CollabSession_proofs.tla`, and the same for the other modules whose
names end in `_proofs`.

---

## 1. The system

The browser half of RemDo is single-threaded JavaScript in several tabs. A
callback runs to completion; interleaving happens at each `await`, between tabs
(which share `localStorage`, cookies and IndexedDB but no memory), and with the
servers. The server half is a Hono application over SQLite with Better Auth, and
a Y-Sweet server that keeps the documents.

How the parts are connected:

```
 LoginRoute / AdminRoute      route loaders           useLogout (every tab)
        |  completeAuth          |                         |  storage event, poll
        v                        v                         v
  +------------------ session gate + logout -----------------+   module SignOut
  |   pending sign-out marker, known session, cookie          |
  +-----------------------------------------------------------+
        | admits / denies              | clears, resets
        v                              v
  UserDataRuntimeBoundary ---> stored user data runtime            module UserDataRuntime
                               | one session for the user's document
                               | one per linked source server
                               v
                         CollabSession  <--- editor binding        module CollabSession
                               | provider events
                               v
                  provider factory, IndexedDB guard, token requests,
                  headless jobs ---> Y-Sweet                       module DocProvider
                               | merged updates
                               v
   load, merge ---> repair of the outline, bodies, note ids        module OutlineRepair
                               |
                               v
  editor commands ---> outline operations on nested Lexical lists  modules Outline,
                       folding, zoom, bodies, carets               LexicalOutline
     cut, copy, paste ------^          ^                           module Clipboard
     selection ladder -----------------+                           module SelectionLadder
     pickers, calendar, note menu (one popup at a time)            module Popups

  API server:  document routes ---> registry (SQLite)              module DocumentServer
                              ---> user-data projection (Yjs)
               source links ---> OAuth clients, auth rebuilds      module SourceLinks
```

### 1.1 Collaboration

**Collaboration session** (`src/collaboration/session.ts`,
`unsynced-local-changes.ts`). State: `attachVersion`, the attach promise in
flight, the provider and its listeners, the flags `providerHadLocalChanges`,
`sawProviderAck` and `unsavedLocalEdits`, the published snapshot, and a key
`remdo-unsynced:<doc>` in `localStorage` for each document with unacknowledged
edits. Operations: `setDocId`, `attach`, `detach`, `destroy`, `awaitSynced`, and
the provider's and the document's events. Hard: a provider factory that settles
after its attach was superseded; a teardown while callers wait; flags that are
reset with the provider beside a ledger that is not; a socket that closes under a
wait. Correct when: the one live provider is the current one and serves the
published document; no caller waits on a destroyed provider; every document with
unacknowledged edits is in the ledger that logout reads; `synced` and a resolved
wait mean the server has everything.

**Provider factory and waits** (`runtime.ts`): `waitForSync` with its reconnect
deadline; token requests shared by sessions of one document; the tab's one
decision whether its browser can persist at all. Hard: a token that arrives for a
session that is gone would start its connect loop again.

**IndexedDB provider lifecycle** (`y-sweet-indexeddb-lifecycle.ts`): a destroy
that has to wait for updates being written, and a database helper that may
appear only after its session was destroyed. Correct when: no write loses its
handle; once all sessions are gone nothing keeps a logout from deleting the
database.

**Headless session** (`src/headless`): a job that attaches, edits, waits for the
acknowledgement and for the file on the server's disk, and exits. Correct when: a
job that ends well has its write on the server.

### 1.2 Signing in and out

**Session gate** (`src/client/app/session/client.ts`, `login-redirect.ts`, the
loaders of `shell/router.tsx`). State: the cookie, the remembered session
(`remdo-authenticated-session`), the pending sign-out marker with its generation
(`remdo-pending-sign-out`), and per tab the origin mark and the confirmed
generation in `sessionStorage`. Operations: resolve the gate (revoke if a
sign-out is pending, else ask for the session, else fall back on what is
remembered), remember and forget each mark.

**Logout and its broadcast** (`logout.ts`, `logout-broadcast.ts`,
`useLogout.tsx`). State: the latch of each tab's subscription. Operations: log
out (mark, forget, revoke within a time limit, clear), handle a storage event,
poll.

Hard: gates that overtake one another; answers later than the logout they
contradict; requests given up on that still arrive; storage events that come
late or never; a page reloaded in the middle. Correct when: every tab leaves
the app when one signs out, by the poll alone if it must; a logout always ends; a
tab does not take its own sign-out for another's; nothing but a sign-in takes a
pending sign-out back.

**Clearing local data** (`local-data.ts`): a step of the logout. **Online gate**
(`OnlineGate.tsx`): reconnect cycles with backoff, not modelled. **Admin enrolment**
(`admin/AdminRoute.tsx`): a sign-in over an old identity.

### 1.3 User data

**Current-user bootstrap** (`user-data/current-user-bootstrap.ts`): a memoised
promise and a copy in `localStorage`, cleared by logout and enrolment.

**Stored user data runtime** (`user-data/stored-user-data.ts`). State: a
generation, the load in flight, the context session and the pending one, the
startup retry, and one runtime per linked source server with its own load,
session and retry. Operations: `start`, `ensureReady`, `createDocument`, `reset`,
the retries, and reconciling the runtimes with the projection. Hard: a reset
between any two steps of a load; a load begun by one caller and joined by
another; a server unlinked and linked again under its load; a different user
signing in. Correct when: it holds exactly the sessions that are alive; no
session outlives the reset that replaced it; a started store never waits for
nothing; the runtimes are those of the linked servers; what a source lists comes
from the session that serves it now, and its subscribers hear of every change.

### 1.4 The outline

**Outline structure** (`src/client/editor/outline/list-structure.ts`,
`note-ops.ts`, `indentation.ts`, `selection/tree.ts`). State: nested Lexical
lists in which a note, its body and the wrapper of its children are *siblings*,
told apart by kind and matched by position alone. Operations: indent, outdent,
move up and down, over a run of siblings.

**Deletion and merging**, **insertion**, **note bodies**, **folding**, **zoom**
(`editing/deletion`, `editing/insertion`, `features/note-body`,
`features/folding`, `features/zoom`): the other commands that rewrite the lists
or decide what of them is shown.

Hard: every command is a loop of small mutations, each of which changes what the
next one sees; a body or wrapper left a moment alone belongs to another note; a
list that empties disappears with its wrapper. Correct when: the schema holds
after each command; the tree changes as the documents say; commands stay in the
zoomed subtree; nothing the user sees is hidden by a move or an insertion;
merges keep document order.

**Outline repair and note ids** (`normalization.ts`, `schema.ts`,
`RootSchemaPlugin.tsx`, `note-body-ops.ts`, `runtime/note-ids`). A persisted file,
an import or a merge of concurrent edits need not have the editor's shape: the
root may hold several lists, a children-wrapper may have lost its note, a note may
have two bodies or somebody else's id. Hard: the repair walks lists while it
rewrites them, its own commits wake the listener that schedules it. Correct when:
one repair is enough; it loses nothing, keeps the order, takes no body and no
child from a note that was in order; loaded notes have ids of their own.

**Selection ladder** (`outline/selection`). State: Lexical's selection, the ladder
of rungs, the selection that commands act on, corrections waiting in microtasks.
Hard: an update listener that reacts to its own updates, edits of others between
a decision and its microtask. Correct when: the arrows undo each other; a sweep
follows the tree as others change it; the selection stays in the zoomed view.

**Clipboard** (`editing/clipboard`). State: the cut marker of this tab, the system
clipboard. Hard: a cut leaves its notes in place, where anyone may edit them before
the paste; the place of a paste is computed before the notes leave theirs.
Correct when: a pending cut is whole or gone; moving it loses nothing; what is
pasted is where the user sees it.

**Triggers and pickers**, **dates**, **note menu** (`triggers`, `features/date`,
`menu`): sessions pinned to a character that others may edit around, only one
popup on screen. Correct when: a press of a trigger opens one session at most,
which has its trigger and its query and replaces exactly what it showed.

**List types** (`features/list-types`): attributes of lists and notes.

### 1.5 The server

**Document registry and access**, **user-data projection** (`src/server/documents`,
`src/server/projection`, `src/projection`, `collab-token.ts`). State: documents and
grants in SQLite, and per user a Yjs array that shows them. Operations: bootstrap
(find or make two special documents), create, share, refresh a projection. Hard:
every request is a chain of awaits, and a refresh sends back the whole state of
what it read. Correct when: bootstraps agree on the special documents; what is
listed can be opened; a refresh repairs what overlapping ones did.

**Source servers and OAuth clients**, **server authentication**
(`src/server/remdo-oauth`, `src/server/auth`, `routes/source-links.ts`). State: the
cache of clients, the linked accounts, the running auth instance and the queue of
its rebuilds. Hard: two first links register two clients; a rebuild reads the
sources before it waits; a shutdown meets the queue; clients of the predecessor
are replaced while accounts still hold them. Correct when: a registered client
stays; a listed source answers; every request is answered and every shutdown ends.

### 1.6 The rest

The editor's collaboration binding, persistence and import, links, search, the
toolbar, the note SDK, the app shell, routes, helpers for paths and ids,
development tools, deployment scripts. They hold no state whose order matters, or
only forward to what is listed above; `PROJECT.json` gives the reason for each.

---

## 2. The modules

| module | models | kind |
|---|---|---|
| `CollabSession` | collaboration session, `waitForSync`, ledger | component |
| `SignOut` | session gate, logout, broadcast, sign-in, several tabs | component |
| `UserDataRuntime` | bootstrap, user-data store, what resets it | component |
| `OutlineTrees` | queries on trees of notes | operators |
| `Outline` | what the outline commands promise | abstract specification |
| `LexicalOutline` | the commands on nested lists, carets | component, refines `Outline` |
| `Clipboard` | cut, copy and paste | component, extends `LexicalOutline` |
| `SelectionLadder` | selecting whole notes | component, extends `OutlineTrees` |
| `OutlineRepair` | load, merge, repair, bodies, note ids | component |
| `Popups` | pickers, calendar, note menu | component |
| `DocProvider` | provider, token, database, headless job | component |
| `DocumentServer` | registry, access, projections | component |
| `SourceLinks` | links to source servers, auth rebuilds | component |
| `CollabSession_proofs`, `SignOut_proofs`, `DocProvider_proofs`, `UserDataRuntime_proofs`, `SourceLinks_proofs`, `DocumentServer_proofs`, `Popups_proofs`, `SelectionLadder_proofs` | | theorems |
| `MC...` | model values and symmetry sets | for TLC |

Definitions keep the source's names where an operator models one function
(`rememberPendingSignOut`, `recomputeState` as `Recompute`, `reset`,
`mergeAtStartOfNote`). An operator that no other one uses and that its comment
calls a mutant, or a form that forgets something, is a plausible bug in the
definition that follows it. `PROJECT.json` says which property detects which.

### 2.1 CollabSession

One tab. Every handler is one action; the code's awaits are the boundaries: the
provider factory (`pending` holds the factories that have not settled; `attach`
adds one, `FactoryResolves` and `FactoryRejects` remove it), the attach task and
the wait for the provider (`phase`, `target`, `timer` of each caller of
`awaitSynced`).

- The Y-Sweet provider is external. It is `pv`, what the provider reports
  (synced, unacknowledged edits, status), changed by the event actions; they are
  free to come in any order the provider's own state allows. Where it is not
  known whether Y-Sweet lowers `synced` on a close or counts a replayed document
  as unacknowledged, both are allowed.
- `content` and `dirty` are the truth the session cannot see: which documents
  hold structs, and which have edits no server has. They appear in the
  properties and choose what a new provider reports; the session reads neither
  except where the code looks into the `Y.Doc`.
- `Recompute` is `recomputeState` with `recordProviderLocalChanges`; its
  arguments are the patched snapshot, the provider's report and the edit flag.
- Left out: `docEpoch` (a counter that follows the attaches), the disabled
  session, `wait-for-session-attachment.ts`. A factory that returns its result
  synchronously is the case where `FactoryResolves` follows `attach` at once.
  The ledger is restricted to this tab's keys: keys of other tabs have another
  suffix and no step of this tab touches them.
- `MaxVersion` bounds `attachVersion`; it appears only in the guards of the
  actions that bump it.

### 2.2 SignOut

Any number of tabs. An action is a JavaScript step between two awaits, so a
`resolveSessionGateState` is a start (`Load`, or the navigation at the end of
`LogOutEnds`, `Deliver`, `CompleteAuth`, `Reload`) and an end (`GateSettles`,
`GateTimesOut`); in between, `gate[t]` says which call is in flight and with
which session it was sent. A navigation supersedes the tab's gate, but the code
has no way to cancel one: it moves to `stale` and still writes its marks
(`StaleGateSettles`). A logout is `LogOut`, then `LogOutRevoked` or
`LogOutTimesOut`, then `LogOutEnds`. A sign-out request whose tab stopped waiting
for it is in `orphans` and may still arrive.

- External: the auth server (`valid` is the sessions it accepts; `SignIn`,
  `SessionExpires`), the browser (`cookie`, storage events as a queue per tab,
  reload). Whether storage events are delivered at all is the constant
  `StorageEvents`: `logout-broadcast.ts` has the poll because some browsers do
  not deliver them.
- `author` is a history variable: the tab whose write the marker is.
- Marker generations, random strings in the code, are numbers drawn in order:
  only whether two are equal matters.
- Left out: the bootstrap cached and read by the gate (it is in
  `UserDataRuntime`), the confirmation dialog before a logout that would lose
  edits, deleting the local databases (one step that ends, fails or outlives its
  limit, hence part of `LogOutEnds`), `navigator.onLine`, errors the gate
  rethrows.

### 2.3 UserDataRuntime

One tab's bootstrap and store, and everything that resets them.

- `fetch` holds the bootstrap requests in flight, each with the account whose
  cookie it was sent with; `memo` is `bootstrapPromise`; `stored` the copy in
  `localStorage`.
- `generation`, `ready`, `context`, `pending`, `retry` are the store's fields.
  `load[g]` is the `loadUserData` of generation `g`: a reset does not stop the
  load of an older generation, whose later steps must find the generation
  changed. Likewise `chain[s][i]` is the `loadRemoteSource` of the `i`-th
  runtime of server `s`, `remote[s]` the runtime the store has now.
- `live` is the set of collaboration sessions created and not destroyed.
- `listed[s]` is what the collection of a source gives, and from which session's
  document it was read; `observed` are the documents whose updates reach the store.
  Of documents there are two, the home document and another: whether a source
  lists its home document is what `homeDocument()` depends on. A list that can be read and
  lacks the home document is left out: the server creates it before it writes any list.
  `View` is what a
  subscriber reads, `shown` what it read when the version was last bumped.
- `started` is a history variable: `start()` was called in this generation.
- The world around the store: mounting, leaving, the gate's verdicts, sign-in,
  enrolment, logout here and in another tab, a session ended by the server. A
  sign-in and another tab's sign-out are one action each, because their own
  interleavings are the subject of `SignOut`; the revocation a logout sends is
  the later `SessionEnds`.
- Left out: titles and access lists in the projection, malformed entries, search
  across documents, the request that creates a document, the addresses of source
  servers.

### 2.4 OutlineTrees, Outline, LexicalOutline

`OutlineTrees` has the queries of `selection/tree.ts` as operators on a function
from each owner to the sequence of its children, so the abstract and the detailed
specification share them. Its recursive queries are recursive functions.

`Outline` is the abstract specification, from the documents' point of view: a
tree, the set of notes with bodies, the zoom root; one action per kind of
command, each described by the resulting tree.

`LexicalOutline` is the code: `lists[o]` is the row of items of each nested list,
an item being `<<"note", n>>`, `<<"body", n>>` or `<<"list", n>>`. Operators such
as `getBodyWrapper`, `getWrapper`, `getNodesForNote`, `moveChildren`,
`removeNoteSubtree`, `carryBody` take the lists and find their items by
neighbourhood, as the code does, and a list's wrapper as its parent node. The note
recorded in a body or wrapper identifies the node; it is never used to find the
body or children of a note, and `SchemaHolds` says that what the neighbourhood
gives is the note's own. `Indent`, `outdentNotes` and the like fold over a run in
the order of the code's loops.

- `Update` ends every command that changes the lists: it also unfolds the leaves
  that the transform of the folding plugin gets to see, the dirty ones
  (`FoldTransform`).
- Text is reduced to whether it is empty, chosen when a command asks. Where the
  caret is decides which commands are possible, so each is possible on every
  note shown. Where a command puts it is computed by operators on the lists
  (`caretPlan`, `caretPlanAfterRemoval`, `skipBodyForward`, `skipBodyBack`): the
  caret is no state of the module, and the geometry of lines on the screen is left
  out.
- Left out: edits merged from other clients (`OutlineRepair`), list types. A note
  id that has gone may be used again by `Enter`.

Refinement: `Tree == INSTANCE Outline WITH kids <- Kids(lists), bodies <-
BodiesIn(lists)` drops wrappers, bodies and folds. `ImplementsOutline == Tree!Spec`.

### 2.5 Clipboard

`Clipboard` extends `LexicalOutline`: the same lists, with `marker` (the cut marker:
the first and last note of the run and the keys of all it contains) and
`clipboard` (whether the system clipboard says that it holds a cut). A cut changes
no list. `DirtyItems` says which items an update marks dirty in Lexical, which is
what the listener compares with the marker before it drops it; an edit of this
user, another client's edit and any paste go through it (`Changed`). A paste
takes the place of the caret or the selection (`AtCaret`, `Split`, `AtRange`), inserts,
and then takes away what was replaced; a cut's notes are moved, others are copied
under new names. A caret is at a note's start, at its end, or inside it, where the note
is split, except in a link, which is not. A cut whose notes are gone while the marker
still stands (a note above them was deleted) is pasted like any other: the code then
takes the selected notes for the cut (`MoveToRange`), and if the view root is among
them puts its children-wrapper into its own list, which detaches all of it
(`MoveRootIntoItself`). What a copy holds is any small forest: the clipboard may come
from another document. Another tab shares the clipboard and not the marker.

Left out: text and formats; pastes into a body or over a link target, which
change no list, are there as steps that only consume the clipboard. The move of a cut
can leave an empty children-wrapper in the place the cut came from:
`WrappersGoWithNotes` says that nothing else does and that it can be there only.
What a lost cut does, and that empty wrapper, are against the repository's documents
(section 4). Observed in the model and not claimed otherwise by any
property: a cut in another tab makes a paste here move this tab's older cut; the marker
survives a change of document epoch.

### 2.6 SelectionLadder

`sel` is Lexical's selection, `ladder` the anchor with its rungs, `unlock` the
pending unlock of a direction, `outline` the selection that commands act on,
`pending` what the scheduled microtasks will set. Every update ends in `Observe`,
which is `$computeOutlineSelectionSnapshot` with the listener around it: it
replays the ladder on the tree as it is, infers one from a selection the user made
otherwise, and schedules corrections. `ShiftArrow`, `SelectAll`, `PlainKey`,
`Escape`, `Point`, `MoveSelected` (indent, outdent, move) are this user's;
`InsertNote`, `DeleteNote`, `MoveNote` and `EditText` may be anyone's and `ZoomTo`
comes from anywhere, all of them between a decision and its microtask as well.
Zooming to a note puts the caret into it; zooming out to the document leaves selection
and ladder alone.

`MoveNote` is what a move by another client is here: notes are taken out and come back
elsewhere under new keys, with their ids. Any note may be moved, the view root and
those above it too. The zoom goes with the id; where the selection had an end in what
was taken out, Lexical puts it nearby, which may be outside the view.

`trail` is a history variable: what the arrows did since the last caret, so that
an opposite arrow can be compared with the state before. `strayed` is another: others
have moved the view root and this user has not yet clicked or zoomed since. Only then
may something outside the view be selected (`SelectionStaysInView`; section 4).

Left out: empty notes (the inline rung is skipped there), bodies, the header of a
zoomed view, selections that folding hides, and a branch of the reshaping that no
caller reaches. After a sweep upwards, or one that has hoisted, two updates of
others discard the ladder and infer it again: `SweepFollowsEdits` speaks of the
downward sweep only.

### 2.7 OutlineRepair

The file is read item by item (`LoadNote`, `LoadBody`, `LoadNested`, ...), in any
arrangement: orphans, bodies before their notes, several lists and blocks in the
root, duplicate ids. `Hydrate` is the normalization of the root; `RepairStep` is
one turn of the loop of `normalizeOrphanWrappers`, whose frames are `stack`: each
holds a *copy* of a list's children, which the loop itself changes under it.
Then come the update's transforms (`EndOfRepair`), the ids
(`NormalizeNoteIdsOnLoad`) and, when `NoteBodyPlugin` mounts, the bodies
(`ReconcileBody` until `BodiesReconciled`). In a document that is ready others'
edits may merge (`MergeDeletion`, `MergeIndents`, `MergeBody`), and the update
listener repairs what they left.

- `text` keeps, for each body, the bodies whose words were folded into it: the
  properties are about words, not wrappers.
- Whether the transforms run in the very update that brings a merge is Lexical's
  and Yjs's affair and not decided by this repository: both are allowed
  (`Merged`). Later `ReconcileBody` is possible for any note at any time, as an
  update that touches the note or a body behind it runs the transform.
- If it does not run at once, two bodies given to one note at the same time
  separate the note from its children-wrapper, and the repair, which allows for
  one body between them, hoists the children to the note's own level. The
  properties do not forbid it: `ParentsStay` is about the notes whose place was in
  order.
- `RemoveItem` is external: Lexical's `ListItemNode.remove` merges two
  children-wrappers that become neighbours and removes a list that is left empty.
- Left out: wrappers with anything but one list inside, the indent metadata, the
  bookkeeping that skips one schema validation, imports by the user. Two peers that
  make the same move leave two notes with one id until the document is next
  loaded.

### 2.8 Popups

One note as a row of characters and tokens, each with the key of its text node;
remote edits insert, delete and give other keys. A press of a trigger key and the
character the browser inserts for it are two steps (`due`), and so are the press
and the click of a pointer. Per trigger, `pin` is the remembered character (a key
and an offset), `pending` the press that waits for its character, `query` what the
popup shows. `edit` is the date token under the calendar, `menu` the note menu,
`focus` what has DOM focus. `did`, `pressed`, `opened` are history variables.

Left out: the options and which is active, a caret inside a link, the split that
Enter makes, modified keys, values of links and dates. Backspace and Delete that no
handler of this code takes remove what is next to the caret, tokens included, except that
a press beside a link takes a letter of its title, which the row does not show. After a
commit the rest of the text joins the node of the inserted space.

A press that waits for its character may be answered by something else
(`useTriggerSession.tsx:200-205`). Another client's edit opens the session on an
earlier trigger, or on one that it brings. A press over a selected date token types no
character and leaves the press waiting: a later click that puts the caret behind an old
`@` opens the picker there. `PressesOpenOnce` says what is left: a press opens one
session at most, wherever that is, and with every press spent nothing opens any. That a
picker opens on the character of its own press is not claimed (section 4).

### 2.9 DocProvider

Sessions of one tab that hold the same document, one after the other or at once.
`stage` is the life of a session's provider, `loop` the connect loop of Y-Sweet,
`fetching` the token request they share, `idb` the database helper with its handle,
`writes` the updates in flight, `support` the tab's decision whether to persist.
`wipe` is the deletion that logout asks for, which the browser blocks as long as a
handle is open. The code waits no longer than for the `blocked` event, at which its
promise rejects (`local-data.ts:34`); what is modelled is the deletion, which stays
pending in the browser. `job` is a headless job from attach to exit, `server` and `file`
what it is about. Y-Sweet and the browser are external. `waitForPersistedData`
looks only for the existence of the file, which is why no property says that a
finished job's write is on disk.

### 2.10 DocumentServer and SourceLinks

A request is a record with a program counter; the steps between two awaits of a
handler are actions named for the function they model (`findUserDataDocument`,
`insertUserDataDocument`, `getDocAsUpdate`, `listUserDocuments`, `updateDoc`), and
requests interleave freely.

`DocumentServer`: `documents` and `access` are tables, with the uniqueness the
schema enforces; `projection[u]` is the array in a user's document as Yjs merges
it: entries carry the request that inserted them, and a whole array set by two
requests at once keeps one. A refresh reads the projection, *then* lists the
registry, edits its copy and sends it back. Merged into one step: the query of the
grants and the awaits, one for each document, that follow it. The refresh is best
effort; of its failures, Y-Sweet's are modelled (`refreshFails`), before the update is
sent and after. A failing query of the database also ends it before the update is sent
and adds no other outcome.

`SourceLinks`: `source_servers` is the cache of clients (none, one of the
predecessor, one of the current version), `account` the linked accounts, `current`
the providers of the running auth instance, `queue` the rebuilds in the order they
were asked for. `failRebuild`, `failReady`, `waitForIdle` with `close`, and
`Restart` are the faults: a rebuild or the migrations fail, a shutdown begins with work
in the queue, a start has the database of another version. A server that is closing
serves the requests it has and runs the migrations first if nobody has; it closes the
database when nothing is queued, also when the migrations failed. Merged into one step:
the insertion of a source's row and the query that reads it again, since rows are
inserted at most once and never deleted.

---

## 3. The runs

Every run is expected to pass. What the models do against the repository's documents is
in section 4.

| run | module, cfg | states | what it answers |
|---|---|---|---|
| `collab_session` | `MCCollabSession`, `CollabSession.cfg` | 341,348 | Do provider, snapshot, ledger and waiters stay consistent under every interleaving, and does every wait end? |
| `sign_out` | `MCSignOut`, `SignOut.cfg` | 3,539,338 | Does the tab that signed out keep its own mark? |
| `sign_out_live` | `MCSignOut`, `SignOutLive.cfg` | 107,026 | Does the poll alone sign the other tab out; does every logout end? |
| `user_data` | `MCUserDataRuntime`, `UserDataRuntime.cfg` | 75,196 | Sessions owned, loads tended, lists true, data up in the end? |
| `outline` | `MCLexicalOutline`, `LexicalOutline.cfg` | 8,751 | Do the list manipulations keep the schema and the view, put the caret where it can be seen and implement the tree commands? |
| `clipboard` | `MCClipboard`, `Clipboard.cfg` | 40,586 | Is a pending cut whole or gone, and does a paste lose nothing and land in view? |
| `selection` | `MCSelectionLadder`, `SelectionLadder.cfg` | 61,876 | Does the selection stay in the view, invert, and follow the edits of others? |
| `repair` | `MCOutlineRepair`, `OutlineRepair.cfg` | 829,772 | Is every small document repaired once and for all, without loss, and keeps every first note its id? |
| `popups` | `MCPopups`, `Popups.cfg` | 1,678,235 | Does a press open at most one session, has every session its trigger and query, and does it replace what it showed? |
| `provider` | `MCDocProvider`, `DocProvider.cfg` | 191,436 | Do destroyed sessions end cleanly, and can a logout delete the database? |
| `document_server` | `MCDocumentServer`, `DocumentServer.cfg` | 2,877,409 | Do bootstraps agree, is what is listed open, does a refresh repair? |
| `source_links` | `MCSourceLinks`, `SourceLinks.cfg` | 473,559 | Do registrations stay, links answer, the queue drain and shutdowns end? |

(States are distinct states found.)

### Bounds

**`collab_session`**: two documents, one caller of `awaitSynced`, `MaxVersion =
7`. An attach takes two versions and a detach or document switch one, so seven
admit three attaches with one teardown, or an attach, a switch and back and
another attach: enough for a stale factory of either document to settle before
or after the current one, and for a document left dirty to be attached again.
Callers do not influence one another or the session (their actions change only
`phase`, `target` and `timer` of their own), so one is enough; the proofs cover any
number.

**`sign_out`**: two tabs, storage events on, one session, one marker generation,
one late call of each kind. The property is proved for every bound (section 5);
the run is the finite check of what is proved and of the invariants the proof
uses. **`sign_out_live`**: no storage events, no late calls; the poll is on its
own. Without symmetry, which is unsound for liveness.

**`user_data`**: two accounts and one source server, two generations (every
interleaving of a load with one reset), two bootstrap requests in flight (the
memo is cleared and asked for again), two runtimes per server (one unlinked under
its load, one linked again). A third generation repeats the second: a load
compares its generation only with the current one. Servers do not influence one
another except through the set of those linked.

**`outline`**: all outlines of at most four notes. Four are the least on which a
run of two notes can sit under a parent that has a sibling to move to, and a run
of two can be indented under, outdented from or moved past notes with children of
their own, so every branch of indent, outdent and move is taken by runs of more
than one. The commands compare notes for equality only, so permuting the
notes is a symmetry; the properties checked with it are invariants and step
properties (the abstract specification has no fairness).

**`clipboard`**: three notes, clipboards of up to two. A cut run of two beside its
target, a note cut from under a note that then goes, a paste in front of, into and
over a cut all occur; bodies, folds and the zoom multiply the states.
**`selection`**: three notes, ladders of up to five rungs: the inline rung, the
note, its siblings, the parent, and one that is refused at the boundary. A move by
others needs an unused key for each note it takes elsewhere, so of three notes two are
in the document when one of them moves: the view root, and a note for the caret to go
to. The theorems of section 5 hold for any number.

**`repair`**: every file of at most six items (notes, bodies, lists), three of them
notes, in a root of at most two, with one id that may occur twice and be the
document's; one merge after the load. Six items admit a list in a list behind a
note with a body, two orphaned wrappers beside each other, and a wrapper at the
start of a list, the cases the loop tells apart; the interplay of two frames needs
two lists.

**`popups`**: one note that begins as a single trigger, up to three characters and
tokens, one press of each trigger. Three places admit a trigger, a query and a token or
a second trigger beside it; the initial trigger is the one no session was pressed
for.

**`provider`**: two sessions (a shared token request, a handle of one that blocks
the deletion the other's logout asks for), two writes in flight.
**`document_server`**: two users, three requests: two that overlap and one that
runs after or alone. **`source_links`**: two users, two sources, two requests to
link, two faults.

### Fairness

No run assumes that the network works. Weak fairness is given to what the
browser, the event loop or the server's own loop guarantees.

- `CollabSession`: a factory settles (`FactorySettles`: it awaits an IndexedDB
  probe and a synchronous constructor), a settled promise resumes its callers
  (`AttachTaskSettled`), and a timer that was set fires (`ReconnectDeadline`).
  Provider events are never fair.
- `SignOut`: timers (`GateTimesOut`, `LogOutTimesOut`, the poll), posted events
  and the end of a logout. No answer ever has to come, no user ever has to act.
- `UserDataRuntime`: every fetch ends somehow, timers fire, and, because
  `DataComesUp` says something *succeeds*, a request repeated for ever succeeds in
  the end (strong fairness of `FetchAnswers`, `ContextSynced`, `SourceAnswers`,
  `SourceSynced`). The safety property `LoadsAreTended` needs no such assumption.
- `OutlineRepair`: the loop of the repair runs on (`RepairStep`): it is
  synchronous code.
- `DocProvider`: the browser finishes probes, openings, writes and unblocked
  deletions.
- `SourceLinks`: a request that is being handled is served, and its connection to
  a source answers or fails (`Handling`). A shutdown awaits the migrations and then
  closes (`ensureReady`, `close`): both are awaited by its own code.

### What the runs show

*CollabSession.* `ProviderHolds`: a factory that settles late has its provider
destroyed, and the one that lives serves the document on the page. `WaitsHold`: no
caller is left on a destroyed provider, no deadline survives its wait.
`EditsAreSafe`: the ledger has every dirty document and `synced` is truthful;
`OnlyAcksEraseMarks`: only that document's acknowledgement erases a mark;
`ResolvedMeansSaved`: a wait that resolves found everything saved. `WaitsEnd`:
waits past a close and behind an attach end; a wait begun *after* the close arms
no deadline and is not covered.

*SignOut.* `OriginatorIsMarked`: the poll of the tab that signed out never takes
the marker for another's. `PeersLeave`: without storage events, a tab in the
app leaves it once another signs out. It excludes a tab whose latch or own mark
is left over from an earlier sign-out (section 4). `LogOutCompletes`: every logout
ends though the server never answers (one that would need more marker generations
than `MaxGen` is set aside).

*UserDataRuntime.* `SessionsAreOwned`: no interleaving of loads, failures, resets
and relinking leaks a session or keeps one of an earlier generation.
`LoadsAreTended`: a store that was started and is not ready has a load that will
retry, or a retry, whoever began the load; each linked server's runtime does
exactly one thing. `ListsAreTrue`: a source lists what its present session's
document says, and subscribers were told. `DataComesUp`: both get there.

*LexicalOutline.* `SchemaHolds` after every command; `ImplementsOutline`: each is a
step of the abstract tree; `ViewHolds`: commands stay in the zoomed subtree, and
nothing but a deletion, a merge or a view command takes notes out of sight;
`CaretsStayInView`, `ArrowsSkipBodies`: the caret.

*Clipboard.* `CutStaysWhole`: whatever others do, the notes of a pending cut keep
their children and bodies, or the cut is dropped, or all of them went with a note
above. `MoveLosesNothing`: a paste moves the run as it was cut, with everything it owns.
`PastedFits`: every list stays a row of notes with what they own, also when a lost cut is
pasted over the view root; what is pasted is in the view and in no folded note (unless
the cut was lost); and children-wrappers go with their last note, but for the one a cut
was moved from.

*SelectionLadder.* `SelectionStaysInView`: no keys, clicks or edits, of whomever, select a
note outside the view, unless others have moved the view root itself and the caret has
not been placed since. `ArrowsUndoArrows`: an arrow back shows what was there before,
through siblings and hoists. `SweepFollowsEdits`: a downward sweep is replayed on the
tree as others leave it.

*OutlineRepair.* `NothingIsLost`, `OwnersStay`; `FirstNotesKeepIds`: of the
file's notes with one id exactly the first in document order keeps it, and no two notes
of the loaded document share one;
`RepairsSettle`: the loop ends, needs no second repair (which its own commit would
schedule without end), and makes nothing invalid that was not.

*Popups.* `SessionsHold`: an open session has its trigger, and the caret behind it;
`PressesOpenOnce`: none opens two, and none that was spent opens one; `ShownIsReplaced`,
`TokensFallSelected`.

*DocProvider.* `EndsAreClean`: a destroyed session never gets a socket back, its
writes keep their handle, a job that ends has its write on the server.
`LogoutCanWipe`: the deletion the browser holds back goes through once the sessions are
destroyed.

*DocumentServer.* `BootstrapsAgree`: two first bootstraps of one user name the
same documents. `ListedCanBeOpened`. `RefreshesRepair`: overlapping refreshes do
leave entries twice, or lose them; the next one that runs alone puts it right, and
none that saw the projection as it is takes a document from it.

*SourceLinks.* `RegistrationsStay`: a first link never overwrites another's
client, and rebuilds finish in order. `LinksHold`: a source in a user's list
answers with that user's account, through replacements and restarts.
`QueueDrains`: the database is closed behind the last rebuild, every request is answered,
and every shutdown ends, though rebuilds and migrations may fail.

---

## 4. Disagreements between the code and its documents

The models do what the code does; each of these is a behaviour they have and a
document or comment of the repository says otherwise. The properties above are
stated so as to hold beside them.

1. **A mark that is never dropped.** `session.ts:355-356` says a dirty document
   stays in storage "until a later provider actually acknowledges it". Teardown
   resets the edge tracker, and a provider that starts over unacknowledged edits is
   not counted as having local changes, so its acknowledgement is no edge
   (`session.ts:339`) and the key stays. Logout then asks to confirm losing edits
   the server has.
2. **A sign-out forgotten without a sign-in.** `access-control.md:42-45` says an
   undelivered revocation is retried and the device reports no session until then.
   A `getSession` already in flight when the logout writes its marker removes the
   marker with its answer (`client.ts:196`).
3. **A latch without a sign-out.** `logout-broadcast.ts:17-18` says the latch must
   clear when the marker is gone. A tab gets no event for its own removal of the
   marker; a storage event of the earlier write handled after that removal sets
   the latch, and a second sign-out within a poll interval is ignored by this tab
   for as long as its marker stands.
4. **The previous user's runtime.** `AdminRoute.tsx:62-67` says why a new sign-in
   must clear the cache and reset the runtime; only enrolment does. After a session
   ended at the server, a different user who signs in in that tab
   (`LoginRoute.tsx:41`) gets the ready runtime of the previous one.
5. **The previous user's bootstrap.** A tab signed out by another resets its
   runtime but keeps the memoised bootstrap promise (`useLogout.tsx:69-70`;
   compare `logout.ts:44`), so the next user's load opens the old user's document.
6. **A pasted cut that became invalid.** `clipboard.md:21` says pasting an
   invalidated cut does nothing; over selected notes it still deletes these
   (`ClipboardPlugin.tsx:853`). In the model: cut a child, delete its parent, paste
   onto another note, which is then gone. Over the view root the paste detaches all of
   its children (`:606-612`).
7. **Typing after Shift+Click shrinks the selection** (`snapshot.ts:217`), although
   `selection.md:118,132-133` keeps it; and the zoom root can become a rung,
   which `selection.md` excludes.
8. **Orphaned bodies and empty children lists survive the repair**
   (`normalization.ts:128`), although the validator
   (`dev/schema/traverseSerializedOutline.ts:85,115`) rejects both; an empty root
   list of another type even becomes an empty children list.
   `NothingGetsInvalid` names that exception.
9. **The note menu opens over the calendar** (`DatePlugin.tsx:162`), although
   `popups.md:13` has one popup at a time.
10. **A folded note without children.** `folding.md:28` says a note whose last
    child leaves is no longer folded; the transform looks at dirty items only, and
    a note with a body is not one of them (`FoldingPlugin.tsx:172`).
11. **Arrows and carets at hidden notes.** `body.md:45` has the arrows skip bodies
    to the next visible note: below a folded view root, whose children are shown,
    they pass them (`note-body-ops.ts:79`); and a caret after a deletion may be put
    into a note hidden by a fold (`deletion.ts:57`). `ArrowsSkipBodies` and
    `CaretsStayInView` leave these cases out, by name.
12. **An empty children-wrapper after a cut.** Moving the last child of a note away by
    cut and paste leaves its wrapper with an empty list (`ClipboardPlugin.tsx:678`), as no
    other move does (`note-ops.ts:217,244`); the validator
    (`dev/schema/traverseSerializedOutline.ts:82-87`) rejects it and the repair passes
    over it. `WrappersGoWithNotes` names the exception.
13. **A selection outside the view.** `zoom.md:24` keeps the expansion of a selection
    inside the zoom boundary. When another client moves the zoom root, the zoom follows
    its id (`ZoomPlugin.tsx:109`) and the caret stays where it was, outside; Shift+Click
    or Shift+Arrow select from there. `SelectionStaysInView` names the exception.
14. **A picker nobody opened there.** `popups.md:46-47` opens a picker only on a fresh
    keypress of its trigger. A press that waits for its character is answered by any
    update, against the nearest trigger in front of the caret
    (`useTriggerSession.tsx:200`): press `@`, another client inserts an `@` in front of the
    text, and the picker opens there before the pressed one is typed.

---

## 5. The proofs

TLAPS checks, for every value of the constants that the named assumptions allow
(any documents, callers, tabs, users, servers, notes and bounds), what follows. In
each module an invariant is found that is inductive, TLC has checked it over the
reachable states of the run of that component, and the theorems follow from it.

**`CollabSession_proofs`** (from `DocsAssumption`, `MaxVersionAssumption`):
`TypeCorrect`, `ProviderIsCurrent` (`ProviderHolds`), `WaitsAreServed`
(`WaitsHold`), `EditsAreKept` (`EditsAreSafe`) with its parts `EditsAreLedgered` and
`SyncedIsSaved`, and the action properties `WaitsResolveSaved`, `MarksNeedAcks`,
`LateFactoriesAreSilent`: every safety property of the run.

The safety invariants are not inductive. `IInv` adds three facts:

- `CurrentFactory`: no pending factory has a version above the current one, and
  one that has the current version was begun for the document the snapshot still
  names, with no provider installed yet. The code compares only versions when a
  factory settles; this is why that is enough to install no provider of a document
  that was switched away from, and none over another.
- `EdgeTracker`: while `providerHadLocalChanges` is set there is a provider with
  something outstanding that counts as local work, and the published document is
  in the ledger. Without it, `Recompute` could see no edge where there is one and
  leave a dirty document unmarked.
- `DirtyIsReported`: while a provider is installed over a dirty document, it
  reports unacknowledged edits. This is where the external provider is relied
  upon: it opens over its persisted changes with them unacknowledged.

`RecomputeEffect` states once what a recomputation does to flags and ledger,
`TeardownEffect` what a teardown does; each group of actions has one lemma
(`LifecycleKeepsInv`, `FactorySettlesKeepsInv`, `ProviderEventKeepsInv`,
`WaiterStepKeepsInv`). The action properties follow from `IInv` in the state
before the step.

**`SignOut_proofs`** (from `BoundsAssumption`): `TypeCorrect`, and `OriginIsKept`, the
invariant `OriginatorIsMarked`. With the type invariant, which says that the
tab of a superseded gate is a tab, it is inductive as it stands:
`MarksFollowMarker` shows that the marker and the origin mark are written for the
same tab in one step and that a tab loses its mark only in the step that clears
the marker; `AnswersKeepMarks` and `SessionsKeepMarks` carry that over to the
ways a call can end; every other action leaves both alone.

**`DocProvider_proofs`** (from `MaxWritesAssumption`, for any number of sessions and
writes): `DestroyedSessionsStayDown`, `HandlesOutliveWrites` and
`HeadlessWritesReachServer`, which together are `SessionsEndCleanly`, the invariant
`EndsAreClean`. `ProviderInv` adds to the first two the types and
`HelperNeedsProvider`: no database helper exists before the provider that makes it.
`JobInv` adds to the third `AckMeansServer`: a job that drains has nothing
unacknowledged only if its write is on the server. The steps of the tab and those
of the job share no variable, so each invariant needs only its own half of `Next`.

**`UserDataRuntime_proofs`** (from `RuntimeAssumption`: positive bounds, no account is
the value for nobody, and no server is called `"home"`, which names the sessions of
the user's own server): `SessionsOwned`, `LoadsTended` and `ListsTrue`, every safety
property of the run. `RuntimeInv` adds to them the types and

- `GenerationsOwnTheirLoads`: a load waits for a fetch exactly in its bootstrap
  step, loads of generations to come have not begun, and `pending`, `context` and
  `ready` say together what the present generation's load is at. The code compares
  generations only when an await returns; this says that nothing of another
  generation could have written these in between.
- `RuntimesOwnTheirChains`: a linked server's runtime was begun in the present
  generation, and a session of its own is pending exactly while its chain waits.
- `ObservedAreServed`: a document is observed in the present generation only while it
  is the one that is served. Without it a late change of a document of an ended
  session could reach the present lists.

**`SourceLinks_proofs`** (from `BoundsAssumption`, for any users, sources, requests and
failures; no row, a row without a client, and the predecessor's client are three
values): `LinksHoldAlways`, `RegistrationsStayAlways`, and `RebuildsSettleBeforeClose`,
the safety half of `QueueDrains`. `LinksInv` orders the states of a row
(`NoLaterThan`: none, then no client or the predecessor's, then the first one that
was claimed) and says

- `InstanceLags`: what the running instance has is no later than the database, and
  what a rebuild is about to put there lies between the two. This is what the
  queue is for: with it a finished rebuild can only go forward.
- `RequestsMakeProgress`: what each program counter implies about the row, above
  all that a request about to rebuild has its client in the row, and that one
  about to link finds it in the instance.
- `AccountsAreBound`: an account's tokens are of the client that the row and the
  instance both have.
- `QueueIsOrdered`: the queue holds exactly the requests that wait for a rebuild,
  once each, and only its head builds.

**`DocumentServer_proofs`** (from `RequestsAssumption` and `UsersAssumption`: users are
finitely many, which the start with old users and the cardinalities of lists need):
`BootstrapsAlwaysAgree` and `ListedCanAlwaysBeOpened`. `ServerInv` has the unique
index (`OnePerUser`), for each request that the ids it found are of the user it works
for and that what it read from the registry that user can open (`CallOK`), and for each
projection that all its entries, deleted ones included, can be opened. Tables only
grow, and what can be opened only grows with them (`OpenStays`, `CallsStay`): this is
why a list that is stale when it is sent does no harm. The data sets are
parameterised by the documents they may name (`ArraysOf(D)`, `ListsOf(D)`), so one
lemma about the merge (`MergedSound`: however Yjs places insertions, an array
over `D` merged with edits over `D` is one over `D`) serves for the types and for the
access. `SortSound` shows that the order of `sortDocumentsForUser` gives every place of
the list one document, and every document a place: ranks are injective, so by counting
they are onto.

The second half of the module proves, from the same, `RefreshesAlwaysRepair`, the action
property `RefreshesRepair`, with its halves `QuietRefreshesAreExact` and
`NothingIsEverDropped`; with the two theorems above that is every property of the run.
Both halves rest on `ExactMerge`: the merge of edits made against the array as it is
leaves exactly the listed documents, in the order of the list, each with the access
listed. Its argument goes along the code. The live entries are enumerated by their
places (`Lists`, `LiveByPlaces`); `EditSound` says that the prefix and the suffix of
`syncYjsOrderedMapArray` agree with the list and do not overlap; `PlaceIsKnown` that
with a known array Yjs has one place among the live entries for what is inserted; and
`SplicedPlaces` puts the two ends and the inserted block together. The premises come
from `RefreshInv`, which TLC checked over the reachable states of `document_server`:

- `Sound`: no two entries, deleted ones included, have both document and inserter in
  common. Yjs deletes by that identity, so with two alike a deletion would take the
  wrong entry too. That it survives a merge (`MergedIds`) needs
- `MayWrite`: a request writes to one projection at most once (a share writes to two,
  of different users), so what it inserts is not there yet; and lists without
  repetitions (`IdsOnce`, from `SortSound`).
- `ReadsOK`: what a request lists covers what it read of the projection, one query
  after the other: the projection shows only what its user can open, what can be opened
  stays so, and each of the two queries returns its share of that. This is why the
  order of the reads in `refreshUserDataProjection` matters, and all
  `NothingIsEverDropped` needs beside `ExactMerge`.

**`Popups_proofs`** (from `BoundsAssumption`, `RowsAssumption` and `NoneAssumption`, for
notes of any length, any number of presses and any rows to begin with; there must
be seven more keys than a note is long, so that a fresh one is always there):
`SessionsHoldAlways`, `PressesOpenAtMostOnce`, `CommitsReplaceWhatIsShown` and
`TokensFallOnlySelected`: every property of the run. `PopupsInv` adds that the
selection stays within the note, which the trigger and its query are found relative to;
beside it, `CalendarOverToken` says that an open calendar stands over a selected token,
which is why a press that the calendar does not stop finds no date token beside a caret.
The bulk are lemmas about sequences of keyed cells: what cutting, inserting and replacing leave of the positions of a key
(`First`), what stands between a trigger and the caret (`Scan`, `Reads`), and that a
scan after an edit finds the pinned trigger where it went.

**`SelectionLadder_proofs`** (from `NotesAssumption`, finitely many notes of which the
document root is none, and `NoneAssumption`, that no note, selection or range is the
value for none): `TreeHolds`, `ViewHolds` (`SelectionStaysInView`), `ArrowsInvert`
(`ArrowsUndoArrows`) and `FollowHolds` (`SweepFollowsEdits`): every property of the run,
for documents of any size and ladders of any length. TLC checked the three invariants
over the reachable states of `selection`.

*Trees.* `OutlineTrees` computes by recursive functions, of which TLAPS knows nothing but
that they are chosen. `IsTree` is what makes them well defined: every note has one place
(`OneOwner`), an absent one has nothing below it, and two facts that stand in for
inductions, up and down: some note of any set of owners has no child in it (`Descends`),
and some note of any set of notes has its owner outside it (`Hangs`). With `Descends`,
`SubtreeStep`, `WalkExists`, `TailStep` and `HeadsStep` show that each function exists and
satisfies its equation; the equation is enough for everything else: `SubtreeLeast`,
`SubtreeAntisym`, `SubtreeChain` and `SiblingsApart` for subtrees, `TailBelow` for tails,
and `HeadsFound`, `HeadsStretch`, `HeadsSiblings` for what a range selects: a stretch of
one owner's children. `InsertKeepsTree`, `DeleteKeepsTree`, `MoveKeepsTree` and a
renaming (`RekeyKeepsTree`: what others move has new keys) are the ways an edit changes the tree.

*`TreeInv`* adds to `IsTree` the types and that whatever could be selected later is in the
view or gone: the selection and the outline selection are in it, the ladder's anchor and
the ends of the selections that microtasks will set are in it if they are present. That
an end may be gone is what an edit between scheduling and setting does; that keys are
never used twice is why it then stays gone. Once others have moved the view root
(`strayed`) this is claimed of the document instead of the view, and again of the view from
the next click or zoom on (`Area`). One more exception is `Stale`: a caret that
zooming put elsewhere leaves the ladder behind until the next update resets it, and every
handler that reads the ladder finds that caret first (`KeyStart`).

*`SweepInv`* says what a sweep remembers: `SweptTo` the ladder is the inline rung, the
subtree rung and one arrow for each further press, the selection and the outline
selection are what that replays to, and the view before each press is the replay of one
rung less. A press back then shows the last view because `popStep` takes one rung
(`PressBack`, by `ReplayExtend`: a replay depends on the rungs below only). That the
replay of a range shows exactly that range (`ShowsPlan`, with `HeadsSiblings`) needs that
a sweep of one direction grows at one end (`StepSiblings`); that two presses never look
alike (`OutsDiffer`) keeps the history in step with the rungs.

*`FollowInv`* says that while a sweep counts as one through edits (`Follows`): no
correction is waiting; what waits to be set is the replay of the ladder on the tree as it
is; where the selection starts at the anchor, the outline selection is that replay; and
once nothing waits, so is what the selection selects. The last is what an update that is
not an edit, which derives the selection anew, needs (`NormalizeFollows`); that a ladder
of text has one selected note keeps an edit from inferring another ladder. `EditFollows`
goes through the cases of the listener: the ladder follows the tree, or the selection has
left the anchor.

None of these cites an induction theorem, whose operator parameters the provers cannot
instantiate: that a non-empty set of numbers has a least element (`LeastNat`, in the three
modules that need it) is taken from the well-foundedness of the strict subset ordering on
finite sets of the library, and arguments by steps take the least number or the lowest
note that is an exception.

---

## 6. What is only model-checked, and what is not modelled

Only model-checked:

- the liveness properties (fairness and ENABLED are out of the prover's reach);
- everything about `Outline` and `LexicalOutline` (the refinement among it), `Clipboard`
  and `OutlineRepair`. Their operators fold commands over runs of notes and flatten
  nested lists with the folds of the community modules, which are recursive operators
  with an operator as a parameter: what they compute for every input needs an induction
  the installed provers cannot carry out. What of it is about trees alone, the lemmas of
  `SelectionLadder_proofs` say, for the operators of `OutlineTrees` these modules share.

Not modelled, with reasons, component by component: see `components` in
`PROJECT.json`. In short: React and Lexical glue, layout, key matching, parsing
and formatting, I/O wrappers and deployment have no state whose order matters;
the libraries (Y-Sweet, Yjs, Better Auth, SQLite, Lexical) are external and appear
only through the way the code uses them. Two things do have such state and are
left for later: the import of an uploaded file (`PendingDocumentImportPlugin.tsx`),
whose waits `docs/legacy-backlog.md:218` describes as able to hang, and the
reconnect cycle of `OnlineGate.tsx`.

The hazards in `PROJECT.json` that name no property are behaviours of section 4:
the code has them, so no property excludes them.

---

## 7. Plan

Built, in this order: `CollabSession` with its proofs, `SignOut` with its proofs,
`UserDataRuntime`, `OutlineTrees`/`Outline`/`LexicalOutline`, `Clipboard`,
`SelectionLadder`, `OutlineRepair`, `Popups`, `DocProvider` with its proofs,
`DocumentServer`, `SourceLinks`; then the proofs about `UserDataRuntime`, `SourceLinks`,
`Popups`, `DocumentServer` and `SelectionLadder`.

Theorems to add: `CaretsStayInView` of `LexicalOutline`, which follows from the lemmas
about trees once its lists are known to hold one, and that knowledge: the steps of the
refinement that are pure rearrangements of one list, written without folds.

Modules to add: the pending import of a document against the session's snapshots;
the reconnect cycle. Parts to add: list types and checked subtrees in `Outline`;
selections over empty notes and bodies in `SelectionLadder`; a second merge in
`OutlineRepair`.
