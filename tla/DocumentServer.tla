--------------------------- MODULE DocumentServer ---------------------------
(***************************************************************************)
(* The document routes of the RemDo API (src/server/routes/documents.ts,   *)
(* routes/current-user.ts) over the registry in SQLite and the user-data   *)
(* documents in Y-Sweet.  Requests interleave at every await.  The registry*)
(* is authoritative; each user's user-data document holds a projection of  *)
(* the list of documents, which a request refreshes by reading the Yjs     *)
(* document, listing the registry, editing the array of entries locally    *)
(* and sending its whole state back, where Yjs merges it.                  *)
(*                                                                         *)
(* A document's id is its position in the table, so ids are fresh and in   *)
(* order of creation; the retry on a colliding random id is left out.      *)
(* Titles and names do not change and are left out.  Rows of documents and *)
(* grants are never deleted by the code.                                   *)
(***************************************************************************)
EXTENDS Naturals, FiniteSets, SequencesExt

CONSTANTS Users, MaxRequests   \* MaxRequests bounds the requests of a behaviour

ASSUME RequestsAssumption == MaxRequests \in Nat \ {0}
ASSUME UsersAssumption == IsFiniteSet(Users)

Requests == 1..MaxRequests

VARIABLES documents,   \* the table of documents, in order of creation
          access,      \* the table of grants: pairs of a document and a user
          projection,  \* per user, the array in the user-data document
          request      \* what each request is doing

vars == <<documents, access, projection, request>>

Kinds == {"document", "home-document", "user-data-projection"}

\* An array that was never set, and the entries of an array: the document, the
\* request that inserted it (with the document, its identity for Yjs), whether
\* it is still there, and whom its access list names.
NoArray == [array |-> 0, entries |-> <<>>]
Entry(d, r, grants) == [doc |-> d, by |-> r, live |-> TRUE, access |-> grants]

\* A request works on the projection of the user `of`; `data` and `home` are the
\* ids it found for that user, and `doc` is the document it made or shares.
NoRequest == [op |-> "none", pc |-> "idle", user |-> "none", peer |-> "none", of |-> "none",
              doc |-> 0, data |-> 0, home |-> 0, base |-> NoArray, owned |-> {}, list |-> <<>>]

\* Some users were here before: they have their two documents, and a projection
\* that shows the home document.
Init ==
    \E old \in SUBSET Users :
      LET us == SetToSeq(old)
          rows(kind) == [i \in 1..Cardinality(old) |-> [owner |-> us[i], kind |-> kind]]
      IN  /\ documents = rows("user-data-projection") \o rows("home-document")
          /\ access = {}
          /\ projection = [u \in Users |->
                IF u \in old THEN [array |-> MaxRequests + 1,
                                   entries |-> <<Entry(CHOOSE d \in DOMAIN documents :
                                                         documents[d] = [owner |-> u, kind |-> "home-document"],
                                                       MaxRequests + 1, {})>>]
                ELSE NoArray]
          /\ request = [r \in Requests |-> NoRequest]
-----------------------------------------------------------------------------
(* The registry: document-registry.ts                                      *)

\* getUserDocumentByKind, as a set of at most one.
getUserDocumentByKind(u, kind) ==
    {d \in DOMAIN documents : documents[d] = [owner |-> u, kind |-> kind]}

getDocumentAccessForGrantee(d, u) == <<d, u>> \in access

\* The two queries of listUserDocuments.
OwnedRows(u) ==
    {d \in DOMAIN documents : documents[d].owner = u /\ documents[d].kind \in Kinds \ {"user-data-projection"}}

SharedRows(u) ==
    {d \in DOMAIN documents : /\ getDocumentAccessForGrantee(d, u)
                              /\ documents[d].owner # u /\ documents[d].kind = "document"}

\* sortDocumentsForUser: the home document, the user's own, the shared ones.
sortDocumentsForUser(u, S) ==
    LET order(d) == IF documents[d].kind = "home-document" THEN 0
                    ELSE IF documents[d].owner = u THEN 1 ELSE 2
        before(d) == {e \in S : order(e) < order(d) \/ (order(e) = order(d) /\ e < d)}
    IN  [i \in 1..Cardinality(S) |-> CHOOSE d \in S : Cardinality(before(d)) = i - 1]

listDocumentAccessForOwner(d, u) ==
    IF documents[d].owner = u THEN {v \in Users : getDocumentAccessForGrantee(d, v)} ELSE {}

Listed(u) == sortDocumentsForUser(u, OwnedRows(u) \cup SharedRows(u))

\* resolveDocumentAccess of collab-token.ts: the authorization of a client token.
\* Mutant: a grant is not looked at.
authorizationForOwners(u, d) ==
    IF documents[d].owner # u THEN "denied"
    ELSE IF documents[d].kind = "user-data-projection" THEN "read-only" ELSE "full"

resolveDocumentAccess(u, d) ==
    IF documents[d].owner = u
    THEN IF documents[d].kind = "user-data-projection" THEN "read-only" ELSE "full"
    ELSE IF documents[d].kind = "document" /\ getDocumentAccessForGrantee(d, u) THEN "full"
    ELSE "denied"
-----------------------------------------------------------------------------
(* The projection: projection/yjs-ordered-map-array.ts and Yjs             *)

\* The entries that were not deleted, in their order.
Live(entries) ==
    LET there == {i \in DOMAIN entries : entries[i].live}
        rank(i) == Cardinality({j \in there : j <= i})
    IN  [k \in 1..Cardinality(there) |-> entries[CHOOSE i \in there : rank(i) = k]]

Keys(entries) == [i \in DOMAIN Live(entries) |-> Live(entries)[i].doc]
Id(e) == <<e.doc, e.by>>

\* How many leading entries of a sequence of keys are in place.
CommonPrefix(a, b) ==
    Cardinality({n \in 1..Len(b) : n <= Len(a) /\ SubSeq(a, 1, n) = SubSeq(b, 1, n)})

\* syncYjsOrderedMapArray against the array's state as it was read: the entries
\* it deletes, and the documents it inserts behind the first `prefix` entries.
\* Mutant: the suffix may overlap the prefix.
syncOverlapping(entries, list) ==
    LET keys == Keys(entries)
        prefix == CommonPrefix(keys, list)
        suffix == CommonPrefix(Reverse(keys), Reverse(list))
    IN  [prefix |-> prefix,
         deleted |-> {Id(Live(entries)[i]) : i \in (prefix + 1)..(Len(keys) - suffix)},
         inserted |-> SubSeq(list, prefix + 1, Len(list) - suffix)]

syncYjsOrderedMapArray(entries, list) ==
    LET keys == Keys(entries)
        prefix == CommonPrefix(keys, list)
        rest(s) == Reverse(SubSeq(s, prefix + 1, Len(s)))
        suffix == CommonPrefix(rest(keys), rest(list))
    IN  [prefix |-> prefix,
         deleted |-> {Id(Live(entries)[i]) : i \in (prefix + 1)..(Len(keys) - suffix)},
         inserted |-> SubSeq(list, prefix + 1, Len(list) - suffix)]

\* Where Yjs may put items inserted behind the first `prefix` live entries of
\* base: behind the entry they were inserted after and before the item that
\* followed it there, in any order with the insertions of others in between,
\* but never inside one of those.
Places(base, prefix, now) ==
    LET after == {i \in DOMAIN now : prefix > 0 /\ Id(now[i]) = Id(Live(base)[prefix])}
        left == IF after = {} THEN 0 ELSE CHOOSE i \in after : TRUE
        known == {Id(base[i]) : i \in DOMAIN base}
    IN  {i \in left..Len(now) :
            /\ \A j \in (left + 1)..i : Id(now[j]) \notin known
            /\ \/ i = left \/ i = Len(now)
               \/ Id(now[i + 1]) \in known \/ now[i].by # now[i + 1].by}

\* The array after the edits of request r reach Y-Sweet.  The key of the array
\* is a last-writer-wins register: of two arrays that were set without knowing
\* of each other, either stays, and edits of the other are lost with it.
Merged(r, base, listed, now) ==
    LET list == [i \in DOMAIN listed |-> listed[i].id]
        grants(d) == UNION {x.access : x \in {y \in ToSet(listed) : y.id = d}}
        edit == syncYjsOrderedMapArray(base.entries, list)
        block == [i \in DOMAIN edit.inserted |-> Entry(edit.inserted[i], r, grants(edit.inserted[i]))]
        known(e) == \E i \in DOMAIN base.entries : Id(base.entries[i]) = Id(e)
        kept == [i \in DOMAIN now.entries |->
                   IF Id(now.entries[i]) \in edit.deleted THEN [now.entries[i] EXCEPT !.live = FALSE]
                   ELSE IF known(now.entries[i]) /\ now.entries[i].live
                   THEN [now.entries[i] EXCEPT !.access = @ \cup grants(now.entries[i].doc)]
                   ELSE now.entries[i]]
    IN  IF base.array = 0
        THEN {[array |-> r, entries |-> block]} \cup (IF now.array = 0 THEN {} ELSE {now})
        ELSE IF base.array # now.array THEN {now}
        ELSE {[now EXCEPT !.entries = SubSeq(kept, 1, i) \o block \o SubSeq(kept, i + 1, Len(kept))] :
                 i \in Places(base.entries, edit.prefix, now.entries)}
-----------------------------------------------------------------------------
(* Requests: every action is the code between two awaits.  A request that  *)
(* the database or a restart of the server cuts off takes no further step.  *)

Step(r, q) == request' = [request EXCEPT ![r] = q]

\* A request arrives: the bootstrap of a user, a new document, or sharing one.
Arrive(r) ==
    /\ request[r].pc = "idle" /\ \A q \in Requests : q < r => request[q].pc # "idle"
    /\ \E u \in Users :
         \/ \E op \in {"bootstrap", "create"} :
              Step(r, [NoRequest EXCEPT !.op = op, !.pc = "find-data", !.user = u, !.of = u])
         \/ \E v \in Users, d \in DOMAIN documents :
              Step(r, [NoRequest EXCEPT !.op = "share", !.pc = "grant", !.user = u, !.of = u, !.peer = v, !.doc = d])
    /\ UNCHANGED <<documents, access, projection>>

\* POST /:docId/access up to the grant; then both projections are refreshed.
grantDocumentAccess(r) ==
    LET q == request[r]
        allowed == documents[q.doc] = [owner |-> q.user, kind |-> "document"] /\ q.peer # q.user
    IN  /\ q.pc = "grant"
        /\ Step(r, [q EXCEPT !.pc = IF allowed THEN "find-data" ELSE "done"])
        /\ access' = IF allowed THEN access \cup {<<q.doc, q.peer>>} ELSE access
        /\ UNCHANGED <<documents, projection>>

\* What follows the two special documents: the new document, or the refresh.
AfterHome(q) == IF q.op = "create" /\ q.doc = 0 THEN "insert" ELSE "open"

\* ensureUserSpecialDocument looks for the document first ...
findUserDataDocument(r) ==
    LET q == request[r]  found == getUserDocumentByKind(q.of, "user-data-projection") IN
    /\ q.pc = "find-data"
    /\ \/ found = {} /\ Step(r, [q EXCEPT !.pc = "insert-data"])
       \/ \E d \in found : Step(r, [q EXCEPT !.pc = "find-home", !.data = d])
    /\ UNCHANGED <<documents, access, projection>>

findHomeDocument(r) ==
    LET q == request[r]  found == getUserDocumentByKind(q.of, "home-document") IN
    /\ q.pc = "find-home"
    /\ \/ found = {} /\ Step(r, [q EXCEPT !.pc = "insert-home"])
       \/ \E d \in found : Step(r, [q EXCEPT !.pc = AfterHome(q), !.home = d])
    /\ UNCHANGED <<documents, access, projection>>

\* ... and inserts it otherwise, unless another request did so meanwhile: the
\* unique index on owner and special kind makes the insert do nothing, and the
\* row that is there is taken.
\* Mutant: the index is missing.
insertWithoutIndex(u, kind) == documents' = Append(documents, [owner |-> u, kind |-> kind])

insertSpecialDocument(u, kind) ==
    documents' = IF getUserDocumentByKind(u, kind) = {}
                 THEN Append(documents, [owner |-> u, kind |-> kind]) ELSE documents

SpecialDocument(table, u, kind) ==
    CHOOSE d \in DOMAIN table : table[d] = [owner |-> u, kind |-> kind] /\ (d > Len(documents) \/ table = documents)

insertUserDataDocument(r) ==
    LET q == request[r] IN
    /\ q.pc = "insert-data"
    /\ insertSpecialDocument(q.of, "user-data-projection")
    /\ Step(r, [q EXCEPT !.pc = "find-home", !.data = SpecialDocument(documents', q.of, "user-data-projection")])
    /\ UNCHANGED <<access, projection>>

insertHomeDocument(r) ==
    LET q == request[r] IN
    /\ q.pc = "insert-home"
    /\ insertSpecialDocument(q.of, "home-document")
    /\ Step(r, [q EXCEPT !.pc = AfterHome(q), !.home = SpecialDocument(documents', q.of, "home-document")])
    /\ UNCHANGED <<access, projection>>

\* createUserDocument's own row; its refresh finds the special documents again.
createUserDocumentRecord(r) ==
    LET q == request[r] IN
    /\ q.pc = "insert"
    /\ documents' = Append(documents, [owner |-> q.user, kind |-> "document"])
    /\ Step(r, [q EXCEPT !.pc = "find-data", !.doc = Len(documents) + 1])
    /\ UNCHANGED <<access, projection>>

\* refreshUserDataProjection: the Yjs document, then the two queries of the list
\* (the grants of each document are read with the second), then the write.
getDocAsUpdate(r) ==
    /\ request[r].pc = "open"
    /\ Step(r, [request[r] EXCEPT !.pc = "list-owned", !.base = projection[request[r].of]])
    /\ UNCHANGED <<documents, access, projection>>

listOwnedDocuments(r) ==
    /\ request[r].pc = "list-owned"
    /\ Step(r, [request[r] EXCEPT !.pc = "list-shared", !.owned = OwnedRows(request[r].of)])
    /\ UNCHANGED <<documents, access, projection>>

listUserDocuments(r) ==
    LET q == request[r]
        ids == sortDocumentsForUser(q.of, q.owned \cup SharedRows(q.of))
    IN  /\ q.pc = "list-shared"
        /\ Step(r, [q EXCEPT !.pc = "update",
                   !.list = [i \in DOMAIN ids |-> [id |-> ids[i], access |-> listDocumentAccessForOwner(ids[i], q.of)]]])
        /\ UNCHANGED <<documents, access, projection>>

\* After a refresh, and after a failed one where failure is tolerated: a share
\* goes on with the projection of the grantee, the others answer.
Refreshed(q) ==
    LET rest == [q EXCEPT !.base = NoArray, !.owned = {}, !.list = <<>>] IN
    IF q.op = "share" /\ q.of = q.user THEN [rest EXCEPT !.pc = "find-data", !.of = q.peer, !.data = 0, !.home = 0]
    ELSE [rest EXCEPT !.pc = "answered"]

updateDoc(r) ==
    LET q == request[r] IN
    /\ q.pc = "update"
    /\ \E p \in Merged(r, q.base, q.list, projection[q.of]) : projection' = [projection EXCEPT ![q.of] = p]
    /\ Step(r, Refreshed(q))
    /\ UNCHANGED <<documents, access>>

\* Y-Sweet fails, before or after it took the update: refreshes of a create or a
\* share are best effort, a bootstrap answers with an error. A query of the refresh
\* may fail as well, and the best effort swallows that too: the step is left out,
\* it leaves what a failure of Y-Sweet before the update leaves.
refreshFails(r) ==
    LET q == request[r] IN
    /\ q.pc \in {"open", "update"}
    /\ Step(r, IF q.op = "bootstrap" THEN [q EXCEPT !.pc = "done", !.base = NoArray, !.owned = {}, !.list = <<>>]
               ELSE Refreshed(q))
    /\ \/ UNCHANGED projection
       \/ /\ q.pc = "update"
          /\ \E p \in Merged(r, q.base, q.list, projection[q.of]) : projection' = [projection EXCEPT ![q.of] = p]
    /\ UNCHANGED <<documents, access>>

Next ==
    \E r \in Requests :
        \/ Arrive(r) \/ grantDocumentAccess(r)
        \/ findUserDataDocument(r) \/ insertUserDataDocument(r)
        \/ findHomeDocument(r) \/ insertHomeDocument(r) \/ createUserDocumentRecord(r)
        \/ getDocAsUpdate(r) \/ listOwnedDocuments(r) \/ listUserDocuments(r)
        \/ updateDoc(r) \/ refreshFails(r)

Spec == Init /\ [][Next]_vars
-----------------------------------------------------------------------------
(* Properties                                                              *)

\* Two bootstraps of a user, however they interleave, name the same two
\* documents (ensureUserSpecialDocument looks and inserts in two steps).
BootstrapsAgree ==
    \A r, q \in Requests :
        request[r].of = request[q].of =>
            /\ request[r].data # 0 /\ request[q].data # 0 => request[r].data = request[q].data
            /\ request[r].home # 0 /\ request[q].home # 0 => request[r].home = request[q].home

\* Whatever a projection shows, its user gets a token for with the whole document
\* (the list and resolveDocumentAccess ask the registry separately), and the
\* projection's own document is not among it.
ListedCanBeOpened ==
    \A u \in Users : \A e \in ToSet(projection[u].entries) :
        e.live => resolveDocumentAccess(u, e.doc) = "full"

\* Overlapping refreshes leave entries twice, or lose them; a refresh that has the
\* projection and the registry to itself repairs whatever it found
\* (documents/current-user.ts:195).
QuietRefreshIsExact ==
    [][\A r \in Requests :
         LET q == request[r]
             shown == Live(projection'[q.of].entries)
             alone == q.base = projection[q.of] /\ [i \in DOMAIN q.list |-> q.list[i].id] = Listed(q.of)
         IN  q.pc = "update" /\ request'[r] = Refreshed(q) /\ q.op = "bootstrap" /\ alone =>
               /\ [i \in DOMAIN shown |-> shown[i].doc] = Listed(q.of)
               /\ \A i \in DOMAIN q.list : q.list[i].access \subseteq shown[i].access]_vars

\* A refresh that knows the projection as it stands drops no document from it,
\* however stale its list: the list is read after the projection and only grows.
NothingIsDropped ==
    [][\A r \in Requests :
         LET q == request[r] IN
         q.pc = "update" /\ request'[r] # q /\ q.base = projection[q.of] =>
            ToSet(Keys(projection[q.of].entries)) \subseteq ToSet(Keys(projection'[q.of].entries))]_vars

\* What overlapping refreshes did wrong the next undisturbed one puts right, and
\* no refresh that saw the projection takes a document from it.
RefreshesRepair == QuietRefreshIsExact /\ NothingIsDropped
=============================================================================
