---------------------------- MODULE DocProvider ----------------------------
(***************************************************************************)
(* The provider of one document: what createProviderFactory of             *)
(* src/collaboration/runtime.ts builds around the Y-Sweet client, the      *)
(* guard of its IndexedDB helper (y-sweet-indexeddb-lifecycle.ts), and the *)
(* headless job that reads or writes a document over a session             *)
(* (src/headless/collab-session.ts).                                       *)
(*                                                                         *)
(* Several sessions of one tab may hold the same document, one after the   *)
(* other or at once: they share the token request in flight, the database  *)
(* and the answer whether the browser can persist at all.  Everything of   *)
(* Y-Sweet and of the browser is external: its connect loop asks for a     *)
(* token and opens a socket with it, or complains and asks again; its      *)
(* IndexedDB helper appears some time after the provider; a database       *)
(* cannot be deleted while a handle of it is open.                         *)
(***************************************************************************)
EXTENDS Naturals, FiniteSets

CONSTANTS Sessions,    \* sessions that hold the document
          MaxWrites    \* bound: writes in flight per session

ASSUME MaxWritesAssumption == MaxWrites \in Nat

VARIABLES support,    \* localPersistenceSupportDecisionPromise
          stage,      \* per session: where its provider is
          loop,       \* per session: the connect loop of Y-Sweet
          fetching,   \* docTokenInFlight has an entry
          idb,        \* per session: the IndexedDB helper and its handle
          writes,     \* per session: activeUpdates
          store,      \* the database has its "updates" store
          wipe,       \* a deletion of the database: "no", "asked", "done"
          job,        \* the headless job: its phase, what it wrote and what is acknowledged
          server,     \* the sync server holds the job's write
          file        \* data.ysweet: "none", "old", or "new" with the job's write

docVars == <<support, stage, loop, fetching, idb, writes, store, wipe>>
jobVars == <<job, server, file>>
vars == <<docVars, jobVars>>

Handles == {s \in Sessions : idb[s] \in {"open", "closing"}}

Init == /\ support = "unknown"
        /\ stage = [s \in Sessions |-> "idle"]
        /\ loop = [s \in Sessions |-> "off"]
        /\ fetching = FALSE
        /\ idb = [s \in Sessions |-> "none"]
        /\ writes = [s \in Sessions |-> 0]
        /\ store = TRUE /\ wipe = "no"
        /\ job = [at |-> "attach", synced |-> FALSE, unacked |-> FALSE]
        /\ server = FALSE /\ file \in {"none", "old"}
-----------------------------------------------------------------------------
(* Making a provider                                                       *)

\* The factory awaits the decision; the first call of the tab starts the probe.
Make(s) ==
    /\ stage[s] = "idle"
    /\ stage' = [stage EXCEPT ![s] = "deciding"]
    /\ support' = IF support = "unknown" THEN "probing" ELSE support
    /\ UNCHANGED <<loop, fetching, idb, writes, store, wipe>>

\* evaluateLocalPersistenceSupportDecision: IndexedDB is missing, cannot be
\* opened, or the browser has no key generation; or it works.
Decide ==
    /\ support = "probing"
    /\ support' \in {"yes", "no"}
    /\ UNCHANGED <<stage, loop, fetching, idb, writes, store, wipe>>

\* createYjsProvider, guarded; CollabSession connects it.
Create(s) ==
    /\ stage[s] = "deciding" /\ support \in {"yes", "no"}
    /\ stage' = [stage EXCEPT ![s] = "live"]
    /\ idb' = [idb EXCEPT ![s] = IF support = "yes" THEN "opening" ELSE "none"]
    /\ loop' = [loop EXCEPT ![s] = "retry"]
    /\ UNCHANGED <<support, fetching, writes, store, wipe>>
-----------------------------------------------------------------------------
(* Connecting                                                              *)

\* provider.connect, which a destroyed session has replaced.  getAuthToken
\* joins the request in flight.
Connect(s) ==
    /\ stage[s] = "live" /\ loop[s] = "retry"
    /\ loop' = [loop EXCEPT ![s] = "asking"]
    /\ fetching' = TRUE
    /\ UNCHANGED <<support, stage, idb, writes, store, wipe>>

\* authEndpoint and settleUnlessDestroyed: after destroy neither a token nor an
\* error; else the loop opens a socket, or warns and asks again.
Settled(s, ok) == IF stage[s] = "destroyed" THEN "parked" ELSE IF ok THEN "open" ELSE "retry"

FetchSettles(ok) ==
    /\ fetching /\ fetching' = FALSE
    /\ loop' = [s \in Sessions |-> IF loop[s] = "asking" THEN Settled(s, ok) ELSE loop[s]]
    /\ UNCHANGED <<support, stage, idb, writes, store, wipe>>

\* The network.
SocketCloses(s) ==
    /\ loop[s] = "open"
    /\ loop' = [loop EXCEPT ![s] = "retry"]
    /\ UNCHANGED <<support, stage, fetching, idb, writes, store, wipe>>
-----------------------------------------------------------------------------
(* The IndexedDB helper                                                    *)

\* Mutant: the handle is closed as soon as the session is destroyed.
FinalizedAtOnce(s) == "closed"

\* maybeFinalizeDestroy, with closing set: the handle waits for the writes.
Finalized(s) == IF writes[s] = 0 THEN "closed" ELSE "closing"

\* Mutant: a helper that appears late is left to itself.
AppearsOpen(s) == "open"

\* The setter of indexedDBProvider: one that appears after the session was
\* destroyed is destroyed on arrival.
Appears(s) == IF stage[s] = "destroyed" THEN Finalized(s) ELSE "open"

\* Y-Sweet has opened the database.
HelperAppears(s) ==
    /\ idb[s] = "opening"
    /\ idb' = [idb EXCEPT ![s] = Appears(s)]
    /\ UNCHANGED <<support, stage, loop, fetching, writes, store, wipe>>

\* wrappedHandleUpdate, for a local or a received update.
Edit(s) ==
    /\ idb[s] = "open" /\ store /\ writes[s] < MaxWrites
    /\ writes' = [writes EXCEPT ![s] = @ + 1]
    /\ UNCHANGED <<support, stage, loop, fetching, idb, store, wipe>>

\* The write settles, with or without success.
WriteSettles(s) ==
    /\ writes[s] > 0
    /\ writes' = [writes EXCEPT ![s] = @ - 1]
    /\ idb' = IF idb[s] = "closing" /\ writes[s] = 1 THEN [idb EXCEPT ![s] = "closed"] ELSE idb
    /\ UNCHANGED <<support, stage, loop, fetching, store, wipe>>

\* The provider's destroy: the connect loop is cut off, the socket closed, the
\* helper destroyed.  A loop that waits for a token waits on.
Destroy(s) ==
    /\ stage[s] = "live"
    /\ stage' = [stage EXCEPT ![s] = "destroyed"]
    /\ loop' = [loop EXCEPT ![s] = IF @ = "asking" THEN "asking" ELSE "off"]
    /\ idb' = [idb EXCEPT ![s] = IF @ = "open" THEN Finalized(s) ELSE @]
    /\ UNCHANGED <<support, fetching, writes, store, wipe>>

\* Clear-Site-Data or an eviction takes the store from under every handle.
Evict ==
    /\ store /\ store' = FALSE
    /\ UNCHANGED <<support, stage, loop, fetching, idb, writes, wipe>>

\* Logout asks for the deletion of the database: blocked while a handle is open.
\* The code's own wait ends at once with the blocked event (it rejects); the
\* deletion stays pending in the browser, and that is what is modelled.
AskWipe ==
    /\ wipe = "no" /\ wipe' = "asked"
    /\ UNCHANGED <<support, stage, loop, fetching, idb, writes, store>>

Wiped ==
    /\ wipe = "asked" /\ Handles = {}
    /\ wipe' = "done" /\ store' = TRUE
    /\ UNCHANGED <<support, stage, loop, fetching, idb, writes>>
-----------------------------------------------------------------------------
(* withHeadlessCollabSession, waiting for the data to be persisted         *)

\* waitForSync's ready.
Ready == job.synced /\ ~job.unacked

Attach == job.at = "attach" /\ job' = [job EXCEPT !.at = "sync"] /\ UNCHANGED <<server, file>>

\* awaitSynced, then the state of the document is taken into the editor.
Hydrate == job.at = "sync" /\ Ready /\ job' = [job EXCEPT !.at = "run"] /\ UNCHANGED <<server, file>>

\* run(editor): it writes, or only reads.
RunWrites ==
    /\ job.at = "run"
    /\ job' = [job EXCEPT !.at = "drain", !.unacked = TRUE]
    /\ UNCHANGED <<server, file>>
RunReads ==
    /\ job.at = "run"
    /\ job' = [job EXCEPT !.at = "read"]
    /\ UNCHANGED <<server, file>>

\* The second awaitSynced, then finally: the session is destroyed.
Drain ==
    /\ job.at = "drain" /\ Ready
    /\ job' = [job EXCEPT !.at = "persist"]
    /\ UNCHANGED <<server, file>>

\* waitForPersistedData polls for the file, up to a deadline.
Persisted ==
    /\ job.at = "persist" /\ file # "none"
    /\ job' = [job EXCEPT !.at = "done"]
    /\ UNCHANGED <<server, file>>

\* An error of the connection, or a deadline: the job rejects.
JobFails ==
    /\ job.at \notin {"done", "failed", "read"}
    /\ job' = [job EXCEPT !.at = "failed"]
    /\ UNCHANGED <<server, file>>

\* The session's provider.
JobSyncs ==
    /\ job.at \in {"sync", "run", "drain"} /\ ~job.synced
    /\ job' = [job EXCEPT !.synced = TRUE]
    /\ UNCHANGED <<server, file>>
JobAcked ==
    /\ job.at \in {"run", "drain"} /\ job.unacked
    /\ job' = [job EXCEPT !.unacked = FALSE]
    /\ server' = TRUE /\ UNCHANGED file
JobCloses ==
    /\ job.at \in {"sync", "run", "drain"} /\ job.synced
    /\ job' = [job EXCEPT !.synced = FALSE]
    /\ UNCHANGED <<server, file>>

\* The sync server writes the document to disk when it comes to it.
Flush == server /\ file # "new" /\ file' = "new" /\ UNCHANGED <<job, server>>
-----------------------------------------------------------------------------
Browser == \/ Decide
           \/ \E ok \in BOOLEAN : FetchSettles(ok)
           \/ \E s \in Sessions : SocketCloses(s) \/ HelperAppears(s) \/ WriteSettles(s)
           \/ Evict \/ AskWipe \/ Wiped

Client == \E s \in Sessions : Make(s) \/ Create(s) \/ Connect(s) \/ Edit(s) \/ Destroy(s)

Job == \/ Attach \/ Hydrate \/ RunWrites \/ RunReads \/ Drain \/ Persisted \/ JobFails
       \/ JobSyncs \/ JobAcked \/ JobCloses \/ Flush

Next == \/ (Browser \/ Client) /\ UNCHANGED jobVars
        \/ Job /\ UNCHANGED docVars

Spec == Init /\ [][Next]_vars

\* The browser answers: a probe, an opening, a write and a deletion end.
Fairness == /\ WF_vars(Decide /\ UNCHANGED jobVars)
            /\ \A s \in Sessions : /\ WF_vars(HelperAppears(s) /\ UNCHANGED jobVars)
                                   /\ WF_vars(WriteSettles(s) /\ UNCHANGED jobVars)
            /\ WF_vars(Wiped /\ UNCHANGED jobVars)

FairSpec == Spec /\ Fairness
-----------------------------------------------------------------------------
(* Properties                                                              *)

TypeOK ==
    /\ stage \in [Sessions -> {"idle", "deciding", "live", "destroyed"}]
    /\ loop \in [Sessions -> {"off", "retry", "asking", "parked", "open"}]
    /\ idb \in [Sessions -> {"none", "opening", "open", "closing", "closed"}]
    /\ writes \in [Sessions -> Nat]

\* A destroyed session never gets a socket back and never complains of a failed
\* token, although the request it waits for is shared with sessions that live on
\* and may end at any time (settleUnlessDestroyed).
DestroyedStaysDown ==
    \A s \in Sessions : stage[s] = "destroyed" => loop[s] \in {"off", "asking", "parked"}

\* The handle of the database is open for as long as a write over it is under
\* way, whenever the session is destroyed (maybeFinalizeDestroy).
WritesKeepTheirHandle ==
    \A s \in Sessions : writes[s] > 0 => idb[s] \in {"open", "closing"}

\* Once the sessions are destroyed, the deletion of the database that logout
\* asks for goes through: no helper stays behind with an open handle, not even
\* one that appeared after its session was destroyed.
LogoutCanWipe ==
    (wipe = "asked" /\ \A s \in Sessions : stage[s] = "destroyed") ~> (wipe = "done")

\* A headless job that wrote and got as far as waiting for the disk has its
\* write on the sync server, through any number of lost connections.
WriteReachesServer == job.at \in {"persist", "done"} => server

\* A session that is destroyed, by its tab or at the end of its job, stays down
\* and lets its writes finish.
EndsAreClean == DestroyedStaysDown /\ WritesKeepTheirHandle /\ WriteReachesServer
=============================================================================
