-------------------------- MODULE UserDataRuntime --------------------------
(***************************************************************************)
(* The user-data runtime of one tab: the memoised bootstrap                *)
(* (current-user-bootstrap.ts), the store that turns it into a live        *)
(* collaboration session on the user's data document, with one more        *)
(* session per linked source server (stored-user-data.ts), and everything  *)
(* that starts, resets or invalidates it: mounting the app, retries, sign- *)
(* in, enrolment, logout here, logout in another tab, an ended session.    *)
(*                                                                         *)
(* A JavaScript step between two awaits is one action; a chain of promise  *)
(* callbacks that waits for nothing external is part of the step that      *)
(* settles it.  A fetch is sent with the cookie of the moment and may be   *)
(* answered, refused or lost much later, when reset has long replaced the  *)
(* load that asked for it.                                                 *)
(*                                                                         *)
(* Of the projected collections the model keeps which servers are linked,  *)
(* and per source which documents the store lists and from which session's *)
(* document it read them.                                                  *)
(***************************************************************************)
EXTENDS Naturals, FiniteSets

CONSTANTS Accounts,
          Nobody,       \* no account
          Servers,      \* source servers that may be linked
          OtherTabs,    \* may another tab of this browser sign out?
          SessionsEnd,  \* may the server end a session on its own?
          MaxGen,       \* bound on the store's generations
          MaxFetches,   \* bound on bootstrap fetches in flight
          MaxRuntimes   \* bound on runtimes of one source with work in flight

ASSUME RuntimeAssumption ==
    /\ Nobody \notin Accounts /\ "home" \notin Servers
    /\ OtherTabs \in BOOLEAN /\ SessionsEnd \in BOOLEAN
    /\ MaxGen \in Nat \ {0} /\ MaxFetches \in Nat \ {0} /\ MaxRuntimes \in Nat \ {0}

VARIABLES
    signedIn,   \* the account the session cookie stands for
    known,      \* localStorage remdo-authenticated-session
    signedOut,  \* a sign-out of this device is pending or done
    stored,     \* whose bootstrap localStorage caches
    mounted,    \* is the authenticated app shown?
    memo,       \* bootstrapPromise: the fetch it waits for, or whose it is
    fetch,      \* GET /api/current-user in flight, and who sent it
    generation, \* the store's generation
    load,       \* each generation's loadUserData
    docOf,      \* whose data document each generation opened last
    ready,
    context,    \* the generation whose session is the store's context, or 0
    pending,    \* the same for pendingContextSession
    retry,      \* startupRetry.scheduled
    started,    \* history: start() was called in this generation
    linked,     \* the source servers last read from the projection
    remote,     \* remoteSources
    chain,      \* loadRemoteSource of each runtime
    live,       \* collaboration sessions created and not destroyed
    listed,     \* per source, the documents its collection gives, and from where
    observed,   \* documents whose updates the store observes, and since when
    shown       \* what subscribers read when the version was last bumped

accountVars == <<signedIn, known, signedOut>>
cacheVars == <<stored, memo, fetch>>
storeVars == <<generation, load, docOf, ready, context, pending, retry, started>>
remoteVars == <<linked, remote, chain>>
listVars == <<listed, observed, shown>>
vars == <<accountVars, mounted, cacheVars, storeVars, remoteVars, live, listVars>>

Someone == Accounts \cup {Nobody}
Gens == 1..MaxGen
Fetches == 1..MaxFetches
Runtimes == 1..MaxRuntimes

\* A session is named by the load that opened it: the generation's for the
\* user's own document, the runtime's for a source server.
HomeSession(g) == <<"home", g>>
SourceSession(s, i) == <<s, i>>
Sessions == ({"home"} \X Gens) \cup (Servers \X Runtimes)

NoMemo == [fetch |-> 0, acct |-> Nobody]
NoFetch == [open |-> FALSE, by |-> Nobody]
IdleLoad == [pc |-> "idle", fetch |-> 0, starter |-> FALSE]
NoRuntime == [id |-> 0, loading |-> FALSE, retry |-> FALSE, pending |-> FALSE, context |-> FALSE]
IdleChain == [pc |-> "idle", gen |-> 0]
NoList == [from |-> HomeSession(0), docs |-> {}]

\* What the array of documents in a user's data document may hold: nothing yet,
\* the home document, another one with it, or entries that cannot be read. A list
\* that can be read and lacks the home document is left out: the server creates
\* the home document before it writes any list.
Projections == {{}, {"home"}, {"home", "other"}, {"malformed"}}

TypeOK ==
    /\ signedIn \in Someone /\ known \in BOOLEAN /\ signedOut \in BOOLEAN
    /\ stored \in Someone /\ mounted \in BOOLEAN
    /\ memo \in [fetch : 0..MaxFetches, acct : Someone]
    /\ fetch \in [Fetches -> [open : BOOLEAN, by : Someone]]
    /\ generation \in Gens
    /\ load \in [Gens -> [pc : {"idle", "bootstrap", "context"},
                          fetch : 0..MaxFetches, starter : BOOLEAN]]
    /\ docOf \in [Gens -> Someone]
    /\ ready \in BOOLEAN /\ retry \in BOOLEAN /\ started \in BOOLEAN
    /\ context \in 0..MaxGen /\ pending \in 0..MaxGen
    /\ linked \subseteq Servers
    /\ remote \in [Servers -> [id : 0..MaxRuntimes, loading : BOOLEAN, retry : BOOLEAN,
                               pending : BOOLEAN, context : BOOLEAN]]
    /\ chain \in [Servers -> [Runtimes -> [pc : {"idle", "bootstrap", "context"},
                                           gen : 0..MaxGen]]]
    /\ live \subseteq Sessions
    /\ listed \in [{"home"} \cup Servers ->
                      [from : Sessions \cup {HomeSession(0)}, docs : SUBSET {"home", "other"}]]
    /\ observed \subseteq Sessions \X Gens
    /\ DOMAIN shown = {"home", "loading", "sources"}

\* getDocumentSourcesLoading: the local source, or one that loads or will retry.
getDocumentSourcesLoading == ~ready \/ \E s \in Servers : remote[s].loading \/ remote[s].retry

\* createDocumentSources: the local source and the linked ones with their documents.
createDocumentSources == [s \in {"home"} \cup linked |-> listed[s].docs]

\* What the handles of the root note read: the id of the home document (its
\* account), whether sources are loading, and the sources.
View == [home |-> docOf[generation], loading |-> getDocumentSourcesLoading,
         sources |-> createDocumentSources]

\* bumpVersion notifies the subscribers, who read everything again.
bumpVersion == shown' = View'

\* homeDocument() of the root note, as a set: it throws when there is none.
homeDocument ==
    {d \in listed["home"].docs : d = "home" \/ docOf[generation] = Nobody}

\* The module is loaded in a page the user may already be signed in to.
Init ==
    /\ signedIn \in Someone /\ known \in BOOLEAN /\ (known => signedIn # Nobody)
    /\ signedOut = FALSE
    /\ stored \in {Nobody, signedIn} /\ (stored # Nobody => known)
    /\ mounted = FALSE
    /\ memo = NoMemo /\ fetch = [p \in Fetches |-> NoFetch]
    /\ generation = 1 /\ load = [g \in Gens |-> IdleLoad]
    /\ docOf = [g \in Gens |-> Nobody]
    /\ ready = FALSE /\ context = 0 /\ pending = 0 /\ retry = FALSE /\ started = FALSE
    /\ linked = {} /\ remote = [s \in Servers |-> NoRuntime]
    /\ chain = [s \in Servers |-> [i \in Runtimes |-> IdleChain]]
    /\ live = {}
    /\ listed = [s \in {"home"} \cup Servers |-> NoList] /\ observed = {} /\ shown = View

-----------------------------------------------------------------------------
(* The bootstrap promise                                                   *)

\* fetchCurrentUserBootstrap, memoised; p is the fetch a caller waits for.
SendFetch(p) ==
    /\ ~fetch[p].open /\ \A q \in 1..(p - 1) : fetch[q].open
    /\ fetch' = [fetch EXCEPT ![p] = [open |-> TRUE, by |-> signedIn]]
    /\ memo' = [NoMemo EXCEPT !.fetch = p]

getCurrentUserBootstrap ==
    IF memo = NoMemo THEN \E p \in Fetches : SendFetch(p) ELSE UNCHANGED <<fetch, memo>>

clearCurrentUserBootstrapCache ==
    /\ memo' = NoMemo
    /\ stored' = Nobody
    /\ UNCHANGED fetch

-----------------------------------------------------------------------------
(* The projected collections                                               *)

\* readProjectedCollection: entries that cannot be read are skipped.
readProjectedCollection(p) == p \ {"malformed"}

\* children() of a collection, whose fallback is the home document.
children(p) == IF readProjectedCollection(p) = {} THEN {"home"} ELSE readProjectedCollection(p)

\* areProjectedItemsEqual, against what source s listed last.
Changed(s, p) == children(p) # listed[s].docs

\* syncFrom: the collection of source s is the one in x's document from now on.
syncFrom(s, x, p) == listed' = [listed EXCEPT ![s] = [from |-> x, docs |-> children(p)]]

\* What the store still observes when it has destroyed the contexts in X.
Unobserved(X) == {o \in observed : o[1] \notin X}
-----------------------------------------------------------------------------
(* Source servers                                                          *)

Idle(s) == {i \in Runtimes : chain[s][i].pc = "idle" /\ remote[s].id # i}

\* A runtime the store still has: the check every remote step makes.
Current(s, i) == chain[s][i].gen = generation /\ remote[s].id = i

RuntimeSession(s) == SourceSession(s, remote[s].id)

\* What stopRemoteSource destroys, for the sources in S.
Stopped(S) == {RuntimeSession(s) : s \in {x \in S : remote[x].pending \/ remote[x].context}}

\* Each linked server gets a runtime; a runtime with no context, no load and no
\* retry is started; the runtimes of servers no longer linked are stopped.
reconcileRemoteSources(S) ==
    /\ \A s \in S : remote[s].id = 0 => Idle(s) # {}
    /\ remote' = [s \in Servers |->
         CASE s \notin S -> NoRuntime
           [] s \in S /\ remote[s].id = 0 ->
                [NoRuntime EXCEPT !.id = CHOOSE i \in Idle(s) : \A j \in Idle(s) : i <= j,
                                  !.loading = TRUE]
           [] OTHER -> [remote[s] EXCEPT
                !.loading = @ \/ ~(remote[s].context \/ remote[s].retry)]]
    /\ chain' = [s \in Servers |-> [i \in Runtimes |->
         IF remote'[s].id = i /\ remote'[s].loading /\ chain[s][i].pc = "idle"
         THEN [pc |-> "bootstrap", gen |-> generation] ELSE chain[s][i]]]
    /\ live' = live \ Stopped(Servers \ S)

-----------------------------------------------------------------------------
(* Loading the user's own data document                                    *)

\* createUserDataStoreContext calls back with the session before it awaits.
OpenContext(a) ==
    /\ docOf' = [docOf EXCEPT ![generation] = a]
    /\ live' = live \cup {HomeSession(generation)}
    /\ pending' = generation
    /\ bumpVersion

\* Mutant: start() leaves it to the load in flight, whoever began that one.
LeaveItToTheFirst(starter) ==
    LET g == generation
        Begin(pc, p) == load' = [load EXCEPT ![g] =
                                   [pc |-> pc, fetch |-> p, starter |-> starter]]
    IN  \/ /\ ready \/ load[g].pc # "idle"
           /\ UNCHANGED <<load, memo, fetch, docOf, live, pending, shown>>
        \/ /\ ~ready /\ load[g].pc = "idle"
           /\ \/ /\ memo.acct # Nobody
                 /\ Begin("context", 0) /\ OpenContext(memo.acct)
                 /\ UNCHANGED <<memo, fetch>>
              \/ /\ memo.acct = Nobody
                 /\ getCurrentUserBootstrap
                 /\ Begin("bootstrap", memo'.fetch)
                 /\ UNCHANGED <<docOf, live, pending, shown>>

\* ensureReady: nothing when ready, join the load in flight, or begin one.  A
\* starter is a caller that schedules a retry when the load fails.
ensureReady(starter) ==
    LET g == generation
        Begin(pc, p) == load' = [load EXCEPT ![g] =
                                   [pc |-> pc, fetch |-> p, starter |-> starter]]
    IN  \/ /\ ready
           /\ UNCHANGED <<load, memo, fetch, docOf, live, pending, shown>>
        \/ /\ ~ready /\ load[g].pc # "idle"
           /\ load' = [load EXCEPT ![g].starter = @ \/ starter]
           /\ UNCHANGED <<memo, fetch, docOf, live, pending, shown>>
        \/ /\ ~ready /\ load[g].pc = "idle"
           /\ \/ /\ memo.acct # Nobody
                 /\ Begin("context", 0) /\ OpenContext(memo.acct)
                 /\ UNCHANGED <<memo, fetch>>
              \/ /\ memo.acct = Nobody
                 /\ getCurrentUserBootstrap
                 /\ Begin("bootstrap", memo'.fetch)
                 /\ UNCHANGED <<docOf, live, pending, shown>>

\* The store's half of a fetch that gave a's bootstrap: the load of the current
\* generation goes on, any other returns.
BootstrapArrives(p, a) ==
    /\ fetch' = [fetch EXCEPT ![p] = NoFetch]
    /\ memo' = IF memo.fetch = p THEN [NoMemo EXCEPT !.acct = a] ELSE memo
    /\ load' = [g \in Gens |->
         CASE load[g].fetch # p -> load[g]
           [] load[g].fetch = p /\ g # generation -> IdleLoad
           [] OTHER -> [load[g] EXCEPT !.pc = "context", !.fetch = 0]]
    /\ UNCHANGED <<accountVars, mounted, generation, ready, context, retry, started, remoteVars,
                   listed, observed>>
    /\ IF load[generation].fetch = p
       THEN OpenContext(a) ELSE UNCHANGED <<docOf, live, pending, shown>>

FetchAnswers(p) ==
    /\ fetch[p].open /\ fetch[p].by # Nobody
    /\ stored' = fetch[p].by
    /\ BootstrapArrives(p, fetch[p].by)

\* The network is down and this device has a cached bootstrap.
FetchUnreachable(p) ==
    /\ fetch[p].open
    /\ known /\ stored # Nobody
    /\ BootstrapArrives(p, stored)
    /\ UNCHANGED stored

\* Refused, or lost with nothing cached.  The rejection handler clears the
\* memoised promise whichever it is; every load that waited ends, and the
\* current one schedules a retry if start() asked for it.
FetchFails(p) ==
    /\ fetch[p].open
    /\ fetch' = [fetch EXCEPT ![p] = NoFetch]
    /\ memo' = NoMemo
    /\ load' = [g \in Gens |-> IF load[g].fetch = p THEN IdleLoad ELSE load[g]]
    /\ retry' = (retry \/ (load[generation].fetch = p /\ load[generation].starter))
    /\ UNCHANGED <<accountVars, mounted, stored, generation, docOf, ready, context, pending,
                   started, remoteVars, live, listVars>>

\* The session synced: it becomes the context, the projection is observed and
\* read, its servers are reconciled and the store is ready.  A destroyed session
\* never gets here: its wait is aborted.
ContextSynced ==
    LET g == generation IN
    /\ load[g].pc = "context" /\ HomeSession(g) \in live /\ signedIn = docOf[g]
    /\ load' = [load EXCEPT ![g] = IdleLoad]
    /\ context' = g /\ pending' = 0
    /\ ready' = TRUE /\ retry' = FALSE
    /\ \E S \in SUBSET Servers, p \in Projections :
         /\ linked' = S /\ syncFrom("home", HomeSession(g), p)
         /\ reconcileRemoteSources(S)
    /\ observed' = observed \cup {<<HomeSession(g), g>>}
    /\ UNCHANGED <<accountVars, mounted, cacheVars, generation, docOf, started>>
    /\ bumpVersion

\* Mutant: the failure of any generation's load clears the store's session.
FailsWhateverItsGeneration(g) ==
    /\ load[g].pc = "context"
    /\ load' = [load EXCEPT ![g] = IdleLoad]
    /\ live' = live \ {HomeSession(g)}
    /\ pending' = 0
    /\ retry' = (retry \/ (g = generation /\ load[g].starter))
    /\ UNCHANGED <<accountVars, mounted, cacheVars, generation, docOf, ready, context, started,
                   remoteVars, listVars>>

\* The provider failed, timed out, was refused a token, or its session was
\* destroyed by a reset.
ContextFails(g) ==
    /\ load[g].pc = "context"
    /\ load' = [load EXCEPT ![g] = IdleLoad]
    /\ live' = live \ {HomeSession(g)}
    /\ IF g = generation
       THEN pending' = 0 /\ retry' = (retry \/ load[g].starter)
       ELSE UNCHANGED <<pending, retry>>
    /\ UNCHANGED <<accountVars, mounted, cacheVars, generation, docOf, ready, context, started,
                   remoteVars, listVars>>

StartupRetry ==
    /\ retry
    /\ retry' = FALSE
    /\ UNCHANGED <<accountVars, mounted, stored, generation, ready, context, started, remoteVars,
                   listed, observed>>
    /\ ensureReady(TRUE)

\* A note is created from the app: the store is made ready first.
createDocument ==
    /\ mounted
    /\ UNCHANGED <<accountVars, mounted, stored, generation, ready, context, retry, started,
                   remoteVars, listed, observed>>
    /\ ensureReady(FALSE)

reset ==
    /\ generation < MaxGen /\ generation' = generation + 1
    /\ retry' = FALSE /\ ready' = FALSE /\ started' = FALSE
    /\ pending' = 0 /\ context' = 0
    /\ linked' = {} /\ remote' = [s \in Servers |-> NoRuntime]
    /\ live' = (live \ {HomeSession(pending), HomeSession(context)}) \ Stopped(Servers)
    /\ listed' = [s \in {"home"} \cup Servers |-> NoList]
    /\ observed' = Unobserved({HomeSession(context)} \cup Stopped(Servers))
    /\ UNCHANGED <<load, docOf, chain>>
    /\ bumpVersion

-----------------------------------------------------------------------------
(* Source servers: linking, loading, failing, retrying                     *)

\* The user's data document changed the linked servers or the listed documents.
handleUpdate(g, S, p) ==
    /\ <<HomeSession(g), g>> \in observed /\ g = generation
    /\ S # linked \/ Changed("home", p)
    /\ linked' = S
    /\ reconcileRemoteSources(S)
    /\ observed' = Unobserved(Stopped(Servers \ S))
    /\ listed' = [s \in {"home"} \cup Servers |->
                    IF s = "home" THEN [from |-> HomeSession(g), docs |-> children(p)]
                    ELSE IF s \in S THEN listed[s] ELSE NoList]
    /\ UNCHANGED <<accountVars, mounted, cacheVars, storeVars>>
    /\ bumpVersion

\* Mutant: the version is bumped only for the user's own documents.
SourceUpdateUnseen(s, i, p) ==
    /\ <<SourceSession(s, i), generation>> \in observed /\ remote[s].id # 0
    /\ Changed(s, p)
    /\ syncFrom(s, SourceSession(s, i), p)
    /\ UNCHANGED <<accountVars, mounted, cacheVars, storeVars, remoteVars, live, observed, shown>>

\* A source's document changed its listed documents.  The observer looks the
\* runtime up by its server, whichever runtime that is by then.
observeRemoteUserDataProjection(s, i, p) ==
    /\ <<SourceSession(s, i), generation>> \in observed /\ remote[s].id # 0
    /\ Changed(s, p)
    /\ syncFrom(s, SourceSession(s, i), p)
    /\ UNCHANGED <<accountVars, mounted, cacheVars, storeVars, remoteVars, live, observed>>
    /\ bumpVersion

SourceAnswers(s, i) ==
    /\ chain[s][i].pc = "bootstrap"
    /\ IF Current(s, i)
       THEN /\ chain' = [chain EXCEPT ![s][i].pc = "context"]
            /\ live' = live \cup {SourceSession(s, i)}
            /\ remote' = [remote EXCEPT ![s].pending = TRUE]
       ELSE chain' = [chain EXCEPT ![s][i] = IdleChain] /\ UNCHANGED <<live, remote>>
    /\ UNCHANGED <<accountVars, mounted, cacheVars, storeVars, linked, listVars>>

SourceSynced(s, i) ==
    /\ chain[s][i].pc = "context" /\ SourceSession(s, i) \in live
    /\ chain' = [chain EXCEPT ![s][i] = IdleChain]
    /\ remote' = [remote EXCEPT ![s].loading = FALSE, ![s].pending = FALSE, ![s].context = TRUE]
    /\ observed' = observed \cup {<<SourceSession(s, i), generation>>}
    /\ \E p \in Projections : syncFrom(s, SourceSession(s, i), p)
    /\ UNCHANGED <<accountVars, mounted, cacheVars, storeVars, linked, live>>
    /\ bumpVersion

\* Mutant: a source that failed once waits for the next change of the projection.
FailsOnce(s, i) ==
    /\ chain[s][i].pc # "idle"
    /\ chain' = [chain EXCEPT ![s][i] = IdleChain]
    /\ live' = live \ {SourceSession(s, i)}
    /\ IF Current(s, i)
       THEN /\ remote' = [remote EXCEPT ![s].loading = FALSE, ![s].pending = FALSE]
            /\ listed' = [listed EXCEPT ![s] = NoList]
            /\ UNCHANGED <<accountVars, mounted, cacheVars, storeVars, linked>>
            /\ bumpVersion
       ELSE UNCHANGED <<accountVars, mounted, cacheVars, storeVars, linked, remote, listed, shown>>
    /\ UNCHANGED observed

SourceFails(s, i) ==
    /\ chain[s][i].pc # "idle"
    /\ chain' = [chain EXCEPT ![s][i] = IdleChain]
    /\ live' = live \ {SourceSession(s, i)}
    /\ IF Current(s, i)
       THEN /\ remote' = [remote EXCEPT ![s].loading = FALSE, ![s].pending = FALSE,
                                        ![s].retry = TRUE]
            /\ listed' = [listed EXCEPT ![s] = NoList]
            /\ UNCHANGED <<accountVars, mounted, cacheVars, storeVars, linked>>
            /\ bumpVersion
       ELSE UNCHANGED <<accountVars, mounted, cacheVars, storeVars, linked, remote, listed, shown>>
    /\ UNCHANGED observed

SourceRetry(s) ==
    /\ remote[s].retry
    /\ remote' = [remote EXCEPT ![s].retry = FALSE, ![s].loading = TRUE]
    /\ chain' = [chain EXCEPT ![s][remote[s].id] = [pc |-> "bootstrap", gen |-> generation]]
    /\ UNCHANGED <<accountVars, mounted, cacheVars, storeVars, linked, live, listVars>>

-----------------------------------------------------------------------------
(* The app around the store                                                *)

\* The gate let the user in: with a session, or offline as a remembered user.
Admitted == ~signedOut /\ (signedIn # Nobody \/ known)

\* A route loader asks for the home document before the app is shown.
getHomeDocumentId ==
    /\ ~signedOut /\ signedIn # Nobody
    /\ known' = TRUE
    /\ getCurrentUserBootstrap
    /\ UNCHANGED <<signedIn, signedOut, mounted, stored, storeVars, remoteVars, live, listVars>>

\* UserDataRuntimeBoundary mounts and calls start().
Mount ==
    /\ ~mounted /\ Admitted
    /\ mounted' = TRUE /\ known' = TRUE /\ started' = TRUE
    /\ UNCHANGED <<signedIn, signedOut, stored, generation, ready, context, retry, remoteVars,
                   listed, observed>>
    /\ ensureReady(TRUE)

\* Navigation to a page outside the app; the store stays as it is.
Leave ==
    /\ mounted
    /\ mounted' = FALSE
    /\ UNCHANGED <<accountVars, cacheVars, storeVars, remoteVars, live, listVars>>

\* The gate answers unauthenticated: login is shown, the store stays as it is.
GateDenies ==
    /\ signedIn = Nobody \/ signedOut
    /\ known' = FALSE /\ mounted' = FALSE
    /\ UNCHANGED <<signedIn, signedOut, cacheVars, storeVars, remoteVars, live, listVars>>

SignIn(a) ==
    /\ ~mounted /\ ~known /\ a \in Accounts
    /\ signedIn = Nobody \/ signedOut
    /\ signedIn' = a /\ known' = TRUE /\ signedOut' = FALSE
    /\ UNCHANGED <<mounted, cacheVars, storeVars, remoteVars, live, listVars>>

\* Enrolment creates a new account and signs it in, over whoever was signed in.
Enroll(a) ==
    /\ ~mounted /\ a \in Accounts \ {signedIn}
    /\ signedIn' = a /\ known' = TRUE /\ signedOut' = FALSE
    /\ clearCurrentUserBootstrapCache
    /\ reset
    /\ UNCHANGED mounted

\* The synchronous part of logoutCurrentUser.
LogOut ==
    /\ known /\ ~signedOut
    /\ signedOut' = TRUE /\ known' = FALSE
    /\ clearCurrentUserBootstrapCache
    /\ reset
    /\ UNCHANGED <<signedIn, mounted>>

\* Another tab logged out, clearing what the tabs share; this tab heard of it.
PeerSignsOut ==
    /\ OtherTabs /\ known /\ ~signedOut
    /\ signedOut' = TRUE /\ known' = FALSE /\ stored' = Nobody
    /\ reset
    /\ UNCHANGED <<signedIn, mounted, memo, fetch>>

\* The session ends at the server: revoked by the sign-out, or on its own.
SessionEnds ==
    /\ SessionsEnd \/ signedOut
    /\ signedIn # Nobody
    /\ signedIn' = Nobody
    /\ UNCHANGED <<known, signedOut, mounted, cacheVars, storeVars, remoteVars, live, listVars>>

-----------------------------------------------------------------------------
SourceStep(s, i) == SourceAnswers(s, i) \/ SourceSynced(s, i) \/ SourceFails(s, i)

Next ==
    \/ \E p \in Fetches : FetchAnswers(p) \/ FetchUnreachable(p) \/ FetchFails(p)
    \/ ContextSynced
    \/ \E g \in Gens : ContextFails(g)
    \/ StartupRetry \/ createDocument
    \/ \E g \in Gens, S \in SUBSET Servers, p \in Projections : handleUpdate(g, S, p)
    \/ \E s \in Servers : SourceRetry(s) \/ \E i \in Runtimes : SourceStep(s, i)
    \/ \E s \in Servers, i \in Runtimes, p \in Projections :
         observeRemoteUserDataProjection(s, i, p)
    \/ getHomeDocumentId \/ Mount \/ Leave \/ GateDenies
    \/ \E a \in Accounts : SignIn(a) \/ Enroll(a)
    \/ LogOut \/ PeerSignsOut \/ SessionEnds

Spec == Init /\ [][Next]_vars

\* Every fetch and wait ends, timers fire, and a server asked again and again
\* does not fail each time.
FairSpec ==
    /\ Spec
    /\ \A p \in Fetches : /\ WF_vars(FetchAnswers(p) \/ FetchUnreachable(p) \/ FetchFails(p))
                          /\ SF_vars(FetchAnswers(p))
    /\ SF_vars(ContextSynced)
    /\ \A g \in Gens : WF_vars(ContextFails(g) \/ (g = generation /\ ContextSynced))
    /\ WF_vars(StartupRetry)
    /\ \A s \in Servers : WF_vars(SourceRetry(s))
    /\ \A s \in Servers, i \in Runtimes :
         /\ WF_vars(SourceStep(s, i))
         /\ SF_vars(SourceAnswers(s, i)) /\ SF_vars(SourceSynced(s, i))
-----------------------------------------------------------------------------
(* Properties                                                              *)

HeldSessions ==
    {HomeSession(g) : g \in {pending, context} \ {0}} \cup Stopped(Servers)

\* Every live session is one the store still holds, as its context, as the one
\* it waits for, or in a source's runtime, and every one it holds is live: no
\* interleaving of loads and resets leaks a connection to a user's document or
\* serves from one that was destroyed (stored-user-data.ts:119-138, 218-255).
SessionsAreHeld == live = HeldSessions

\* No session outlives the reset or the unlinking that replaced the load which
\* opened it (stored-user-data.ts:119-138, 385-401, 436-449).
NothingOutlivesAReset ==
    \A x \in live :
        \/ x = HomeSession(generation)
        \/ \E s \in Servers : x = RuntimeSession(s) /\ s \in linked

\* The two together: sessions come and go with the loads that opened them.
SessionsAreOwned == TypeOK /\ SessionsAreHeld /\ NothingOutlivesAReset

\* A store that was started and is not ready has a load under way that will
\* schedule a retry if it fails, or has the retry scheduled: no mix of failures,
\* retries and document creations leaves it waiting for nothing
\* (stored-user-data.ts:110-117, 168-191, 461-468).
StartupNeverStalls ==
    started /\ ~ready =>
        (load[generation].pc # "idle" /\ load[generation].starter) \/ retry

\* The servers the projection lists are exactly those with a runtime, and each
\* runtime does one thing: it serves a context, loads one, or waits for a retry
\* (stored-user-data.ts:301-323, 342-373, 470-480).
LinkedSourcesAreTended ==
    \A s \in Servers :
        /\ s \in linked <=> remote[s].id # 0
        /\ s \in linked =>
             LET r == remote[s]
                 running == chain[s][r.id].pc # "idle"
             IN  /\ r.loading <=> running
                 /\ Cardinality({c \in {"context", "loading", "retry"} : r[c]}) = 1

\* The two together: whatever is not served is loading or has its retry.
LoadsAreTended == StartupNeverStalls /\ LinkedSourcesAreTended

\* Subscribers are told of every change of what they may read: the home document,
\* whether sources are loading, and what each lists, whichever session, retry,
\* unlinking or reset changes it (stored-user-data.ts:159-166, 257-299, 342-369).
SubscribersAreUpToDate == shown = View

\* What a source lists comes from the session that serves it now, never from one
\* that was replaced; and once it is served it lists a home document, so that
\* homeDocument() does not throw in an app whose store is ready
\* (stored-user-data.ts:257-276, 417-433, 510-513, create-user-data-notes.ts:302).
ListsAreServed ==
    /\ ready => homeDocument = {"home"} /\ listed["home"].from = HomeSession(context)
    /\ \A s \in Servers :
         IF remote[s].context THEN listed[s].from = RuntimeSession(s) /\ "home" \in listed[s].docs
         ELSE listed[s] = NoList

\* The two together: what is listed is what is served, and everyone knows.
ListsAreTrue == SubscribersAreUpToDate /\ ListsAreServed

\* A started store gets ready, unless it is reset, nobody is signed in, or the
\* tab keeps the bootstrap of another user than the one signed in now
\* (stored-user-data.ts:110-117).
StartupCompletes ==
    started ~> \/ ready \/ ~started
               \/ signedIn = Nobody \/ memo.acct \notin {Nobody, signedIn}

\* A linked source is served in the end, unless it is unlinked first
\* (stored-user-data.ts:361-366, 470-480).
SourcesComeUp ==
    \A s \in Servers : (s \in linked) ~> (remote[s].context \/ s \notin linked)

\* The user's data comes up, the home account's and the linked sources'.
DataComesUp == StartupCompletes /\ SourcesComeUp
=============================================================================
