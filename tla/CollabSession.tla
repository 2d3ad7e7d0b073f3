--------------------------- MODULE CollabSession ---------------------------
(***************************************************************************)
(* One browser tab's collaboration session: src/src/collaboration/         *)
(* session.ts (class CollabSession), the waitForSync of runtime.ts it      *)
(* hands to its callers, and the origin-wide ledger of unsynced documents  *)
(* (unsynced-local-changes.ts), restricted to this tab's keys.             *)
(*                                                                         *)
(* The Y-Sweet provider is external: it is the source of the events the    *)
(* session subscribes to.  Every JavaScript callback runs to completion,   *)
(* so each handler is one action; interleaving happens where the code      *)
(* awaits (the provider factory, the attach task, waitForSync).            *)
(***************************************************************************)
EXTENDS Naturals

CONSTANTS Docs,         \* document ids
          Waiters,      \* concurrent callers of awaitSynced
          MaxVersion    \* bound on attachVersion (the code's is unbounded)

ASSUME DocsAssumption == Docs # {}
ASSUME MaxVersionAssumption == MaxVersion \in Nat

VARIABLES
    attachVersion,  \* bumped by every teardown and every attach
    attachTask,     \* version of the tracked attach promise, or None
    pending,        \* provider factories that have not settled
    provider,       \* version whose provider is installed, or None
    providerDoc,    \* the document that provider was made for
    live,           \* versions whose provider exists and is not destroyed
    pv,             \* what the installed provider reports
    hadLocal,       \* providerHadLocalChanges
    sawAck,         \* sawProviderAck
    unsaved,        \* unsavedLocalEdits
    snap,           \* the published CollabSnapshot (docEpoch left out)
    content,        \* documents whose Y.Doc holds any client's structs
    dirty,          \* documents with local edits no server has acknowledged
    ledger,         \* this tab's remdo-unsynced: keys in localStorage
    phase,          \* where each awaitSynced call is
    target,         \* the attach task or the provider that call waits for
    timer           \* calls whose reconnect deadline is running

flagVars == <<hadLocal, sawAck, unsaved>>
attachVars == <<attachVersion, attachTask, pending, provider, providerDoc, live>>
docVars == <<content, dirty>>
waitVars == <<phase, target, timer>>
vars == <<attachVars, pv, flagVars, snap, docVars, ledger, waitVars>>

None == 0
ProviderStatus == {"offline", "connecting", "error", "handshaking", "connected"}
ConnectionStatus == (ProviderStatus \ {"offline"}) \cup {"disconnected"}
Phase == {"idle", "task", "sync", "resolved", "rejected"}

ProviderView == [synced : BOOLEAN, unacked : BOOLEAN, status : ProviderStatus]
Factory == [version : Nat, doc : Docs]
Snapshot == [docId : Docs, hydrated : BOOLEAN, synced : BOOLEAN,
             hasLocalChanges : BOOLEAN, localCacheHydrated : BOOLEAN,
             status : ConnectionStatus]

TypeOK ==
    /\ attachVersion \in Nat /\ attachTask \in Nat
    /\ pending \subseteq Factory
    /\ provider \in Nat /\ providerDoc \in Docs /\ live \subseteq Nat
    /\ pv \in ProviderView
    /\ hadLocal \in BOOLEAN /\ sawAck \in BOOLEAN /\ unsaved \in BOOLEAN
    /\ snap \in Snapshot
    /\ content \subseteq Docs /\ dirty \subseteq Docs /\ ledger \subseteq Docs
    /\ phase \in [Waiters -> Phase]
    /\ target \in [Waiters -> Nat]
    /\ timer \subseteq Waiters

NoProvider == [synced |-> FALSE, unacked |-> FALSE, status |-> "offline"]

toConnectionStatus(s) == IF s = "offline" THEN "disconnected" ELSE s

\* The snapshot of an enabled session with nothing attached to it.
Unhydrated(d, local, status) ==
    [docId |-> d, hydrated |-> FALSE, synced |-> FALSE, hasLocalChanges |-> local,
     localCacheHydrated |-> FALSE, status |-> status]

Init ==
    /\ attachVersion = 0 /\ attachTask = None
    /\ pending = {} /\ provider = None /\ live = {}
    /\ providerDoc \in Docs
    /\ snap = Unhydrated(providerDoc, FALSE, "connecting")
    /\ pv = NoProvider
    /\ hadLocal = FALSE /\ sawAck = FALSE /\ unsaved = FALSE
    /\ content = {} /\ dirty = {} /\ ledger = {}
    /\ phase = [w \in Waiters |-> "idle"]
    /\ target = [w \in Waiters |-> None]
    /\ timer = {}

-----------------------------------------------------------------------------
(* Deriving the published state                                            *)

\* recordProviderLocalChanges: the ledger follows the edges of the flag.
Recorded(d, had, now) ==
    CASE now = had -> ledger
      [] now /\ ~had -> ledger \cup {d}
      [] ~now /\ had -> ledger \ {d}

\* Mutant: synced ignores edits that are still outstanding.
RecomputeIgnoringEdits(s, p, uns, forceUnsynced) ==
    LET sawNow == sawAck \/ ~p.unacked
        unsNow == uns /\ p.unacked
        local  == unsNow \/ (sawNow /\ p.unacked)
        hyd    == s.hydrated \/ s.localCacheHydrated \/ p.synced
    IN  /\ pv' = p /\ sawAck' = sawNow /\ unsaved' = unsNow /\ hadLocal' = local
        /\ ledger' = Recorded(s.docId, hadLocal, local)
        /\ snap' = [s EXCEPT !.hydrated = hyd, !.hasLocalChanges = local,
                             !.synced = ~forceUnsynced /\ hyd /\ p.synced]

\* recomputeState: s is the snapshot with the handler's patch applied, p what
\* the provider reports now, uns the edit flag.
Recompute(s, p, uns, forceUnsynced) ==
    LET sawNow == sawAck \/ ~p.unacked
        unsNow == uns /\ p.unacked
        local  == unsNow \/ (sawNow /\ p.unacked)
        hyd    == s.hydrated \/ s.localCacheHydrated \/ p.synced
    IN  /\ pv' = p
        /\ sawAck' = sawNow
        /\ unsaved' = unsNow
        /\ hadLocal' = local
        /\ ledger' = Recorded(s.docId, hadLocal, local)
        /\ snap' = [s EXCEPT !.hydrated = hyd,
                             !.hasLocalChanges = local,
                             !.synced = ~forceUnsynced /\ hyd /\ p.synced /\ ~p.unacked]

-----------------------------------------------------------------------------
(* waitForSync: how a call reacts to the provider's events                 *)

Ready(p) == p.synced /\ ~p.unacked

Syncing == {w \in Waiters : phase[w] = "sync"}

\* finish: drop the listeners and the deadline, settle the promise.
Settle(ws, outcome) ==
    /\ phase' = [w \in Waiters |-> IF w \in ws THEN outcome ELSE phase[w]]
    /\ timer' = timer \ ws
    /\ UNCHANGED target

\* Mutant: a sync event answers the wait although edits are outstanding.
WaitersOnAnySync(p) == Settle(IF p.synced THEN Syncing ELSE {}, "resolved")

\* onSyncLike, on 'sync' and 'local-changes'.
WaitersOnSyncLike(p) == Settle(IF Ready(p) THEN Syncing ELSE {}, "resolved")

\* onError, on 'connection-error'.
WaitersOnError == Settle(Syncing, "rejected")

\* onConnectionStatus disarms the reconnect deadline.
WaitersOnStatus(status) ==
    /\ timer' = IF status = "connected" THEN timer \ Syncing ELSE timer
    /\ UNCHANGED <<phase, target>>

\* onClose arms the deadline unless it already runs.
WaitersOnClose ==
    /\ timer' = timer \cup Syncing
    /\ UNCHANGED <<phase, target>>

-----------------------------------------------------------------------------
(* Session lifecycle                                                       *)

\* Mutants of Teardown: the waits are not aborted; the mark of the document is
\* dropped with its provider.
TeardownKeepingWaits ==
    /\ provider' = None /\ live' = live \ {provider} /\ pv' = NoProvider
    /\ hadLocal' = FALSE /\ sawAck' = FALSE /\ unsaved' = FALSE
    /\ UNCHANGED <<waitVars, providerDoc, docVars, ledger>>

TeardownErasingMark ==
    /\ provider' = None /\ live' = live \ {provider} /\ pv' = NoProvider
    /\ hadLocal' = FALSE /\ sawAck' = FALSE /\ unsaved' = FALSE
    /\ ledger' = ledger \ {snap.docId}
    /\ Settle(Syncing, "rejected")
    /\ UNCHANGED <<providerDoc, docVars>>

\* teardown: drop the handlers, abort the waits, destroy the provider.  The
\* ledger keeps its keys.
Teardown ==
    /\ provider' = None
    /\ live' = live \ {provider}
    /\ pv' = NoProvider
    /\ hadLocal' = FALSE /\ sawAck' = FALSE /\ unsaved' = FALSE
    /\ Settle(Syncing, "rejected")
    /\ UNCHANGED <<providerDoc, docVars, ledger>>

\* teardown with nothing attached after it.
Stop ==
    /\ attachVersion < MaxVersion
    /\ attachVersion' = attachVersion + 1
    /\ attachTask' = None
    /\ Teardown
    /\ UNCHANGED pending

\* hasLocalChanges is carried over to the next document.
setDocId(d) ==
    /\ d # snap.docId
    /\ Stop
    /\ snap' = Unhydrated(d, snap.hasLocalChanges, "connecting")

detach ==
    /\ Stop
    /\ snap' = Unhydrated(snap.docId, FALSE, "disconnected")

\* destroy leaves the snapshot as it was.
destroy ==
    /\ Stop
    /\ UNCHANGED snap

\* A factory that returns its result synchronously is the case where
\* FactoryResolves comes next.
attach ==
    LET version == attachVersion + 2 IN
    /\ version <= MaxVersion
    /\ attachVersion' = version
    /\ attachTask' = version
    /\ pending' = pending \cup {[version |-> version, doc |-> snap.docId]}
    /\ Teardown
    /\ UNCHANGED snap

\* applyProviderResult, and attachTask cleared by the promise's finally.
\* A provider opened over unacknowledged edits starts unacked.
ApplyProviderResult(f, p) ==
    /\ provider' = f.version
    /\ providerDoc' = f.doc
    /\ live' = live \cup {f.version}
    /\ Recompute([Unhydrated(snap.docId, FALSE, toConnectionStatus(p.status))
                      EXCEPT !.localCacheHydrated = (snap.docId \in content)],
                  p, unsaved, FALSE)

Settled(f) ==
    /\ pending' = pending \ {f}
    /\ attachTask' = IF attachTask = f.version THEN None ELSE attachTask
    /\ UNCHANGED <<attachVersion, docVars, waitVars>>

\* Mutant: the result is applied whatever attach it belongs to.
FactoryResolvesUnchecked(f) ==
    /\ Settled(f)
    /\ \E unacked \in BOOLEAN :
          /\ f.doc \in dirty => unacked
          /\ ApplyProviderResult(f, [NoProvider EXCEPT !.unacked = unacked])

FactoryResolves(f) ==
    /\ Settled(f)
    /\ IF f.version = attachVersion
       THEN \E unacked \in BOOLEAN :
               /\ f.doc \in dirty => unacked
               /\ ApplyProviderResult(f, [NoProvider EXCEPT !.unacked = unacked])
       ELSE \* provider.destroy()
            UNCHANGED <<provider, providerDoc, live, pv, flagVars, snap, ledger>>

\* handleAttachFailure
FactoryRejects(f) ==
    /\ Settled(f)
    /\ snap' = IF f.version = attachVersion
               THEN Unhydrated(snap.docId, FALSE, "error") ELSE snap
    /\ UNCHANGED <<provider, providerDoc, live, pv, flagVars, ledger>>

-----------------------------------------------------------------------------
(* Events of the installed provider and of its Y.Doc                       *)

Event ==
    /\ provider # None
    /\ UNCHANGED attachVars

\* A local edit: Y-Sweet counts it first, then handleDocUpdate runs.
LocalEdit ==
    /\ Event
    /\ content' = content \cup {providerDoc}
    /\ dirty' = dirty \cup {providerDoc}
    /\ Recompute(snap, [pv EXCEPT !.unacked = TRUE], TRUE, FALSE)
    /\ UNCHANGED waitVars

\* IndexedDB replays a non-empty document.  Y-Sweet may count it as unacked.
CacheUpdate ==
    /\ Event
    /\ content' = content \cup {providerDoc}
    /\ \E unacked \in {pv.unacked, TRUE} :
          IF snap.localCacheHydrated /\ unacked = pv.unacked
          THEN UNCHANGED <<pv, flagVars, snap, ledger>>
          ELSE Recompute([snap EXCEPT !.localCacheHydrated = TRUE],
                         [pv EXCEPT !.unacked = unacked], unsaved, FALSE)
    /\ UNCHANGED <<dirty, waitVars>>

\* An update whose origin is the provider: handleDocUpdate does nothing.
RemoteUpdate ==
    /\ Event
    /\ content' = content \cup {providerDoc}
    /\ UNCHANGED <<dirty, pv, flagVars, snap, ledger, waitVars>>

\* 'sync'
ProviderSyncs ==
    /\ Event
    /\ pv.status = "connected"
    /\ LET p == [pv EXCEPT !.synced = TRUE] IN
          /\ Recompute(snap, p, unsaved, FALSE)
          /\ WaitersOnSyncLike(p)
    /\ UNCHANGED docVars

\* 'local-changes' with the last local version acknowledged.
ProviderAcks ==
    /\ Event
    /\ pv.status = "connected" /\ pv.unacked
    /\ dirty' = dirty \ {providerDoc}
    /\ LET p == [pv EXCEPT !.unacked = FALSE] IN
          /\ Recompute(snap, p, unsaved, FALSE)
          /\ WaitersOnSyncLike(p)
    /\ UNCHANGED content

\* 'connection-status'
ConnectionStatusChanges(status) ==
    /\ Event
    /\ status # pv.status
    /\ Recompute([snap EXCEPT !.status = toConnectionStatus(status)],
                 [pv EXCEPT !.status = status], unsaved, FALSE)
    /\ WaitersOnStatus(status)
    /\ UNCHANGED docVars

\* 'connection-close'.  Y-Sweet may or may not lower synced with it.
ConnectionCloses ==
    /\ Event
    /\ pv.status \in {"handshaking", "connected"}
    /\ \E synced \in {pv.synced, FALSE} :
          Recompute([snap EXCEPT !.status = "disconnected"],
                    [pv EXCEPT !.synced = synced], unsaved, TRUE)
    /\ WaitersOnClose
    /\ UNCHANGED docVars

\* 'connection-error'
ConnectionFails ==
    /\ Event
    /\ pv.status # "connected"
    /\ Recompute([snap EXCEPT !.status = "error"], pv, unsaved, TRUE)
    /\ WaitersOnError
    /\ UNCHANGED docVars

-----------------------------------------------------------------------------
(* awaitSynced                                                             *)

\* waitForSync(this.provider, ...), or the error thrown without a provider.
BeginWait(w) ==
    /\ phase' = [phase EXCEPT ![w] = CASE provider = None -> "rejected"
                                      [] provider # None /\ Ready(pv) -> "resolved"
                                      [] provider # None /\ ~Ready(pv) -> "sync"]
    /\ target' = [target EXCEPT ![w] = provider]

awaitSynced(w) ==
    /\ phase[w] \in {"idle", "resolved", "rejected"}
    /\ IF attachTask # None
       THEN /\ phase' = [phase EXCEPT ![w] = "task"]
            /\ target' = [target EXCEPT ![w] = attachTask]
       ELSE BeginWait(w)
    /\ UNCHANGED <<attachVars, pv, flagVars, snap, docVars, ledger, timer>>

\* The attach task this call awaited has settled.
AttachTaskSettled(w) ==
    /\ phase[w] = "task"
    /\ \A f \in pending : f.version # target[w]
    /\ BeginWait(w)
    /\ UNCHANGED <<attachVars, pv, flagVars, snap, docVars, ledger, timer>>

\* Mutant: the deadline only counts while the provider calls itself offline.
ReconnectDeadlineOffline(w) ==
    /\ w \in timer
    /\ pv.status = "offline"
    /\ Settle({w}, "rejected")
    /\ UNCHANGED <<attachVars, pv, flagVars, snap, docVars, ledger>>

ReconnectDeadline(w) ==
    /\ w \in timer
    /\ Settle({w}, "rejected")
    /\ UNCHANGED <<attachVars, pv, flagVars, snap, docVars, ledger>>

-----------------------------------------------------------------------------
Lifecycle == \/ \E d \in Docs : setDocId(d)
             \/ attach
             \/ detach
             \/ destroy

ProviderEvent == \/ LocalEdit
                 \/ CacheUpdate
                 \/ RemoteUpdate
                 \/ ProviderSyncs
                 \/ ProviderAcks
                 \/ \E status \in ProviderStatus : ConnectionStatusChanges(status)
                 \/ ConnectionCloses
                 \/ ConnectionFails

FactorySettles == \E f \in pending : FactoryResolves(f) \/ FactoryRejects(f)

Next == \/ Lifecycle
        \/ FactorySettles
        \/ ProviderEvent
        \/ \E w \in Waiters : \/ awaitSynced(w)
                             \/ AttachTaskSettled(w)
                             \/ ReconnectDeadline(w)

Spec == Init /\ [][Next]_vars

\* The browser runs promise callbacks and expired timers; a factory settles
\* because the IndexedDB probe it awaits does.  Nothing forces the network.
Fairness == /\ WF_vars(FactorySettles)
            /\ \A w \in Waiters : /\ WF_vars(AttachTaskSettled(w))
                                 /\ WF_vars(ReconnectDeadline(w))

FairSpec == Spec /\ Fairness

-----------------------------------------------------------------------------
(* Properties                                                              *)

\* However attaches, detaches and slow provider factories interleave, the only
\* provider alive is the installed one: a factory that settles after its
\* attach was superseded has its provider destroyed, never left connected.
NoOrphanProvider == live = IF provider = None THEN {} ELSE {provider}

\* The installed provider synchronises the document the snapshot names, though
\* the id was captured when the attach began and setDocId may have run since.
ProviderServesPublishedDoc == provider # None => providerDoc = snap.docId

\* The two together: attaches may be superseded at any await, and still the page
\* has one connection, to the document it says it shows.
ProviderHolds == NoOrphanProvider /\ ProviderServesPublishedDoc

\* A call of awaitSynced that waits for provider events waits for the
\* installed provider: teardown never strands a call on a destroyed one.
NoStrandedWaiter ==
    \A w \in Waiters : phase[w] = "sync" => provider # None /\ target[w] = provider

\* A running reconnect deadline belongs to a call still waiting, so no late
\* deadline can reject a wait that has been answered.
DeadlinesBelongToWaits == \A w \in timer : phase[w] = "sync"

\* The two together: each call of awaitSynced listens where its answer comes from.
WaitsHold == NoStrandedWaiter /\ DeadlinesBelongToWaits

\* Every document with local edits the server has not acknowledged is in the
\* ledger logout consults, through document switches, remounts and reconnects.
UnackedEditsAreLedgered == dirty \subseteq ledger

\* While a provider is installed, a snapshot that says synced describes a
\* provider that is synced with no edit outstanding on that document.
SyncedMeansSaved ==
    provider # None /\ snap.synced =>
        Ready(pv) /\ snap.docId \notin dirty /\ ~snap.hasLocalChanges

\* The two together: neither the ledger nor the snapshot lets the user lose an
\* edit unasked.
EditsAreSafe == UnackedEditsAreLedgered /\ SyncedMeansSaved

\* A document leaves the ledger only in a step in which the provider of that
\* very document reports no unacknowledged change: neither a teardown, a
\* reconnect nor another document's acknowledgement erases the mark.
OnlyAcksEraseMarks ==
    [][\A d \in Docs : d \in ledger /\ d \notin ledger' =>
          provider # None /\ providerDoc = d /\ provider' = provider /\ ~pv'.unacked]_vars

\* The settling of a superseded attach is not observable: it changes neither
\* the snapshot, the installed provider nor the ledger.
SupersededAttachIsSilent ==
    [][\A f \in pending : f \notin pending' /\ f.version # attachVersion =>
          UNCHANGED <<snap, provider, live, ledger, flagVars>>]_vars

\* awaitSynced is answered positively only while the installed provider is
\* synced and has acknowledged every local edit of the document.
ResolvedMeansSaved ==
    [][\A w \in Waiters : phase[w] # "resolved" /\ phase'[w] = "resolved" =>
          provider' # None /\ Ready(pv') /\ providerDoc' \notin dirty']_vars

\* A connection that closed under a waiting call either comes back or fails
\* the call: nobody waits for ever across a dead socket.
ClosedWaitEnds ==
    \A w \in Waiters : (w \in timer) ~> (w \notin timer)

\* A call that waits for an attach in flight gets past it, even when that
\* attach is superseded or torn down meanwhile.
AttachWaitEnds ==
    \A w \in Waiters : (phase[w] = "task") ~> (phase[w] # "task")

\* No call of awaitSynced is left behind by a socket or an attach that ends.
WaitsEnd == ClosedWaitEnds /\ AttachWaitEnds
=============================================================================
