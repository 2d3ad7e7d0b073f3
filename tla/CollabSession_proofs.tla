------------------------ MODULE CollabSession_proofs ------------------------
(***************************************************************************)
(* Proofs about CollabSession for every set of documents, every set of     *)
(* callers and every version bound.  The invariants the runs check are not *)
(* inductive by themselves; the strengthening says which factory is        *)
(* current, what the edge tracker remembers and what the provider of a     *)
(* document with outstanding edits must report.                            *)
(***************************************************************************)
EXTENDS CollabSession, TLAPS

\* At most the latest attach can still install a provider, it has not done so
\* yet, and it was begun for the document the snapshot names.
CurrentFactory ==
    \A f \in pending :
        /\ f.version # None
        /\ f.version <= attachVersion
        /\ f.version = attachVersion => provider = None /\ f.doc = snap.docId

\* The edge tracker is only up while the ledger holds the published document,
\* over a provider with something outstanding that counts as local work.
EdgeTracker ==
    hadLocal => /\ provider # None
                /\ snap.docId \in ledger
                /\ pv.unacked
                /\ unsaved \/ sawAck

\* A provider of a document with outstanding edits reports them.
DirtyIsReported == provider # None /\ providerDoc \in dirty => pv.unacked

SafetyInv ==
    /\ NoOrphanProvider
    /\ ProviderServesPublishedDoc
    /\ NoStrandedWaiter
    /\ DeadlinesBelongToWaits
    /\ UnackedEditsAreLedgered
    /\ SyncedMeansSaved

IInv == TypeOK /\ SafetyInv /\ CurrentFactory /\ EdgeTracker /\ DirtyIsReported

\* What recomputeState does to the ledger and the flags, whatever the event.
LEMMA RecomputeEffect ==
    ASSUME TypeOK, EdgeTracker,
           NEW s \in Snapshot, s.docId = snap.docId,
           NEW p \in ProviderView, NEW uns \in BOOLEAN, unsaved => uns,
           NEW force \in BOOLEAN,
           Recompute(s, p, uns, force)
    PROVE  /\ pv' = p
           /\ snap' \in Snapshot /\ snap'.docId = snap.docId
           /\ hadLocal' \in BOOLEAN /\ sawAck' \in BOOLEAN /\ unsaved' \in BOOLEAN
           /\ ledger' \in SUBSET Docs
           /\ ledger \ {snap.docId} \subseteq ledger'
           /\ p.unacked => ledger \subseteq ledger'
           /\ ~hadLocal => ledger \subseteq ledger'
           /\ uns /\ p.unacked => snap.docId \in ledger'
           /\ hadLocal' => p.unacked /\ (unsaved' \/ sawAck') /\ snap.docId \in ledger'
           /\ snap'.synced => Ready(p) /\ ~snap'.hasLocalChanges
<1> DEFINE sawNow == sawAck \/ ~p.unacked
           unsNow == uns /\ p.unacked
           local  == unsNow \/ (sawNow /\ p.unacked)
           hyd    == s.hydrated \/ s.localCacheHydrated \/ p.synced
<1>1. /\ p.synced \in BOOLEAN /\ p.unacked \in BOOLEAN
      /\ s.hydrated \in BOOLEAN /\ s.localCacheHydrated \in BOOLEAN
      /\ snap.docId \in Docs /\ ledger \subseteq Docs
      /\ hadLocal \in BOOLEAN /\ sawAck \in BOOLEAN
  BY DEF TypeOK, Snapshot, ProviderView
<1>2. /\ pv' = p /\ sawAck' = sawNow /\ unsaved' = unsNow /\ hadLocal' = local
      /\ ledger' = Recorded(s.docId, hadLocal, local)
      /\ snap' = [s EXCEPT !.hydrated = hyd, !.hasLocalChanges = local,
                           !.synced = ~force /\ hyd /\ p.synced /\ ~p.unacked]
  BY DEF Recompute
<1>3. sawNow \in BOOLEAN /\ unsNow \in BOOLEAN /\ local \in BOOLEAN /\ hyd \in BOOLEAN
  BY <1>1
<1>4. /\ snap' \in Snapshot /\ snap'.docId = snap.docId
      /\ snap'.synced = (~force /\ hyd /\ p.synced /\ ~p.unacked)
      /\ snap'.hasLocalChanges = local
  BY <1>1, <1>2, <1>3 DEF Snapshot
<1>5. local => p.unacked /\ (unsNow \/ sawNow)
  BY <1>1
<1>6. /\ (local = hadLocal) => ledger' = ledger
      /\ (local /\ ~hadLocal) => ledger' = ledger \cup {snap.docId}
      /\ (~local /\ hadLocal) => ledger' = ledger \ {snap.docId}
  BY <1>1, <1>2, <1>3 DEF Recorded
<1>7. hadLocal => snap.docId \in ledger /\ (unsaved \/ sawAck)
  BY DEF EdgeTracker
<1>8. /\ ledger' \in SUBSET Docs
      /\ ledger \ {snap.docId} \subseteq ledger'
  BY <1>1, <1>3, <1>6
<1>9. ASSUME p.unacked
      PROVE  ledger \subseteq ledger'
  <2>1. hadLocal => local
    BY <1>1, <1>5, <1>7, <1>9 DEF EdgeTracker
  <2> QED
    BY <2>1, <1>1, <1>3, <1>6
<1>10. local => snap.docId \in ledger'
  BY <1>1, <1>3, <1>6, <1>7
<1>11. uns /\ p.unacked => local
  OBVIOUS
<1>12. snap'.synced => Ready(p) /\ ~snap'.hasLocalChanges
  BY <1>1, <1>3, <1>4, <1>5 DEF Ready
<1>13. ~hadLocal => ledger \subseteq ledger'
  BY <1>1, <1>3, <1>6
<1> HIDE DEF sawNow, unsNow, local, hyd
<1> QED
  BY <1>2, <1>3, <1>4, <1>5, <1>8, <1>9, <1>10, <1>11, <1>12, <1>13

\* The initial states satisfy the inductive invariant.
LEMMA InitInv == Init => IInv
<1> SUFFICES ASSUME Init PROVE IInv
  OBVIOUS
<1> USE DEF None
<1>1. /\ NoProvider \in ProviderView /\ snap \in Snapshot
      /\ snap.docId = providerDoc
  BY DEF Init, NoProvider, ProviderView, ProviderStatus, Snapshot, Unhydrated,
         ConnectionStatus
<1>2. TypeOK
  BY <1>1 DEF Init, TypeOK, Phase
<1>3. SafetyInv
  BY DEF Init, SafetyInv, NoOrphanProvider, ProviderServesPublishedDoc,
         NoStrandedWaiter, DeadlinesBelongToWaits, UnackedEditsAreLedgered,
         SyncedMeansSaved
<1> QED
  BY <1>2, <1>3 DEF Init, IInv, CurrentFactory, EdgeTracker, DirtyIsReported

-----------------------------------------------------------------------------
\* Teardown keeps what the invariant says of documents and waits, whatever the
\* caller does to the snapshot, the version and the pending factories.
LEMMA TeardownEffect ==
    ASSUME IInv, Teardown
    PROVE  /\ provider' = None /\ live' = {} /\ pv' = NoProvider
           /\ pv' \in ProviderView
           /\ hadLocal' = FALSE /\ sawAck' = FALSE /\ unsaved' = FALSE
           /\ providerDoc' = providerDoc
           /\ content' = content /\ dirty' = dirty /\ ledger' = ledger
           /\ phase' \in [Waiters -> Phase] /\ target' = target
           /\ timer' \subseteq Waiters
           /\ \A w \in Waiters : phase'[w] # "sync"
           /\ timer' = {}
<1> USE DEF None
<1>1. live \ {provider} = {}
  BY DEF IInv, SafetyInv, NoOrphanProvider
<1>2. NoProvider \in ProviderView
  BY DEF NoProvider, ProviderView, ProviderStatus
<1>3. /\ phase' = [w \in Waiters |-> IF w \in Syncing THEN "rejected" ELSE phase[w]]
      /\ timer' = timer \ Syncing /\ target' = target
  BY DEF Teardown, Settle
<1>4. /\ phase' \in [Waiters -> Phase]
      /\ \A w \in Waiters : phase'[w] # "sync"
  BY <1>3 DEF Syncing, IInv, TypeOK, Phase
<1>5. timer' = {}
  BY <1>3 DEF IInv, SafetyInv, DeadlinesBelongToWaits, Syncing, TypeOK
<1> QED
  BY <1>1, <1>2, <1>3, <1>4, <1>5 DEF Teardown, docVars

\* A step that tears the session down and leaves a well-formed snapshot and
\* well-formed factories keeps the whole invariant.
LEMMA TeardownKeepsInv ==
    ASSUME IInv, Teardown,
           attachVersion' \in Nat, attachTask' \in Nat,
           pending' \subseteq Factory, snap' \in Snapshot,
           \A f \in pending' :
              /\ f.version # None /\ f.version <= attachVersion'
              /\ f.version = attachVersion' => f.doc = snap'.docId
    PROVE  IInv'
<1> USE DEF None
<1>1. TypeOK'
  <2>1. /\ provider' \in Nat /\ providerDoc' \in Docs /\ live' \subseteq Nat
        /\ content' \subseteq Docs /\ dirty' \subseteq Docs /\ ledger' \subseteq Docs
        /\ target' \in [Waiters -> Nat]
    <3>1. /\ providerDoc \in Docs /\ target \in [Waiters -> Nat]
          /\ content \subseteq Docs /\ dirty \subseteq Docs /\ ledger \subseteq Docs
      BY DEF IInv, TypeOK
    <3> QED
      BY <3>1, TeardownEffect
  <2>2. /\ pv' \in ProviderView
        /\ hadLocal' \in BOOLEAN /\ sawAck' \in BOOLEAN /\ unsaved' \in BOOLEAN
        /\ phase' \in [Waiters -> Phase] /\ timer' \subseteq Waiters
    BY TeardownEffect
  <2> QED
    BY <2>1, <2>2 DEF TypeOK
<1>2. SafetyInv'
  BY TeardownEffect DEF IInv, SafetyInv, NoOrphanProvider, ProviderServesPublishedDoc,
     NoStrandedWaiter, DeadlinesBelongToWaits, UnackedEditsAreLedgered, SyncedMeansSaved
<1>3. CurrentFactory' /\ EdgeTracker' /\ DirtyIsReported'
  BY TeardownEffect DEF CurrentFactory, EdgeTracker, DirtyIsReported
<1> QED
  BY <1>1, <1>2, <1>3 DEF IInv

\* A teardown with nothing attached after it keeps the invariant.
LEMMA StopKeepsInv ==
    ASSUME IInv, Stop, snap' \in Snapshot
    PROVE  IInv'
<1> USE DEF None
<1>1. /\ attachVersion \in Nat /\ attachVersion' = attachVersion + 1 /\ attachTask' = None
      /\ pending' = pending /\ pending \subseteq Factory /\ Teardown
  BY DEF Stop, IInv, TypeOK
<1>2. \A f \in pending' : /\ f.version # None /\ f.version <= attachVersion'
                          /\ f.version # attachVersion'
  BY <1>1 DEF IInv, CurrentFactory, Factory
<1> QED
  BY <1>1, <1>2, TeardownKeepsInv

\* What the unhydrated snapshot of a document says.
LEMMA UnhydratedType ==
    ASSUME NEW d \in Docs, NEW local \in BOOLEAN, NEW status \in ConnectionStatus
    PROVE  /\ Unhydrated(d, local, status) \in Snapshot
           /\ Unhydrated(d, local, status).docId = d
           /\ Unhydrated(d, local, status).synced = FALSE
  BY DEF Unhydrated, Snapshot

\* setDocId, attach, detach and destroy keep the invariant.
LEMMA LifecycleKeepsInv == IInv /\ Lifecycle => IInv'
<1> SUFFICES ASSUME IInv, Lifecycle PROVE IInv'
  OBVIOUS
<1> USE DEF None
<1>0. /\ snap \in Snapshot /\ snap.docId \in Docs /\ snap.hasLocalChanges \in BOOLEAN
      /\ "connecting" \in ConnectionStatus /\ "disconnected" \in ConnectionStatus
  BY DEF IInv, TypeOK, Snapshot, ConnectionStatus, ProviderStatus
<1>1. ASSUME NEW d \in Docs, setDocId(d) PROVE IInv'
  BY <1>0, <1>1, StopKeepsInv, UnhydratedType DEF setDocId
<1>2. CASE detach
  BY <1>0, <1>2, StopKeepsInv, UnhydratedType DEF detach
<1>3. CASE destroy
  BY <1>0, <1>3, StopKeepsInv DEF destroy
<1>4. CASE attach
  <2>1. /\ attachVersion \in Nat /\ attachVersion' = attachVersion + 2
        /\ attachTask' = attachVersion + 2 /\ Teardown /\ snap' = snap
        /\ pending' = pending \cup {[version |-> attachVersion + 2, doc |-> snap.docId]}
        /\ pending \subseteq Factory
    BY <1>4 DEF attach, IInv, TypeOK
  <2>2. pending' \subseteq Factory
    BY <1>0, <2>1 DEF Factory
  <2>3. ASSUME NEW f \in pending'
        PROVE  /\ f.version # None /\ f.version <= attachVersion'
               /\ f.version = attachVersion' => f.doc = snap'.docId
    <3>1. CASE f \in pending
      BY <2>1, <3>1 DEF IInv, CurrentFactory, Factory
    <3>2. CASE f = [version |-> attachVersion + 2, doc |-> snap.docId]
      BY <2>1, <3>2
    <3> QED
      BY <2>1, <3>1, <3>2
  <2> QED
    BY <1>0, <2>1, <2>2, <2>3, TeardownKeepsInv
<1> QED
  BY <1>1, <1>2, <1>3, <1>4 DEF Lifecycle

-----------------------------------------------------------------------------
\* What a step may do to the waiting calls: nobody starts to wait, and a
\* deadline runs only for a call that still waits.
WaitsOnlyEnd ==
    /\ phase' \in [Waiters -> Phase] /\ target' = target /\ timer' \subseteq Waiters
    /\ \A w \in Waiters : phase'[w] = "sync" => phase[w] = "sync"
    /\ \A w \in timer' : phase'[w] = "sync"

\* Settling some calls, and each reaction of a call to an event, only ends
\* waits or moves their deadlines.
LEMMA WaitersReact ==
    ASSUME IInv,
           \/ UNCHANGED waitVars
           \/ \E ws \in SUBSET Waiters : \E o \in {"resolved", "rejected"} : Settle(ws, o)
           \/ \E status \in ProviderStatus : WaitersOnStatus(status)
           \/ WaitersOnClose
    PROVE  WaitsOnlyEnd
<1>1. /\ phase \in [Waiters -> Phase] /\ timer \subseteq Waiters
      /\ \A w \in timer : phase[w] = "sync"
  BY DEF IInv, TypeOK, SafetyInv, DeadlinesBelongToWaits
<1>2. CASE UNCHANGED waitVars
  BY <1>1, <1>2 DEF waitVars, WaitsOnlyEnd
<1>3. ASSUME NEW ws \in SUBSET Waiters, NEW o \in {"resolved", "rejected"}, Settle(ws, o)
      PROVE  WaitsOnlyEnd
  <2>1. o \in Phase /\ o # "sync"
    BY DEF Phase
  <2> QED
    BY <1>1, <1>3, <2>1 DEF Settle, WaitsOnlyEnd
<1>4. ASSUME NEW status \in ProviderStatus, WaitersOnStatus(status)
      PROVE  WaitsOnlyEnd
  <2>1. timer' \subseteq timer /\ phase' = phase /\ target' = target
    BY <1>4 DEF WaitersOnStatus
  <2> QED
    BY <1>1, <2>1 DEF WaitsOnlyEnd
<1>5. CASE WaitersOnClose
  BY <1>1, <1>5 DEF WaitersOnClose, WaitsOnlyEnd, Syncing
<1> QED
  BY <1>2, <1>3, <1>4, <1>5

\* Settling the calls waiting for provider events, or none of them, only ends
\* waits.
LEMMA SettlingReacts ==
    ASSUME IInv, NEW o \in {"resolved", "rejected"}, Settle(Syncing, o) \/ Settle({}, o)
    PROVE  WaitsOnlyEnd
<1>1. Syncing \in SUBSET Waiters /\ {} \in SUBSET Waiters
  BY DEF Syncing
<1> QED
  BY <1>1, WaitersReact

\* So does onSyncLike.
LEMMA SyncLikeReacts ==
    ASSUME IInv, NEW p, WaitersOnSyncLike(p)
    PROVE  WaitsOnlyEnd
  BY SettlingReacts DEF WaitersOnSyncLike

\* An event that neither touches the flags nor makes a document dirty, and
\* answers no call, keeps the invariant.
LEMMA QuietStepKeepsInv ==
    ASSUME IInv, WaitsOnlyEnd,
           UNCHANGED attachVars, UNCHANGED <<pv, flagVars, snap, ledger>>,
           dirty' = dirty, content' \subseteq Docs
    PROVE  IInv'
<1>1. /\ attachVersion' = attachVersion /\ attachTask' = attachTask /\ pending' = pending
      /\ provider' = provider /\ providerDoc' = providerDoc /\ live' = live
      /\ pv' = pv /\ hadLocal' = hadLocal /\ sawAck' = sawAck /\ unsaved' = unsaved
      /\ snap' = snap /\ ledger' = ledger /\ dirty' = dirty
  BY DEF attachVars, flagVars
<1>2. TypeOK'
  BY <1>1 DEF IInv, TypeOK, WaitsOnlyEnd
<1>3. SafetyInv'
  BY <1>1 DEF IInv, SafetyInv, WaitsOnlyEnd, NoOrphanProvider, ProviderServesPublishedDoc,
     NoStrandedWaiter, DeadlinesBelongToWaits, UnackedEditsAreLedgered, SyncedMeansSaved
<1>4. CurrentFactory' /\ EdgeTracker' /\ DirtyIsReported'
  BY <1>1 DEF IInv, CurrentFactory, EdgeTracker, DirtyIsReported
<1> QED
  BY <1>2, <1>3, <1>4 DEF IInv

\* An event of the installed provider that goes through recomputeState keeps
\* the invariant, if the provider reports the edits of its own document and
\* no other document becomes dirty.
LEMMA EventKeepsInv ==
    ASSUME IInv, Event, WaitsOnlyEnd,
           NEW s \in Snapshot, s.docId = snap.docId,
           NEW p \in ProviderView, NEW uns \in BOOLEAN, unsaved => uns,
           NEW force \in BOOLEAN,
           Recompute(s, p, uns, force),
           content' \subseteq Docs, dirty' \subseteq Docs,
           dirty' \ {snap.docId} \subseteq dirty,
           snap.docId \in dirty' => p.unacked /\ (snap.docId \in dirty \/ uns)
    PROVE  IInv'
<1>1. /\ provider # None /\ provider' = provider /\ providerDoc' = providerDoc
      /\ live' = live /\ pending' = pending /\ attachTask' = attachTask
      /\ attachVersion' = attachVersion
  BY DEF Event, attachVars
<1>2. /\ pv' = p
      /\ snap' \in Snapshot /\ snap'.docId = snap.docId
      /\ hadLocal' \in BOOLEAN /\ sawAck' \in BOOLEAN /\ unsaved' \in BOOLEAN
      /\ ledger' \in SUBSET Docs
      /\ ledger \ {snap.docId} \subseteq ledger'
      /\ p.unacked => ledger \subseteq ledger'
      /\ uns /\ p.unacked => snap.docId \in ledger'
      /\ hadLocal' => p.unacked /\ (unsaved' \/ sawAck') /\ snap.docId \in ledger'
      /\ snap'.synced => Ready(p) /\ ~snap'.hasLocalChanges
  BY RecomputeEffect DEF IInv
<1>3. TypeOK'
  BY <1>1, <1>2 DEF IInv, TypeOK, WaitsOnlyEnd
<1>4. NoOrphanProvider' /\ ProviderServesPublishedDoc'
  BY <1>1, <1>2 DEF IInv, SafetyInv, NoOrphanProvider, ProviderServesPublishedDoc
<1>5. NoStrandedWaiter' /\ DeadlinesBelongToWaits'
  BY <1>1 DEF IInv, SafetyInv, NoStrandedWaiter, DeadlinesBelongToWaits, WaitsOnlyEnd
<1>6. UnackedEditsAreLedgered'
  <2>1. dirty \subseteq ledger
    BY DEF IInv, SafetyInv, UnackedEditsAreLedgered
  <2>2. ASSUME snap.docId \in dirty' PROVE snap.docId \in ledger'
    BY <1>2, <2>1, <2>2
  <2> QED
    BY <1>2, <2>1, <2>2 DEF UnackedEditsAreLedgered
<1>7. SyncedMeansSaved'
  BY <1>1, <1>2 DEF SyncedMeansSaved, Ready
<1>8. CurrentFactory'
  BY <1>1, <1>2 DEF IInv, CurrentFactory
<1>9. EdgeTracker'
  BY <1>1, <1>2 DEF EdgeTracker
<1>10. DirtyIsReported'
  BY <1>1, <1>2 DEF IInv, SafetyInv, ProviderServesPublishedDoc, DirtyIsReported
<1> QED
  BY <1>3, <1>4, <1>5, <1>6, <1>7, <1>8, <1>9, <1>10 DEF IInv, SafetyInv

\* Each event of the installed provider or its Y.Doc keeps the invariant.
LEMMA ProviderEventKeepsInv == IInv /\ ProviderEvent => IInv'
<1> SUFFICES ASSUME IInv, ProviderEvent PROVE IInv'
  OBVIOUS
<1>0. /\ snap \in Snapshot /\ snap.docId \in Docs /\ pv \in ProviderView
      /\ pv.synced \in BOOLEAN /\ pv.unacked \in BOOLEAN /\ unsaved \in BOOLEAN
      /\ content \subseteq Docs /\ dirty \subseteq Docs
      /\ provider # None => providerDoc = snap.docId
      /\ provider # None /\ snap.docId \in dirty => pv.unacked
  BY DEF IInv, TypeOK, Snapshot, ProviderView, SafetyInv, ProviderServesPublishedDoc,
         DirtyIsReported
<1>1. CASE LocalEdit
  <2> DEFINE p == [pv EXCEPT !.unacked = TRUE]
  <2>1. /\ p \in ProviderView /\ p.unacked
    BY <1>0 DEF ProviderView
  <2>2. /\ Event /\ provider # None /\ Recompute(snap, p, TRUE, FALSE)
        /\ content' = content \cup {snap.docId} /\ dirty' = dirty \cup {snap.docId}
    BY <1>0, <1>1 DEF LocalEdit, Event
  <2>3. WaitsOnlyEnd
    BY <1>1, WaitersReact DEF LocalEdit
  <2> HIDE DEF p
  <2> QED
    BY <1>0, <2>1, <2>2, <2>3, EventKeepsInv
<1>2. CASE CacheUpdate
  <2>1. /\ Event /\ provider # None /\ dirty' = dirty
        /\ content' = content \cup {snap.docId} /\ WaitsOnlyEnd
    BY <1>0, <1>2, WaitersReact DEF CacheUpdate, Event
  <2>2. PICK unacked \in {pv.unacked, TRUE} :
          IF snap.localCacheHydrated /\ unacked = pv.unacked
          THEN UNCHANGED <<pv, flagVars, snap, ledger>>
          ELSE Recompute([snap EXCEPT !.localCacheHydrated = TRUE],
                         [pv EXCEPT !.unacked = unacked], unsaved, FALSE)
    BY <1>2 DEF CacheUpdate
  <2>3. CASE UNCHANGED <<pv, flagVars, snap, ledger>>
    BY <1>0, <2>1, <2>3, QuietStepKeepsInv DEF Event
  <2>4. CASE Recompute([snap EXCEPT !.localCacheHydrated = TRUE],
                       [pv EXCEPT !.unacked = unacked], unsaved, FALSE)
    <3> DEFINE s == [snap EXCEPT !.localCacheHydrated = TRUE]
               p == [pv EXCEPT !.unacked = unacked]
    <3>1. /\ s \in Snapshot /\ s.docId = snap.docId
          /\ p \in ProviderView /\ p.unacked = unacked
      BY <1>0 DEF Snapshot, ProviderView
    <3>2. Recompute(s, p, unsaved, FALSE)
      BY <2>4
    <3>3. pv.unacked => p.unacked
      BY <3>1
    <3> HIDE DEF s, p
    <3> QED
      BY <1>0, <2>1, <3>1, <3>2, <3>3, EventKeepsInv
  <2> QED
    BY <2>2, <2>3, <2>4
<1>3. CASE RemoteUpdate
  <2>1. /\ Event /\ provider # None /\ WaitsOnlyEnd /\ dirty' = dirty
        /\ content' = content \cup {snap.docId}
        /\ UNCHANGED <<pv, flagVars, snap, ledger>>
    BY <1>0, <1>3, WaitersReact DEF RemoteUpdate, Event
  <2> QED
    BY <1>0, <2>1, QuietStepKeepsInv DEF Event
<1>4. CASE ProviderSyncs
  <2> DEFINE p == [pv EXCEPT !.synced = TRUE]
  <2>1. /\ p \in ProviderView /\ p.unacked = pv.unacked
    BY <1>0 DEF ProviderView
  <2>2. /\ Event /\ provider # None /\ Recompute(snap, p, unsaved, FALSE)
        /\ UNCHANGED docVars
    BY <1>4 DEF ProviderSyncs, Event
  <2>3. WaitsOnlyEnd
    BY <1>4, SyncLikeReacts DEF ProviderSyncs
  <2> HIDE DEF p
  <2> QED
    BY <1>0, <2>1, <2>2, <2>3, EventKeepsInv DEF docVars
<1>5. CASE ProviderAcks
  <2> DEFINE p == [pv EXCEPT !.unacked = FALSE]
  <2>1. p \in ProviderView
    BY <1>0 DEF ProviderView
  <2>2. /\ Event /\ provider # None /\ Recompute(snap, p, unsaved, FALSE)
        /\ content' = content /\ dirty' = dirty \ {snap.docId}
    BY <1>0, <1>5 DEF ProviderAcks, Event
  <2>3. WaitsOnlyEnd
    BY <1>5, SyncLikeReacts DEF ProviderAcks
  <2> HIDE DEF p
  <2> QED
    BY <1>0, <2>1, <2>2, <2>3, EventKeepsInv
<1>6. ASSUME NEW status \in ProviderStatus, ConnectionStatusChanges(status)
      PROVE  IInv'
  <2> DEFINE s == [snap EXCEPT !.status = toConnectionStatus(status)]
             p == [pv EXCEPT !.status = status]
  <2>1. toConnectionStatus(status) \in ConnectionStatus
    BY DEF toConnectionStatus, ConnectionStatus, ProviderStatus
  <2>2. /\ s \in Snapshot /\ s.docId = snap.docId
        /\ p \in ProviderView /\ p.unacked = pv.unacked
    BY <1>0, <2>1 DEF Snapshot, ProviderView
  <2>3. /\ Event /\ provider # None /\ Recompute(s, p, unsaved, FALSE)
        /\ UNCHANGED docVars
    BY <1>6 DEF ConnectionStatusChanges, Event
  <2>4. WaitsOnlyEnd
    BY <1>6, WaitersReact DEF ConnectionStatusChanges
  <2> HIDE DEF s, p
  <2> QED
    BY <1>0, <2>2, <2>3, <2>4, EventKeepsInv DEF docVars
<1>7. CASE ConnectionCloses
  <2>1. PICK synced \in {pv.synced, FALSE} :
          Recompute([snap EXCEPT !.status = "disconnected"],
                    [pv EXCEPT !.synced = synced], unsaved, TRUE)
    BY <1>7 DEF ConnectionCloses
  <2> DEFINE s == [snap EXCEPT !.status = "disconnected"]
             p == [pv EXCEPT !.synced = synced]
  <2>2. /\ s \in Snapshot /\ s.docId = snap.docId
        /\ p \in ProviderView /\ p.unacked = pv.unacked
    BY <1>0 DEF Snapshot, ProviderView, ConnectionStatus
  <2>3. /\ Event /\ provider # None /\ Recompute(s, p, unsaved, TRUE)
        /\ UNCHANGED docVars
    BY <1>7, <2>1 DEF ConnectionCloses, Event
  <2>4. WaitsOnlyEnd
    BY <1>7, WaitersReact DEF ConnectionCloses
  <2> HIDE DEF s, p
  <2> QED
    BY <1>0, <2>2, <2>3, <2>4, EventKeepsInv DEF docVars
<1>8. CASE ConnectionFails
  <2> DEFINE s == [snap EXCEPT !.status = "error"]
  <2>1. s \in Snapshot /\ s.docId = snap.docId
    BY <1>0 DEF Snapshot, ConnectionStatus, ProviderStatus
  <2>2. /\ Event /\ provider # None /\ Recompute(s, pv, unsaved, TRUE)
        /\ UNCHANGED docVars
    BY <1>8 DEF ConnectionFails, Event
  <2>3. WaitsOnlyEnd
    BY <1>8, SettlingReacts DEF ConnectionFails, WaitersOnError
  <2> HIDE DEF s
  <2> QED
    BY <1>0, <2>1, <2>2, <2>3, EventKeepsInv DEF docVars
<1> QED
  BY <1>1, <1>2, <1>3, <1>4, <1>5, <1>6, <1>7, <1>8 DEF ProviderEvent

-----------------------------------------------------------------------------
\* A provider factory that settles, current or superseded, keeps the
\* invariant.
LEMMA FactorySettlesKeepsInv == IInv /\ FactorySettles => IInv'
<1> SUFFICES ASSUME IInv, NEW f \in pending, FactoryResolves(f) \/ FactoryRejects(f)
             PROVE  IInv'
  BY DEF FactorySettles
<1> USE DEF None
<1>1. /\ attachVersion \in Nat /\ attachTask \in Nat /\ pending \subseteq Factory
      /\ f.version \in Nat /\ f.doc \in Docs /\ f.version # None
      /\ snap \in Snapshot /\ snap.docId \in Docs /\ unsaved \in BOOLEAN
      /\ f.version = attachVersion => provider = None /\ f.doc = snap.docId
  BY DEF IInv, TypeOK, Factory, Snapshot, CurrentFactory
<1>2. /\ pending' = pending \ {f} /\ attachVersion' = attachVersion
      /\ attachTask' \in Nat /\ content' = content /\ dirty' = dirty
      /\ phase' = phase /\ target' = target /\ timer' = timer
  <2>1. Settled(f)
    BY DEF FactoryResolves, FactoryRejects
  <2> QED
    BY <1>1, <2>1 DEF Settled, docVars, waitVars
<1>3. \A g \in pending' : g.version # None /\ g.version <= attachVersion'
  BY <1>2 DEF IInv, CurrentFactory
<1>4. ASSUME f.version = attachVersion, NEW g \in pending'
      PROVE  g.version # attachVersion'
  BY <1>1, <1>2, <1>4 DEF IInv, CurrentFactory, Factory
<1>5. ASSUME snap' \in Snapshot, snap'.docId = snap.docId,
             provider = None \/ snap' = snap,
             UNCHANGED <<provider, providerDoc, live, pv, flagVars, ledger>>
      PROVE  IInv'
  <2>1. /\ provider' = provider /\ providerDoc' = providerDoc /\ live' = live
        /\ pv' = pv /\ hadLocal' = hadLocal /\ sawAck' = sawAck /\ unsaved' = unsaved
        /\ ledger' = ledger
    BY <1>5 DEF flagVars
  <2>2. TypeOK'
    BY <1>1, <1>2, <1>5, <2>1 DEF IInv, TypeOK
  <2>3. SafetyInv'
    BY <1>2, <1>5, <2>1 DEF IInv, SafetyInv, NoOrphanProvider, ProviderServesPublishedDoc,
       NoStrandedWaiter, DeadlinesBelongToWaits, UnackedEditsAreLedgered, SyncedMeansSaved
  <2>4. CurrentFactory'
    BY <1>1, <1>2, <1>3, <1>5, <2>1 DEF IInv, CurrentFactory
  <2>5. EdgeTracker' /\ DirtyIsReported'
    BY <1>2, <1>5, <2>1 DEF IInv, EdgeTracker, DirtyIsReported
  <2> QED
    BY <2>2, <2>3, <2>4, <2>5 DEF IInv
<1>6. CASE FactoryRejects(f)
  <2>1. /\ UNCHANGED <<provider, providerDoc, live, pv, flagVars, ledger>>
        /\ snap' = IF f.version = attachVersion
                   THEN Unhydrated(snap.docId, FALSE, "error") ELSE snap
    BY <1>6 DEF FactoryRejects
  <2>2. /\ Unhydrated(snap.docId, FALSE, "error") \in Snapshot
        /\ Unhydrated(snap.docId, FALSE, "error").docId = snap.docId
    BY <1>1, UnhydratedType DEF ConnectionStatus, ProviderStatus
  <2> QED
    BY <1>1, <1>5, <2>1, <2>2
<1>7. CASE FactoryResolves(f) /\ f.version # attachVersion
  <2>1. UNCHANGED <<provider, providerDoc, live, pv, flagVars, snap, ledger>>
    BY <1>7 DEF FactoryResolves
  <2> QED
    BY <1>1, <1>5, <2>1
<1>8. CASE FactoryResolves(f) /\ f.version = attachVersion
  <2>1. PICK unacked \in BOOLEAN :
           /\ f.doc \in dirty => unacked
           /\ ApplyProviderResult(f, [NoProvider EXCEPT !.unacked = unacked])
    BY <1>8 DEF FactoryResolves
  <2> DEFINE p == [NoProvider EXCEPT !.unacked = unacked]
             s == [Unhydrated(snap.docId, FALSE, toConnectionStatus(p.status))
                      EXCEPT !.localCacheHydrated = (snap.docId \in content)]
  <2>2. p \in ProviderView /\ p.unacked = unacked /\ p.status = "offline"
    BY DEF NoProvider, ProviderView, ProviderStatus
  <2>3. s \in Snapshot /\ s.docId = snap.docId
    <3>1. toConnectionStatus(p.status) \in ConnectionStatus
      BY <2>2 DEF toConnectionStatus, ConnectionStatus
    <3>2. (snap.docId \in content) \in BOOLEAN
      OBVIOUS
    <3> QED
      BY <1>1, <3>1, <3>2 DEF Unhydrated, Snapshot
  <2>4. /\ provider = None /\ f.doc = snap.docId /\ live = {}
        /\ provider' = f.version /\ providerDoc' = snap.docId /\ live' = {f.version}
        /\ Recompute(s, p, unsaved, FALSE)
    BY <1>1, <1>8, <2>1 DEF ApplyProviderResult, IInv, SafetyInv, NoOrphanProvider
  <2> HIDE DEF p, s
  <2>5. /\ pv' = p
        /\ snap' \in Snapshot /\ snap'.docId = snap.docId
        /\ hadLocal' \in BOOLEAN /\ sawAck' \in BOOLEAN /\ unsaved' \in BOOLEAN
        /\ ledger' \in SUBSET Docs
        /\ ledger \ {snap.docId} \subseteq ledger'
        /\ p.unacked => ledger \subseteq ledger'
        /\ hadLocal' => p.unacked /\ (unsaved' \/ sawAck') /\ snap.docId \in ledger'
        /\ snap'.synced => Ready(p) /\ ~snap'.hasLocalChanges
    BY <1>1, <2>2, <2>3, <2>4, RecomputeEffect DEF IInv
  <2>6. snap.docId \in dirty => p.unacked
    BY <2>1, <2>2, <2>4
  <2>7. TypeOK'
    BY <1>1, <1>2, <2>2, <2>4, <2>5 DEF IInv, TypeOK
  <2>8. NoOrphanProvider' /\ ProviderServesPublishedDoc'
    BY <1>1, <2>4, <2>5 DEF NoOrphanProvider, ProviderServesPublishedDoc
  <2>9. NoStrandedWaiter' /\ DeadlinesBelongToWaits'
    BY <1>2, <2>4 DEF IInv, SafetyInv, NoStrandedWaiter, DeadlinesBelongToWaits
  <2>10. UnackedEditsAreLedgered' /\ SyncedMeansSaved'
    BY <1>2, <2>5, <2>6
    DEF IInv, SafetyInv, UnackedEditsAreLedgered, SyncedMeansSaved, Ready
  <2>11. CurrentFactory'
    BY <1>3, <1>4, <1>8 DEF CurrentFactory
  <2>12. EdgeTracker' /\ DirtyIsReported'
    BY <1>1, <1>2, <2>4, <2>5, <2>6 DEF EdgeTracker, DirtyIsReported
  <2> QED
    BY <2>7, <2>8, <2>9, <2>10, <2>11, <2>12 DEF IInv, SafetyInv
<1> QED
  BY <1>6, <1>7, <1>8

\* Starting, resuming or timing out a call of awaitSynced keeps the invariant.
LEMMA WaiterStepKeepsInv ==
    ASSUME IInv, NEW w \in Waiters,
           awaitSynced(w) \/ AttachTaskSettled(w) \/ ReconnectDeadline(w)
    PROVE  IInv'
<1>1. /\ attachVersion' = attachVersion /\ attachTask' = attachTask /\ pending' = pending
      /\ provider' = provider /\ providerDoc' = providerDoc /\ live' = live
      /\ pv' = pv /\ hadLocal' = hadLocal /\ sawAck' = sawAck /\ unsaved' = unsaved
      /\ snap' = snap /\ ledger' = ledger /\ content' = content /\ dirty' = dirty
  BY DEF awaitSynced, AttachTaskSettled, ReconnectDeadline, attachVars, flagVars, docVars
<1>2. /\ phase' \in [Waiters -> Phase] /\ target' \in [Waiters -> Nat]
      /\ timer' \subseteq Waiters
      /\ \A v \in Waiters : phase'[v] = "sync" => provider # None /\ target'[v] = provider
      /\ \A v \in timer' : phase'[v] = "sync"
  <2>1. /\ phase \in [Waiters -> Phase] /\ target \in [Waiters -> Nat]
        /\ timer \subseteq Waiters /\ provider \in Nat /\ attachTask \in Nat
        /\ \A v \in Waiters : phase[v] = "sync" => provider # None /\ target[v] = provider
        /\ \A v \in timer : phase[v] = "sync"
    BY DEF IInv, TypeOK, SafetyInv, NoStrandedWaiter, DeadlinesBelongToWaits
  <2>2. {"task", "sync", "resolved", "rejected"} \subseteq Phase
    BY DEF Phase
  <2>3. CASE phase[w] # "sync" /\ timer' = timer /\ BeginWait(w)
    <3>1. PICK o \in {"rejected", "resolved", "sync"} :
              /\ phase' = [phase EXCEPT ![w] = o]
              /\ o = "sync" => provider # None
      BY <2>3 DEF BeginWait
    <3>2. target' = [target EXCEPT ![w] = provider]
      BY <2>3 DEF BeginWait
    <3> QED
      BY <2>1, <2>2, <2>3, <3>1, <3>2
  <2>4. CASE awaitSynced(w) /\ attachTask # None
    BY <2>1, <2>2, <2>4 DEF awaitSynced
  <2>5. CASE ReconnectDeadline(w)
    BY <2>1, <2>2, <2>5 DEF ReconnectDeadline, Settle
  <2> QED
    BY <2>3, <2>4, <2>5 DEF awaitSynced, AttachTaskSettled
<1>3. TypeOK'
  BY <1>1, <1>2 DEF IInv, TypeOK
<1>4. SafetyInv'
  BY <1>1, <1>2 DEF IInv, SafetyInv, NoOrphanProvider, ProviderServesPublishedDoc,
     NoStrandedWaiter, DeadlinesBelongToWaits, UnackedEditsAreLedgered, SyncedMeansSaved
<1>5. CurrentFactory' /\ EdgeTracker' /\ DirtyIsReported'
  BY <1>1 DEF IInv, CurrentFactory, EdgeTracker, DirtyIsReported
<1> QED
  BY <1>3, <1>4, <1>5 DEF IInv

\* Every step of the session, stuttering included, keeps the invariant.
LEMMA NextKeepsInv == IInv /\ [Next]_vars => IInv'
<1> SUFFICES ASSUME IInv, [Next]_vars PROVE IInv'
  OBVIOUS
<1>1. CASE UNCHANGED vars
  BY <1>1 DEF vars, attachVars, flagVars, docVars, waitVars, IInv, TypeOK, SafetyInv,
     NoOrphanProvider, ProviderServesPublishedDoc, NoStrandedWaiter, DeadlinesBelongToWaits,
     UnackedEditsAreLedgered, SyncedMeansSaved, CurrentFactory, EdgeTracker, DirtyIsReported
<1> QED
  BY <1>1, LifecycleKeepsInv, FactorySettlesKeepsInv, ProviderEventKeepsInv,
     WaiterStepKeepsInv DEF Next

\* The inductive invariant holds of every behaviour.
THEOREM InvariantHolds == Spec => []IInv
BY InitInv, NextKeepsInv, PTL DEF Spec

\* Type correctness of every reachable state.
THEOREM TypeCorrect == Spec => []TypeOK
<1>1. IInv => TypeOK
  BY DEF IInv
<1> QED
  BY <1>1, InvariantHolds, PTL

\* Whatever settles late, the only provider alive is the installed one, and it
\* serves the document the snapshot names.
THEOREM ProviderIsCurrent == Spec => []ProviderHolds
<1>1. IInv => ProviderHolds
  BY DEF IInv, SafetyInv, ProviderHolds
<1> QED
  BY <1>1, InvariantHolds, PTL

\* No call waits on a destroyed provider, no deadline outlives its wait.
THEOREM WaitsAreServed == Spec => []WaitsHold
<1>1. IInv => WaitsHold
  BY DEF IInv, SafetyInv, WaitsHold
<1> QED
  BY <1>1, InvariantHolds, PTL

\* Logout sees every document with edits the server has not acknowledged.
THEOREM EditsAreLedgered == Spec => []UnackedEditsAreLedgered
<1>1. IInv => UnackedEditsAreLedgered
  BY DEF IInv, SafetyInv
<1> QED
  BY <1>1, InvariantHolds, PTL

\* A published synced is never wrong while a provider is installed.
THEOREM SyncedIsSaved == Spec => []SyncedMeansSaved
<1>1. IInv => SyncedMeansSaved
  BY DEF IInv, SafetyInv
<1> QED
  BY <1>1, InvariantHolds, PTL

\* So neither the ledger nor the snapshot lets the user lose an edit unasked.
THEOREM EditsAreKept == Spec => []EditsAreSafe
<1>1. UnackedEditsAreLedgered /\ SyncedMeansSaved => EditsAreSafe
  BY DEF EditsAreSafe
<1> QED
  BY <1>1, EditsAreLedgered, SyncedIsSaved, PTL

-----------------------------------------------------------------------------
\* awaitSynced answers positively only over a provider whose document has no
\* edit left to save: the answer is given while the provider is Ready, and a
\* Ready provider's document is not dirty in the state the step leads to.
THEOREM WaitsResolveSaved == Spec => ResolvedMeansSaved
<1> DEFINE A == \A w \in Waiters : phase[w] # "resolved" /\ phase'[w] = "resolved" =>
                   provider' # None /\ Ready(pv') /\ providerDoc' \notin dirty'
<1>1. IInv /\ IInv' /\ [Next]_vars => [A]_vars
  <2> SUFFICES ASSUME IInv, IInv', Next,
                      NEW w \in Waiters, phase[w] # "resolved", phase'[w] = "resolved"
               PROVE  provider' # None /\ Ready(pv') /\ providerDoc' \notin dirty'
    OBVIOUS
  <2>0. /\ phase \in [Waiters -> Phase] /\ pv' \in ProviderView
        /\ provider' # None /\ providerDoc' \in dirty' => pv'.unacked
        /\ \A v \in Waiters : phase[v] = "sync" => provider # None
    BY DEF IInv, TypeOK, DirtyIsReported, SafetyInv, NoStrandedWaiter
  <2> SUFFICES provider' # None /\ Ready(pv')
    BY <2>0 DEF Ready
  <2>1. ASSUME NEW v \in Waiters, BeginWait(v), UNCHANGED <<attachVars, pv>>
        PROVE  provider' # None /\ Ready(pv')
    BY <2>0, <2>1 DEF BeginWait, attachVars
  <2>2. ASSUME NEW v \in Waiters, awaitSynced(v) \/ AttachTaskSettled(v)
        PROVE  provider' # None /\ Ready(pv')
    BY <2>0, <2>1, <2>2 DEF awaitSynced, AttachTaskSettled
  <2>3. ASSUME NEW v \in Waiters, ReconnectDeadline(v)
        PROVE  FALSE
    BY <2>0, <2>3 DEF ReconnectDeadline, Settle
  <2>4. CASE Lifecycle
    <3>1. Teardown
      BY <2>4 DEF Lifecycle, setDocId, detach, destroy, attach, Stop
    <3> QED
      BY <2>0, <3>1 DEF Teardown, Settle
  <2>5. CASE FactorySettles
    BY <2>5 DEF FactorySettles, FactoryResolves, FactoryRejects, Settled, waitVars
  <2>6. ASSUME NEW p, pv' = p, Event, WaitersOnSyncLike(p)
        PROVE  provider' # None /\ Ready(pv')
    BY <2>0, <2>6 DEF WaitersOnSyncLike, Settle, Event, attachVars
  <2>7. CASE ProviderSyncs \/ ProviderAcks
    BY <2>6, <2>7 DEF ProviderSyncs, ProviderAcks, Recompute
  <2>8. CASE LocalEdit \/ CacheUpdate \/ RemoteUpdate
    BY <2>8 DEF LocalEdit, CacheUpdate, RemoteUpdate, waitVars
  <2>9. CASE ConnectionCloses \/ \E status \in ProviderStatus : ConnectionStatusChanges(status)
    BY <2>9 DEF ConnectionCloses, ConnectionStatusChanges, WaitersOnClose, WaitersOnStatus
  <2>10. CASE ConnectionFails
    BY <2>0, <2>10 DEF ConnectionFails, WaitersOnError, Settle
  <2> QED
    BY <2>2, <2>3, <2>4, <2>5, <2>7, <2>8, <2>9, <2>10 DEF Next, ProviderEvent
<1> QED
  BY <1>1, InvariantHolds, PTL DEF Spec, ResolvedMeansSaved

\* A recomputation over the installed provider erases at most the mark of that
\* provider's document, and only when the provider reports nothing outstanding.
LEMMA RecomputeErases ==
    ASSUME IInv, NEW d \in Docs, d \in ledger, d \notin ledger',
           NEW s \in Snapshot, s.docId = snap.docId,
           NEW p \in ProviderView, NEW uns \in BOOLEAN, unsaved => uns,
           NEW force \in BOOLEAN, Recompute(s, p, uns, force)
    PROVE  provider # None /\ providerDoc = d /\ ~pv'.unacked
<1>1. /\ pv' = p /\ (p.unacked => ledger \subseteq ledger')
      /\ (~hadLocal => ledger \subseteq ledger')
      /\ ledger \ {snap.docId} \subseteq ledger'
  BY RecomputeEffect DEF IInv
<1> QED
  BY <1>1 DEF IInv, EdgeTracker, SafetyInv, ProviderServesPublishedDoc

\* Only an acknowledgement seen by a document's own provider erases its mark.
THEOREM MarksNeedAcks == Spec => OnlyAcksEraseMarks
<1> DEFINE A == \A d \in Docs : d \in ledger /\ d \notin ledger' =>
                   provider # None /\ providerDoc = d /\ provider' = provider /\ ~pv'.unacked
<1>1. IInv /\ [Next]_vars => [A]_vars
  <2> SUFFICES ASSUME IInv, Next, NEW d \in Docs, d \in ledger, d \notin ledger'
               PROVE  provider # None /\ providerDoc = d /\ provider' = provider
                      /\ ~pv'.unacked
    OBVIOUS
  <2>0. /\ snap \in Snapshot /\ pv \in ProviderView /\ unsaved \in BOOLEAN
        /\ pv.synced \in BOOLEAN /\ pv.unacked \in BOOLEAN /\ snap.docId \in Docs
    BY DEF IInv, TypeOK, ProviderView, Snapshot
  <2>1. ASSUME NEW s \in Snapshot, s.docId = snap.docId,
               NEW p \in ProviderView, NEW uns \in BOOLEAN, unsaved => uns,
               NEW force \in BOOLEAN, Recompute(s, p, uns, force), Event
        PROVE  provider # None /\ providerDoc = d /\ provider' = provider /\ ~pv'.unacked
    BY <2>1, RecomputeErases DEF Event, attachVars
  <2>2. CASE Lifecycle
    <3>1. Teardown
      BY <2>2 DEF Lifecycle, setDocId, detach, destroy, attach, Stop
    <3> QED
      BY <3>1 DEF Teardown
  <2>3. CASE FactorySettles
    <3>1. PICK f \in pending : FactoryResolves(f) /\ f.version = attachVersion
      BY <2>3 DEF FactorySettles, FactoryResolves, FactoryRejects
    <3>2. PICK unacked \in BOOLEAN :
              ApplyProviderResult(f, [NoProvider EXCEPT !.unacked = unacked])
      BY <3>1 DEF FactoryResolves
    <3> DEFINE p == [NoProvider EXCEPT !.unacked = unacked]
               s == [Unhydrated(snap.docId, FALSE, toConnectionStatus(p.status))
                        EXCEPT !.localCacheHydrated = (snap.docId \in content)]
    <3>3. p \in ProviderView /\ p.status = "offline"
      BY DEF NoProvider, ProviderView, ProviderStatus
    <3>4. s \in Snapshot /\ s.docId = snap.docId
      <4>1. toConnectionStatus(p.status) \in ConnectionStatus
        BY <3>3 DEF toConnectionStatus, ConnectionStatus
      <4>2. (snap.docId \in content) \in BOOLEAN
        OBVIOUS
      <4> QED
        BY <2>0, <4>1, <4>2 DEF Unhydrated, Snapshot
    <3>5. Recompute(s, p, unsaved, FALSE)
      BY <3>2 DEF ApplyProviderResult
    <3> HIDE DEF p, s
    <3>6. provider # None
      BY <2>0, <3>3, <3>4, <3>5, RecomputeErases
    <3>7. provider = None
      BY <3>1 DEF IInv, CurrentFactory
    <3> QED
      BY <3>6, <3>7
  <2>4. CASE LocalEdit
    <3> DEFINE p == [pv EXCEPT !.unacked = TRUE]
    <3>1. p \in ProviderView
      BY <2>0 DEF ProviderView
    <3>2. Event /\ Recompute(snap, p, TRUE, FALSE)
      BY <2>4 DEF LocalEdit
    <3> HIDE DEF p
    <3> QED
      BY <2>0, <2>1, <3>1, <3>2
  <2>5. CASE CacheUpdate
    <3>1. PICK unacked \in {pv.unacked, TRUE} :
            Recompute([snap EXCEPT !.localCacheHydrated = TRUE],
                      [pv EXCEPT !.unacked = unacked], unsaved, FALSE)
      BY <2>5 DEF CacheUpdate
    <3> DEFINE s == [snap EXCEPT !.localCacheHydrated = TRUE]
               p == [pv EXCEPT !.unacked = unacked]
    <3>2. s \in Snapshot /\ s.docId = snap.docId /\ p \in ProviderView
      BY <2>0 DEF Snapshot, ProviderView
    <3>3. Event /\ Recompute(s, p, unsaved, FALSE)
      BY <2>5, <3>1 DEF CacheUpdate
    <3> HIDE DEF s, p
    <3> QED
      BY <2>0, <2>1, <3>2, <3>3
  <2>6. CASE ProviderSyncs \/ ProviderAcks
    <3>1. PICK p \in {[pv EXCEPT !.synced = TRUE], [pv EXCEPT !.unacked = FALSE]} :
              Event /\ Recompute(snap, p, unsaved, FALSE)
      BY <2>6 DEF ProviderSyncs, ProviderAcks
    <3>2. p \in ProviderView
      BY <2>0 DEF ProviderView
    <3> QED
      BY <2>0, <2>1, <3>1, <3>2
  <2>7. ASSUME NEW status \in ProviderStatus, ConnectionStatusChanges(status)
        PROVE  provider # None /\ providerDoc = d /\ provider' = provider /\ ~pv'.unacked
    <3> DEFINE s == [snap EXCEPT !.status = toConnectionStatus(status)]
               p == [pv EXCEPT !.status = status]
    <3>1. toConnectionStatus(status) \in ConnectionStatus
      BY DEF toConnectionStatus, ConnectionStatus, ProviderStatus
    <3>2. s \in Snapshot /\ s.docId = snap.docId /\ p \in ProviderView
      BY <2>0, <3>1 DEF Snapshot, ProviderView
    <3>3. Event /\ Recompute(s, p, unsaved, FALSE)
      BY <2>7 DEF ConnectionStatusChanges
    <3> HIDE DEF s, p
    <3> QED
      BY <2>0, <2>1, <3>2, <3>3
  <2>8. CASE ConnectionCloses
    <3>1. PICK synced \in {pv.synced, FALSE} :
            Recompute([snap EXCEPT !.status = "disconnected"],
                      [pv EXCEPT !.synced = synced], unsaved, TRUE)
      BY <2>8 DEF ConnectionCloses
    <3> DEFINE s == [snap EXCEPT !.status = "disconnected"]
               p == [pv EXCEPT !.synced = synced]
    <3>2. s \in Snapshot /\ s.docId = snap.docId /\ p \in ProviderView
      BY <2>0 DEF Snapshot, ProviderView, ConnectionStatus
    <3>3. Event /\ Recompute(s, p, unsaved, TRUE)
      BY <2>8, <3>1 DEF ConnectionCloses
    <3> HIDE DEF s, p
    <3> QED
      BY <2>0, <2>1, <3>2, <3>3
  <2>9. CASE ConnectionFails
    <3> DEFINE s == [snap EXCEPT !.status = "error"]
    <3>1. s \in Snapshot /\ s.docId = snap.docId
      BY <2>0 DEF Snapshot, ConnectionStatus, ProviderStatus
    <3>2. Event /\ Recompute(s, pv, unsaved, TRUE)
      BY <2>9 DEF ConnectionFails
    <3> HIDE DEF s
    <3> QED
      BY <2>0, <2>1, <3>1, <3>2
  <2>10. CASE RemoteUpdate \/ \E w \in Waiters :
                 awaitSynced(w) \/ AttachTaskSettled(w) \/ ReconnectDeadline(w)
    BY <2>10 DEF RemoteUpdate, awaitSynced, AttachTaskSettled, ReconnectDeadline
  <2> QED
    BY <2>2, <2>3, <2>4, <2>5, <2>6, <2>7, <2>8, <2>9, <2>10 DEF Next, ProviderEvent
<1> QED
  BY <1>1, InvariantHolds, PTL DEF Spec, OnlyAcksEraseMarks

\* A superseded attach settles without any observable effect.
THEOREM LateFactoriesAreSilent == Spec => SupersededAttachIsSilent
<1> DEFINE A == \A f \in pending : f \notin pending' /\ f.version # attachVersion =>
                   UNCHANGED <<snap, provider, live, ledger, flagVars>>
<1>1. [Next]_vars => [A]_vars
  <2> SUFFICES ASSUME Next, NEW f \in pending, f \notin pending', f.version # attachVersion
               PROVE  UNCHANGED <<snap, provider, live, ledger, flagVars>>
    OBVIOUS
  <2>1. CASE Lifecycle
    BY <2>1 DEF Lifecycle, setDocId, detach, destroy, attach, Stop
  <2>2. CASE FactorySettles
    <3>1. PICK g \in pending : FactoryResolves(g) \/ FactoryRejects(g)
      BY <2>2 DEF FactorySettles
    <3>2. f = g
      BY <3>1 DEF FactoryResolves, FactoryRejects, Settled
    <3> QED
      BY <3>1, <3>2 DEF FactoryResolves, FactoryRejects
  <2>3. CASE ProviderEvent
    <3>1. Event
      BY <2>3 DEF ProviderEvent, LocalEdit, CacheUpdate, RemoteUpdate, ProviderSyncs,
         ProviderAcks, ConnectionStatusChanges, ConnectionCloses, ConnectionFails
    <3> QED
      BY <3>1 DEF Event, attachVars
  <2>4. ASSUME NEW w \in Waiters, awaitSynced(w) \/ AttachTaskSettled(w) \/ ReconnectDeadline(w)
        PROVE  FALSE
    BY <2>4 DEF awaitSynced, AttachTaskSettled, ReconnectDeadline, attachVars
  <2> QED
    BY <2>1, <2>2, <2>3, <2>4 DEF Next
<1> QED
  BY <1>1, PTL DEF Spec, SupersededAttachIsSilent

=============================================================================
