------------------------- MODULE DocProvider_proofs -------------------------
(***************************************************************************)
(* What holds of DocProvider for any number of sessions and of writes in   *)
(* flight: a destroyed session stays down, a handle outlives the writes    *)
(* over it, and a headless job's write is on the server before the job     *)
(* looks for it on disk.                                                   *)
(***************************************************************************)
EXTENDS DocProvider, TLAPS

\* No helper exists before the provider that makes it.
HelperNeedsProvider ==
    \A s \in Sessions : stage[s] \in {"idle", "deciding"} => idb[s] = "none"

ProviderInv == TypeOK /\ DestroyedStaysDown /\ WritesKeepTheirHandle /\ HelperNeedsProvider

JobTypeOK == job \in [at : {"attach", "sync", "run", "read", "drain", "persist", "done", "failed"},
                      synced : BOOLEAN, unacked : BOOLEAN]

\* Nothing unacknowledged is left of a write that is not on the server.
AckMeansServer == job.at = "drain" /\ ~job.unacked => server

JobInv == JobTypeOK /\ WriteReachesServer /\ AckMeansServer
-----------------------------------------------------------------------------
\* The invariant holds before the first session is opened.
LEMMA ProviderInit == Init => ProviderInv
BY DEF Init, ProviderInv, TypeOK, DestroyedStaysDown, WritesKeepTheirHandle, HelperNeedsProvider

\* The steps of the provider and of the browser keep the invariant.
LEMMA ProviderStep == ProviderInv /\ (Browser \/ Client) => ProviderInv'
<1> SUFFICES ASSUME ProviderInv, Browser \/ Client PROVE ProviderInv'
    OBVIOUS
<1> USE DEF ProviderInv, TypeOK, DestroyedStaysDown, WritesKeepTheirHandle, HelperNeedsProvider
<1>1. CASE Decide
    BY <1>1 DEF Decide
<1>2. ASSUME NEW ok \in BOOLEAN, FetchSettles(ok) PROVE ProviderInv'
    BY <1>2 DEF FetchSettles, Settled
<1>3. ASSUME NEW s \in Sessions, SocketCloses(s) PROVE ProviderInv'
    BY <1>3 DEF SocketCloses
<1>4. ASSUME NEW s \in Sessions, HelperAppears(s) PROVE ProviderInv'
    BY <1>4 DEF HelperAppears, Appears, Finalized
<1>5. ASSUME NEW s \in Sessions, WriteSettles(s) PROVE ProviderInv'
    <2>1. writes[s] \in Nat /\ writes[s] > 0 /\ idb[s] \in {"open", "closing"}
        BY <1>5 DEF WriteSettles
    <2>2. writes' = [writes EXCEPT ![s] = writes[s] - 1] /\ writes[s] - 1 \in Nat
        BY <1>5, <2>1 DEF WriteSettles
    <2>3. TypeOK' /\ DestroyedStaysDown' /\ HelperNeedsProvider'
        BY <1>5, <2>1, <2>2 DEF WriteSettles
    <2>4. CASE idb[s] = "closing" /\ writes[s] = 1
        BY <1>5, <2>1, <2>2, <2>4 DEF WriteSettles
    <2>5. CASE ~(idb[s] = "closing" /\ writes[s] = 1)
        BY <1>5, <2>1, <2>2, <2>5 DEF WriteSettles
    <2> QED
        BY <2>3, <2>4, <2>5
<1>6. CASE Evict \/ AskWipe \/ Wiped
    BY <1>6 DEF Evict, AskWipe, Wiped
<1>7. ASSUME NEW s \in Sessions, Make(s) PROVE ProviderInv'
    BY <1>7 DEF Make
<1>8. ASSUME NEW s \in Sessions, Create(s) PROVE ProviderInv'
    BY <1>8 DEF Create
<1>9. ASSUME NEW s \in Sessions, Connect(s) PROVE ProviderInv'
    BY <1>9 DEF Connect
<1>10. ASSUME NEW s \in Sessions, Edit(s) PROVE ProviderInv'
    BY <1>10 DEF Edit
<1>11. ASSUME NEW s \in Sessions, Destroy(s) PROVE ProviderInv'
    BY <1>11 DEF Destroy, Finalized
<1> QED
    BY <1>1, <1>2, <1>3, <1>4, <1>5, <1>6, <1>7, <1>8, <1>9, <1>10, <1>11 DEF Browser, Client

\* The steps of the headless job leave the documents' variables, and with them
\* the invariant, alone.
LEMMA ProviderStutter == ProviderInv /\ UNCHANGED docVars => ProviderInv'
BY DEF ProviderInv, TypeOK, DestroyedStaysDown, WritesKeepTheirHandle, HelperNeedsProvider, docVars

\* The types, the two promises about sessions and HelperNeedsProvider (no helper
\* exists before its provider) hold of every behaviour, whatever the job does.
THEOREM ProviderInvariant == Spec => []ProviderInv
<1>1. Init => ProviderInv
    BY ProviderInit
<1>2. ProviderInv /\ [Next]_vars => ProviderInv'
    BY ProviderStep, ProviderStutter DEF Next, vars
<1> QED
    BY <1>1, <1>2, PTL DEF Spec

\* A destroyed session never gets a socket back and never complains of a token
\* (settleUnlessDestroyed), whoever shares its token request.
THEOREM DestroyedSessionsStayDown == Spec => []DestroyedStaysDown
<1>1. ProviderInv => DestroyedStaysDown
    BY DEF ProviderInv
<1> QED
    BY <1>1, ProviderInvariant, PTL

\* The handle of the database outlives every write over it
\* (maybeFinalizeDestroy), for any number of writes in flight.
THEOREM HandlesOutliveWrites == Spec => []WritesKeepTheirHandle
<1>1. ProviderInv => WritesKeepTheirHandle
    BY DEF ProviderInv
<1> QED
    BY <1>1, ProviderInvariant, PTL
-----------------------------------------------------------------------------
\* The steps of the headless job keep the invariant of its three waits.
LEMMA JobStep == JobInv /\ Job => JobInv'
<1> SUFFICES ASSUME JobInv, Job PROVE JobInv'
    OBVIOUS
<1> USE DEF JobInv, JobTypeOK, WriteReachesServer, AckMeansServer
<1>1. CASE Attach \/ Hydrate \/ RunWrites \/ RunReads
    BY <1>1 DEF Attach, Hydrate, RunWrites, RunReads
<1>2. CASE Drain
    BY <1>2 DEF Drain, Ready
<1>3. CASE Persisted \/ JobFails
    BY <1>3 DEF Persisted, JobFails
<1>4. CASE JobSyncs \/ JobAcked \/ JobCloses \/ Flush
    BY <1>4 DEF JobSyncs, JobAcked, JobCloses, Flush
<1> QED
    BY <1>1, <1>2, <1>3, <1>4 DEF Job

\* The steps of the documents leave the job's invariant alone.
LEMMA JobStutter == JobInv /\ UNCHANGED jobVars => JobInv'
BY DEF JobInv, JobTypeOK, WriteReachesServer, AckMeansServer, jobVars

\* A headless job that looks for its data on disk has its write on the server:
\* a lost connection after the write is waited out (the second awaitSynced).
THEOREM HeadlessWritesReachServer == Spec => []WriteReachesServer
<1>1. Init => JobInv
    BY DEF Init, JobInv, JobTypeOK, WriteReachesServer, AckMeansServer
<1>2. JobInv /\ [Next]_vars => JobInv'
    BY JobStep, JobStutter DEF Next, vars
<1>3. JobInv => WriteReachesServer
    BY DEF JobInv
<1> QED
    BY <1>1, <1>2, <1>3, PTL DEF Spec

\* The three together: a session that ends stays down and leaves no write behind.
THEOREM SessionsEndCleanly == Spec => []EndsAreClean
<1>1. DestroyedStaysDown /\ WritesKeepTheirHandle /\ WriteReachesServer => EndsAreClean
    BY DEF EndsAreClean
<1> QED
    BY <1>1, DestroyedSessionsStayDown, HandlesOutliveWrites, HeadlessWritesReachServer, PTL
=============================================================================
