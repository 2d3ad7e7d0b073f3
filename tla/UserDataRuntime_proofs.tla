----------------------- MODULE UserDataRuntime_proofs -----------------------
(***************************************************************************)
(* Proofs about UserDataRuntime for any accounts, source servers and       *)
(* bounds: sessions are owned, loads are tended, and lists are true.       *)
(***************************************************************************)
EXTENDS UserDataRuntime, FiniteSetTheorems, TLAPS

\* What a generation's load, session and context have to do with each other; no
\* source is linked before the projection is read, and loads of generations to
\* come have not begun.
GenerationsOwnTheirLoads ==
    /\ \A g \in Gens : load[g].fetch # 0 <=> load[g].pc = "bootstrap"
    /\ \A g \in Gens : g > generation => load[g] = IdleLoad
    /\ pending = IF load[generation].pc = "context" THEN generation ELSE 0
    /\ context = IF ready THEN generation ELSE 0
    /\ ready => load[generation].pc = "idle"
    /\ ready \/ load[generation].pc = "context" => docOf[generation] # Nobody
    /\ ~ready => linked = {}

\* A runtime the store has was started in this generation, and a session of its
\* own is pending exactly while its chain waits for it to sync.
RuntimesOwnTheirChains ==
    \A s \in Servers :
        /\ remote[s].id = 0 => remote[s] = NoRuntime
        /\ remote[s].id # 0 =>
             LET c == chain[s][remote[s].id]
             IN  /\ c.pc # "idle" => c.gen = generation
                 /\ remote[s].pending <=> (c.pc = "context")

\* The documents observed since this generation began are those that are served.
ObservedAreServed ==
    /\ \A o \in observed : o[2] <= generation
    /\ <<HomeSession(generation), generation>> \in observed => ready
    /\ \A s \in Servers, i \in Runtimes :
         <<SourceSession(s, i), generation>> \in observed => remote[s].context /\ remote[s].id = i

RuntimeInv ==
    /\ TypeOK /\ SessionsAreHeld
    /\ StartupNeverStalls /\ LinkedSourcesAreTended
    /\ SubscribersAreUpToDate /\ ListsAreServed
    /\ GenerationsOwnTheirLoads /\ RuntimesOwnTheirChains /\ ObservedAreServed
-----------------------------------------------------------------------------
\* The module is loaded: nothing is open, linked or listed.
LEMMA InitInv == Init => RuntimeInv
<1> SUFFICES ASSUME Init PROVE RuntimeInv
    OBVIOUS
<1> USE RuntimeAssumption DEF RuntimeAssumption
<1>1. TypeOK
  <2> USE DEF Init
  <2>1. signedIn \in Someone /\ known \in BOOLEAN /\ signedOut \in BOOLEAN /\ stored \in Someone /\ mounted \in BOOLEAN
    BY DEF Someone
  <2>2. memo \in [fetch : 0..MaxFetches, acct : Someone] /\ fetch \in [Fetches -> [open : BOOLEAN, by : Someone]]
    BY DEF Someone, NoMemo, NoFetch
  <2>3. /\ load \in [Gens -> [pc : {"idle", "bootstrap", "context"}, fetch : 0..MaxFetches, starter : BOOLEAN]]
        /\ docOf \in [Gens -> Someone] /\ generation \in Gens
        /\ context \in 0..MaxGen /\ pending \in 0..MaxGen
    BY DEF Someone, Gens, IdleLoad
  <2>4. remote \in [Servers -> [id : 0..MaxRuntimes, loading : BOOLEAN, retry : BOOLEAN, pending : BOOLEAN, context : BOOLEAN]]
    BY DEF NoRuntime
  <2>5. chain \in [Servers -> [Runtimes -> [pc : {"idle", "bootstrap", "context"}, gen : 0..MaxGen]]]
    BY DEF IdleChain
  <2>6. listed \in [{"home"} \cup Servers -> [from : Sessions \cup {HomeSession(0)}, docs : SUBSET {"home", "other"}]]
    BY DEF NoList
  <2>7. DOMAIN shown = {"home", "loading", "sources"}
    BY DEF View
  <2> QED
    BY <2>1, <2>2, <2>3, <2>4, <2>5, <2>6, <2>7 DEF TypeOK
<1>2. SessionsAreHeld
    BY DEF Init, SessionsAreHeld, HeldSessions, Stopped, NoRuntime
<1>3. StartupNeverStalls /\ SubscribersAreUpToDate
    BY DEF Init, StartupNeverStalls, SubscribersAreUpToDate
<1>4. LinkedSourcesAreTended
    BY DEF Init, LinkedSourcesAreTended, NoRuntime
<1>5. ListsAreServed
    BY DEF Init, ListsAreServed, NoRuntime
<1>6. GenerationsOwnTheirLoads
    BY DEF Init, GenerationsOwnTheirLoads, IdleLoad, Gens
<1>7. RuntimesOwnTheirChains
    BY DEF Init, RuntimesOwnTheirChains, NoRuntime
<1>8. ObservedAreServed
    BY DEF Init, ObservedAreServed
<1> QED
    BY <1>1, <1>2, <1>3, <1>4, <1>5, <1>6, <1>7, <1>8 DEF RuntimeInv
-----------------------------------------------------------------------------
(* Steps of the app and of the bootstrap, which leave the remote runtimes  *)

\* Steps of the account alone: all that the invariant says of it is its type.
LEMMA AccountStep ==
    ASSUME RuntimeInv, TypeOK', UNCHANGED <<storeVars, remoteVars, live, listVars>>
    PROVE  RuntimeInv'
<1>1. UNCHANGED <<generation, load, docOf, ready, context, pending, retry, started, linked, remote,
                  chain, live, listed, observed, shown>>
    BY DEF storeVars, remoteVars, listVars
<1>2. SessionsAreHeld'
    BY <1>1 DEF RuntimeInv, SessionsAreHeld, HeldSessions, Stopped, RuntimeSession
<1>3. StartupNeverStalls' /\ GenerationsOwnTheirLoads'
    BY <1>1 DEF RuntimeInv, StartupNeverStalls, GenerationsOwnTheirLoads
<1>4. LinkedSourcesAreTended' /\ RuntimesOwnTheirChains' /\ ObservedAreServed'
    BY <1>1 DEF RuntimeInv, LinkedSourcesAreTended, RuntimesOwnTheirChains, ObservedAreServed
<1>5. SubscribersAreUpToDate'
    BY <1>1 DEF RuntimeInv, SubscribersAreUpToDate, View, getDocumentSourcesLoading, createDocumentSources
<1>6. ListsAreServed'
    BY <1>1 DEF RuntimeInv, ListsAreServed, homeDocument, RuntimeSession
<1> QED
    BY <1>2, <1>3, <1>4, <1>5, <1>6 DEF RuntimeInv

\* What the steps of the user's own data document leave alone keeps the parts of
\* the invariant that are about the sources.
LEMMA SourcesAlone ==
    ASSUME RuntimeInv, UNCHANGED <<generation, ready, context, remoteVars, listed, observed>>
    PROVE  /\ LinkedSourcesAreTended' /\ RuntimesOwnTheirChains' /\ ObservedAreServed'
           /\ docOf'[generation] = docOf[generation] \/ ~ready => ListsAreServed'
BY DEF RuntimeInv, remoteVars, RuntimeSession, LinkedSourcesAreTended, ListsAreServed, homeDocument,
       RuntimesOwnTheirChains, ObservedAreServed

\* Opening the session of the current generation: it is the one the store waits for.
LEMMA OpenContextKeeps ==
    ASSUME RuntimeInv, NEW a \in Accounts, OpenContext(a),
           ~ready, load[generation].pc # "context",
           load'[generation].pc = "context",
           \A g \in Gens : load'[g].fetch # 0 <=> load'[g].pc = "bootstrap",
           \A g \in Gens : g > generation => load'[g] = IdleLoad,
           UNCHANGED <<generation, ready, context, remoteVars, listed, observed>>
    PROVE  /\ SessionsAreHeld' /\ SubscribersAreUpToDate' /\ GenerationsOwnTheirLoads' /\ ListsAreServed'
           /\ docOf' \in [Gens -> Someone] /\ pending' \in 0..MaxGen /\ live' \subseteq Sessions
           /\ DOMAIN shown' = {"home", "loading", "sources"}
<1> USE RuntimeAssumption DEF RuntimeAssumption
<1>1. pending = 0 /\ context = 0 /\ generation \in Gens /\ docOf \in [Gens -> Someone] /\ live \subseteq Sessions
    BY DEF RuntimeInv, TypeOK, GenerationsOwnTheirLoads
<1>2. SessionsAreHeld'
    BY <1>1 DEF RuntimeInv, OpenContext, SessionsAreHeld, HeldSessions, Stopped, RuntimeSession, remoteVars, Gens
<1>3. SubscribersAreUpToDate' /\ DOMAIN shown' = {"home", "loading", "sources"}
    BY DEF OpenContext, bumpVersion, SubscribersAreUpToDate, View
<1>4. GenerationsOwnTheirLoads'
    BY <1>1 DEF RuntimeInv, OpenContext, GenerationsOwnTheirLoads, remoteVars, Someone
<1>5. ListsAreServed'
    BY <1>1, SourcesAlone
<1>6. docOf' \in [Gens -> Someone] /\ pending' \in 0..MaxGen /\ live' \subseteq Sessions
    BY <1>1 DEF OpenContext, Someone, Sessions, HomeSession, Gens
<1> QED
    BY <1>2, <1>3, <1>4, <1>5, <1>6

\* A step that opens no session and leaves the lists alone tells nobody anything.
LEMMA NothingNewToRead ==
    ASSUME RuntimeInv, UNCHANGED <<generation, docOf, ready, linked, listed, shown>>,
           \A s \in Servers : remote'[s].loading \/ remote'[s].retry <=> remote[s].loading \/ remote[s].retry
    PROVE  SubscribersAreUpToDate'
BY DEF RuntimeInv, SubscribersAreUpToDate, View, getDocumentSourcesLoading, createDocumentSources

\* A load that begins, goes on or ends without a session of its own.
LEMMA QuietLoadKeeps ==
    ASSUME RuntimeInv, UNCHANGED <<generation, docOf, ready, context, pending, remoteVars, live, listVars>>,
           load'[generation].pc = "context" <=> load[generation].pc = "context",
           ready => load'[generation].pc = "idle",
           \A g \in Gens : load'[g].fetch # 0 <=> load'[g].pc = "bootstrap",
           \A g \in Gens : g > generation => load'[g] = IdleLoad
    PROVE  /\ SessionsAreHeld' /\ SubscribersAreUpToDate' /\ GenerationsOwnTheirLoads'
           /\ LinkedSourcesAreTended' /\ RuntimesOwnTheirChains' /\ ObservedAreServed' /\ ListsAreServed'
<1>1. SessionsAreHeld'
    BY DEF RuntimeInv, SessionsAreHeld, HeldSessions, Stopped, RuntimeSession, remoteVars
<1>2. SubscribersAreUpToDate'
    BY NothingNewToRead DEF remoteVars, listVars
<1>3. GenerationsOwnTheirLoads'
    BY DEF RuntimeInv, GenerationsOwnTheirLoads, remoteVars
<1>4. LinkedSourcesAreTended' /\ RuntimesOwnTheirChains' /\ ObservedAreServed' /\ ListsAreServed'
    BY SourcesAlone DEF listVars
<1> QED
    BY <1>1, <1>2, <1>3, <1>4

\* fetchCurrentUserBootstrap: a caller waits for a fetch, never for none.
LEMMA FetchToWaitFor ==
    ASSUME TypeOK, memo.acct = Nobody, getCurrentUserBootstrap
    PROVE  /\ memo' \in [fetch : 0..MaxFetches, acct : Someone] /\ memo'.fetch \in Fetches
           /\ fetch' \in [Fetches -> [open : BOOLEAN, by : Someone]]
<1> USE DEF TypeOK, Fetches, Someone
<1>1. CASE memo = NoMemo
    <2>1. PICK p \in Fetches : SendFetch(p)
        BY <1>1 DEF getCurrentUserBootstrap
    <2> QED
        BY <2>1 DEF SendFetch, NoMemo
<1>2. CASE memo # NoMemo
    <2>1. memo = [fetch |-> memo.fetch, acct |-> memo.acct]
        OBVIOUS
    <2> QED
        BY <1>2, <2>1 DEF getCurrentUserBootstrap, NoMemo
<1> QED
    BY <1>1, <1>2

\* ensureReady, by a starter or by a caller that leaves the retry as it is.
LEMMA EnsureReadyKeeps ==
    ASSUME RuntimeInv, NEW starter \in BOOLEAN, ensureReady(starter),
           UNCHANGED <<stored, generation, ready, context, remoteVars, listed, observed>>,
           signedIn' \in Someone, known' \in BOOLEAN, signedOut' \in BOOLEAN, mounted' \in BOOLEAN,
           retry' \in BOOLEAN, started' \in BOOLEAN,
           starter \/ UNCHANGED <<retry, started>>
    PROVE  RuntimeInv'
<1> USE RuntimeAssumption DEF RuntimeAssumption
<1>1. TypeOK
    BY DEF RuntimeInv
<1>2. /\ LinkedSourcesAreTended' /\ RuntimesOwnTheirChains' /\ ObservedAreServed'
    BY SourcesAlone
<1>3. CASE ready
    <2>1. UNCHANGED <<load, memo, fetch, docOf, live, pending, shown>>
        BY <1>3 DEF ensureReady
    <2>2. TypeOK'
        BY <1>1, <2>1 DEF TypeOK, remoteVars
    <2>3. StartupNeverStalls'
        BY <1>3 DEF StartupNeverStalls
    <2> QED
        BY <2>1, <2>2, <2>3, <1>3, QuietLoadKeeps DEF RuntimeInv, listVars, GenerationsOwnTheirLoads
<1>4. CASE ~ready /\ load[generation].pc # "idle"
    <2>1. /\ load' = [load EXCEPT ![generation].starter = @ \/ starter]
          /\ UNCHANGED <<memo, fetch, docOf, live, pending, shown>>
        BY <1>4 DEF ensureReady
    <2>2. /\ \A g \in Gens : load'[g].pc = load[g].pc /\ load'[g].fetch = load[g].fetch
          /\ \A g \in Gens : g > generation => load'[g] = IdleLoad
          /\ load'[generation].starter <=> load[generation].starter \/ starter
          /\ load' \in [Gens -> [pc : {"idle", "bootstrap", "context"}, fetch : 0..MaxFetches, starter : BOOLEAN]]
        BY <1>1, <2>1 DEF TypeOK, Gens, RuntimeInv, GenerationsOwnTheirLoads
    <2>3. TypeOK'
        BY <1>1, <2>1, <2>2 DEF TypeOK, remoteVars
    <2>4. StartupNeverStalls'
        BY <1>1, <1>4, <2>2 DEF StartupNeverStalls, RuntimeInv, TypeOK
    <2> QED
        BY <2>1, <2>2, <2>3, <2>4, <1>1, <1>4, QuietLoadKeeps DEF RuntimeInv, listVars, GenerationsOwnTheirLoads, TypeOK
<1>5. CASE ~ready /\ load[generation].pc = "idle" /\ memo.acct # Nobody
    <2>1. /\ load' = [load EXCEPT ![generation] = [pc |-> "context", fetch |-> 0, starter |-> starter]]
          /\ OpenContext(memo.acct) /\ UNCHANGED <<memo, fetch>>
        BY <1>5 DEF ensureReady
    <2>2. /\ load' \in [Gens -> [pc : {"idle", "bootstrap", "context"}, fetch : 0..MaxFetches, starter : BOOLEAN]]
          /\ load'[generation] = [pc |-> "context", fetch |-> 0, starter |-> starter]
          /\ \A g \in Gens : g # generation => load'[g] = load[g]
          /\ generation \in Gens /\ memo.acct \in Accounts
        BY <1>1, <1>5, <2>1 DEF TypeOK, Someone
    <2>3. /\ SessionsAreHeld' /\ SubscribersAreUpToDate' /\ GenerationsOwnTheirLoads' /\ ListsAreServed'
          /\ docOf' \in [Gens -> Someone] /\ pending' \in 0..MaxGen /\ live' \subseteq Sessions
          /\ DOMAIN shown' = {"home", "loading", "sources"}
        <3>1. /\ \A g \in Gens : load'[g].fetch # 0 <=> load'[g].pc = "bootstrap"
              /\ \A g \in Gens : g > generation => load'[g] = IdleLoad
            BY <2>2 DEF RuntimeInv, GenerationsOwnTheirLoads, Gens
        <3> QED
            BY <1>5, <2>1, <2>2, <3>1, OpenContextKeeps
    <2>4. TypeOK'
        BY <1>1, <2>1, <2>2, <2>3 DEF TypeOK, remoteVars
    <2>5. StartupNeverStalls'
        <3>1. CASE starter
            BY <2>2, <3>1 DEF StartupNeverStalls
        <3>2. CASE ~starter
            BY <1>5, <3>2 DEF StartupNeverStalls, RuntimeInv
        <3> QED
            BY <3>1, <3>2
    <2> QED
        BY <1>2, <2>3, <2>4, <2>5 DEF RuntimeInv
<1>6. CASE ~ready /\ load[generation].pc = "idle" /\ memo.acct = Nobody
    <2>1. /\ getCurrentUserBootstrap
          /\ load' = [load EXCEPT ![generation] = [pc |-> "bootstrap", fetch |-> memo'.fetch, starter |-> starter]]
          /\ UNCHANGED <<docOf, live, pending, shown>>
        BY <1>6 DEF ensureReady
    <2>2. /\ memo' \in [fetch : 0..MaxFetches, acct : Someone] /\ memo'.fetch \in Fetches
          /\ fetch' \in [Fetches -> [open : BOOLEAN, by : Someone]]
        BY <1>1, <1>6, <2>1, FetchToWaitFor
    <2>3. /\ load' \in [Gens -> [pc : {"idle", "bootstrap", "context"}, fetch : 0..MaxFetches, starter : BOOLEAN]]
          /\ load'[generation] = [pc |-> "bootstrap", fetch |-> memo'.fetch, starter |-> starter]
          /\ \A g \in Gens : g # generation => load'[g] = load[g]
          /\ generation \in Gens /\ memo'.fetch # 0
        BY <1>1, <1>6, <2>1, <2>2 DEF TypeOK, Fetches
    <2>4. TypeOK'
        BY <1>1, <2>1, <2>2, <2>3 DEF TypeOK, remoteVars
    <2>5. StartupNeverStalls'
        <3>1. CASE starter
            BY <2>3, <3>1 DEF StartupNeverStalls
        <3>2. CASE ~starter
            BY <1>6, <3>2 DEF StartupNeverStalls, RuntimeInv
        <3> QED
            BY <3>1, <3>2
    <2>6. /\ \A g \in Gens : load'[g].fetch # 0 <=> load'[g].pc = "bootstrap"
          /\ \A g \in Gens : g > generation => load'[g] = IdleLoad
        <3>1. \A g \in Gens : /\ load[g].fetch # 0 <=> load[g].pc = "bootstrap"
                              /\ g > generation => load[g] = IdleLoad
            BY DEF RuntimeInv, GenerationsOwnTheirLoads
        <3>2. load'[generation].fetch # 0 /\ load'[generation].pc = "bootstrap"
            BY <2>3
        <3>3. \A g \in Gens : load'[g].fetch # 0 <=> load'[g].pc = "bootstrap"
            BY <2>3, <3>1, <3>2
        <3>4. \A g \in Gens : g > generation => g # generation
            BY <2>3 DEF Gens
        <3> QED
            BY <2>3, <3>1, <3>3, <3>4
    <2> QED
        BY <2>1, <2>3, <2>4, <2>5, <2>6, <1>6, QuietLoadKeeps DEF RuntimeInv, listVars
<1> QED
    BY <1>3, <1>4, <1>5, <1>6

\* A fetch gave a's bootstrap: the current load opens its session if it was the
\* one that waited, and the loads of earlier generations end.
LEMMA BootstrapArrivesKeeps ==
    ASSUME RuntimeInv, NEW p \in Fetches, NEW a \in Accounts, BootstrapArrives(p, a), stored' \in Someone
    PROVE  RuntimeInv'
<1> USE RuntimeAssumption DEF RuntimeAssumption
<1>1. TypeOK /\ p # 0 /\ generation \in Gens
    BY DEF RuntimeInv, TypeOK, Fetches
<1>2. /\ load' \in [Gens -> [pc : {"idle", "bootstrap", "context"}, fetch : 0..MaxFetches, starter : BOOLEAN]]
      /\ \A g \in Gens : load'[g].fetch # 0 <=> load'[g].pc = "bootstrap"
      /\ \A g \in Gens : g > generation => load'[g] = IdleLoad
      /\ load[generation].fetch # p => load'[generation] = load[generation]
      /\ load[generation].fetch = p =>
           load'[generation].pc = "context" /\ (load'[generation].starter <=> load[generation].starter)
  <2>1. \A g \in Gens : load'[g] = IF load[g].fetch # p THEN load[g]
                                   ELSE IF g # generation THEN IdleLoad
                                   ELSE [load[g] EXCEPT !.pc = "context", !.fetch = 0]
    BY DEF BootstrapArrives
  <2>2. load' = [g \in Gens |-> load'[g]]
    BY DEF BootstrapArrives
  <2>7. ASSUME NEW g \in Gens
        PROVE  load[g] \in [pc : {"idle", "bootstrap", "context"}, fetch : 0..MaxFetches, starter : BOOLEAN]
    BY <1>1 DEF TypeOK
  <2>8. ASSUME NEW g \in Gens
        PROVE  /\ load'[g] \in [pc : {"idle", "bootstrap", "context"}, fetch : 0..MaxFetches, starter : BOOLEAN]
               /\ load'[g].fetch # 0 <=> load'[g].pc = "bootstrap"
    <3>1. CASE load[g].fetch # p
      BY <2>1, <2>7, <3>1 DEF RuntimeInv, GenerationsOwnTheirLoads
    <3>2. CASE load[g].fetch = p /\ g # generation
      <4>1. load'[g] = IdleLoad
        BY <2>1, <3>2
      <4> QED
        BY <4>1 DEF IdleLoad
    <3>3. CASE load[g].fetch = p /\ g = generation
      <4>1. load'[g] = [load[g] EXCEPT !.pc = "context", !.fetch = 0]
        BY <2>1, <3>3
      <4>2. load'[g].pc = "context" /\ load'[g].fetch = 0
        BY <2>7, <4>1
      <4>3. 0 \in 0..MaxFetches /\ "context" \in {"idle", "bootstrap", "context"}
        OBVIOUS
      <4>4. load'[g] \in [pc : {"idle", "bootstrap", "context"}, fetch : 0..MaxFetches, starter : BOOLEAN]
        BY <2>7, <4>1, <4>3
      <4> QED
        BY <4>2, <4>4
    <3> QED
      BY <3>1, <3>2, <3>3
  <2>5. \A g \in Gens : g > generation => load'[g] = IdleLoad
    <3> SUFFICES ASSUME NEW g \in Gens, g > generation PROVE load'[g] = IdleLoad
      OBVIOUS
    <3>1. g # generation /\ load[g] = IdleLoad
      BY <1>1 DEF RuntimeInv, GenerationsOwnTheirLoads, Gens
    <3> QED
      BY <2>1, <3>1
  <2>6. load[generation].fetch = p =>
           load'[generation].pc = "context" /\ (load'[generation].starter <=> load[generation].starter)
    <3> SUFFICES ASSUME load[generation].fetch = p
                 PROVE  load'[generation].pc = "context" /\ (load'[generation].starter <=> load[generation].starter)
      OBVIOUS
    <3>1. load'[generation] = [load[generation] EXCEPT !.pc = "context", !.fetch = 0]
      BY <1>1, <2>1
    <3> QED
      BY <1>1, <2>7, <3>1
  <2> QED
    BY <1>1, <2>1, <2>2, <2>8, <2>5, <2>6
<1>3. /\ UNCHANGED <<signedIn, known, signedOut, mounted, generation, ready, context, retry, started,
                     linked, remote, chain, listed, observed>>
      /\ UNCHANGED remoteVars
      /\ fetch' \in [Fetches -> [open : BOOLEAN, by : Someone]]
      /\ memo' \in [fetch : 0..MaxFetches, acct : Someone]
  <2>1. /\ UNCHANGED <<signedIn, known, signedOut, mounted, generation, ready, context, retry, started,
                       linked, remote, chain, listed, observed>>
        /\ UNCHANGED remoteVars
    BY DEF BootstrapArrives, accountVars, remoteVars
  <2>2. fetch' \in [Fetches -> [open : BOOLEAN, by : Someone]]
    BY <1>1 DEF BootstrapArrives, TypeOK, NoFetch, Someone
  <2>3. memo' \in [fetch : 0..MaxFetches, acct : Someone]
    <3>1. memo \in [fetch : 0..MaxFetches, acct : Someone] /\ a \in Someone
      BY <1>1 DEF TypeOK, Someone
    <3>2. [NoMemo EXCEPT !.acct = a] \in [fetch : 0..MaxFetches, acct : Someone]
      BY <3>1 DEF NoMemo
    <3> QED
      BY <3>1, <3>2 DEF BootstrapArrives
  <2> QED
    BY <2>1, <2>2, <2>3
<1>4. LinkedSourcesAreTended' /\ RuntimesOwnTheirChains' /\ ObservedAreServed'
    BY <1>3, SourcesAlone
<1>5. CASE load[generation].fetch = p
  <2>1. load[generation].pc = "bootstrap" /\ ~ready /\ OpenContext(a)
    BY <1>1, <1>5 DEF RuntimeInv, GenerationsOwnTheirLoads, BootstrapArrives
  <2>2. /\ SessionsAreHeld' /\ SubscribersAreUpToDate' /\ GenerationsOwnTheirLoads' /\ ListsAreServed'
        /\ docOf' \in [Gens -> Someone] /\ pending' \in 0..MaxGen /\ live' \subseteq Sessions
        /\ DOMAIN shown' = {"home", "loading", "sources"}
    BY <1>2, <1>3, <1>5, <2>1, OpenContextKeeps
  <2>3. TypeOK'
    BY <1>1, <1>2, <1>3, <2>2 DEF TypeOK
  <2>4. StartupNeverStalls'
    BY <1>2, <1>3, <1>5, <2>1 DEF StartupNeverStalls, RuntimeInv
  <2> QED
    BY <1>4, <2>2, <2>3, <2>4 DEF RuntimeInv
<1>6. CASE load[generation].fetch # p
  <2>1. UNCHANGED <<docOf, live, pending, shown>> /\ UNCHANGED listVars
    BY <1>3, <1>6 DEF BootstrapArrives, listVars
  <2>2. TypeOK'
    BY <1>1, <1>2, <1>3, <2>1 DEF TypeOK
  <2>3. StartupNeverStalls'
    BY <1>2, <1>3, <1>6 DEF StartupNeverStalls, RuntimeInv
  <2>4. ready => load'[generation].pc = "idle"
    BY <1>2, <1>6 DEF RuntimeInv, GenerationsOwnTheirLoads
  <2> QED
    BY <1>2, <1>3, <1>6, <2>1, <2>2, <2>3, <2>4, QuietLoadKeeps DEF RuntimeInv
<1> QED
    BY <1>5, <1>6

\* A fetch failed: every load that waited for it ends, the current one with a
\* retry if a starter waited.
LEMMA FetchFailsKeeps ==
    ASSUME RuntimeInv, NEW p \in Fetches, FetchFails(p)
    PROVE  RuntimeInv'
<1> USE RuntimeAssumption DEF RuntimeAssumption
<1>1. TypeOK /\ p # 0 /\ generation \in Gens
    BY DEF RuntimeInv, TypeOK, Fetches
<1>2. /\ UNCHANGED <<signedIn, known, signedOut, mounted, stored, generation, docOf, ready, context,
                     pending, started, linked, remote, chain, live, listed, observed, shown>>
      /\ UNCHANGED <<remoteVars, listVars>>
      /\ fetch' \in [Fetches -> [open : BOOLEAN, by : Someone]]
      /\ memo' \in [fetch : 0..MaxFetches, acct : Someone]
      /\ retry' \in BOOLEAN
      /\ retry' <=> retry \/ (load[generation].fetch = p /\ load[generation].starter)
    BY <1>1 DEF FetchFails, accountVars, remoteVars, listVars, TypeOK, NoFetch, NoMemo, Someone
<1>3. \A g \in Gens : load'[g] = IF load[g].fetch = p THEN IdleLoad ELSE load[g]
    BY DEF FetchFails
<1>4. load' \in [Gens -> [pc : {"idle", "bootstrap", "context"}, fetch : 0..MaxFetches, starter : BOOLEAN]]
    BY <1>1 DEF FetchFails, TypeOK, IdleLoad
<1>5. /\ \A g \in Gens : load'[g].fetch # 0 <=> load'[g].pc = "bootstrap"
      /\ \A g \in Gens : g > generation => load'[g] = IdleLoad
      /\ load'[generation].pc = "context" <=> load[generation].pc = "context"
      /\ ready => load'[generation].pc = "idle"
    BY <1>1, <1>3 DEF RuntimeInv, GenerationsOwnTheirLoads, IdleLoad
<1>6. TypeOK'
    BY <1>1, <1>2, <1>4 DEF TypeOK
<1>7. StartupNeverStalls'
    BY <1>1, <1>2, <1>3 DEF RuntimeInv, StartupNeverStalls
<1> QED
    BY <1>2, <1>5, <1>6, <1>7, QuietLoadKeeps DEF RuntimeInv

\* A wait for a session failed: the current one's was the session the store waited
\* for; an earlier one's was destroyed by the reset that replaced it.
LEMMA ContextFailsKeeps ==
    ASSUME RuntimeInv, NEW g \in Gens, ContextFails(g)
    PROVE  RuntimeInv'
<1> USE RuntimeAssumption DEF RuntimeAssumption
<1>1. TypeOK /\ generation \in Gens
    BY DEF RuntimeInv, TypeOK
<1>2. /\ UNCHANGED <<signedIn, known, signedOut, mounted, stored, memo, fetch, generation, docOf, ready,
                     context, started, linked, remote, chain, listed, observed, shown>>
      /\ UNCHANGED <<remoteVars, listVars>>
    BY DEF ContextFails, accountVars, cacheVars, remoteVars, listVars
<1>3. /\ load[g].pc = "context" /\ load'[g] = IdleLoad
      /\ \A h \in Gens : h # g => load'[h] = load[h]
      /\ live' = live \ {HomeSession(g)}
    BY <1>1 DEF ContextFails, TypeOK
<1>4. load' \in [Gens -> [pc : {"idle", "bootstrap", "context"}, fetch : 0..MaxFetches, starter : BOOLEAN]]
    BY <1>1 DEF ContextFails, TypeOK, IdleLoad
<1>5. /\ \A h \in Gens : load'[h].fetch # 0 <=> load'[h].pc = "bootstrap"
      /\ \A h \in Gens : h > generation => load'[h] = IdleLoad
      /\ g <= generation /\ generation \in Nat /\ g \in Nat
    BY <1>1, <1>3 DEF RuntimeInv, GenerationsOwnTheirLoads, IdleLoad, Gens
<1>6. CASE g = generation
  <2>1. pending' = 0 /\ (retry' <=> retry \/ load[g].starter) /\ retry' \in BOOLEAN
    BY <1>1, <1>6 DEF ContextFails, TypeOK
  <2>2. pending = g /\ context = 0 /\ ~ready /\ linked = {}
    BY <1>1, <1>3, <1>6 DEF RuntimeInv, GenerationsOwnTheirLoads
  <2>3. TypeOK'
    BY <1>1, <1>2, <1>3, <1>4, <2>1 DEF TypeOK
  <2>4. SessionsAreHeld'
    BY <1>2, <1>3, <1>5, <1>6, <2>1, <2>2 DEF RuntimeInv, SessionsAreHeld, HeldSessions, Stopped, RuntimeSession,
       HomeSession, SourceSession
  <2>5. StartupNeverStalls'
    BY <1>2, <1>3, <1>6, <2>1 DEF RuntimeInv, StartupNeverStalls
  <2>6. GenerationsOwnTheirLoads'
    BY <1>2, <1>3, <1>5, <1>6, <2>1, <2>2 DEF RuntimeInv, GenerationsOwnTheirLoads, IdleLoad
  <2>7. LinkedSourcesAreTended' /\ RuntimesOwnTheirChains' /\ ObservedAreServed' /\ ListsAreServed'
    BY <1>2, SourcesAlone
  <2>8. SubscribersAreUpToDate'
    BY <1>2, NothingNewToRead
  <2> QED
    BY <2>3, <2>4, <2>5, <2>6, <2>7, <2>8 DEF RuntimeInv
<1>7. CASE g # generation
  <2>1. UNCHANGED <<pending, retry>>
    BY <1>7 DEF ContextFails
  <2>2. HomeSession(g) \notin live
    BY <1>5, <1>7 DEF RuntimeInv, GenerationsOwnTheirLoads, SessionsAreHeld, HeldSessions, Stopped, RuntimeSession,
       HomeSession, SourceSession
  <2>3. UNCHANGED live
    BY <1>3, <2>2
  <2>4. TypeOK'
    BY <1>1, <1>2, <1>4, <2>1, <2>3 DEF TypeOK
  <2>5. StartupNeverStalls'
    BY <1>1, <1>2, <1>3, <1>7, <2>1 DEF RuntimeInv, StartupNeverStalls
  <2>6. load'[generation] = load[generation] /\ (ready => load'[generation].pc = "idle")
    BY <1>1, <1>3, <1>7 DEF RuntimeInv, GenerationsOwnTheirLoads
  <2> QED
    BY <1>2, <1>5, <2>1, <2>3, <2>4, <2>5, <2>6, QuietLoadKeeps DEF RuntimeInv
<1> QED
    BY <1>6, <1>7

\* Joining or making the memoised promise keeps the types.
LEMMA BootstrapTypes ==
    ASSUME TypeOK, getCurrentUserBootstrap
    PROVE  /\ memo' \in [fetch : 0..MaxFetches, acct : Someone]
           /\ fetch' \in [Fetches -> [open : BOOLEAN, by : Someone]]
<1>1. CASE memo = NoMemo
    BY <1>1, FetchToWaitFor DEF NoMemo
<1>2. CASE memo # NoMemo
    BY <1>2 DEF getCurrentUserBootstrap, TypeOK
<1> QED
    BY <1>1, <1>2

\* The steps of the session, the gate and the routes that leave the store alone.
LEMMA AccountStepsKeep ==
    ASSUME RuntimeInv, \/ getHomeDocumentId \/ Leave \/ GateDenies \/ SessionEnds
                       \/ \E a \in Accounts : SignIn(a)
    PROVE  RuntimeInv'
<1>1. TypeOK
    BY DEF RuntimeInv
<1>2. CASE getHomeDocumentId
  <2>1. /\ UNCHANGED <<storeVars, remoteVars, live, listVars>> /\ getCurrentUserBootstrap
        /\ UNCHANGED <<signedIn, signedOut, mounted, stored>> /\ known' = TRUE
    BY <1>2 DEF getHomeDocumentId
  <2>2. TypeOK'
    BY <1>1, <2>1, BootstrapTypes DEF TypeOK, storeVars, remoteVars, listVars
  <2> QED
    BY <2>1, <2>2, AccountStep
<1>3. CASE Leave
    BY <1>1, <1>3, AccountStep DEF Leave, TypeOK, accountVars, cacheVars, storeVars, remoteVars, listVars
<1>4. CASE GateDenies
    BY <1>1, <1>4, AccountStep DEF GateDenies, TypeOK, cacheVars, storeVars, remoteVars, listVars
<1>5. CASE SessionEnds
    BY <1>1, <1>5, AccountStep DEF SessionEnds, TypeOK, Someone, cacheVars, storeVars, remoteVars, listVars
<1>6. CASE \E a \in Accounts : SignIn(a)
    BY <1>1, <1>6, AccountStep DEF SignIn, TypeOK, Someone, cacheVars, storeVars, remoteVars, listVars
<1> QED
    BY <1>2, <1>3, <1>4, <1>5, <1>6

\* The steps that ask the store to be ready: mounting, a retry, a new note.
LEMMA StartsKeep ==
    ASSUME RuntimeInv, StartupRetry \/ createDocument \/ Mount
    PROVE  RuntimeInv'
<1>1. TypeOK
    BY DEF RuntimeInv
<1>2. CASE StartupRetry
    BY <1>1, <1>2, EnsureReadyKeeps DEF StartupRetry, TypeOK, accountVars
<1>3. CASE createDocument
    BY <1>1, <1>3, EnsureReadyKeeps DEF createDocument, TypeOK, accountVars
<1>4. CASE Mount
    BY <1>1, <1>4, EnsureReadyKeeps DEF Mount, TypeOK
<1> QED
    BY <1>2, <1>3, <1>4

\* reset: a generation that holds, observes and lists nothing.
LEMMA ResetKeeps ==
    ASSUME RuntimeInv, reset,
           signedIn' \in Someone, known' \in BOOLEAN, signedOut' \in BOOLEAN, mounted' \in BOOLEAN,
           stored' \in Someone, memo' \in [fetch : 0..MaxFetches, acct : Someone], UNCHANGED fetch
    PROVE  RuntimeInv'
<1> USE RuntimeAssumption DEF RuntimeAssumption
<1>1. TypeOK /\ generation \in Nat
    BY DEF RuntimeInv, TypeOK, Gens
<1>2. /\ generation' = generation + 1 /\ generation' \in Gens
      /\ ~retry' /\ ~ready' /\ ~started' /\ pending' = 0 /\ context' = 0 /\ linked' = {}
      /\ retry' \in BOOLEAN /\ ready' \in BOOLEAN /\ started' \in BOOLEAN
      /\ remote' = [s \in Servers |-> NoRuntime] /\ listed' = [s \in {"home"} \cup Servers |-> NoList]
      /\ UNCHANGED <<load, docOf, chain>> /\ shown' = View'
  <2>1. generation' = generation + 1 /\ generation' \in Gens
    BY <1>1 DEF reset, TypeOK, Gens
  <2>2. retry' = FALSE /\ ready' = FALSE /\ started' = FALSE
    BY DEF reset
  <2> QED
    BY <2>1, <2>2 DEF reset, bumpVersion
<1>3. live' = {}
    BY DEF reset, RuntimeInv, SessionsAreHeld, HeldSessions
<1>4. observed' \subseteq observed
    BY DEF reset, Unobserved
<1>5. TypeOK'
  <2>1. /\ remote' \in [Servers -> [id : 0..MaxRuntimes, loading : BOOLEAN, retry : BOOLEAN,
                                    pending : BOOLEAN, context : BOOLEAN]]
        /\ listed' \in [{"home"} \cup Servers ->
                          [from : Sessions \cup {HomeSession(0)}, docs : SUBSET {"home", "other"}]]
        /\ DOMAIN shown' = {"home", "loading", "sources"}
        /\ pending' \in 0..MaxGen /\ context' \in 0..MaxGen
    BY <1>2 DEF NoRuntime, NoList, View
  <2> QED
    BY <1>1, <1>2, <1>3, <1>4, <2>1 DEF TypeOK
<1>6. SessionsAreHeld'
    BY <1>2, <1>3 DEF SessionsAreHeld, HeldSessions, Stopped, NoRuntime
<1>7. StartupNeverStalls' /\ SubscribersAreUpToDate'
    BY <1>2 DEF StartupNeverStalls, SubscribersAreUpToDate
<1>8. LinkedSourcesAreTended' /\ RuntimesOwnTheirChains' /\ ListsAreServed'
    BY <1>2 DEF LinkedSourcesAreTended, RuntimesOwnTheirChains, ListsAreServed, NoRuntime
<1>9. GenerationsOwnTheirLoads'
  <2>1. load'[generation'] = IdleLoad
    BY <1>1, <1>2 DEF RuntimeInv, GenerationsOwnTheirLoads
  <2>2. \A g \in Gens : g > generation' => load'[g] = IdleLoad
    BY <1>1, <1>2 DEF RuntimeInv, GenerationsOwnTheirLoads, Gens
  <2> QED
    BY <1>2, <2>1, <2>2 DEF RuntimeInv, GenerationsOwnTheirLoads, IdleLoad
<1>10. ObservedAreServed'
  <2>1. \A o \in observed' : o[2] <= generation /\ o[2] \in Nat
    BY <1>1, <1>4 DEF RuntimeInv, ObservedAreServed, TypeOK, Gens
  <2>2. \A o \in observed' : o[2] <= generation' /\ o[2] # generation'
    BY <1>1, <1>2, <2>1
  <2> QED
    BY <2>2 DEF ObservedAreServed
<1> QED
    BY <1>5, <1>6, <1>7, <1>8, <1>9, <1>10 DEF RuntimeInv

\* Enrolment, logout here and logout in another tab reset the store.
LEMMA ResetsKeep ==
    ASSUME RuntimeInv, LogOut \/ PeerSignsOut \/ \E a \in Accounts : Enroll(a)
    PROVE  RuntimeInv'
<1>1. TypeOK
    BY DEF RuntimeInv
<1>2. NoMemo \in [fetch : 0..MaxFetches, acct : Someone]
    BY RuntimeAssumption DEF RuntimeAssumption, NoMemo, Someone
<1>3. CASE LogOut
    BY <1>1, <1>2, <1>3, ResetKeeps DEF LogOut, clearCurrentUserBootstrapCache, TypeOK, Someone
<1>4. CASE PeerSignsOut
    BY <1>1, <1>4, ResetKeeps DEF PeerSignsOut, TypeOK, Someone
<1>5. CASE \E a \in Accounts : Enroll(a)
    BY <1>1, <1>2, <1>5, ResetKeeps DEF Enroll, clearCurrentUserBootstrapCache, TypeOK, Someone
<1> QED
    BY <1>3, <1>4, <1>5
-----------------------------------------------------------------------------
(* Steps of the source servers                                             *)

\* What Cardinality says of a runtime that does exactly one thing.
LEMMA OneOfThree ==
    \A r : r.context \in BOOLEAN /\ r.loading \in BOOLEAN /\ r.retry \in BOOLEAN =>
      (Cardinality({c \in {"context", "loading", "retry"} : r[c]}) = 1
         <=> \/ r.context /\ ~r.loading /\ ~r.retry
             \/ ~r.context /\ r.loading /\ ~r.retry
             \/ ~r.context /\ ~r.loading /\ r.retry)
<1> SUFFICES ASSUME NEW r, r.context \in BOOLEAN, r.loading \in BOOLEAN, r.retry \in BOOLEAN
             PROVE  Cardinality({c \in {"context", "loading", "retry"} : r[c]}) = 1
                      <=> \/ r.context /\ ~r.loading /\ ~r.retry
                          \/ ~r.context /\ r.loading /\ ~r.retry
                          \/ ~r.context /\ ~r.loading /\ r.retry
    OBVIOUS
<1> DEFINE T == {c \in {"context", "loading", "retry"} : r[c]}
<1>1. /\ "context" \in T <=> r.context
      /\ "loading" \in T <=> r.loading
      /\ "retry" \in T <=> r.retry
      /\ T \subseteq {"context", "loading", "retry"}
    OBVIOUS
<1>2. IsFiniteSet({"context", "loading", "retry"})
  <2>1. IsFiniteSet({"context"}) /\ IsFiniteSet({"loading"}) /\ IsFiniteSet({"retry"})
    BY FS_Singleton
  <2>2. IsFiniteSet({"context"} \cup {"loading"})
    BY <2>1, FS_Union
  <2>3. IsFiniteSet({"context"} \cup {"loading"} \cup {"retry"})
    BY <2>1, <2>2, FS_Union
  <2>4. {"context"} \cup {"loading"} \cup {"retry"} = {"context", "loading", "retry"}
    OBVIOUS
  <2> QED
    BY <2>3, <2>4
<1> HIDE DEF T
<1>3. IsFiniteSet(T)
    BY <1>1, <1>2, FS_Subset
<1>4. Cardinality(T) = 1 <=> \E x : T = {x}
    BY <1>3, FS_Singleton
<1>5. (\E x : T = {x}) <=> T = {"context"} \/ T = {"loading"} \/ T = {"retry"}
    BY <1>1
<1>6. T = {"context"} <=> r.context /\ ~r.loading /\ ~r.retry
    BY <1>1
<1>7. T = {"loading"} <=> ~r.context /\ r.loading /\ ~r.retry
    BY <1>1
<1>8. T = {"retry"} <=> ~r.context /\ ~r.loading /\ r.retry
  <2>1. ASSUME ~r.context, ~r.loading, r.retry PROVE T = {"retry"}
    BY <1>1, <2>1
  <2>2. ASSUME T = {"retry"} PROVE ~r.context /\ ~r.loading /\ r.retry
    BY <1>1, <2>2
  <2> QED
    BY <2>1, <2>2
<1> QED
    BY <1>4, <1>5, <1>6, <1>7, <1>8 DEF T

\* What the invariant says of one source's runtime: it belongs to a linked server
\* and does exactly one thing, and its chain runs while it loads.
LEMMA RuntimesAreTended ==
    ASSUME RuntimeInv, NEW s \in Servers
    PROVE  /\ remote[s] \in [id : 0..MaxRuntimes, loading : BOOLEAN, retry : BOOLEAN,
                             pending : BOOLEAN, context : BOOLEAN]
           /\ chain[s] \in [Runtimes -> [pc : {"idle", "bootstrap", "context"}, gen : 0..MaxGen]]
           /\ s \in linked <=> remote[s].id # 0
           /\ remote[s].id = 0 => remote[s] = NoRuntime
           /\ remote[s].id # 0 =>
                /\ remote[s].id \in Runtimes
                /\ remote[s].loading <=> chain[s][remote[s].id].pc # "idle"
                /\ chain[s][remote[s].id].pc # "idle" => chain[s][remote[s].id].gen = generation
                /\ remote[s].pending <=> (chain[s][remote[s].id].pc = "context")
                /\ \/ remote[s].context /\ ~remote[s].loading /\ ~remote[s].retry
                   \/ ~remote[s].context /\ remote[s].loading /\ ~remote[s].retry
                   \/ ~remote[s].context /\ ~remote[s].loading /\ remote[s].retry
<1> USE RuntimeAssumption DEF RuntimeAssumption
<1>1. /\ remote[s] \in [id : 0..MaxRuntimes, loading : BOOLEAN, retry : BOOLEAN,
                        pending : BOOLEAN, context : BOOLEAN]
      /\ chain[s] \in [Runtimes -> [pc : {"idle", "bootstrap", "context"}, gen : 0..MaxGen]]
    BY DEF RuntimeInv, TypeOK
<1>2. /\ s \in linked <=> remote[s].id # 0
      /\ remote[s].id = 0 => remote[s] = NoRuntime
      /\ remote[s].id # 0 =>
                /\ remote[s].loading <=> chain[s][remote[s].id].pc # "idle"
                /\ chain[s][remote[s].id].pc # "idle" => chain[s][remote[s].id].gen = generation
                /\ remote[s].pending <=> (chain[s][remote[s].id].pc = "context")
                /\ Cardinality({c \in {"context", "loading", "retry"} : remote[s][c]}) = 1
    BY DEF RuntimeInv, LinkedSourcesAreTended, RuntimesOwnTheirChains
<1>3. remote[s].id # 0 => remote[s].id \in Runtimes
    BY <1>1 DEF Runtimes
<1>4. remote[s].context \in BOOLEAN /\ remote[s].loading \in BOOLEAN /\ remote[s].retry \in BOOLEAN
    BY <1>1
<1>5. remote[s].id # 0 =>
                   \/ remote[s].context /\ ~remote[s].loading /\ ~remote[s].retry
                   \/ ~remote[s].context /\ remote[s].loading /\ ~remote[s].retry
                   \/ ~remote[s].context /\ ~remote[s].loading /\ remote[s].retry
    BY <1>2, <1>4, OneOfThree
<1> QED
    BY <1>1, <1>2, <1>3, <1>5

\* Every non-empty set of numbers has a least one: the set of the intervals below
\* its members has a minimal one.
LEMMA LeastNat ==
    ASSUME NEW S \in SUBSET Nat, S # {}
    PROVE  \E m \in S : \A n \in S : m <= n
<1> DEFINE Below == {0..n : n \in S}
<1>1. \A n \in S : IsFiniteSet(0..n)
    BY FS_Interval
<1>2. Below \subseteq FiniteSubsetsOf(Nat)
    BY <1>1 DEF FiniteSubsetsOf
<1>3. Below # {}
    OBVIOUS
<1>4. IsWellFoundedOn(StrictSubsetOrdering(Nat), FiniteSubsetsOf(Nat))
    BY FS_StrictSubsetOrderingWellFounded
<1>5. PICK b \in Below : \A c \in Below : ~(<<c, b>> \in StrictSubsetOrdering(Nat))
  <2> HIDE DEF Below
  <2> QED
    BY <1>2, <1>3, <1>4, WFMin
<1>6. PICK m \in S : b = 0..m
    OBVIOUS
<1>7. ASSUME NEW n \in S PROVE ~(0..n \subseteq 0..m /\ 0..n # 0..m)
  <2>1. 0..n \in Below /\ 0..n \in SUBSET Nat /\ 0..m \in SUBSET Nat
    OBVIOUS
  <2>2. <<0..n, 0..m>> \notin StrictSubsetOrdering(Nat)
    BY <1>5, <1>6, <2>1
  <2> HIDE DEF Below
  <2>3. QED
    BY <2>1, <2>2 DEF StrictSubsetOrdering
<1>8. ASSUME NEW n \in S, n < m PROVE 0..n \subseteq 0..m /\ 0..n # 0..m
  <2>1. m \in 0..m /\ m \notin 0..n
    BY n \in Nat, m \in Nat, <1>8
  <2>2. 0..n \subseteq 0..m
    BY n \in Nat, m \in Nat, <1>8
  <2> QED
    BY <2>1, <2>2
<1>9. \A n \in S : ~(n < m)
    BY <1>7, <1>8
<1> QED
    BY <1>9

\* reconcileRemoteSources: a linked server keeps the runtime it has, another gets
\* one that loads, and the sessions of the servers no longer linked are destroyed.
LEMMA Reconciled ==
    ASSUME RuntimeInv, NEW S \in SUBSET Servers, reconcileRemoteSources(S),
           linked' = S, generation' = generation
    PROVE  /\ remote' \in [Servers -> [id : 0..MaxRuntimes, loading : BOOLEAN, retry : BOOLEAN,
                                       pending : BOOLEAN, context : BOOLEAN]]
           /\ chain' \in [Servers -> [Runtimes -> [pc : {"idle", "bootstrap", "context"}, gen : 0..MaxGen]]]
           /\ \A s \in Servers :
                /\ s \notin S => remote'[s] = NoRuntime
                /\ s \in S /\ remote[s].id # 0 => remote'[s] = remote[s]
                /\ s \in S /\ remote[s].id = 0 =>
                     ~remote'[s].context /\ ~remote'[s].pending /\ remote'[s].loading
           /\ LinkedSourcesAreTended' /\ RuntimesOwnTheirChains'
           /\ Stopped(Servers)' = Stopped(Servers) \ Stopped(Servers \ S)
<1> USE RuntimeAssumption DEF RuntimeAssumption
<1>1. generation \in Gens /\ generation \in 0..MaxGen
    BY DEF RuntimeInv, TypeOK, Gens
<1>12. ASSUME NEW s \in Servers
       PROVE  /\ s \notin S => remote'[s] = NoRuntime
              /\ s \in S /\ remote[s].id = 0 => remote'[s] =
                   [NoRuntime EXCEPT !.id = CHOOSE i \in Idle(s) : \A j \in Idle(s) : i <= j, !.loading = TRUE]
              /\ s \in S /\ remote[s].id # 0 => remote'[s] =
                   [remote[s] EXCEPT !.loading = @ \/ ~(remote[s].context \/ remote[s].retry)]
    BY DEF reconcileRemoteSources
<1>13. ASSUME NEW s \in Servers, NEW i \in Runtimes
       PROVE  /\ remote'[s].id = i /\ remote'[s].loading /\ chain[s][i].pc = "idle"
                   => chain'[s][i] = [pc |-> "bootstrap", gen |-> generation]
              /\ ~(remote'[s].id = i /\ remote'[s].loading /\ chain[s][i].pc = "idle")
                   => chain'[s][i] = chain[s][i]
    BY DEF reconcileRemoteSources
<1>14. /\ \E f : remote' = [s \in Servers |-> f[s]]
       /\ \E f : chain' = [s \in Servers |-> [i \in Runtimes |-> f[s][i]]]
  <2>1. remote' = [s \in Servers |-> remote'[s]]
    <3>1. \E f : remote' = [s \in Servers |-> f[s]]
      <4> DEFINE f == [s \in Servers |->
         CASE s \notin S -> NoRuntime
           [] s \in S /\ remote[s].id = 0 ->
                [NoRuntime EXCEPT !.id = CHOOSE i \in Idle(s) : \A j \in Idle(s) : i <= j,
                                  !.loading = TRUE]
           [] OTHER -> [remote[s] EXCEPT
                !.loading = @ \/ ~(remote[s].context \/ remote[s].retry)]]
      <4>1. remote' = f
        BY DEF reconcileRemoteSources
      <4> HIDE DEF f
      <4>2. f = [s \in Servers |-> f[s]]
        BY DEF f
      <4> QED
        BY <4>1, <4>2
    <3> QED
      BY <3>1
  <2>2. chain' = [s \in Servers |-> [i \in Runtimes |-> chain'[s][i]]]
    BY DEF reconcileRemoteSources
  <2> QED
    BY <2>1, <2>2
<1> HIDE DEF reconcileRemoteSources
<1>2. ASSUME NEW s \in Servers, s \notin S
      PROVE  remote'[s] = NoRuntime /\ \A i \in Runtimes : chain'[s][i] = chain[s][i]
  <2>2. remote'[s] = NoRuntime
    BY <1>2, <1>12
  <2>1. remote'[s] = NoRuntime /\ ~remote'[s].loading
    BY <2>2 DEF NoRuntime
  <2> QED
    BY <1>13, <2>1
<1>3. ASSUME NEW s \in Servers, s \in S, remote[s].id # 0
      PROVE  remote'[s] = remote[s] /\ \A i \in Runtimes : chain'[s][i] = chain[s][i]
  <2>1. remote'[s] = [remote[s] EXCEPT !.loading = @ \/ ~(remote[s].context \/ remote[s].retry)]
    BY <1>3, <1>12
  <2>2. (remote[s].loading \/ ~(remote[s].context \/ remote[s].retry)) = remote[s].loading
    <3>1. CASE remote[s].loading = TRUE
      BY <3>1
    <3>2. CASE remote[s].loading = FALSE
      BY <1>3, <3>2, RuntimesAreTended
    <3> QED
      BY <3>1, <3>2, RuntimesAreTended
  <2>3. remote'[s] = remote[s]
    BY <2>1, <2>2, RuntimesAreTended
  <2> QED
    BY <1>3, <1>13, <2>3, RuntimesAreTended
<1>4. ASSUME NEW s \in Servers, s \in S, remote[s].id = 0
      PROVE  \E i \in Runtimes :
               /\ remote'[s] = [id |-> i, loading |-> TRUE, retry |-> FALSE, pending |-> FALSE, context |-> FALSE]
               /\ chain'[s][i] = [pc |-> "bootstrap", gen |-> generation]
               /\ \A j \in Runtimes : j # i => chain'[s][j] = chain[s][j]
  <2>1. Idle(s) # {} /\ Idle(s) \in SUBSET Nat /\ Idle(s) \subseteq Runtimes
    <3>1. Idle(s) # {}
      BY <1>4 DEF reconcileRemoteSources
    <3> QED
      BY <3>1 DEF Idle, Runtimes
  <2> DEFINE first == CHOOSE i \in Idle(s) : \A j \in Idle(s) : i <= j
  <2>2. first \in Idle(s)
    BY <2>1, LeastNat
  <2>3. remote'[s] = [NoRuntime EXCEPT !.id = first, !.loading = TRUE]
    BY <1>4, <1>12
  <2> HIDE DEF first
  <2>4. remote'[s] = [id |-> first, loading |-> TRUE, retry |-> FALSE, pending |-> FALSE, context |-> FALSE]
    BY <2>3 DEF NoRuntime
  <2>5. chain'[s][first] = [pc |-> "bootstrap", gen |-> generation]
    BY <1>13, <2>1, <2>2, <2>4 DEF Idle
  <2>6. \A j \in Runtimes : j # first => chain'[s][j] = chain[s][j]
    BY <1>13, <2>4
  <2> QED
    BY <2>1, <2>2, <2>4, <2>5, <2>6
<1>5. ASSUME NEW s \in Servers
      PROVE  /\ remote'[s] \in [id : 0..MaxRuntimes, loading : BOOLEAN, retry : BOOLEAN,
                                pending : BOOLEAN, context : BOOLEAN]
             /\ \A i \in Runtimes : chain'[s][i] \in [pc : {"idle", "bootstrap", "context"}, gen : 0..MaxGen]
  <2>1. \A i \in Runtimes : chain[s][i] \in [pc : {"idle", "bootstrap", "context"}, gen : 0..MaxGen]
    BY RuntimesAreTended
  <2>2. CASE s \notin S
    <3>1. NoRuntime \in [id : 0..MaxRuntimes, loading : BOOLEAN, retry : BOOLEAN,
                          pending : BOOLEAN, context : BOOLEAN]
      BY DEF NoRuntime
    <3> QED
      BY <1>2, <2>1, <2>2, <3>1
  <2>3. CASE s \in S /\ remote[s].id # 0
    BY <1>3, <2>1, <2>3, RuntimesAreTended
  <2>4. CASE s \in S /\ remote[s].id = 0
    <3>1. PICK i \in Runtimes :
               /\ remote'[s] = [id |-> i, loading |-> TRUE, retry |-> FALSE, pending |-> FALSE, context |-> FALSE]
               /\ chain'[s][i] = [pc |-> "bootstrap", gen |-> generation]
               /\ \A j \in Runtimes : j # i => chain'[s][j] = chain[s][j]
      BY <1>4, <2>4
    <3> QED
      BY <1>1, <2>1, <3>1 DEF Runtimes
  <2> QED
    BY <2>2, <2>3, <2>4
<1>6. ASSUME NEW s \in Servers
      PROVE  /\ s \in S <=> remote'[s].id # 0
             /\ s \in S =>
                  /\ remote'[s].loading <=> chain'[s][remote'[s].id].pc # "idle"
                  /\ Cardinality({c \in {"context", "loading", "retry"} : remote'[s][c]}) = 1
             /\ remote'[s].id = 0 => remote'[s] = NoRuntime
             /\ remote'[s].id # 0 =>
                  /\ chain'[s][remote'[s].id].pc # "idle" => chain'[s][remote'[s].id].gen = generation
                  /\ remote'[s].pending <=> (chain'[s][remote'[s].id].pc = "context")
  <2>2. CASE s \notin S
    BY <1>2, <2>2 DEF NoRuntime
  <2>3. CASE s \in S /\ remote[s].id # 0
    <3>1. remote'[s] = remote[s] /\ remote[s].id \in Runtimes /\ s \in linked
      BY <1>3, <2>3, RuntimesAreTended
    <3>2. chain'[s][remote[s].id] = chain[s][remote[s].id]
      BY <1>3, <2>3, <3>1
    <3>3. Cardinality({c \in {"context", "loading", "retry"} : remote[s][c]}) = 1
      BY <3>1 DEF RuntimeInv, LinkedSourcesAreTended
    <3>4. Cardinality({c \in {"context", "loading", "retry"} : remote'[s][c]}) = 1
      BY <3>1, <3>3
    <3> QED
      BY <2>3, <3>1, <3>2, <3>4, RuntimesAreTended
  <2>4. CASE s \in S /\ remote[s].id = 0
    <3>1. PICK i \in Runtimes :
               /\ remote'[s] = [id |-> i, loading |-> TRUE, retry |-> FALSE, pending |-> FALSE, context |-> FALSE]
               /\ chain'[s][i] = [pc |-> "bootstrap", gen |-> generation]
               /\ \A j \in Runtimes : j # i => chain'[s][j] = chain[s][j]
      BY <1>4, <2>4
    <3>2. Cardinality({c \in {"context", "loading", "retry"} : remote'[s][c]}) = 1
      <4> DEFINE r == remote'[s]
      <4>1. /\ r.context \in BOOLEAN /\ r.loading \in BOOLEAN /\ r.retry \in BOOLEAN
            /\ ~r.context /\ r.loading /\ ~r.retry
        BY <3>1
      <4> HIDE DEF r
      <4>3. Cardinality({c \in {"context", "loading", "retry"} : r[c]}) = 1
             <=> \/ r.context /\ ~r.loading /\ ~r.retry
                 \/ ~r.context /\ r.loading /\ ~r.retry
                 \/ ~r.context /\ ~r.loading /\ r.retry
        BY <4>1, OneOfThree, Zenon
      <4>2. Cardinality({c \in {"context", "loading", "retry"} : r[c]}) = 1
        BY <4>1, <4>3
      <4> QED
        BY <4>2 DEF r
    <3> QED
      BY <2>4, <3>1, <3>2 DEF Runtimes
  <2> QED
    BY <2>2, <2>3, <2>4
<1>7. /\ remote' \in [Servers -> [id : 0..MaxRuntimes, loading : BOOLEAN, retry : BOOLEAN,
                                  pending : BOOLEAN, context : BOOLEAN]]
      /\ chain' \in [Servers -> [Runtimes -> [pc : {"idle", "bootstrap", "context"}, gen : 0..MaxGen]]]
    BY <1>5, <1>14
<1>8. LinkedSourcesAreTended'
    BY <1>6 DEF LinkedSourcesAreTended
<1>9. RuntimesOwnTheirChains'
    BY <1>6 DEF RuntimesOwnTheirChains
<1>10. ASSUME NEW s \in Servers
       PROVE  /\ s \notin S => remote'[s] = NoRuntime
              /\ s \in S /\ remote[s].id # 0 => remote'[s] = remote[s]
              /\ s \in S /\ remote[s].id = 0 =>
                   ~remote'[s].context /\ ~remote'[s].pending /\ remote'[s].loading
  <2>1. CASE s \in S /\ remote[s].id = 0
    <3>1. PICK i \in Runtimes :
             remote'[s] = [id |-> i, loading |-> TRUE, retry |-> FALSE, pending |-> FALSE, context |-> FALSE]
      BY <1>4, <2>1
    <3> QED
      BY <2>1, <3>1
  <2> QED
    BY <1>2, <1>3, <2>1
<1>11. Stopped(Servers)' = Stopped(Servers) \ Stopped(Servers \ S)
  <2>1. ASSUME NEW s \in Servers
        PROVE  /\ remote'[s].pending \/ remote'[s].context <=> s \in S /\ (remote[s].pending \/ remote[s].context)
               /\ s \in S /\ (remote[s].pending \/ remote[s].context) => remote'[s].id = remote[s].id
    BY <1>10, RuntimesAreTended DEF NoRuntime
  <2>2. Stopped(Servers)' = {SourceSession(s, remote'[s].id) : s \in {x \in Servers : remote'[x].pending \/ remote'[x].context}}
    BY DEF Stopped, RuntimeSession
  <2>3. Stopped(Servers) = {SourceSession(s, remote[s].id) : s \in {x \in Servers : remote[x].pending \/ remote[x].context}}
    BY DEF Stopped, RuntimeSession
  <2>4. Stopped(Servers \ S) = {SourceSession(s, remote[s].id) : s \in {x \in Servers \ S : remote[x].pending \/ remote[x].context}}
    BY DEF Stopped, RuntimeSession
  <2> QED
    BY <2>1, <2>2, <2>3, <2>4 DEF SourceSession
<1> QED
    BY <1>7, <1>8, <1>9, <1>10, <1>11

\* What a collection lists always has the home document in it.
LEMMA ChildrenHaveHome ==
    ASSUME NEW p \in Projections
    PROVE  "home" \in children(p) /\ children(p) \subseteq {"home", "other"}
BY DEF children, readProjectedCollection, Projections

\* The document of the store's own user is never a source server's.
LEMMA HomeIsNoSource ==
    ASSUME NEW g, NEW s \in Servers, NEW i
    PROVE  HomeSession(g) # SourceSession(s, i) /\ HomeSession(g) \notin Stopped(Servers)
BY RuntimeAssumption DEF RuntimeAssumption, HomeSession, SourceSession, Stopped, RuntimeSession

\* The sessions that are live after reconciling are again those the store holds.
LEMMA ReconciledSessions ==
    ASSUME RuntimeInv, NEW S \in SUBSET Servers, reconcileRemoteSources(S),
           linked' = S, generation' = generation
    PROVE  live' = {HomeSession(g) : g \in {pending, context} \ {0}} \cup Stopped(Servers)'
<1>1. Stopped(Servers)' = Stopped(Servers) \ Stopped(Servers \ S)
    BY Reconciled
<1>2. live' = live \ Stopped(Servers \ S)
    BY DEF reconcileRemoteSources
<1>3. live = {HomeSession(g) : g \in {pending, context} \ {0}} \cup Stopped(Servers)
    BY DEF RuntimeInv, SessionsAreHeld, HeldSessions
<1>4. \A g : HomeSession(g) \notin Stopped(Servers \ S)
    BY RuntimeAssumption DEF RuntimeAssumption, HomeSession, SourceSession, Stopped, RuntimeSession
<1> QED
    BY <1>1, <1>2, <1>3, <1>4

\* The session synced: the first servers are linked and the store is ready.
LEMMA ContextSyncedKeeps == RuntimeInv /\ ContextSynced => RuntimeInv'
<1> SUFFICES ASSUME RuntimeInv, ContextSynced PROVE RuntimeInv'
    OBVIOUS
<1> USE RuntimeAssumption DEF RuntimeAssumption
<1> DEFINE g == generation
<1>1. TypeOK /\ g \in Gens /\ g # 0 /\ g \in 0..MaxGen
    BY DEF RuntimeInv, TypeOK, Gens
<1>2. PICK S \in SUBSET Servers, p \in Projections :
        linked' = S /\ syncFrom("home", HomeSession(g), p) /\ reconcileRemoteSources(S)
    BY DEF ContextSynced
<1>3. /\ UNCHANGED <<signedIn, known, signedOut, mounted, stored, memo, fetch, generation, docOf, started>>
      /\ load[g].pc = "context" /\ load' = [load EXCEPT ![g] = IdleLoad]
      /\ context' = g /\ pending' = 0 /\ ready' = TRUE /\ retry' = FALSE
      /\ observed' = observed \cup {<<HomeSession(g), g>>} /\ shown' = View'
    BY DEF ContextSynced, accountVars, cacheVars, bumpVersion
<1>4. ~ready /\ linked = {} /\ pending = g /\ context = 0 /\ docOf[g] # Nobody
    BY <1>3 DEF RuntimeInv, GenerationsOwnTheirLoads
<1>5. \A s \in Servers : remote[s] = NoRuntime /\ remote[s].id = 0 /\ ~remote[s].context
    BY <1>4, RuntimesAreTended DEF NoRuntime
<1>6. \A s \in Servers : ~remote'[s].context /\ ~remote'[s].pending
  <2>1. \A s \in Servers :
           /\ s \notin S => remote'[s] = NoRuntime
           /\ s \in S /\ remote[s].id = 0 => ~remote'[s].context /\ ~remote'[s].pending
    BY <1>2, <1>3, Reconciled
  <2>2. NoRuntime.context = FALSE /\ NoRuntime.pending = FALSE
    BY DEF NoRuntime
  <2> QED
    BY <1>5, <2>1, <2>2
<1>7. /\ remote' \in [Servers -> [id : 0..MaxRuntimes, loading : BOOLEAN, retry : BOOLEAN,
                                  pending : BOOLEAN, context : BOOLEAN]]
      /\ chain' \in [Servers -> [Runtimes -> [pc : {"idle", "bootstrap", "context"}, gen : 0..MaxGen]]]
      /\ LinkedSourcesAreTended' /\ RuntimesOwnTheirChains'
    BY <1>2, <1>3, Reconciled
<1>8. /\ load' \in [Gens -> [pc : {"idle", "bootstrap", "context"}, fetch : 0..MaxFetches, starter : BOOLEAN]]
      /\ load'[g] = IdleLoad /\ \A h \in Gens : h # g => load'[h] = load[h]
    BY <1>1, <1>3 DEF TypeOK, IdleLoad
<1>9. /\ listed'["home"] = [from |-> HomeSession(g), docs |-> children(p)]
      /\ \A s \in Servers : listed'[s] = listed[s]
      /\ listed' \in [{"home"} \cup Servers ->
                        [from : Sessions \cup {HomeSession(0)}, docs : SUBSET {"home", "other"}]]
  <2>1. HomeSession(g) \in Sessions /\ children(p) \in SUBSET {"home", "other"}
    BY <1>1, ChildrenHaveHome DEF HomeSession, Sessions
  <2>2. listed' = [listed EXCEPT !["home"] = [from |-> HomeSession(g), docs |-> children(p)]]
    BY <1>2 DEF syncFrom
  <2> QED
    BY <1>1, <2>1, <2>2 DEF TypeOK
<1>10. TypeOK'
  <2>1. observed' \subseteq Sessions \X Gens
    BY <1>1, <1>3 DEF TypeOK, HomeSession, Sessions
  <2>2. live' \subseteq Sessions
    BY <1>1, <1>2 DEF TypeOK, reconcileRemoteSources
  <2>3. DOMAIN shown' = {"home", "loading", "sources"}
    BY <1>3 DEF View
  <2>4. pending' \in 0..MaxGen /\ context' \in 0..MaxGen
    BY <1>1, <1>3
  <2>5. ready' \in BOOLEAN /\ retry' \in BOOLEAN
    BY <1>3
  <2> QED
    BY <1>1, <1>2, <1>3, <1>7, <1>8, <1>9, <2>1, <2>2, <2>3, <2>4, <2>5 DEF TypeOK
<1>11. SessionsAreHeld'
  <2>1. live' = {HomeSession(h) : h \in {pending, context} \ {0}} \cup Stopped(Servers)'
    BY <1>2, <1>3, ReconciledSessions
  <2> QED
    BY <1>1, <1>3, <1>4, <2>1 DEF SessionsAreHeld, HeldSessions
<1>12. StartupNeverStalls' /\ SubscribersAreUpToDate'
    BY <1>3 DEF StartupNeverStalls, SubscribersAreUpToDate
<1>13. ListsAreServed'
  <2>1. homeDocument' = {"home"}
    BY <1>3, <1>4, <1>9, ChildrenHaveHome DEF homeDocument
  <2>2. \A s \in Servers : listed'[s] = NoList
    BY <1>5, <1>9 DEF RuntimeInv, ListsAreServed
  <2> QED
    BY <1>3, <1>6, <1>9, <2>1, <2>2 DEF ListsAreServed
<1>14. GenerationsOwnTheirLoads'
  <2>1. \A h \in Gens : h > g => load'[h] = IdleLoad
    BY <1>1, <1>8 DEF RuntimeInv, GenerationsOwnTheirLoads, Gens
  <2>2. \A h \in Gens : load'[h].fetch # 0 <=> load'[h].pc = "bootstrap"
    BY <1>8 DEF RuntimeInv, GenerationsOwnTheirLoads, IdleLoad
  <2> QED
    BY <1>3, <1>4, <1>8, <2>1, <2>2 DEF GenerationsOwnTheirLoads, IdleLoad
<1>15. ObservedAreServed'
  <2>1. \A o \in observed' : o[2] <= generation'
    BY <1>1, <1>3 DEF RuntimeInv, ObservedAreServed, Gens
  <2>2. \A s \in Servers, i \in Runtimes : <<SourceSession(s, i), generation'>> \notin observed'
    BY <1>3, <1>5, HomeIsNoSource DEF RuntimeInv, ObservedAreServed
  <2> QED
    BY <1>3, <2>1, <2>2 DEF ObservedAreServed
<1> QED
    BY <1>7, <1>10, <1>11, <1>12, <1>13, <1>14, <1>15 DEF RuntimeInv

\* The user's data document changed: the servers no longer linked are let go, the
\* others keep what they list.
LEMMA handleUpdateKeeps ==
    ASSUME RuntimeInv, NEW g \in Gens, NEW S \in SUBSET Servers, NEW p \in Projections, handleUpdate(g, S, p)
    PROVE  RuntimeInv'
<1> USE RuntimeAssumption DEF RuntimeAssumption
<1>1. TypeOK /\ g = generation /\ g # 0
    BY DEF RuntimeInv, TypeOK, Gens, handleUpdate
<1>2. /\ UNCHANGED <<signedIn, known, signedOut, mounted, stored, memo, fetch, generation, load, docOf,
                     ready, context, pending, retry, started>>
      /\ linked' = S /\ reconcileRemoteSources(S)
      /\ observed' = Unobserved(Stopped(Servers \ S)) /\ shown' = View'
      /\ listed' = [s \in {"home"} \cup Servers |->
                      IF s = "home" THEN [from |-> HomeSession(g), docs |-> children(p)]
                      ELSE IF s \in S THEN listed[s] ELSE NoList]
    BY DEF handleUpdate, accountVars, cacheVars, storeVars, bumpVersion
<1>3. ready /\ context = g /\ pending = 0 /\ docOf[g] # Nobody
    BY <1>1 DEF handleUpdate, RuntimeInv, ObservedAreServed, GenerationsOwnTheirLoads
<1>4. /\ remote' \in [Servers -> [id : 0..MaxRuntimes, loading : BOOLEAN, retry : BOOLEAN,
                                  pending : BOOLEAN, context : BOOLEAN]]
      /\ chain' \in [Servers -> [Runtimes -> [pc : {"idle", "bootstrap", "context"}, gen : 0..MaxGen]]]
      /\ LinkedSourcesAreTended' /\ RuntimesOwnTheirChains'
      /\ \A s \in Servers :
                /\ s \notin S => remote'[s] = NoRuntime
                /\ s \in S /\ remote[s].id # 0 => remote'[s] = remote[s]
                /\ s \in S /\ remote[s].id = 0 => ~remote'[s].context
    BY <1>2, Reconciled
<1>5. /\ listed'["home"] = [from |-> HomeSession(g), docs |-> children(p)]
      /\ \A s \in Servers : s \in S => listed'[s] = listed[s]
      /\ \A s \in Servers : s \notin S => listed'[s] = NoList
    BY <1>2
<1>6. TypeOK'
  <2>1. HomeSession(g) \in Sessions /\ children(p) \in SUBSET {"home", "other"}
    BY <1>1, ChildrenHaveHome DEF HomeSession, Sessions
  <2>2. NoList \in [from : Sessions \cup {HomeSession(0)}, docs : SUBSET {"home", "other"}]
    BY DEF NoList
  <2>3. \A s \in {"home"} \cup Servers :
          listed'[s] \in [from : Sessions \cup {HomeSession(0)}, docs : SUBSET {"home", "other"}]
    <3>1. [from |-> HomeSession(g), docs |-> children(p)]
            \in [from : Sessions \cup {HomeSession(0)}, docs : SUBSET {"home", "other"}]
      BY <2>1
    <3>2. \A s \in Servers :
            listed[s] \in [from : Sessions \cup {HomeSession(0)}, docs : SUBSET {"home", "other"}]
      BY <1>1 DEF TypeOK
    <3> QED
      BY <1>5, <2>2, <3>1, <3>2
  <2>4. listed' \in [{"home"} \cup Servers ->
                        [from : Sessions \cup {HomeSession(0)}, docs : SUBSET {"home", "other"}]]
    BY <1>2, <2>3
  <2>5. observed' \subseteq Sessions \X Gens
    BY <1>1, <1>2 DEF TypeOK, Unobserved
  <2>6. live' \subseteq Sessions
    BY <1>1, <1>2 DEF TypeOK, reconcileRemoteSources
  <2>7. DOMAIN shown' = {"home", "loading", "sources"}
    BY <1>2 DEF View
  <2> QED
    BY <1>1, <1>2, <1>4, <2>4, <2>5, <2>6, <2>7 DEF TypeOK
<1>7. SessionsAreHeld'
  <2>1. live' = {HomeSession(h) : h \in {pending, context} \ {0}} \cup Stopped(Servers)'
    BY <1>2, ReconciledSessions
  <2> QED
    BY <1>2, <2>1 DEF SessionsAreHeld, HeldSessions
<1>8. StartupNeverStalls' /\ SubscribersAreUpToDate'
    BY <1>2, <1>3 DEF StartupNeverStalls, SubscribersAreUpToDate
<1>9. ListsAreServed'
  <2>1. homeDocument' = {"home"}
    BY <1>1, <1>2, <1>3, <1>5, ChildrenHaveHome DEF homeDocument
  <2>2. ASSUME NEW s \in Servers
        PROVE  IF remote'[s].context
               THEN listed'[s].from = RuntimeSession(s)' /\ "home" \in listed'[s].docs
               ELSE listed'[s] = NoList
    <3>1. IF remote[s].context
          THEN listed[s].from = RuntimeSession(s) /\ "home" \in listed[s].docs ELSE listed[s] = NoList
      BY DEF RuntimeInv, ListsAreServed
    <3>2. CASE s \notin S
      BY <1>4, <1>5, <3>2 DEF NoRuntime
    <3>3. CASE s \in S /\ remote[s].id # 0
      BY <1>4, <1>5, <3>1, <3>3 DEF RuntimeSession
    <3>4. CASE s \in S /\ remote[s].id = 0
      BY <1>4, <1>5, <3>1, <3>4, RuntimesAreTended DEF NoRuntime
    <3> QED
      BY <3>2, <3>3, <3>4
  <2> QED
    BY <1>1, <1>2, <1>3, <1>5, <2>1, <2>2 DEF ListsAreServed
<1>10. GenerationsOwnTheirLoads'
    BY <1>2, <1>3 DEF RuntimeInv, GenerationsOwnTheirLoads
<1>11. ObservedAreServed'
  <2>1. observed' \subseteq observed
    BY <1>2 DEF Unobserved
  <2>2. ASSUME NEW s \in Servers, NEW i \in Runtimes, <<SourceSession(s, i), generation>> \in observed'
        PROVE  remote'[s].context /\ remote'[s].id = i
    <3>1. remote[s].context /\ remote[s].id = i
      BY <2>1, <2>2 DEF RuntimeInv, ObservedAreServed
    <3>2. SourceSession(s, i) \notin Stopped(Servers \ S)
      BY <1>2, <2>2 DEF Unobserved
    <3>3. s \in S
      BY <3>1, <3>2 DEF Stopped, RuntimeSession
    <3>4. remote[s].id # 0
      BY <3>1 DEF Runtimes
    <3> QED
      BY <1>4, <3>1, <3>3, <3>4
  <2> QED
    BY <1>2, <1>3, <2>1, <2>2 DEF RuntimeInv, ObservedAreServed
<1> QED
    BY <1>4, <1>6, <1>7, <1>8, <1>9, <1>10, <1>11 DEF RuntimeInv

\* A step of one source leaves the others alone; it must keep what that source's
\* runtime owes, and its session is held as its runtime says.
LEMMA OneSource ==
    ASSUME RuntimeInv, NEW s \in Servers, UNCHANGED <<linked, generation>>,
           remote' \in [Servers -> [id : 0..MaxRuntimes, loading : BOOLEAN, retry : BOOLEAN,
                                    pending : BOOLEAN, context : BOOLEAN]],
           \A t \in Servers : t # s => remote'[t] = remote[t] /\ chain'[t] = chain[t],
           remote'[s].id = remote[s].id, remote[s].id = 0 => remote'[s] = NoRuntime,
           remote[s].id # 0 =>
             /\ remote'[s].loading <=> chain'[s][remote[s].id].pc # "idle"
             /\ chain'[s][remote[s].id].pc # "idle" => chain'[s][remote[s].id].gen = generation
             /\ remote'[s].pending <=> (chain'[s][remote[s].id].pc = "context")
             /\ \/ remote'[s].context /\ ~remote'[s].loading /\ ~remote'[s].retry
                \/ ~remote'[s].context /\ remote'[s].loading /\ ~remote'[s].retry
                \/ ~remote'[s].context /\ ~remote'[s].loading /\ remote'[s].retry
    PROVE  /\ LinkedSourcesAreTended' /\ RuntimesOwnTheirChains'
           /\ Stopped(Servers)' = IF remote'[s].pending \/ remote'[s].context
                                  THEN Stopped(Servers) \cup {RuntimeSession(s)}
                                  ELSE Stopped(Servers) \ {RuntimeSession(s)}
<1>1. /\ remote'[s].context \in BOOLEAN /\ remote'[s].loading \in BOOLEAN /\ remote'[s].retry \in BOOLEAN
    OBVIOUS
<1>2. remote[s].id # 0 => Cardinality({c \in {"context", "loading", "retry"} : remote'[s][c]}) = 1
  <2> DEFINE r == remote'[s]
  <2>1. remote[s].id # 0 => \/ r.context /\ ~r.loading /\ ~r.retry
                            \/ ~r.context /\ r.loading /\ ~r.retry
                            \/ ~r.context /\ ~r.loading /\ r.retry
    OBVIOUS
  <2>2. r.context \in BOOLEAN /\ r.loading \in BOOLEAN /\ r.retry \in BOOLEAN
    BY <1>1
  <2> HIDE DEF r
  <2>3. remote[s].id # 0 => Cardinality({c \in {"context", "loading", "retry"} : r[c]}) = 1
    BY <2>1, <2>2, OneOfThree
  <2> QED
    BY <2>3 DEF r
<1>3. LinkedSourcesAreTended'
  <2> SUFFICES ASSUME NEW t \in Servers
               PROVE  /\ t \in linked' <=> remote'[t].id # 0
                      /\ t \in linked' =>
                           /\ remote'[t].loading <=> chain'[t][remote'[t].id].pc # "idle"
                           /\ Cardinality({c \in {"context", "loading", "retry"} : remote'[t][c]}) = 1
    BY DEF LinkedSourcesAreTended
  <2>1. /\ t \in linked <=> remote[t].id # 0
        /\ t \in linked =>
             /\ remote[t].loading <=> chain[t][remote[t].id].pc # "idle"
             /\ Cardinality({c \in {"context", "loading", "retry"} : remote[t][c]}) = 1
    BY DEF RuntimeInv, LinkedSourcesAreTended
  <2>2. CASE t = s
    BY <1>2, <2>1, <2>2
  <2>3. CASE t # s
    <3>1. remote'[t] = remote[t] /\ chain'[t] = chain[t]
      BY <2>3
    <3> QED
      BY <2>1, <3>1
  <2> QED
    BY <2>2, <2>3
<1>4. RuntimesOwnTheirChains'
    BY DEF RuntimeInv, RuntimesOwnTheirChains
<1>5. Stopped(Servers)' = IF remote'[s].pending \/ remote'[s].context
                          THEN Stopped(Servers) \cup {RuntimeSession(s)}
                          ELSE Stopped(Servers) \ {RuntimeSession(s)}
  <2>1. Stopped(Servers)' = {SourceSession(t, remote'[t].id) : t \in {x \in Servers : remote'[x].pending \/ remote'[x].context}}
    BY DEF Stopped, RuntimeSession
  <2>2. Stopped(Servers) = {SourceSession(t, remote[t].id) : t \in {x \in Servers : remote[x].pending \/ remote[x].context}}
    BY DEF Stopped, RuntimeSession
  <2>3. \A t \in Servers : remote'[t].id = remote[t].id
    OBVIOUS
  <2>4. \A t \in Servers : t # s =>
          (remote'[t].pending \/ remote'[t].context <=> remote[t].pending \/ remote[t].context)
    OBVIOUS
  <2> QED
    BY <2>1, <2>2, <2>3, <2>4 DEF SourceSession, RuntimeSession
<1> QED
    BY <1>3, <1>4, <1>5

\* Parts of the invariant that a source's step keeps when it leaves the user's own
\* data document, and the source's context, alone.
LEMMA StoreAlone ==
    ASSUME RuntimeInv, UNCHANGED <<storeVars, linked, observed>>
    PROVE  /\ StartupNeverStalls' /\ GenerationsOwnTheirLoads'
           /\ UNCHANGED <<generation, load, docOf, ready, context, pending, retry, started>>
           /\ (\A t \in Servers : remote[t].context => remote'[t].context /\ remote'[t].id = remote[t].id)
                => ObservedAreServed'
<1>1. UNCHANGED <<generation, load, docOf, ready, context, pending, retry, started>>
    BY DEF storeVars
<1>2. StartupNeverStalls' /\ GenerationsOwnTheirLoads'
    BY <1>1 DEF RuntimeInv, StartupNeverStalls, GenerationsOwnTheirLoads
<1>3. ASSUME \A t \in Servers : remote[t].context => remote'[t].context /\ remote'[t].id = remote[t].id
      PROVE  ObservedAreServed'
    BY <1>1, <1>3 DEF RuntimeInv, ObservedAreServed
<1> QED
    BY <1>1, <1>2, <1>3

\* The source answered: the runtime the store still has opens its session; a
\* chain of another runtime, or of an earlier generation, ends.
LEMMA SourceAnswersKeeps ==
    ASSUME RuntimeInv, NEW s \in Servers, NEW i \in Runtimes, SourceAnswers(s, i)
    PROVE  RuntimeInv'
<1> USE RuntimeAssumption DEF RuntimeAssumption
<1>1. TypeOK
    BY DEF RuntimeInv
<1>2. /\ UNCHANGED <<signedIn, known, signedOut, mounted, stored, memo, fetch, generation, load, docOf,
                     ready, context, pending, retry, started, linked, listed, observed, shown>>
      /\ UNCHANGED storeVars /\ chain[s][i].pc = "bootstrap"
    BY DEF SourceAnswers, accountVars, cacheVars, storeVars, listVars
<1>3. StartupNeverStalls' /\ GenerationsOwnTheirLoads'
    BY <1>2, StoreAlone
<1>4. i # 0 /\ (remote[s].id = i => Current(s, i))
    BY <1>2, RuntimesAreTended DEF Current, Runtimes
<1>5. CASE Current(s, i)
  <2>1. /\ chain' = [chain EXCEPT ![s][i].pc = "context"]
        /\ live' = live \cup {SourceSession(s, i)}
        /\ remote' = [remote EXCEPT ![s].pending = TRUE]
        /\ remote[s].id = i /\ chain[s][i].gen = generation
    BY <1>5 DEF SourceAnswers, Current
  <2>2. /\ remote' \in [Servers -> [id : 0..MaxRuntimes, loading : BOOLEAN, retry : BOOLEAN,
                                    pending : BOOLEAN, context : BOOLEAN]]
        /\ \A t \in Servers : t # s => remote'[t] = remote[t]
        /\ remote'[s].id = i /\ remote'[s].pending
        /\ remote'[s].loading <=> remote[s].loading
        /\ remote'[s].retry <=> remote[s].retry
        /\ remote'[s].context <=> remote[s].context
    <3>1. remote \in [Servers -> [id : 0..MaxRuntimes, loading : BOOLEAN, retry : BOOLEAN,
                                  pending : BOOLEAN, context : BOOLEAN]]
      BY <1>1 DEF TypeOK
    <3>2. remote' \in [Servers -> [id : 0..MaxRuntimes, loading : BOOLEAN, retry : BOOLEAN,
                                    pending : BOOLEAN, context : BOOLEAN]]
      BY <2>1, <3>1
    <3> QED
      BY <2>1, <3>1, <3>2
  <2>3. /\ chain' \in [Servers -> [Runtimes -> [pc : {"idle", "bootstrap", "context"}, gen : 0..MaxGen]]]
        /\ \A t \in Servers : t # s => chain'[t] = chain[t]
        /\ chain'[s][i].pc = "context" /\ chain'[s][i].gen = generation
    <3>1. chain \in [Servers -> [Runtimes -> [pc : {"idle", "bootstrap", "context"}, gen : 0..MaxGen]]]
      BY <1>1 DEF TypeOK
    <3>2. chain' = [chain EXCEPT ![s] = [chain[s] EXCEPT ![i] = [chain[s][i] EXCEPT !.pc = "context"]]]
      BY <2>1
    <3>3. [chain[s][i] EXCEPT !.pc = "context"] \in [pc : {"idle", "bootstrap", "context"}, gen : 0..MaxGen]
      BY <3>1
    <3>4. chain'[s][i] = [chain[s][i] EXCEPT !.pc = "context"]
      BY <3>1, <3>2
    <3>5. chain'[s][i].pc = "context" /\ chain'[s][i].gen = generation
      BY <2>1, <3>1, <3>4
    <3> QED
      BY <3>1, <3>2, <3>3, <3>5
  <2>4. remote[s].loading /\ ~remote[s].context /\ ~remote[s].retry
    BY <1>2, <1>4, <2>1, RuntimesAreTended
  <2>5. /\ LinkedSourcesAreTended' /\ RuntimesOwnTheirChains'
        /\ Stopped(Servers)' = Stopped(Servers) \cup {SourceSession(s, i)}
    <3>1. UNCHANGED <<linked, generation>> /\ remote'[s].id = remote[s].id /\ remote[s].id # 0
      BY <1>2, <1>4, <2>1, <2>2
    <3>2. \A t \in Servers : t # s => remote'[t] = remote[t] /\ chain'[t] = chain[t]
      BY <2>2, <2>3
    <3>3. /\ remote'[s].loading /\ ~remote'[s].context /\ ~remote'[s].retry /\ remote'[s].pending
          /\ chain'[s][remote[s].id].pc = "context" /\ chain'[s][remote[s].id].gen = generation
      BY <2>1, <2>2, <2>3, <2>4
    <3>4. /\ LinkedSourcesAreTended' /\ RuntimesOwnTheirChains'
          /\ Stopped(Servers)' = Stopped(Servers) \cup {RuntimeSession(s)}
      BY <2>2, <3>1, <3>2, <3>3, OneSource
    <3> QED
      BY <2>1, <3>4 DEF RuntimeSession
  <2>6. SessionsAreHeld'
    BY <1>2, <2>1, <2>5 DEF RuntimeInv, SessionsAreHeld, HeldSessions
  <2>7. \A t \in Servers : /\ remote'[t].loading <=> remote[t].loading
                           /\ remote'[t].retry <=> remote[t].retry
                           /\ remote'[t].context <=> remote[t].context
                           /\ remote'[t].id = remote[t].id
    BY <2>1, <2>2
  <2>8. SubscribersAreUpToDate' /\ ObservedAreServed'
    BY <1>2, <2>7, NothingNewToRead, StoreAlone
  <2>9. ListsAreServed'
    BY <1>2, <2>7 DEF RuntimeInv, ListsAreServed, homeDocument, RuntimeSession
  <2>10. TypeOK'
    <3>1. live' \subseteq Sessions
      BY <1>1, <2>1 DEF TypeOK, SourceSession, Sessions
    <3> QED
      BY <1>1, <1>2, <2>2, <2>3, <3>1 DEF TypeOK
  <2> QED
    BY <1>3, <2>5, <2>6, <2>8, <2>9, <2>10 DEF RuntimeInv
<1>6. CASE ~Current(s, i)
  <2>1. /\ chain' = [chain EXCEPT ![s][i] = IdleChain] /\ UNCHANGED <<live, remote>>
        /\ remote[s].id # i
    BY <1>4, <1>6 DEF SourceAnswers
  <2>2. /\ chain' \in [Servers -> [Runtimes -> [pc : {"idle", "bootstrap", "context"}, gen : 0..MaxGen]]]
        /\ \A t \in Servers : chain'[t][remote[t].id] = chain[t][remote[t].id]
    BY <1>1, <2>1 DEF TypeOK, IdleChain
  <2>3. LinkedSourcesAreTended' /\ RuntimesOwnTheirChains'
    <3>1. LinkedSourcesAreTended'
      <4> SUFFICES ASSUME NEW t \in Servers
                   PROVE  /\ t \in linked' <=> remote'[t].id # 0
                          /\ t \in linked' =>
                               /\ remote'[t].loading <=> chain'[t][remote'[t].id].pc # "idle"
                               /\ Cardinality({c \in {"context", "loading", "retry"} : remote'[t][c]}) = 1
        BY DEF LinkedSourcesAreTended
      <4>1. /\ t \in linked <=> remote[t].id # 0
            /\ t \in linked =>
                 /\ remote[t].loading <=> chain[t][remote[t].id].pc # "idle"
                 /\ Cardinality({c \in {"context", "loading", "retry"} : remote[t][c]}) = 1
        BY DEF RuntimeInv, LinkedSourcesAreTended
      <4> QED
        BY <1>2, <2>1, <2>2, <4>1
    <3>2. RuntimesOwnTheirChains'
      BY <1>2, <2>1, <2>2 DEF RuntimeInv, RuntimesOwnTheirChains
    <3> QED
      BY <3>1, <3>2
  <2>4. SessionsAreHeld'
    BY <1>2, <2>1 DEF RuntimeInv, SessionsAreHeld, HeldSessions, Stopped, RuntimeSession
  <2>5. SubscribersAreUpToDate' /\ ObservedAreServed'
    BY <1>2, <2>1, NothingNewToRead, StoreAlone
  <2>6. ListsAreServed'
    BY <1>2, <2>1 DEF RuntimeInv, ListsAreServed, homeDocument, RuntimeSession
  <2>7. TypeOK'
    BY <1>1, <1>2, <2>1, <2>2 DEF TypeOK
  <2> QED
    BY <1>3, <2>3, <2>4, <2>5, <2>6, <2>7 DEF RuntimeInv
<1> QED
    BY <1>5, <1>6

\* A source's session synced: it is live, so the runtime the store has waits for
\* it, and what the source lists comes from it.
LEMMA SourceSyncedKeeps ==
    ASSUME RuntimeInv, NEW s \in Servers, NEW i \in Runtimes, SourceSynced(s, i)
    PROVE  RuntimeInv'
<1> USE RuntimeAssumption DEF RuntimeAssumption
<1>1. TypeOK
    BY DEF RuntimeInv
<1>2. /\ UNCHANGED <<signedIn, known, signedOut, mounted, stored, memo, fetch, generation, load, docOf,
                     ready, context, pending, retry, started, linked, live>>
      /\ UNCHANGED storeVars
      /\ chain[s][i].pc = "context" /\ SourceSession(s, i) \in live
      /\ chain' = [chain EXCEPT ![s][i] = IdleChain]
      /\ remote' = [remote EXCEPT ![s].loading = FALSE, ![s].pending = FALSE, ![s].context = TRUE]
      /\ observed' = observed \cup {<<SourceSession(s, i), generation>>} /\ shown' = View'
    BY DEF SourceSynced, accountVars, cacheVars, storeVars, bumpVersion
<1>3. PICK p \in Projections : syncFrom(s, SourceSession(s, i), p)
    BY DEF SourceSynced
<1>4. StartupNeverStalls' /\ GenerationsOwnTheirLoads'
    BY <1>2 DEF RuntimeInv, StartupNeverStalls, GenerationsOwnTheirLoads
<1>5. remote[s].id = i /\ i # 0
  <2>1. SourceSession(s, i) \in Stopped(Servers)
    BY <1>2, HomeIsNoSource DEF RuntimeInv, SessionsAreHeld, HeldSessions
  <2> QED
    BY <2>1 DEF Stopped, RuntimeSession, SourceSession, Runtimes
<1>6. remote[s].loading /\ ~remote[s].context /\ ~remote[s].retry /\ remote[s].pending
    BY <1>2, <1>5, RuntimesAreTended
<1>7. /\ remote' \in [Servers -> [id : 0..MaxRuntimes, loading : BOOLEAN, retry : BOOLEAN,
                                  pending : BOOLEAN, context : BOOLEAN]]
      /\ \A t \in Servers : t # s => remote'[t] = remote[t]
      /\ remote'[s].id = i /\ ~remote'[s].pending /\ ~remote'[s].loading
      /\ remote'[s].context /\ ~remote'[s].retry
  <2>1. remote \in [Servers -> [id : 0..MaxRuntimes, loading : BOOLEAN, retry : BOOLEAN,
                                pending : BOOLEAN, context : BOOLEAN]]
    BY <1>1 DEF TypeOK
  <2>2. remote' \in [Servers -> [id : 0..MaxRuntimes, loading : BOOLEAN, retry : BOOLEAN,
                                  pending : BOOLEAN, context : BOOLEAN]]
    <3>1. [remote[s] EXCEPT !.loading = FALSE, !.pending = FALSE, !.context = TRUE]
            \in [id : 0..MaxRuntimes, loading : BOOLEAN, retry : BOOLEAN, pending : BOOLEAN, context : BOOLEAN]
      BY <2>1
    <3>2. remote' = [remote EXCEPT ![s] = [remote[s] EXCEPT !.loading = FALSE, !.pending = FALSE, !.context = TRUE]]
      BY <1>2, <2>1
    <3> QED
      BY <2>1, <3>1, <3>2
  <2>3. /\ remote'[s].id = remote[s].id /\ ~remote'[s].pending /\ ~remote'[s].loading
        /\ remote'[s].context /\ (remote'[s].retry <=> remote[s].retry)
    BY <1>2, <2>1
  <2>4. \A t \in Servers : t # s => remote'[t] = remote[t]
    BY <1>2, <2>1
  <2> QED
    BY <1>5, <1>6, <2>2, <2>3, <2>4
<1>8. /\ chain' \in [Servers -> [Runtimes -> [pc : {"idle", "bootstrap", "context"}, gen : 0..MaxGen]]]
      /\ \A t \in Servers : t # s => chain'[t] = chain[t]
      /\ chain'[s][i].pc = "idle"
    BY <1>1, <1>2 DEF TypeOK, IdleChain
<1>9. /\ LinkedSourcesAreTended' /\ RuntimesOwnTheirChains'
      /\ Stopped(Servers)' = Stopped(Servers) \cup {SourceSession(s, i)}
  <2>1. UNCHANGED <<linked, generation>> /\ remote'[s].id = remote[s].id /\ remote[s].id # 0
    BY <1>2, <1>5, <1>7
  <2>2. \A t \in Servers : t # s => remote'[t] = remote[t] /\ chain'[t] = chain[t]
    BY <1>7, <1>8
  <2>3. /\ ~remote'[s].loading /\ remote'[s].context /\ ~remote'[s].retry /\ ~remote'[s].pending
        /\ chain'[s][remote[s].id].pc = "idle"
    BY <1>5, <1>7, <1>8
  <2>4. /\ LinkedSourcesAreTended' /\ RuntimesOwnTheirChains'
        /\ Stopped(Servers)' = Stopped(Servers) \cup {RuntimeSession(s)}
    BY <1>7, <2>1, <2>2, <2>3, OneSource
  <2> QED
    BY <1>5, <2>4 DEF RuntimeSession
<1>10. SessionsAreHeld'
    BY <1>2, <1>9 DEF RuntimeInv, SessionsAreHeld, HeldSessions
<1>11. /\ listed'[s] = [from |-> SourceSession(s, i), docs |-> children(p)]
       /\ \A t \in {"home"} \cup Servers : t # s => listed'[t] = listed[t]
       /\ listed' \in [{"home"} \cup Servers ->
                        [from : Sessions \cup {HomeSession(0)}, docs : SUBSET {"home", "other"}]]
  <2>1. SourceSession(s, i) \in Sessions /\ children(p) \in SUBSET {"home", "other"}
    BY ChildrenHaveHome DEF SourceSession, Sessions
  <2>2. listed' = [listed EXCEPT ![s] = [from |-> SourceSession(s, i), docs |-> children(p)]]
    BY <1>3 DEF syncFrom
  <2> QED
    BY <1>1, <2>1, <2>2 DEF TypeOK
<1>12. ListsAreServed'
  <2>1. listed'["home"] = listed["home"]
    BY <1>11
  <2>2. ready' => homeDocument' = {"home"} /\ listed'["home"].from = HomeSession(context')
    BY <1>2, <2>1 DEF RuntimeInv, ListsAreServed, homeDocument
  <2>3. ASSUME NEW t \in Servers
        PROVE  IF remote'[t].context
               THEN listed'[t].from = SourceSession(t, remote'[t].id) /\ "home" \in listed'[t].docs
               ELSE listed'[t] = NoList
    <3>1. CASE t = s
      BY <1>7, <1>11, <3>1, ChildrenHaveHome
    <3>2. CASE t # s
      BY <1>7, <1>11, <3>2 DEF RuntimeInv, ListsAreServed, RuntimeSession
    <3> QED
      BY <3>1, <3>2
  <2> QED
    BY <2>2, <2>3 DEF ListsAreServed, RuntimeSession
<1>13. ObservedAreServed'
  <2>1. \A o \in observed' : o[2] <= generation
    BY <1>1, <1>2 DEF RuntimeInv, ObservedAreServed, TypeOK, Gens
  <2>2. <<HomeSession(generation), generation>> \in observed' => ready
    BY <1>2, HomeIsNoSource DEF RuntimeInv, ObservedAreServed
  <2>3. ASSUME NEW t \in Servers, NEW j \in Runtimes, <<SourceSession(t, j), generation>> \in observed'
        PROVE  remote'[t].context /\ remote'[t].id = j
    <3>1. CASE <<SourceSession(t, j), generation>> \in observed
      BY <1>6, <1>7, <3>1 DEF RuntimeInv, ObservedAreServed
    <3>2. CASE SourceSession(t, j) = SourceSession(s, i)
      BY <1>7, <3>2 DEF SourceSession
    <3> QED
      BY <1>2, <2>3, <3>1, <3>2
  <2> QED
    BY <1>2, <2>1, <2>2, <2>3 DEF ObservedAreServed
<1>14. TypeOK'
  <2>1. observed' \subseteq Sessions \X Gens
    BY <1>1, <1>2 DEF TypeOK, SourceSession, Sessions
  <2>2. DOMAIN shown' = {"home", "loading", "sources"}
    BY <1>2 DEF View
  <2> QED
    BY <1>1, <1>2, <1>7, <1>8, <1>11, <2>1, <2>2 DEF TypeOK
<1>15. SubscribersAreUpToDate'
    BY <1>2 DEF SubscribersAreUpToDate
<1> QED
    BY <1>4, <1>9, <1>10, <1>12, <1>13, <1>14, <1>15 DEF RuntimeInv

\* A source's load failed: the runtime the store has gets its retry and lists
\* nothing; the session of any other was destroyed before.
LEMMA SourceFailsKeeps ==
    ASSUME RuntimeInv, NEW s \in Servers, NEW i \in Runtimes, SourceFails(s, i)
    PROVE  RuntimeInv'
<1> USE RuntimeAssumption DEF RuntimeAssumption
<1>1. TypeOK
    BY DEF RuntimeInv
<1>2. /\ UNCHANGED <<signedIn, known, signedOut, mounted, stored, memo, fetch, generation, load, docOf,
                     ready, context, pending, retry, started, linked, observed>>
      /\ UNCHANGED storeVars
      /\ chain[s][i].pc # "idle" /\ chain' = [chain EXCEPT ![s][i] = IdleChain]
      /\ live' = live \ {SourceSession(s, i)}
    BY DEF SourceFails, accountVars, cacheVars, storeVars
<1>3. StartupNeverStalls' /\ GenerationsOwnTheirLoads'
    BY <1>2, StoreAlone
<1>4. i # 0 /\ (remote[s].id = i => Current(s, i))
    BY <1>2, RuntimesAreTended DEF Current, Runtimes
<1>5. /\ chain' \in [Servers -> [Runtimes -> [pc : {"idle", "bootstrap", "context"}, gen : 0..MaxGen]]]
      /\ \A t \in Servers : t # s => chain'[t] = chain[t]
      /\ chain'[s][i].pc = "idle"
      /\ \A j \in Runtimes : j # i => chain'[s][j] = chain[s][j]
    BY <1>1, <1>2 DEF TypeOK, IdleChain
<1>6. CASE Current(s, i)
  <2>1. /\ remote' = [remote EXCEPT ![s].loading = FALSE, ![s].pending = FALSE, ![s].retry = TRUE]
        /\ listed' = [listed EXCEPT ![s] = NoList] /\ shown' = View'
        /\ remote[s].id = i
    BY <1>6 DEF SourceFails, Current, bumpVersion
  <2>2. remote[s].loading /\ ~remote[s].context /\ ~remote[s].retry
    BY <1>2, <1>4, <2>1, RuntimesAreTended
  <2>3. /\ remote' \in [Servers -> [id : 0..MaxRuntimes, loading : BOOLEAN, retry : BOOLEAN,
                                    pending : BOOLEAN, context : BOOLEAN]]
        /\ \A t \in Servers : t # s => remote'[t] = remote[t]
        /\ remote'[s].id = i /\ ~remote'[s].pending /\ ~remote'[s].loading
        /\ ~remote'[s].context /\ remote'[s].retry
    <3>1. remote \in [Servers -> [id : 0..MaxRuntimes, loading : BOOLEAN, retry : BOOLEAN,
                                  pending : BOOLEAN, context : BOOLEAN]]
      BY <1>1 DEF TypeOK
    <3>2. remote' \in [Servers -> [id : 0..MaxRuntimes, loading : BOOLEAN, retry : BOOLEAN,
                                    pending : BOOLEAN, context : BOOLEAN]]
      BY <2>1, <3>1
    <3> QED
      BY <2>1, <2>2, <3>1, <3>2
  <2>4. /\ LinkedSourcesAreTended' /\ RuntimesOwnTheirChains'
        /\ Stopped(Servers)' = Stopped(Servers) \ {SourceSession(s, i)}
    BY <1>2, <1>4, <1>5, <2>1, <2>3, OneSource DEF RuntimeSession
  <2>5. SessionsAreHeld'
    BY <1>2, <2>4, HomeIsNoSource DEF RuntimeInv, SessionsAreHeld, HeldSessions
  <2>6. /\ listed'[s] = NoList
        /\ \A t \in {"home"} \cup Servers : t # s => listed'[t] = listed[t]
        /\ listed' \in [{"home"} \cup Servers ->
                        [from : Sessions \cup {HomeSession(0)}, docs : SUBSET {"home", "other"}]]
    <3>1. NoList \in [from : Sessions \cup {HomeSession(0)}, docs : SUBSET {"home", "other"}]
      BY DEF NoList
    <3> QED
      BY <1>1, <2>1, <3>1 DEF TypeOK
  <2>7. ListsAreServed'
    <3>1. ready' => homeDocument' = {"home"} /\ listed'["home"].from = HomeSession(context')
      BY <1>2, <2>6 DEF RuntimeInv, ListsAreServed, homeDocument
    <3>2. ASSUME NEW t \in Servers
          PROVE  IF remote'[t].context
                 THEN listed'[t].from = SourceSession(t, remote'[t].id) /\ "home" \in listed'[t].docs
                 ELSE listed'[t] = NoList
      <4>1. CASE t = s
        BY <2>3, <2>6, <4>1
      <4>2. CASE t # s
        BY <2>3, <2>6, <4>2 DEF RuntimeInv, ListsAreServed, RuntimeSession
      <4> QED
        BY <4>1, <4>2
    <3> QED
      BY <3>1, <3>2 DEF ListsAreServed, RuntimeSession
  <2>8. ObservedAreServed'
    BY <1>2, <2>2, <2>3, StoreAlone
  <2>9. TypeOK'
    <3>1. live' \subseteq Sessions /\ DOMAIN shown' = {"home", "loading", "sources"}
      BY <1>1, <1>2, <2>1 DEF TypeOK, View
    <3> QED
      BY <1>1, <1>2, <1>5, <2>3, <2>6, <3>1 DEF TypeOK
  <2>10. SubscribersAreUpToDate'
    BY <2>1 DEF SubscribersAreUpToDate
  <2> QED
    BY <1>3, <2>4, <2>5, <2>7, <2>8, <2>9, <2>10 DEF RuntimeInv
<1>7. CASE ~Current(s, i)
  <2>1. UNCHANGED <<remote, listed, shown>> /\ remote[s].id # i
    BY <1>4, <1>7 DEF SourceFails
  <2>2. LinkedSourcesAreTended' /\ RuntimesOwnTheirChains' /\ Stopped(Servers)' = Stopped(Servers)
    <3>1. remote[s].id # 0 => chain'[s][remote[s].id] = chain[s][remote[s].id]
      BY <1>5, <2>1, RuntimesAreTended
    <3>2. /\ LinkedSourcesAreTended' /\ RuntimesOwnTheirChains'
      BY <1>1, <1>2, <1>5, <2>1, <3>1, RuntimesAreTended, OneSource DEF TypeOK
    <3> QED
      BY <2>1, <3>2 DEF Stopped, RuntimeSession
  <2>3. SourceSession(s, i) \notin live
    BY <2>1, HomeIsNoSource DEF RuntimeInv, SessionsAreHeld, HeldSessions, Stopped, RuntimeSession, SourceSession
  <2>4. UNCHANGED live
    BY <1>2, <2>3
  <2>5. SessionsAreHeld'
    BY <1>2, <2>2, <2>4 DEF RuntimeInv, SessionsAreHeld, HeldSessions
  <2>6. SubscribersAreUpToDate' /\ ObservedAreServed'
    BY <1>2, <2>1, NothingNewToRead, StoreAlone
  <2>7. ListsAreServed'
    BY <1>2, <2>1 DEF RuntimeInv, ListsAreServed, homeDocument, RuntimeSession
  <2>8. TypeOK'
    BY <1>1, <1>2, <1>5, <2>1, <2>4 DEF TypeOK
  <2> QED
    BY <1>3, <2>2, <2>5, <2>6, <2>7, <2>8 DEF RuntimeInv
<1> QED
    BY <1>6, <1>7

\* A source's retry: the runtime waits for nothing else, so its chain is free.
LEMMA SourceRetryKeeps ==
    ASSUME RuntimeInv, NEW s \in Servers, SourceRetry(s)
    PROVE  RuntimeInv'
<1> USE RuntimeAssumption DEF RuntimeAssumption
<1>1. TypeOK
    BY DEF RuntimeInv
<1> DEFINE i == remote[s].id
<1>2. /\ UNCHANGED <<signedIn, known, signedOut, mounted, stored, memo, fetch, generation, load, docOf,
                     ready, context, pending, retry, started, linked, live, listed, observed, shown>>
      /\ UNCHANGED storeVars
      /\ remote[s].retry
      /\ remote' = [remote EXCEPT ![s].retry = FALSE, ![s].loading = TRUE]
      /\ chain' = [chain EXCEPT ![s][i] = [pc |-> "bootstrap", gen |-> generation]]
    BY DEF SourceRetry, accountVars, cacheVars, storeVars, listVars
<1>3. StartupNeverStalls' /\ GenerationsOwnTheirLoads'
    BY <1>2, StoreAlone
<1>4. /\ i # 0 /\ i \in Runtimes
      /\ ~remote[s].loading /\ ~remote[s].context /\ ~remote[s].pending
    BY <1>2, RuntimesAreTended DEF NoRuntime
<1>5. /\ chain' \in [Servers -> [Runtimes -> [pc : {"idle", "bootstrap", "context"}, gen : 0..MaxGen]]]
      /\ \A t \in Servers : t # s => chain'[t] = chain[t]
      /\ chain'[s][i] = [pc |-> "bootstrap", gen |-> generation]
  <2>1. chain \in [Servers -> [Runtimes -> [pc : {"idle", "bootstrap", "context"}, gen : 0..MaxGen]]]
    BY <1>1 DEF TypeOK
  <2>2. [pc |-> "bootstrap", gen |-> generation] \in [pc : {"idle", "bootstrap", "context"}, gen : 0..MaxGen]
    BY <1>1 DEF TypeOK, Gens
  <2> HIDE DEF i
  <2> QED
    BY <1>2, <1>4, <2>1, <2>2
<1>6. /\ remote' \in [Servers -> [id : 0..MaxRuntimes, loading : BOOLEAN, retry : BOOLEAN,
                                  pending : BOOLEAN, context : BOOLEAN]]
      /\ \A t \in Servers : t # s => remote'[t] = remote[t]
      /\ remote'[s].id = i /\ ~remote'[s].pending /\ remote'[s].loading
      /\ ~remote'[s].context /\ ~remote'[s].retry
  <2>1. remote \in [Servers -> [id : 0..MaxRuntimes, loading : BOOLEAN, retry : BOOLEAN,
                                pending : BOOLEAN, context : BOOLEAN]]
    BY <1>1 DEF TypeOK
  <2>2. remote' \in [Servers -> [id : 0..MaxRuntimes, loading : BOOLEAN, retry : BOOLEAN,
                                  pending : BOOLEAN, context : BOOLEAN]]
    BY <1>2, <2>1
  <2> QED
    BY <1>2, <1>4, <2>1, <2>2
<1>7. /\ LinkedSourcesAreTended' /\ RuntimesOwnTheirChains'
      /\ Stopped(Servers)' = Stopped(Servers) \ {RuntimeSession(s)}
    BY <1>2, <1>4, <1>5, <1>6, OneSource
<1>8. RuntimeSession(s) \notin Stopped(Servers)
    BY <1>4 DEF Stopped, RuntimeSession, SourceSession
<1>9. SessionsAreHeld'
    BY <1>2, <1>7, <1>8 DEF RuntimeInv, SessionsAreHeld, HeldSessions
<1>10. \A t \in Servers : /\ remote'[t].loading \/ remote'[t].retry <=> remote[t].loading \/ remote[t].retry
                          /\ remote'[t].context <=> remote[t].context
                          /\ remote'[t].id = remote[t].id
    BY <1>2, <1>4, <1>6
<1>11. SubscribersAreUpToDate' /\ ObservedAreServed'
    BY <1>2, <1>10, NothingNewToRead, StoreAlone
<1>12. ListsAreServed'
    BY <1>2, <1>10 DEF RuntimeInv, ListsAreServed, homeDocument, RuntimeSession
<1>13. TypeOK'
    BY <1>1, <1>2, <1>5, <1>6 DEF TypeOK
<1> QED
    BY <1>3, <1>7, <1>9, <1>11, <1>12, <1>13 DEF RuntimeInv

\* A source's document changed: the observer's source is the one that serves.
LEMMA ObservedKeeps ==
    ASSUME RuntimeInv, NEW s \in Servers, NEW i \in Runtimes, NEW p \in Projections,
           observeRemoteUserDataProjection(s, i, p)
    PROVE  RuntimeInv'
<1> USE RuntimeAssumption DEF RuntimeAssumption
<1>1. TypeOK
    BY DEF RuntimeInv
<1>2. /\ UNCHANGED <<signedIn, known, signedOut, mounted, stored, memo, fetch, generation, load, docOf,
                     ready, context, pending, retry, started, linked, remote, chain, live, observed>>
      /\ UNCHANGED storeVars
      /\ <<SourceSession(s, i), generation>> \in observed
      /\ listed' = [listed EXCEPT ![s] = [from |-> SourceSession(s, i), docs |-> children(p)]]
      /\ shown' = View'
    BY DEF observeRemoteUserDataProjection, accountVars, cacheVars, storeVars, remoteVars, syncFrom, bumpVersion
<1>3. StartupNeverStalls' /\ GenerationsOwnTheirLoads' /\ ObservedAreServed'
    BY <1>2, StoreAlone
<1>4. remote[s].context /\ remote[s].id = i
    BY <1>2 DEF RuntimeInv, ObservedAreServed
<1>5. LinkedSourcesAreTended' /\ RuntimesOwnTheirChains'
    BY <1>2 DEF RuntimeInv, LinkedSourcesAreTended, RuntimesOwnTheirChains
<1>6. SessionsAreHeld'
    BY <1>2 DEF RuntimeInv, SessionsAreHeld, HeldSessions, Stopped, RuntimeSession
<1>7. /\ listed'[s] = [from |-> SourceSession(s, i), docs |-> children(p)]
      /\ \A t \in {"home"} \cup Servers : t # s => listed'[t] = listed[t]
      /\ listed' \in [{"home"} \cup Servers ->
                        [from : Sessions \cup {HomeSession(0)}, docs : SUBSET {"home", "other"}]]
  <2>1. SourceSession(s, i) \in Sessions /\ children(p) \in SUBSET {"home", "other"}
    BY ChildrenHaveHome DEF SourceSession, Sessions
  <2> QED
    BY <1>1, <1>2, <2>1 DEF TypeOK
<1>8. ListsAreServed'
  <2>1. ready' => homeDocument' = {"home"} /\ listed'["home"].from = HomeSession(context')
    BY <1>2, <1>7 DEF RuntimeInv, ListsAreServed, homeDocument
  <2>2. ASSUME NEW t \in Servers
        PROVE  IF remote'[t].context
               THEN listed'[t].from = SourceSession(t, remote'[t].id) /\ "home" \in listed'[t].docs
               ELSE listed'[t] = NoList
    <3>1. CASE t = s
      BY <1>2, <1>4, <1>7, <3>1, ChildrenHaveHome
    <3>2. CASE t # s
      BY <1>2, <1>7, <3>2 DEF RuntimeInv, ListsAreServed, RuntimeSession
    <3> QED
      BY <3>1, <3>2
  <2> QED
    BY <2>1, <2>2 DEF ListsAreServed, RuntimeSession
<1>9. TypeOK'
  <2>1. DOMAIN shown' = {"home", "loading", "sources"}
    BY <1>2 DEF View
  <2> QED
    BY <1>1, <1>2, <1>7, <2>1 DEF TypeOK
<1>10. SubscribersAreUpToDate'
    BY <1>2 DEF SubscribersAreUpToDate
<1> QED
    BY <1>3, <1>5, <1>6, <1>8, <1>9, <1>10 DEF RuntimeInv
-----------------------------------------------------------------------------
(* The theorems                                                            *)

\* Every step keeps the invariant, whatever the interleaving.
LEMMA NextKeeps == RuntimeInv /\ [Next]_vars => RuntimeInv'
<1> SUFFICES ASSUME RuntimeInv, [Next]_vars PROVE RuntimeInv'
    OBVIOUS
<1>1. TypeOK
    BY DEF RuntimeInv
<1>2. ASSUME NEW p \in Fetches, FetchAnswers(p) PROVE RuntimeInv'
  <2>1. fetch[p].by \in Accounts
    BY <1>1, <1>2 DEF FetchAnswers, TypeOK, Someone
  <2> QED
    BY <1>2, <2>1, BootstrapArrivesKeeps DEF FetchAnswers, Someone
<1>3. ASSUME NEW p \in Fetches, FetchUnreachable(p) PROVE RuntimeInv'
    BY <1>1, <1>3, BootstrapArrivesKeeps DEF FetchUnreachable, TypeOK, Someone
<1>4. ASSUME NEW p \in Fetches, FetchFails(p) PROVE RuntimeInv'
    BY <1>4, FetchFailsKeeps
<1>5. CASE ContextSynced
    BY <1>5, ContextSyncedKeeps
<1>6. ASSUME NEW g \in Gens, ContextFails(g) PROVE RuntimeInv'
    BY <1>6, ContextFailsKeeps
<1>7. CASE StartupRetry \/ createDocument \/ Mount
    BY <1>7, StartsKeep
<1>8. ASSUME NEW g \in Gens, NEW S \in SUBSET Servers, NEW p \in Projections, handleUpdate(g, S, p)
      PROVE  RuntimeInv'
    BY <1>8, handleUpdateKeeps
<1>9. ASSUME NEW s \in Servers, SourceRetry(s) PROVE RuntimeInv'
    BY <1>9, SourceRetryKeeps
<1>10. ASSUME NEW s \in Servers, NEW i \in Runtimes, SourceStep(s, i) PROVE RuntimeInv'
    BY <1>10, SourceAnswersKeeps, SourceSyncedKeeps, SourceFailsKeeps DEF SourceStep
<1>11. ASSUME NEW s \in Servers, NEW i \in Runtimes, NEW p \in Projections,
              observeRemoteUserDataProjection(s, i, p)
       PROVE  RuntimeInv'
    BY <1>11, ObservedKeeps
<1>12. CASE getHomeDocumentId \/ Leave \/ GateDenies \/ SessionEnds \/ \E a \in Accounts : SignIn(a)
    BY <1>12, AccountStepsKeep
<1>13. CASE LogOut \/ PeerSignsOut \/ \E a \in Accounts : Enroll(a)
    BY <1>13, ResetsKeep
<1>14. CASE UNCHANGED vars
  <2>1. /\ UNCHANGED <<storeVars, remoteVars, live, listVars>>
        /\ UNCHANGED <<signedIn, known, signedOut, mounted, stored, memo, fetch>>
    BY <1>14 DEF vars, accountVars, cacheVars
  <2>2. TypeOK'
    BY <1>1, <2>1 DEF TypeOK, storeVars, remoteVars, listVars
  <2> QED
    BY <2>1, <2>2, AccountStep
<1> QED
    BY <1>2, <1>3, <1>4, <1>5, <1>6, <1>7, <1>8, <1>9, <1>10, <1>11, <1>12, <1>13, <1>14 DEF Next

\* The inductive invariant holds in every reachable state, for any accounts, source
\* servers and bounds.
THEOREM RuntimeInvHolds == Spec => []RuntimeInv
<1>1. Init => RuntimeInv
    BY InitInv
<1>2. RuntimeInv /\ [Next]_vars => RuntimeInv'
    BY NextKeeps
<1> QED
    BY <1>1, <1>2, PTL DEF Spec

\* The sessions that are held are the current generation's and those of runtimes
\* whose server is linked, so none outlives the reset or unlinking that replaced it.
LEMMA HeldSessionsAreCurrent == RuntimeInv => NothingOutlivesAReset
<1> SUFFICES ASSUME RuntimeInv, NEW x \in live
             PROVE  \/ x = HomeSession(generation)
                    \/ \E s \in Servers : x = RuntimeSession(s) /\ s \in linked
    BY DEF NothingOutlivesAReset
<1>1. pending \in {0, generation} /\ context \in {0, generation}
    BY DEF RuntimeInv, GenerationsOwnTheirLoads
<1>2. CASE x \in {HomeSession(g) : g \in {pending, context} \ {0}}
    BY <1>1, <1>2
<1>3. CASE x \in Stopped(Servers)
  <2>1. PICK s \in Servers : x = RuntimeSession(s) /\ (remote[s].pending \/ remote[s].context)
    BY <1>3 DEF Stopped
  <2>2. remote[s].id # 0
    BY <2>1, RuntimesAreTended DEF NoRuntime
  <2> QED
    BY <2>1, <2>2, RuntimesAreTended
<1> QED
    BY <1>2, <1>3 DEF RuntimeInv, SessionsAreHeld, HeldSessions

\* Every live collaboration session is one the store holds and every one it holds is
\* live, and none outlives the reset or the unlinking that replaced its load.
THEOREM SessionsOwned == Spec => []SessionsAreOwned
<1>1. RuntimeInv => SessionsAreOwned
    BY HeldSessionsAreCurrent DEF RuntimeInv, SessionsAreOwned
<1> QED
    BY <1>1, RuntimeInvHolds, PTL

\* A store that was started and is not ready loads or has its retry, and every
\* linked source serves, loads or has its retry, and does only one of the three.
THEOREM LoadsTended == Spec => []LoadsAreTended
<1>1. RuntimeInv => LoadsAreTended
    BY DEF RuntimeInv, LoadsAreTended
<1> QED
    BY <1>1, RuntimeInvHolds, PTL

\* What is listed comes from the sessions that serve now, and subscribers were told
\* of everything they may read.
THEOREM ListsTrue == Spec => []ListsAreTrue
<1>1. RuntimeInv => ListsAreTrue
    BY DEF RuntimeInv, ListsAreTrue
<1> QED
    BY <1>1, RuntimeInvHolds, PTL
=============================================================================
