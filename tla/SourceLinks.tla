---------------------------- MODULE SourceLinks ----------------------------
(***************************************************************************)
(* How a private home server links to source servers (src/server/routes/   *)
(* source-links.ts, remdo-oauth/, auth/auth.ts).  A request to link a      *)
(* source registers a public OAuth client there unless the cache has one,  *)
(* has the auth instance rebuilt so that the source becomes a provider, and*)
(* sends the user to the source; the callback stores an account whose      *)
(* tokens are bound to the client.  Requests interleave at every await.    *)
(*                                                                         *)
(* The cache may hold clients of the predecessor (legacy), with accounts   *)
(* that have no issuer yet.  The home is private, all requests come from a *)
(* session, and the user's source account is the user's own.               *)
(***************************************************************************)
EXTENDS Naturals, Sequences

CONSTANTS Users, Sources,
          MaxRequests,   \* bounds the requests to link
          NoRow, Null, Legacy,
          MaxFailures    \* bounds the rebuilds and migrations that fail, and the restarts

ASSUME BoundsAssumption == /\ MaxRequests \in Nat \ {0} /\ MaxFailures \in Nat
                           /\ NoRow # Null /\ NoRow # Legacy /\ Null # Legacy
                           /\ {NoRow, Null, Legacy} \cap Nat = {}

Requests == 1..MaxRequests

\* What the cache keeps of a source: no row, a row without a client, a client of
\* the predecessor, or the client that request r registered, called r.
IsClient(c) == c \notin {NoRow, Null}

VARIABLES source_servers,  \* the cache, per source
          account,         \* the linked accounts: user, source, client, issuer
          current,         \* per source, the client of the current instance's provider
          ready,           \* whether the instance ran its migrations
          queue,           \* the requests whose rebuild waits or runs, in order
          server,          \* "up", "closing" or "closed"
          request,         \* the requests to link
          failures         \* how many failures there were

vars == <<source_servers, account, current, ready, queue, server, request, failures>>
authVars == <<current, ready, queue, server, failures>>

\* `seen` is the row a request read, `client` the one its user authorizes, and
\* `built` what a replacement of the instance was built from.
NoRequest == [pc |-> "idle", user |-> "none", source |-> "none", seen |-> Null, client |-> Null,
              built |-> [s \in Sources |-> NoRow]]

\* The database of a first start, or of the predecessor: legacy clients, some with
\* accounts.
Init ==
    /\ \E old \in SUBSET Sources, linked \in SUBSET (Users \X Sources) :
         /\ \A l \in linked : l[2] \in old
         /\ source_servers = [s \in Sources |-> IF s \in old THEN Legacy ELSE NoRow]
         /\ account = {[user |-> l[1], source |-> l[2], client |-> Legacy, issuer |-> "none"] : l \in linked}
    /\ current = source_servers /\ ready = FALSE
    /\ queue = <<>> /\ server = "up"
    /\ request = [r \in Requests |-> NoRequest]
    /\ failures = 0
-----------------------------------------------------------------------------
(* The auth instance                                                       *)

\* resolveExistingAccountIssuer: the origin for a source of the instance.
resolveExistingAccountIssuer(s) == IF current[s] # NoRow THEN "origin" ELSE "oauth"

\* backfillAccountIssuers: the accounts of the predecessor get their issuer, in
\* one transaction.
backfillAccountIssuers ==
    account' = {IF a.issuer = "none" THEN [a EXCEPT !.issuer = resolveExistingAccountIssuer(a.source)] ELSE a :
                  a \in account}

\* The database is closed under whatever still runs.
Up == server # "closed"

\* ensureReady of the first instance, which every request and the shutdown wait for.
ensureReady ==
    /\ ~ready /\ Up
    /\ ready' = TRUE
    /\ backfillAccountIssuers
    /\ UNCHANGED <<source_servers, current, queue, server, request, failures>>

\* The migrations fail, before or after the accounts got their issuer: the next
\* request tries again, but a shutdown waits no longer (close of runtime.ts).
failReady ==
    /\ ~ready /\ Up /\ failures < MaxFailures
    /\ failures' = failures + 1
    /\ backfillAccountIssuers \/ UNCHANGED account
    /\ server' = IF server = "closing" /\ queue = <<>> THEN "closed" ELSE server
    /\ UNCHANGED <<source_servers, current, ready, queue, request>>

\* What requireActorResolution lets in, a server that closes included.
requireActorResolution == ready /\ Up

\* createBetterAuthInstance: only a source with a client becomes a provider.
isProvider(s) == IsClient(current[s])

\* listLinkedRemdoServerIds of the current instance.
listCurrentUserSourceServers(u) ==
    {s \in Sources : current[s] # NoRow /\ \E a \in account : a.user = u /\ a.source = s}

\* getLinkedRemdoServerAccessToken: an access token is refreshed by the provider,
\* with the provider's client; the source refuses a token bound to another.
LinkedAccessToken(u, s) ==
    \E a \in account : a.user = u /\ a.source = s /\ isProvider(s) /\ a.client = current[s]

\* resolveSourceAccess of routes/source-servers.ts, for a signed-in user.
resolveSourceAccess(u, s) ==
    IF current[s] = NoRow THEN "not-found" ELSE IF LinkedAccessToken(u, s) THEN "ready" ELSE "forbidden"
-----------------------------------------------------------------------------
(* A request to link: routes/source-links.ts and ensure-source-client.ts   *)

Step(r, q) == request' = [request EXCEPT ![r] = q]
To(r, pc) == Step(r, [request[r] EXCEPT !.pc = pc])

Arrive(r) ==
    /\ request[r].pc = "idle" /\ requireActorResolution
    /\ \A q \in Requests : q < r => request[q].pc # "idle"
    /\ \E u \in Users, s \in Sources : Step(r, [NoRequest EXCEPT !.pc = "row", !.user = u, !.source = s])
    /\ UNCHANGED <<source_servers, account, authVars>>

\* The row is inserted if it is missing, and read again. The two awaits are one
\* step: a row, once there, is never deleted, and only its client is written.
ensureSourceServerRow(r) ==
    LET s == request[r].source
        row == IF source_servers[s] = NoRow THEN Null ELSE source_servers[s]
    IN  /\ request[r].pc = "row" /\ Up
        /\ source_servers' = [source_servers EXCEPT ![s] = row]
        /\ Step(r, [request[r] EXCEPT !.pc = "check", !.seen = row])
        /\ UNCHANGED <<account, authVars>>

\* A client of the current version is reused; otherwise one is registered.
hasCurrentSourceServerPublicClient(s) == IsClient(source_servers[s]) /\ source_servers[s] # Legacy

ensureSourceClient(r) ==
    /\ request[r].pc = "check" /\ Up
    /\ To(r, IF IsClient(request[r].seen) /\ hasCurrentSourceServerPublicClient(request[r].source)
             THEN "rebuild" ELSE "register")
    /\ UNCHANGED <<source_servers, account, authVars>>

\* The source issues a client, named after the request, or refuses.
registerPublicSourceClient(r) ==
    /\ request[r].pc = "register"
    /\ To(r, "claim") \/ To(r, "refused")
    /\ UNCHANGED <<source_servers, account, authVars>>

\* claimSourceServerPublicClient: only while the row has no client.
claimSourceServerPublicClient(s, c) ==
    /\ source_servers' = [source_servers EXCEPT ![s] = IF @ = Null THEN c ELSE @]
    /\ UNCHANGED account

\* replaceLegacySourceServerPublicClient, in one transaction: tokens are bound to
\* the client, so the accounts of the replaced one go.
\* Mutant: the accounts stay.
replaceOnly(s, legacy, c) ==
    /\ source_servers' = [source_servers EXCEPT ![s] = IF @ = legacy THEN c ELSE @]
    /\ UNCHANGED account

replaceLegacySourceServerPublicClient(s, legacy, c) ==
    /\ source_servers' = [source_servers EXCEPT ![s] = IF @ = legacy THEN c ELSE @]
    /\ account' = IF source_servers[s] = legacy THEN {a \in account : a.source # s} ELSE account

Claim(r) ==
    LET q == request[r] IN
    /\ q.pc = "claim" /\ Up
    /\ IF IsClient(q.seen) THEN replaceLegacySourceServerPublicClient(q.source, q.seen, r)
       ELSE claimSourceServerPublicClient(q.source, r)
    /\ To(r, "rebuild")
    /\ UNCHANGED authVars

\* rebuild() queues, and rejects once the server shuts down.
rebuild(r) ==
    /\ request[r].pc = "rebuild"
    /\ IF server = "up" THEN To(r, "queued") /\ queue' = Append(queue, r)
       ELSE To(r, "failed") /\ UNCHANGED queue
    /\ UNCHANGED <<source_servers, account, current, ready, server, failures>>

\* Mutant: rebuilds run side by side.
InTurnOrNot(r) == TRUE

\* rebuildTail: a rebuild starts when the ones before it have settled.
InTurn(r) == r = Head(queue)

\* The replacement is built from the rows of this moment ...
startRebuild(r) ==
    /\ request[r].pc = "queued" /\ InTurn(r)
    /\ Step(r, [request[r] EXCEPT !.pc = "building", !.built = source_servers])
    /\ UNCHANGED <<source_servers, account, authVars>>

\* The one in turn has settled, and the next is in turn.
Settled == Tail(queue)

\* ... and takes over once it is ready.
finishRebuild(r) ==
    /\ request[r].pc = "building"
    /\ current' = request[r].built
    /\ queue' = Settled
    /\ Step(r, [request[r] EXCEPT !.pc = "link", !.built = NoRequest.built])
    /\ UNCHANGED <<source_servers, account, ready, server, failures>>

\* A rebuild that fails rejects its caller; the next one starts all the same.
\* Mutant: the failure is handed down the queue.
failWithoutSettling(r) ==
    /\ request[r].pc = "building" /\ failures < MaxFailures
    /\ failures' = failures + 1
    /\ Step(r, [request[r] EXCEPT !.pc = "failed", !.built = NoRequest.built])
    /\ UNCHANGED <<source_servers, account, current, ready, queue, server>>

failRebuild(r) ==
    /\ request[r].pc = "building" /\ failures < MaxFailures
    /\ failures' = failures + 1
    /\ queue' = Settled
    /\ Step(r, [request[r] EXCEPT !.pc = "failed", !.built = NoRequest.built])
    /\ UNCHANGED <<source_servers, account, current, ready, server>>

\* linkSocialAccount sends the user to the source, for the provider's client.
linkSocialAccount(r) ==
    LET q == request[r] IN
    /\ q.pc = "link" /\ Up
    /\ Step(r, IF isProvider(q.source) THEN [q EXCEPT !.pc = "consent", !.client = current[q.source]]
               ELSE [q EXCEPT !.pc = "failed"])
    /\ UNCHANGED <<source_servers, account, authVars>>

\* The user comes back: the code is bound to the client it was issued for.
callback(r) ==
    LET q == request[r]
        mine == {a \in account : a.user = q.user /\ a.source = q.source}
    IN  /\ q.pc = "consent" /\ ready /\ Up
        /\ IF current[q.source] = q.client
           THEN /\ account' = (account \ mine) \cup
                               {[user |-> q.user, source |-> q.source, client |-> q.client, issuer |-> "origin"]}
                /\ To(r, "linked")
           ELSE To(r, "failed") /\ UNCHANGED account
        /\ UNCHANGED <<source_servers, authVars>>

OnDatabase == {"row", "check", "claim", "link"}

\* A request that outlives the database fails.
cutOff(r) ==
    /\ request[r].pc \in OnDatabase /\ ~Up
    /\ To(r, "failed")
    /\ UNCHANGED <<source_servers, account, authVars>>
-----------------------------------------------------------------------------
(* Shutting down and starting again                                        *)

waitForIdle ==
    /\ server = "up"
    /\ server' = "closing"
    /\ UNCHANGED <<source_servers, account, current, ready, queue, request, failures>>

\* The instance is ready and the rebuilds have settled.
Idle == ready /\ queue = <<>>

close ==
    /\ server = "closing" /\ Idle
    /\ server' = "closed"
    /\ UNCHANGED <<source_servers, account, current, ready, queue, request, failures>>

\* The process starts again, after a close or a crash: its requests are gone, but
\* users who were sent to a source may still come back.
Restart ==
    /\ failures < MaxFailures
    /\ failures' = failures + 1
    /\ request' = [r \in Requests |->
                     IF request[r].pc \in {"idle", "consent", "linked", "refused", "failed"} THEN request[r]
                     ELSE [request[r] EXCEPT !.pc = "failed", !.built = NoRequest.built]]
    /\ current' = source_servers /\ ready' = FALSE /\ queue' = <<>> /\ server' = "up"
    /\ UNCHANGED <<source_servers, account>>

Handling(r) ==
    \/ ensureSourceServerRow(r) \/ ensureSourceClient(r) \/ registerPublicSourceClient(r) \/ Claim(r)
    \/ rebuild(r) \/ startRebuild(r) \/ finishRebuild(r) \/ linkSocialAccount(r) \/ cutOff(r)

Next ==
    \/ ensureReady \/ failReady \/ waitForIdle \/ close \/ Restart
    \/ \E r \in Requests : Arrive(r) \/ Handling(r) \/ failRebuild(r) \/ callback(r)

Spec == Init /\ [][Next]_vars

\* The event loop and the network serve every request that is being handled; a
\* source answers or its connection fails.  A shutdown runs the migrations and goes on.
FairSpec == Spec /\ WF_vars(ensureReady) /\ WF_vars(close) /\ \A r \in Requests : WF_vars(Handling(r))
-----------------------------------------------------------------------------
(* Properties                                                              *)

\* First writer wins: a client of the current version is never overwritten,
\* however first links race (ensure-source-client.ts:28).
ClaimedClientStays ==
    [][\A s \in Sources : hasCurrentSourceServerPublicClient(s) => source_servers'[s] = source_servers[s]]_vars

\* Every source a user's projection lists answers that user's requests: the
\* account's tokens are bound to the client of the provider that refreshes them,
\* through registrations, replacements, rebuilds and restarts.
ListedSourcesAnswer ==
    \A u \in Users, s \in Sources :
        s \in listCurrentUserSourceServers(u) => resolveSourceAccess(u, s) = "ready"

\* A linked account keeps the identity its source goes by (auth.ts:188): one
\* migrated under another issuer would be orphaned by the next link.
AccountsKeepTheirIssuer == \A a \in account : a.issuer \in {"none", "origin"} /\ (ready => a.issuer = "origin")

\* Rebuilds finish in order, so none takes a provider away again or brings an
\* older client back (createSwappableServerAuth's tail).
ProvidersNeverGoBack ==
    [][\A s \in Sources : current[s] # NoRow /\ current'[s] # current[s] =>
          current[s] \in {Null, Legacy} /\ IsClient(current'[s]) /\ current'[s] # Legacy]_vars

\* The database is closed only when no rebuild uses it any more.
RebuildsBeforeClose ==
    server = "closed" => \A r \in Requests : request[r].pc \notin {"queued", "building"}

\* No request hangs: one failing, racing or shutting down, each is answered.
RequestsAreAnswered ==
    \A r \in Requests : request[r].pc \notin {"idle"} ~> request[r].pc \in {"consent", "linked", "refused", "failed"}

\* A shutdown ends: it waits for migrations and rebuilds, however they end.
ShutdownEnds == server = "closing" ~> server # "closing"

\* A linked source goes on answering, and goes on being the same account.
LinksHold == ListedSourcesAnswer /\ AccountsKeepTheirIssuer

\* What was registered at a source is not taken back, in the database by another
\* first link or in the running instance by an older rebuild.
RegistrationsStay == ClaimedClientStays /\ ProvidersNeverGoBack

\* A shutdown waits for the rebuilds and ends, and nobody's request is lost in the
\* queue.
QueueDrains == []RebuildsBeforeClose /\ RequestsAreAnswered /\ ShutdownEnds
=============================================================================
