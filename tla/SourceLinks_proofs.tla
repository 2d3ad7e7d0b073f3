------------------------- MODULE SourceLinks_proofs -------------------------
(***************************************************************************)
(* Proofs about SourceLinks for any users, sources and bounds: a linked    *)
(* source goes on answering, nothing registered is taken back, and the     *)
(* database is not closed under a rebuild.                                 *)
(***************************************************************************)
EXTENDS SourceLinks, TLAPS

Rows == {NoRow, Null, Legacy} \cup Requests
Waiting == {"queued", "building"}

TypeOK ==
    /\ source_servers \in [Sources -> Rows] /\ current \in [Sources -> Rows]
    /\ account \subseteq [user : Users, source : Sources, client : Rows, issuer : {"none", "origin"}]
    /\ ready \in BOOLEAN /\ queue \in Seq(Requests) /\ server \in {"up", "closing", "closed"}
    /\ failures \in Nat
    /\ request \in [Requests ->
         [pc : {"idle", "row", "check", "register", "claim", "rebuild", "queued", "building", "link",
                "consent", "linked", "refused", "failed"},
          user : Users \cup {"none"}, source : Sources \cup {"none"},
          seen : Rows, client : Rows, built : [Sources -> Rows]]]
    /\ \A r \in Requests : request[r].pc # "idle" => request[r].user \in Users /\ request[r].source \in Sources

\* A row goes from none to one without a client, and from there, or from the
\* predecessor's client, to the client that a request registered; that one stays.
NoLaterThan(x, y) == x = y \/ x = NoRow \/ (x \in {Null, Legacy} /\ y \in Requests)

\* The instance lags behind the rows, and a replacement is never older than it.
InstanceLags ==
    /\ \A s \in Sources : NoLaterThan(current[s], source_servers[s])
    /\ \A r \in Requests, s \in Sources : request[r].pc = "building" =>
         NoLaterThan(current[s], request[r].built[s]) /\ NoLaterThan(request[r].built[s], source_servers[s])

\* What a request saw of its row, and what it has got there.
RequestsMakeProgress ==
    \A r \in Requests :
        LET q == request[r] IN
        /\ q.pc \in {"check", "register", "claim"} => q.seen # NoRow /\ NoLaterThan(q.seen, source_servers[q.source])
        /\ q.pc \in {"register", "claim"} => q.seen \in {Null, Legacy}
        /\ q.pc \in {"rebuild", "queued"} => source_servers[q.source] \in Requests
        /\ q.pc = "building" => q.built[q.source] \in Requests
        /\ q.pc = "link" => current[q.source] \in Requests
        /\ q.pc = "consent" => q.client \in Requests

\* An account's tokens are bound to the client that the row and the instance have.
AccountsAreBound ==
    \A a \in account : IsClient(a.client) /\ a.client = source_servers[a.source] /\ a.client = current[a.source]

\* The queue holds the requests that wait for their rebuild or run it, once each.
QueueIsOrdered ==
    /\ \A i, j \in 1..Len(queue) : queue[i] = queue[j] => i = j
    /\ \A r \in Requests : request[r].pc \in Waiting <=> \E i \in 1..Len(queue) : queue[i] = r
    /\ \A r \in Requests : request[r].pc = "building" => queue # <<>> /\ r = Head(queue)
    /\ server = "closed" => queue = <<>>

LinksInv ==
    /\ TypeOK /\ InstanceLags /\ RequestsMakeProgress /\ AccountsAreBound /\ QueueIsOrdered
    /\ AccountsKeepTheirIssuer
-----------------------------------------------------------------------------
\* Init: no request, nothing queued, and accounts only of the predecessor's clients.
LEMMA InitInv == Init => LinksInv
<1> SUFFICES ASSUME Init PROVE LinksInv
    OBVIOUS
<1> USE BoundsAssumption DEF BoundsAssumption, Rows
<1>1. PICK old \in SUBSET Sources, linked \in SUBSET (Users \X Sources) :
         /\ \A l \in linked : l[2] \in old
         /\ source_servers = [s \in Sources |-> IF s \in old THEN Legacy ELSE NoRow]
         /\ account = {[user |-> l[1], source |-> l[2], client |-> Legacy, issuer |-> "none"] : l \in linked}
    BY DEF Init
<1>2. /\ current = source_servers /\ ready = FALSE /\ queue = <<>> /\ server = "up" /\ failures = 0
      /\ request = [r \in Requests |-> NoRequest]
    BY DEF Init
<1>3. TypeOK
  <2>1. /\ source_servers \in [Sources -> Rows] /\ current \in [Sources -> Rows]
        /\ account \subseteq [user : Users, source : Sources, client : Rows, issuer : {"none", "origin"}]
    BY <1>1, <1>2
  <2>2. /\ NoRequest \in
             [pc : {"idle", "row", "check", "register", "claim", "rebuild", "queued", "building", "link",
                    "consent", "linked", "refused", "failed"},
              user : Users \cup {"none"}, source : Sources \cup {"none"},
              seen : Rows, client : Rows, built : [Sources -> Rows]]
        /\ NoRequest.pc = "idle"
    BY DEF NoRequest
  <2>3. ready \in BOOLEAN /\ queue \in Seq(Requests) /\ server \in {"up", "closing", "closed"} /\ failures \in Nat
    <3>1. queue \in Seq(Requests) /\ server \in {"up", "closing", "closed"} /\ failures \in Nat
      BY <1>2
    <3>2. ready \in BOOLEAN
      BY <1>2
    <3> QED
      BY <3>1, <3>2
  <2> QED
    BY <1>2, <2>1, <2>2, <2>3 DEF TypeOK
<1>4. \A r \in Requests : request[r].pc = "idle"
    BY <1>2 DEF NoRequest
<1>5. InstanceLags /\ RequestsMakeProgress
    BY <1>2, <1>4 DEF InstanceLags, RequestsMakeProgress, NoLaterThan
<1>6. AccountsAreBound
    BY <1>1, <1>2 DEF AccountsAreBound, IsClient
<1>7. QueueIsOrdered
    BY <1>2, <1>4 DEF QueueIsOrdered, Waiting
<1>8. AccountsKeepTheirIssuer
    BY <1>1, <1>2 DEF AccountsKeepTheirIssuer
<1> QED
    BY <1>3, <1>5, <1>6, <1>7, <1>8 DEF LinksInv

\* Only one request's step: the others keep what they were.
LEMMA OneRequest ==
    ASSUME TypeOK, NEW r \in Requests, NEW q, Step(r, q)
    PROVE  /\ request'[r] = q /\ \A x \in Requests : x # r => request'[x] = request[x]
           /\ DOMAIN request' = Requests
BY DEF TypeOK, Step

\* To changes where a request is and nothing else.
LEMMA OneRequestMoves ==
    ASSUME TypeOK, NEW r \in Requests, NEW p, To(r, p)
    PROVE  /\ request'[r].pc = p /\ request'[r].source = request[r].source /\ request'[r].user = request[r].user
           /\ request'[r].seen = request[r].seen /\ request'[r].client = request[r].client
           /\ request'[r].built = request[r].built
           /\ \A x \in Requests : x # r => request'[x] = request[x]
           /\ p \in {"idle", "row", "check", "register", "claim", "rebuild", "queued", "building", "link",
                     "consent", "linked", "refused", "failed"} /\ (p # "idle" => request[r].pc # "idle")
                => request' \in
                     [Requests -> [pc : {"idle", "row", "check", "register", "claim", "rebuild", "queued",
                                         "building", "link", "consent", "linked", "refused", "failed"},
                                   user : Users \cup {"none"}, source : Sources \cup {"none"},
                                   seen : Rows, client : Rows, built : [Sources -> Rows]]]
                   /\ \A x \in Requests : request'[x].pc # "idle" => request'[x].user \in Users /\ request'[x].source \in Sources
BY DEF TypeOK, Step, To

\* Rows only go forward, through any number of changes.
LEMMA RowsGoForward ==
    ASSUME NEW x, NEW y, NEW z
    PROVE  /\ NoLaterThan(x, x)
           /\ NoLaterThan(x, y) /\ NoLaterThan(y, z) => NoLaterThan(x, z)
           /\ NoLaterThan(x, y) /\ NoLaterThan(y, x) => x = y
           /\ NoLaterThan(x, y) /\ x \in Requests => y = x
BY BoundsAssumption DEF BoundsAssumption, NoLaterThan, Requests

\* A step of one request that changes nothing but where it is, outside the queue.
LEMMA RequestGoesOn ==
    ASSUME LinksInv, NEW r \in Requests, NEW q, Step(r, q), UNCHANGED <<source_servers, account, authVars>>,
           request[r].pc \notin Waiting, q.pc \notin Waiting,
           request' \in [Requests ->
             [pc : {"idle", "row", "check", "register", "claim", "rebuild", "queued", "building", "link",
                    "consent", "linked", "refused", "failed"},
              user : Users \cup {"none"}, source : Sources \cup {"none"},
              seen : Rows, client : Rows, built : [Sources -> Rows]]],
           q.pc # "idle" => q.user \in Users /\ q.source \in Sources,
           q.pc \in {"check", "register", "claim"} => q.seen # NoRow /\ NoLaterThan(q.seen, source_servers[q.source]),
           q.pc \in {"register", "claim"} => q.seen \in {Null, Legacy},
           q.pc = "rebuild" => source_servers[q.source] \in Requests,
           q.pc # "link",
           q.pc = "consent" => q.client \in Requests
    PROVE  LinksInv'
<1>1. TypeOK /\ UNCHANGED <<source_servers, account, current, ready, queue, server, failures>>
    BY DEF LinksInv, authVars
<1>2. request'[r] = q /\ \A x \in Requests : x # r => request'[x] = request[x]
    BY <1>1, OneRequest
<1>3. TypeOK'
    BY <1>1, <1>2 DEF TypeOK
<1>4. InstanceLags'
    BY <1>1, <1>2 DEF LinksInv, InstanceLags, Waiting
<1>5. RequestsMakeProgress'
    BY <1>1, <1>2 DEF LinksInv, RequestsMakeProgress, Waiting
<1>6. AccountsAreBound' /\ AccountsKeepTheirIssuer'
    BY <1>1 DEF LinksInv, AccountsAreBound, AccountsKeepTheirIssuer
<1>7. QueueIsOrdered'
    BY <1>1, <1>2 DEF LinksInv, QueueIsOrdered, Waiting
<1> QED
    BY <1>3, <1>4, <1>5, <1>6, <1>7 DEF LinksInv

\* A request arrives, goes on from what it saw, registers, is sent to the source,
\* or is cut off.
LEMMA RequestStepsKeep ==
    ASSUME LinksInv, NEW r \in Requests,
           \/ Arrive(r) \/ ensureSourceClient(r) \/ registerPublicSourceClient(r)
           \/ linkSocialAccount(r) \/ cutOff(r)
    PROVE  LinksInv'
<1> DEFINE q == request[r]
           Request == [pc : {"idle", "row", "check", "register", "claim", "rebuild", "queued", "building", "link",
                             "consent", "linked", "refused", "failed"},
                       user : Users \cup {"none"}, source : Sources \cup {"none"},
                       seen : Rows, client : Rows, built : [Sources -> Rows]]
<1>1. /\ TypeOK /\ request \in [Requests -> Request] /\ q \in Request
      /\ q.pc # "idle" => q.user \in Users /\ q.source \in Sources
    BY DEF LinksInv, TypeOK
<1>2. /\ q.pc \in {"check", "register", "claim"} => q.seen # NoRow /\ NoLaterThan(q.seen, source_servers[q.source])
      /\ q.pc \in {"register", "claim"} => q.seen \in {Null, Legacy}
      /\ q.pc = "link" => current[q.source] \in Requests
    BY DEF LinksInv, RequestsMakeProgress
<1>3. ASSUME NEW p \in {"register", "claim", "rebuild", "refused", "failed"}, To(r, p),
             q.pc \notin {"idle", "queued", "building"}, UNCHANGED <<source_servers, account, authVars>>,
             p \in {"register", "claim"} => q.pc \in {"check", "register"} /\ q.seen \in {Null, Legacy},
             p = "rebuild" => source_servers[q.source] \in Requests
      PROVE  LinksInv'
  <2> DEFINE n == [request[r] EXCEPT !.pc = p]
  <2>1. n \in Request /\ n.pc = p /\ n.seen = q.seen /\ n.user = q.user /\ n.source = q.source
    BY <1>1
  <2>2. request' = [request EXCEPT ![r] = n] /\ Step(r, n)
    BY <1>3 DEF To, Step
  <2> HIDE DEF n
  <2>3. request' \in [Requests -> Request]
    BY <1>1, <2>1, <2>2
  <2> QED
    BY <1>1, <1>2, <1>3, <2>1, <2>2, <2>3, RequestGoesOn DEF Waiting
<1>4. CASE Arrive(r)
  <2>1. PICK u \in Users, s \in Sources :
          Step(r, [NoRequest EXCEPT !.pc = "row", !.user = u, !.source = s])
    BY <1>4 DEF Arrive
  <2> DEFINE n == [NoRequest EXCEPT !.pc = "row", !.user = u, !.source = s]
  <2>2. n \in Request /\ n.pc = "row" /\ n.user = u /\ n.source = s
    BY DEF NoRequest, Rows
  <2>3. request' = [request EXCEPT ![r] = n] /\ Step(r, n)
    BY <2>1 DEF Step
  <2> HIDE DEF n
  <2>4. request' \in [Requests -> Request]
    BY <1>1, <2>2, <2>3
  <2> QED
    BY <1>4, <2>2, <2>3, <2>4, RequestGoesOn DEF Arrive, Waiting
<1>5. CASE ensureSourceClient(r)
  <2>1. CASE IsClient(q.seen) /\ hasCurrentSourceServerPublicClient(q.source)
    <3>1. source_servers[q.source] \in Requests
      BY <1>1, <1>5, <2>1 DEF ensureSourceClient, hasCurrentSourceServerPublicClient, IsClient, TypeOK, Rows
    <3> QED
      BY <1>3, <1>5, <2>1, <3>1 DEF ensureSourceClient
  <2>2. CASE ~(IsClient(q.seen) /\ hasCurrentSourceServerPublicClient(q.source))
    <3>1. q.seen \in {Null, Legacy}
      <4>1. q.seen \in Rows /\ q.seen # NoRow /\ NoLaterThan(q.seen, source_servers[q.source])
        BY <1>1, <1>2, <1>5 DEF ensureSourceClient
      <4>2. q.seen \in Requests => source_servers[q.source] = q.seen
        BY <4>1, RowsGoForward
      <4> QED
        BY <2>2, <4>1, <4>2, BoundsAssumption
           DEF BoundsAssumption, Rows, Requests, IsClient, hasCurrentSourceServerPublicClient
    <3> QED
      BY <1>3, <1>5, <2>2, <3>1 DEF ensureSourceClient
  <2> QED
    BY <2>1, <2>2
<1>6. CASE registerPublicSourceClient(r)
    BY <1>2, <1>3, <1>6 DEF registerPublicSourceClient
<1>7. CASE linkSocialAccount(r)
  <2>1. current[q.source] \in Requests /\ isProvider(q.source) /\ q.pc = "link"
    BY <1>2, <1>7, BoundsAssumption DEF BoundsAssumption, linkSocialAccount, isProvider, IsClient, Requests
  <2> DEFINE n == [request[r] EXCEPT !.pc = "consent", !.client = current[q.source]]
  <2>2. n \in Request /\ n.pc = "consent" /\ n.client \in Requests /\ n.user = q.user /\ n.source = q.source
    BY <1>1, <2>1 DEF Rows
  <2>3. request' = [request EXCEPT ![r] = n] /\ Step(r, n) /\ UNCHANGED <<source_servers, account, authVars>>
    BY <1>7, <2>1 DEF linkSocialAccount, Step
  <2> HIDE DEF n
  <2>4. request' \in [Requests -> Request]
    BY <1>1, <2>2, <2>3
  <2> QED
    BY <1>1, <2>1, <2>2, <2>3, <2>4, RequestGoesOn DEF Waiting
<1>8. CASE cutOff(r)
    BY <1>3, <1>8 DEF cutOff, OnDatabase
<1> QED
    BY <1>4, <1>5, <1>6, <1>7, <1>8

\* A row that goes forward, in a step of request r that is not in the queue, keeps
\* the instance behind it and what the other requests rely on.
LEMMA RowGoesForward ==
    ASSUME LinksInv, NEW r \in Requests, NEW s \in Sources, NEW c \in Rows, NEW q, Step(r, q),
           source_servers' = [source_servers EXCEPT ![s] = c], NoLaterThan(source_servers[s], c),
           UNCHANGED authVars, request[r].pc \notin Waiting, q.pc \notin Waiting
    PROVE  /\ InstanceLags' /\ QueueIsOrdered'
           /\ \A t \in Sources : NoLaterThan(source_servers[t], source_servers'[t])
           /\ \A x \in Requests : x # r =>
                LET y == request'[x] IN
                /\ y.pc \in {"check", "register", "claim"} => y.seen # NoRow /\ NoLaterThan(y.seen, source_servers'[y.source])
                /\ y.pc \in {"register", "claim"} => y.seen \in {Null, Legacy}
                /\ y.pc \in {"rebuild", "queued"} => source_servers'[y.source] \in Requests
                /\ y.pc = "building" => y.built[y.source] \in Requests
                /\ y.pc = "link" => current'[y.source] \in Requests
                /\ y.pc = "consent" => y.client \in Requests
<1>1. TypeOK /\ UNCHANGED <<current, ready, queue, server, failures>>
    BY DEF LinksInv, authVars
<1>2. request'[r] = q /\ \A x \in Requests : x # r => request'[x] = request[x]
    BY <1>1, OneRequest
<1>3. \A t \in Sources : NoLaterThan(source_servers[t], source_servers'[t])
    BY <1>1, RowsGoForward DEF TypeOK
<1>4. InstanceLags'
  <2>1. \A t \in Sources : NoLaterThan(current'[t], source_servers'[t])
    BY <1>1, <1>3, RowsGoForward DEF LinksInv, InstanceLags
  <2>2. ASSUME NEW x \in Requests, NEW t \in Sources, request'[x].pc = "building"
        PROVE  NoLaterThan(current'[t], request'[x].built[t]) /\ NoLaterThan(request'[x].built[t], source_servers'[t])
    <3>1. request'[x] = request[x]
      BY <1>2, <2>2 DEF Waiting
    <3>2. NoLaterThan(current[t], request[x].built[t]) /\ NoLaterThan(request[x].built[t], source_servers[t])
      BY <2>2, <3>1 DEF LinksInv, InstanceLags
    <3> QED
      BY <1>1, <1>3, <3>1, <3>2, RowsGoForward
  <2> QED
    BY <2>1, <2>2 DEF InstanceLags
<1>5. QueueIsOrdered'
    BY <1>1, <1>2 DEF LinksInv, QueueIsOrdered, Waiting
<1>6. ASSUME NEW x \in Requests, x # r
      PROVE  LET y == request'[x] IN
                /\ y.pc \in {"check", "register", "claim"} => y.seen # NoRow /\ NoLaterThan(y.seen, source_servers'[y.source])
                /\ y.pc \in {"register", "claim"} => y.seen \in {Null, Legacy}
                /\ y.pc \in {"rebuild", "queued"} => source_servers'[y.source] \in Requests
                /\ y.pc = "building" => y.built[y.source] \in Requests
                /\ y.pc = "link" => current'[y.source] \in Requests
                /\ y.pc = "consent" => y.client \in Requests
  <2>1. request'[x] = request[x] /\ (request[x].pc # "idle" => request[x].source \in Sources)
    BY <1>1, <1>2, <1>6 DEF TypeOK
  <2>2. LET y == request[x] IN
                /\ y.pc \in {"check", "register", "claim"} => y.seen # NoRow /\ NoLaterThan(y.seen, source_servers[y.source])
                /\ y.pc \in {"register", "claim"} => y.seen \in {Null, Legacy}
                /\ y.pc \in {"rebuild", "queued"} => source_servers[y.source] \in Requests
                /\ y.pc = "building" => y.built[y.source] \in Requests
                /\ y.pc = "link" => current[y.source] \in Requests
                /\ y.pc = "consent" => y.client \in Requests
    BY DEF LinksInv, RequestsMakeProgress
  <2>3. request[x].pc # "idle" =>
          NoLaterThan(source_servers[request[x].source], source_servers'[request[x].source])
    BY <1>3, <2>1
  <2> QED
    BY <1>1, <2>1, <2>2, <2>3, RowsGoForward
<1> QED
    BY <1>3, <1>4, <1>5, <1>6

\* The row is made, without a client.
LEMMA RowMadeKeeps ==
    ASSUME LinksInv, NEW r \in Requests, ensureSourceServerRow(r)
    PROVE  LinksInv'
<1> USE BoundsAssumption DEF BoundsAssumption
<1> DEFINE s == request[r].source
           row == IF source_servers[s] = NoRow THEN Null ELSE source_servers[s]
           Request == [pc : {"idle", "row", "check", "register", "claim", "rebuild", "queued", "building", "link",
                             "consent", "linked", "refused", "failed"},
                       user : Users \cup {"none"}, source : Sources \cup {"none"},
                       seen : Rows, client : Rows, built : [Sources -> Rows]]
           n == [request[r] EXCEPT !.pc = "check", !.seen = row]
<1>1. /\ TypeOK /\ request[r].pc = "row" /\ UNCHANGED <<account, authVars>>
      /\ source_servers' = [source_servers EXCEPT ![s] = row] /\ Step(r, n)
      /\ request' = [request EXCEPT ![r] = n]
    BY DEF LinksInv, ensureSourceServerRow, Step
<1>2. /\ request \in [Requests -> Request] /\ request[r] \in Request
      /\ s \in Sources /\ source_servers[s] \in Rows /\ row \in Rows /\ row # NoRow
      /\ NoLaterThan(source_servers[s], row)
    BY <1>1 DEF TypeOK, Rows, NoLaterThan
<1> HIDE DEF row
<1>3. n \in Request /\ n.pc = "check" /\ n.seen = row /\ n.source = s /\ n.user = request[r].user
    BY <1>2
<1> HIDE DEF n
<1>4. /\ InstanceLags' /\ QueueIsOrdered'
      /\ \A x \in Requests : x # r =>
                LET y == request'[x] IN
                /\ y.pc \in {"check", "register", "claim"} => y.seen # NoRow /\ NoLaterThan(y.seen, source_servers'[y.source])
                /\ y.pc \in {"register", "claim"} => y.seen \in {Null, Legacy}
                /\ y.pc \in {"rebuild", "queued"} => source_servers'[y.source] \in Requests
                /\ y.pc = "building" => y.built[y.source] \in Requests
                /\ y.pc = "link" => current'[y.source] \in Requests
                /\ y.pc = "consent" => y.client \in Requests
    BY <1>1, <1>2, <1>3, RowGoesForward DEF Waiting
<1>5. source_servers'[s] = row /\ request'[r] = n
    BY <1>1, <1>2 DEF TypeOK
<1>6. RequestsMakeProgress'
    BY <1>2, <1>3, <1>4, <1>5, RowsGoForward DEF RequestsMakeProgress
<1>7. AccountsAreBound' /\ AccountsKeepTheirIssuer'
    BY <1>1, <1>2 DEF LinksInv, AccountsAreBound, AccountsKeepTheirIssuer, authVars, IsClient, row, TypeOK
<1>8. TypeOK'
  <2>1. request' \in [Requests -> Request]
    BY <1>1, <1>2, <1>3
  <2>2. source_servers' \in [Sources -> Rows]
    BY <1>1, <1>2 DEF TypeOK
  <2>3. \A x \in Requests : request'[x].pc # "idle" => request'[x].user \in Users /\ request'[x].source \in Sources
    BY <1>1, <1>2, <1>3 DEF TypeOK
  <2> QED
    BY <1>1, <2>1, <2>2, <2>3 DEF TypeOK, authVars
<1> QED
    BY <1>4, <1>6, <1>7, <1>8 DEF LinksInv

\* The client is claimed for a row without one, or for the predecessor's, whose
\* accounts go; a row that another request was first with stays.
LEMMA ClaimKeeps ==
    ASSUME LinksInv, NEW r \in Requests, Claim(r)
    PROVE  LinksInv'
<1> USE BoundsAssumption DEF BoundsAssumption
<1> DEFINE s == request[r].source
           seen == request[r].seen
           row == IF source_servers[s] = seen THEN r ELSE source_servers[s]
           Request == [pc : {"idle", "row", "check", "register", "claim", "rebuild", "queued", "building", "link",
                             "consent", "linked", "refused", "failed"},
                       user : Users \cup {"none"}, source : Sources \cup {"none"},
                       seen : Rows, client : Rows, built : [Sources -> Rows]]
           n == [request[r] EXCEPT !.pc = "rebuild"]
<1>1. /\ TypeOK /\ request[r].pc = "claim" /\ UNCHANGED authVars
      /\ request' = [request EXCEPT ![r] = n] /\ Step(r, n)
    BY DEF LinksInv, Claim, Step, To
<1>2. /\ request \in [Requests -> Request] /\ request[r] \in Request
      /\ s \in Sources /\ source_servers[s] \in Rows /\ r \in Rows /\ seen \in Rows
    BY <1>1 DEF TypeOK, Rows
<1>3. /\ seen \in {Null, Legacy} /\ NoLaterThan(seen, source_servers[s])
    BY <1>1 DEF LinksInv, RequestsMakeProgress
<1>4. /\ row \in Requests /\ NoLaterThan(source_servers[s], row)
      /\ source_servers[s] # seen => source_servers[s] \in Requests
    BY <1>2, <1>3 DEF NoLaterThan, Requests
<1>5. /\ source_servers' = [source_servers EXCEPT ![s] = row]
      /\ account' = IF seen = Legacy /\ source_servers[s] = Legacy
                    THEN {a \in account : a.source # s} ELSE account
  <2>1. CASE seen = Null
    BY <1>1, <2>1 DEF Claim, claimSourceServerPublicClient, IsClient
  <2>2. CASE seen = Legacy
    BY <1>1, <2>2 DEF Claim, replaceLegacySourceServerPublicClient, IsClient
  <2> QED
    BY <1>3, <2>1, <2>2
<1> HIDE DEF row
<1>6. n \in Request /\ n.pc = "rebuild" /\ n.source = s /\ n.user = request[r].user
    BY <1>2
<1> HIDE DEF n
<1>7. /\ InstanceLags' /\ QueueIsOrdered'
      /\ \A x \in Requests : x # r =>
                LET y == request'[x] IN
                /\ y.pc \in {"check", "register", "claim"} => y.seen # NoRow /\ NoLaterThan(y.seen, source_servers'[y.source])
                /\ y.pc \in {"register", "claim"} => y.seen \in {Null, Legacy}
                /\ y.pc \in {"rebuild", "queued"} => source_servers'[y.source] \in Requests
                /\ y.pc = "building" => y.built[y.source] \in Requests
                /\ y.pc = "link" => current'[y.source] \in Requests
                /\ y.pc = "consent" => y.client \in Requests
  <2>1. row \in Rows /\ request[r].pc \notin Waiting /\ n.pc \notin Waiting
    BY <1>1, <1>4, <1>6 DEF Waiting, Rows
  <2> QED
    BY <1>1, <1>2, <1>4, <1>5, <2>1, RowGoesForward
<1>8. source_servers'[s] = row /\ request'[r] = n /\ \A t \in Sources : t # s => source_servers'[t] = source_servers[t]
    BY <1>1, <1>2, <1>5 DEF TypeOK
<1>9. RequestsMakeProgress'
    BY <1>4, <1>6, <1>7, <1>8 DEF RequestsMakeProgress
<1>10. AccountsAreBound'
  <2> SUFFICES ASSUME NEW a \in account'
               PROVE  IsClient(a.client) /\ a.client = source_servers'[a.source] /\ a.client = current'[a.source]
    BY DEF AccountsAreBound
  <2>1. /\ a \in account /\ a.source \in Sources
        /\ IsClient(a.client) /\ a.client = source_servers[a.source] /\ a.client = current[a.source]
    BY <1>1, <1>5 DEF LinksInv, AccountsAreBound, TypeOK
  <2>2. source_servers'[a.source] = source_servers[a.source]
    BY <1>3, <1>5, <1>8, <2>1 DEF IsClient, row
  <2> QED
    BY <1>1, <2>1, <2>2 DEF authVars
<1>11. AccountsKeepTheirIssuer'
    BY <1>1, <1>5 DEF LinksInv, AccountsKeepTheirIssuer, authVars
<1>12. TypeOK'
  <2>1. request' \in [Requests -> Request]
    BY <1>1, <1>2, <1>6
  <2>2. source_servers' \in [Sources -> Rows] /\ account' \subseteq account
    BY <1>1, <1>2, <1>4, <1>5 DEF TypeOK, Rows
  <2>3. \A x \in Requests : request'[x].pc # "idle" => request'[x].user \in Users /\ request'[x].source \in Sources
    BY <1>1, <1>2, <1>6 DEF TypeOK
  <2> QED
    BY <1>1, <2>1, <2>2, <2>3 DEF TypeOK, authVars
<1> QED
    BY <1>7, <1>9, <1>10, <1>11, <1>12 DEF LinksInv
-----------------------------------------------------------------------------
(* The queue of rebuilds                                                   *)

\* rebuild() puts a request at the end of the queue, once.
LEMMA RebuildKeeps ==
    ASSUME LinksInv, NEW r \in Requests, rebuild(r)
    PROVE  LinksInv'
<1> DEFINE Request == [pc : {"idle", "row", "check", "register", "claim", "rebuild", "queued", "building", "link",
                             "consent", "linked", "refused", "failed"},
                       user : Users \cup {"none"}, source : Sources \cup {"none"},
                       seen : Rows, client : Rows, built : [Sources -> Rows]]
<1>1. /\ TypeOK /\ request[r].pc = "rebuild" /\ source_servers[request[r].source] \in Requests
      /\ UNCHANGED <<source_servers, account, current, ready, server, failures>>
    BY DEF LinksInv, rebuild, RequestsMakeProgress
<1>2. /\ request \in [Requests -> Request] /\ request[r] \in Request
      /\ queue \in Seq(Requests)
    BY <1>1 DEF TypeOK
<1>3. PICK p \in {"queued", "failed"} : /\ request' = [request EXCEPT ![r].pc = p]
                                        /\ p = "queued" => server = "up" /\ queue' = Append(queue, r)
                                        /\ p = "failed" => queue' = queue
    BY DEF rebuild, To, Step
<1>4. /\ request' \in [Requests -> Request]
      /\ request'[r].pc = p /\ request'[r].source = request[r].source /\ request'[r].user = request[r].user
      /\ \A x \in Requests : x # r => request'[x] = request[x]
    BY <1>2, <1>3
<1>5. TypeOK'
  <2>1. queue' \in Seq(Requests)
    <3>1. CASE p = "queued"
      BY <1>2, <1>3, <3>1
    <3>2. CASE p = "failed"
      BY <1>2, <1>3, <3>2
    <3> QED
      BY <3>1, <3>2
  <2>2. \A x \in Requests : request'[x].pc # "idle" => request'[x].user \in Users /\ request'[x].source \in Sources
    BY <1>1, <1>4 DEF TypeOK
  <2> QED
    BY <1>1, <1>4, <2>1, <2>2 DEF TypeOK
<1>6. InstanceLags'
    BY <1>1, <1>4 DEF LinksInv, InstanceLags
<1>7. RequestsMakeProgress'
    BY <1>1, <1>4 DEF LinksInv, RequestsMakeProgress
<1>8. AccountsAreBound' /\ AccountsKeepTheirIssuer'
    BY <1>1 DEF LinksInv, AccountsAreBound, AccountsKeepTheirIssuer
<1>9. QueueIsOrdered'
  <2>1. CASE p = "failed"
    BY <1>1, <1>3, <1>4, <2>1 DEF LinksInv, QueueIsOrdered, Waiting
  <2>2. CASE p = "queued"
    <3>1. /\ Len(queue') = Len(queue) + 1 /\ queue'[Len(queue) + 1] = r /\ Len(queue) \in Nat
          /\ \A i \in 1..Len(queue) : queue'[i] = queue[i]
      BY <1>2, <1>3, <2>2
    <3>2. \A i \in 1..Len(queue) : queue[i] # r
      BY <1>1 DEF LinksInv, QueueIsOrdered, Waiting
    <3>3. \A i, j \in 1..Len(queue') : queue'[i] = queue'[j] => i = j
      <4> SUFFICES ASSUME NEW i \in 1..Len(queue'), NEW j \in 1..Len(queue'), queue'[i] = queue'[j] PROVE i = j
        OBVIOUS
      <4>1. CASE i \in 1..Len(queue) /\ j \in 1..Len(queue)
        BY <3>1, <4>1 DEF LinksInv, QueueIsOrdered
      <4>2. CASE i = Len(queue) + 1 \/ j = Len(queue) + 1
        BY <3>1, <3>2, <4>2
      <4> QED
        BY <3>1, <4>1, <4>2
    <3>4. \A x \in Requests : request'[x].pc \in Waiting <=> \E i \in 1..Len(queue') : queue'[i] = x
      <4> SUFFICES ASSUME NEW x \in Requests
                   PROVE  request'[x].pc \in Waiting <=> \E i \in 1..Len(queue') : queue'[i] = x
        OBVIOUS
      <4>1. request[x].pc \in Waiting <=> \E i \in 1..Len(queue) : queue[i] = x
        BY DEF LinksInv, QueueIsOrdered
      <4>2. CASE x = r
        BY <1>4, <2>2, <3>1, <4>2 DEF Waiting
      <4>3. CASE x # r
        <5>1. request'[x].pc \in Waiting <=> \E i \in 1..Len(queue) : queue[i] = x
          BY <1>4, <4>1, <4>3
        <5>2. (\E i \in 1..Len(queue) : queue[i] = x) <=> (\E i \in 1..Len(queue') : queue'[i] = x)
          BY <3>1, <4>3
        <5> QED
          BY <5>1, <5>2
      <4> QED
        BY <4>2, <4>3
    <3>5. ASSUME NEW x \in Requests, request'[x].pc = "building" PROVE queue' # <<>> /\ x = Head(queue')
      <4>1. request[x].pc = "building"
        BY <1>4, <2>2, <3>5
      <4>2. queue # <<>> /\ x = Head(queue)
        BY <4>1 DEF LinksInv, QueueIsOrdered
      <4>3. Len(queue) # 0 /\ queue'[1] = queue[1] /\ queue' # <<>>
        BY <1>2, <3>1, <4>2
      <4>4. Head(queue) = queue[1] /\ Head(queue') = queue'[1]
        BY <1>2, <4>2, <4>3
      <4> QED
        BY <4>2, <4>3, <4>4
    <3>6. server' # "closed"
      BY <1>1, <1>3, <2>2
    <3> QED
      BY <3>3, <3>4, <3>5, <3>6 DEF QueueIsOrdered
  <2> QED
    BY <2>1, <2>2
<1> QED
    BY <1>5, <1>6, <1>7, <1>8, <1>9 DEF LinksInv

\* The first of the queue builds its replacement from the rows of that moment.
LEMMA StartKeeps ==
    ASSUME LinksInv, NEW r \in Requests, startRebuild(r)
    PROVE  LinksInv'
<1> DEFINE Request == [pc : {"idle", "row", "check", "register", "claim", "rebuild", "queued", "building", "link",
                             "consent", "linked", "refused", "failed"},
                       user : Users \cup {"none"}, source : Sources \cup {"none"},
                       seen : Rows, client : Rows, built : [Sources -> Rows]]
           n == [request[r] EXCEPT !.pc = "building", !.built = source_servers]
<1>1. /\ TypeOK /\ request[r].pc = "queued" /\ r = Head(queue)
      /\ source_servers[request[r].source] \in Requests
      /\ UNCHANGED <<source_servers, account, current, ready, queue, server, failures>>
      /\ request' = [request EXCEPT ![r] = n]
    BY DEF LinksInv, startRebuild, InTurn, Step, RequestsMakeProgress, authVars
<1>2. request \in [Requests -> Request] /\ request[r] \in Request /\ source_servers \in [Sources -> Rows]
    BY <1>1 DEF TypeOK
<1>3. /\ n \in Request /\ n.pc = "building" /\ n.built = source_servers
      /\ n.source = request[r].source /\ n.user = request[r].user
    BY <1>2
<1> HIDE DEF n
<1>4. request' \in [Requests -> Request] /\ request'[r] = n /\ \A x \in Requests : x # r => request'[x] = request[x]
    BY <1>1, <1>2, <1>3
<1>5. TypeOK'
  <2>1. \A x \in Requests : request'[x].pc # "idle" => request'[x].user \in Users /\ request'[x].source \in Sources
    BY <1>1, <1>3, <1>4 DEF TypeOK
  <2> QED
    BY <1>1, <1>4, <2>1 DEF TypeOK
<1>6. InstanceLags'
    BY <1>1, <1>3, <1>4, RowsGoForward DEF LinksInv, InstanceLags
<1>7. RequestsMakeProgress'
    BY <1>1, <1>3, <1>4 DEF LinksInv, RequestsMakeProgress
<1>8. AccountsAreBound' /\ AccountsKeepTheirIssuer'
    BY <1>1 DEF LinksInv, AccountsAreBound, AccountsKeepTheirIssuer
<1>9. QueueIsOrdered'
  <2>1. \A x \in Requests : request'[x].pc \in Waiting <=> request[x].pc \in Waiting
    BY <1>1, <1>3, <1>4 DEF Waiting
  <2>2. queue # <<>>
    BY <1>1 DEF LinksInv, QueueIsOrdered, Waiting
  <2> QED
    BY <1>1, <1>3, <1>4, <2>1, <2>2 DEF LinksInv, QueueIsOrdered
<1> QED
    BY <1>5, <1>6, <1>7, <1>8, <1>9 DEF LinksInv

\* The rebuild in turn settles: the next one is in turn, and none runs.
LEMMA TurnEnds ==
    ASSUME LinksInv, NEW r \in Requests, request[r].pc = "building", queue' = Settled, UNCHANGED server,
           request'[r].pc \notin Waiting, \A x \in Requests : x # r => request'[x] = request[x]
    PROVE  /\ QueueIsOrdered' /\ queue' \in Seq(Requests)
           /\ \A x \in Requests : x # r => request[x].pc # "building"
           /\ \A x \in Requests : request'[x].pc # "building"
<1>1. queue \in Seq(Requests) /\ queue # <<>> /\ r = Head(queue)
    BY DEF LinksInv, TypeOK, QueueIsOrdered
<1>2. /\ queue' \in Seq(Requests) /\ Len(queue) \in Nat \ {0} /\ Len(queue') = Len(queue) - 1
      /\ \A i \in 1..Len(queue') : queue'[i] = queue[i + 1]
      /\ queue[1] = r
    BY <1>1 DEF Settled
<1>3. \A x \in Requests : x # r => request[x].pc # "building"
    BY <1>1 DEF LinksInv, QueueIsOrdered
<1>4. \A x \in Requests : request'[x].pc # "building"
    BY <1>3 DEF Waiting
<1>5. \A i, j \in 1..Len(queue') : queue'[i] = queue'[j] => i = j
  <2> SUFFICES ASSUME NEW i \in 1..Len(queue'), NEW j \in 1..Len(queue'), queue'[i] = queue'[j] PROVE i = j
    OBVIOUS
  <2>1. i + 1 \in 1..Len(queue) /\ j + 1 \in 1..Len(queue) /\ queue[i + 1] = queue[j + 1]
    BY <1>2
  <2> QED
    BY <2>1 DEF LinksInv, QueueIsOrdered
<1>6. ASSUME NEW x \in Requests
      PROVE  request'[x].pc \in Waiting <=> \E i \in 1..Len(queue') : queue'[i] = x
  <2>1. request[x].pc \in Waiting <=> \E i \in 1..Len(queue) : queue[i] = x
    BY DEF LinksInv, QueueIsOrdered
  <2>2. CASE x = r
    <3>1. ASSUME NEW i \in 1..Len(queue'), queue'[i] = r PROVE FALSE
      <4>1. i + 1 \in 1..Len(queue) /\ 1 \in 1..Len(queue) /\ queue[i + 1] = queue[1] /\ i + 1 # 1
        BY <1>2, <3>1
      <4> QED
        BY <4>1 DEF LinksInv, QueueIsOrdered
    <3> QED
      BY <2>2, <3>1
  <2>3. CASE x # r
    <3>1. ASSUME NEW i \in 1..Len(queue), queue[i] = x PROVE \E j \in 1..Len(queue') : queue'[j] = x
      <4>1. i # 1 /\ i - 1 \in 1..Len(queue') /\ queue'[i - 1] = queue[i]
        BY <1>2, <2>3, <3>1
      <4> QED
        BY <3>1, <4>1
    <3>2. ASSUME NEW j \in 1..Len(queue'), queue'[j] = x PROVE \E i \in 1..Len(queue) : queue[i] = x
      <4>1. j + 1 \in 1..Len(queue) /\ queue[j + 1] = x
        BY <1>2, <3>2
      <4> QED
        BY <4>1
    <3>3. request'[x].pc = request[x].pc
      BY <2>3
    <3> QED
      BY <2>1, <3>1, <3>2, <3>3
  <2> QED
    BY <2>2, <2>3
<1>7. server' # "closed"
    BY <1>1 DEF LinksInv, QueueIsOrdered
<1>8. QueueIsOrdered'
    BY <1>4, <1>5, <1>6, <1>7 DEF QueueIsOrdered
<1> QED
    BY <1>2, <1>3, <1>4, <1>8

\* A rebuild that took over, or failed: a provider's registered client stays.
LEMMA SettleKeeps ==
    ASSUME LinksInv, NEW r \in Requests, finishRebuild(r) \/ failRebuild(r)
    PROVE  LinksInv'
<1> USE BoundsAssumption DEF BoundsAssumption
<1> DEFINE Request == [pc : {"idle", "row", "check", "register", "claim", "rebuild", "queued", "building", "link",
                             "consent", "linked", "refused", "failed"},
                       user : Users \cup {"none"}, source : Sources \cup {"none"},
                       seen : Rows, client : Rows, built : [Sources -> Rows]]
<1>1. /\ TypeOK /\ request[r].pc = "building" /\ queue' = Settled
      /\ UNCHANGED <<source_servers, account, ready, server>>
      /\ current' = current \/ current' = request[r].built
    BY DEF LinksInv, finishRebuild, failRebuild
<1>2. /\ request \in [Requests -> Request] /\ request[r] \in Request
      /\ NoRequest.built \in [Sources -> Rows] /\ failures' \in Nat
    BY <1>1 DEF TypeOK, NoRequest, Rows, finishRebuild, failRebuild
<1>3. PICK p \in {"link", "failed"} :
        /\ request' = [request EXCEPT ![r] = [request[r] EXCEPT !.pc = p, !.built = NoRequest.built]]
        /\ p = "link" => current' = request[r].built
    BY DEF finishRebuild, failRebuild, Step
<1>4. /\ request' \in [Requests -> Request]
      /\ request'[r].pc = p /\ request'[r].source = request[r].source /\ request'[r].user = request[r].user
      /\ \A x \in Requests : x # r => request'[x] = request[x]
  <2> DEFINE n == [request[r] EXCEPT !.pc = p, !.built = NoRequest.built]
  <2>1. n \in Request /\ n.pc = p /\ n.source = request[r].source /\ n.user = request[r].user
    BY <1>2
  <2>2. request' = [request EXCEPT ![r] = n]
    BY <1>3
  <2> HIDE DEF n
  <2> QED
    BY <1>2, <2>1, <2>2
<1>5. /\ QueueIsOrdered' /\ queue' \in Seq(Requests)
      /\ \A x \in Requests : x # r => request[x].pc # "building"
      /\ \A x \in Requests : request'[x].pc # "building"
    BY <1>1, <1>4, TurnEnds DEF Waiting
<1>6. /\ current' \in [Sources -> Rows]
      /\ \A s \in Sources : NoLaterThan(current[s], current'[s]) /\ NoLaterThan(current'[s], source_servers[s])
  <2>1. \A s \in Sources : /\ NoLaterThan(current[s], source_servers[s])
                           /\ NoLaterThan(current[s], request[r].built[s])
                           /\ NoLaterThan(request[r].built[s], source_servers[s])
    BY <1>1 DEF LinksInv, InstanceLags
  <2> QED
    BY <1>1, <1>2, <2>1, RowsGoForward DEF TypeOK
<1>7. TypeOK'
  <2>1. \A x \in Requests : request'[x].pc # "idle" => request'[x].user \in Users /\ request'[x].source \in Sources
    BY <1>1, <1>4 DEF TypeOK
  <2> QED
    BY <1>1, <1>2, <1>4, <1>5, <1>6, <2>1 DEF TypeOK
<1>8. InstanceLags'
    BY <1>1, <1>5, <1>6 DEF InstanceLags
<1>9. RequestsMakeProgress'
  <2>1. \A x \in Requests : request[x].pc = "link" => current'[request[x].source] \in Requests
    <3> SUFFICES ASSUME NEW x \in Requests, request[x].pc = "link" PROVE current'[request[x].source] \in Requests
      OBVIOUS
    <3>1. request[x].source \in Sources /\ current[request[x].source] \in Requests
      BY <1>1 DEF LinksInv, RequestsMakeProgress, TypeOK
    <3> QED
      BY <1>6, <3>1, RowsGoForward
  <2>2. request[r].built[request[r].source] \in Requests
    BY <1>1 DEF LinksInv, RequestsMakeProgress
  <2>3. ASSUME NEW x \in Requests, x # r
        PROVE  LET y == request'[x] IN
                /\ y.pc \in {"check", "register", "claim"} => y.seen # NoRow /\ NoLaterThan(y.seen, source_servers'[y.source])
                /\ y.pc \in {"register", "claim"} => y.seen \in {Null, Legacy}
                /\ y.pc \in {"rebuild", "queued"} => source_servers'[y.source] \in Requests
                /\ y.pc = "building" => y.built[y.source] \in Requests
                /\ y.pc = "link" => current'[y.source] \in Requests
                /\ y.pc = "consent" => y.client \in Requests
    BY <1>1, <1>4, <2>1, <2>3 DEF LinksInv, RequestsMakeProgress
  <2>4. request'[r].pc \in {"link", "failed"} /\ (request'[r].pc = "link" => current'[request'[r].source] \in Requests)
    BY <1>3, <1>4, <2>2
  <2> QED
    BY <2>3, <2>4 DEF RequestsMakeProgress
<1>10. AccountsAreBound'
  <2> SUFFICES ASSUME NEW a \in account
               PROVE  IsClient(a.client) /\ a.client = source_servers[a.source] /\ a.client = current'[a.source]
    BY <1>1 DEF AccountsAreBound
  <2>1. /\ a.source \in Sources /\ IsClient(a.client)
        /\ a.client = source_servers[a.source] /\ a.client = current[a.source]
    BY <1>1 DEF LinksInv, AccountsAreBound, TypeOK
  <2>2. current'[a.source] = source_servers[a.source]
    BY <1>6, <2>1, RowsGoForward
  <2> QED
    BY <2>1, <2>2
<1>11. AccountsKeepTheirIssuer'
    BY <1>1 DEF LinksInv, AccountsKeepTheirIssuer
<1> QED
    BY <1>5, <1>7, <1>8, <1>9, <1>10, <1>11 DEF LinksInv

\* The user comes back: the account is bound to the client that the provider has,
\* which the row has too, because it was registered.
LEMMA CallbackKeeps ==
    ASSUME LinksInv, NEW r \in Requests, callback(r)
    PROVE  LinksInv'
<1> USE BoundsAssumption DEF BoundsAssumption
<1> DEFINE q == request[r]
           s == request[r].source
           new == [user |-> q.user, source |-> s, client |-> q.client, issuer |-> "origin"]
           Request == [pc : {"idle", "row", "check", "register", "claim", "rebuild", "queued", "building", "link",
                             "consent", "linked", "refused", "failed"},
                       user : Users \cup {"none"}, source : Sources \cup {"none"},
                       seen : Rows, client : Rows, built : [Sources -> Rows]]
<1>1. /\ TypeOK /\ q.pc = "consent" /\ ready /\ q.client \in Requests /\ q.user \in Users /\ s \in Sources
      /\ UNCHANGED <<source_servers, current, ready, queue, server, failures>>
    BY DEF LinksInv, callback, RequestsMakeProgress, authVars, TypeOK
<1>2. request \in [Requests -> Request] /\ q \in Request
    BY <1>1 DEF TypeOK
<1>3. \E p \in {"linked", "failed"} : request' = [request EXCEPT ![r].pc = p]
    BY DEF callback, To, Step
<1>4. /\ request' \in [Requests -> Request]
      /\ request'[r].pc \in {"linked", "failed"} /\ request'[r].source = s /\ request'[r].user = q.user
      /\ \A x \in Requests : x # r => request'[x] = request[x]
  <2>1. PICK p \in {"linked", "failed"} : request' = [request EXCEPT ![r] = [q EXCEPT !.pc = p]]
    BY <1>3
  <2>2. request'[r] = [q EXCEPT !.pc = p] /\ \A x \in Requests : x # r => request'[x] = request[x]
    BY <1>2, <2>1
  <2>3. [q EXCEPT !.pc = p] \in Request
    BY <1>2
  <2>4. request' \in [Requests -> Request]
    BY <1>2, <2>1, <2>3
  <2>5. request'[r].pc = p /\ request'[r].source = s /\ request'[r].user = q.user
    BY <1>2, <2>2
  <2> QED
    BY <2>2, <2>4, <2>5
<1>5. \/ account' = account
      \/ /\ current[s] = q.client
         /\ account' \subseteq account \cup {new}
    BY DEF callback
<1>6. TypeOK'
  <2>1. new \in [user : Users, source : Sources, client : Rows, issuer : {"none", "origin"}]
    BY <1>1 DEF Rows
  <2>2. account' \subseteq [user : Users, source : Sources, client : Rows, issuer : {"none", "origin"}]
    BY <1>1, <1>5, <2>1 DEF TypeOK
  <2>3. \A x \in Requests : request'[x].pc # "idle" => request'[x].user \in Users /\ request'[x].source \in Sources
    BY <1>1, <1>4 DEF TypeOK
  <2> QED
    BY <1>1, <1>4, <2>2, <2>3 DEF TypeOK
<1>7. InstanceLags'
    BY <1>1, <1>4 DEF LinksInv, InstanceLags
<1>8. RequestsMakeProgress'
    BY <1>1, <1>4 DEF LinksInv, RequestsMakeProgress
<1>9. AccountsAreBound' /\ AccountsKeepTheirIssuer'
  <2>1. ASSUME NEW a \in account
        PROVE  /\ IsClient(a.client) /\ a.client = source_servers[a.source] /\ a.client = current[a.source]
               /\ a.issuer \in {"none", "origin"} /\ (ready => a.issuer = "origin")
    BY DEF LinksInv, AccountsAreBound, AccountsKeepTheirIssuer
  <2>2. current[s] = q.client => source_servers[s] = q.client /\ IsClient(q.client)
    <3>1. NoLaterThan(current[s], source_servers[s])
      BY <1>1 DEF LinksInv, InstanceLags
    <3>2. current[s] \in Requests => source_servers[s] = current[s]
      BY <3>1, RowsGoForward
    <3>3. NoRow \notin Requests /\ Null \notin Requests
      BY DEF Requests
    <3> QED
      BY <1>1, <3>2, <3>3 DEF IsClient
  <2>3. current[s] = q.client =>
               /\ IsClient(new.client) /\ new.client = source_servers[new.source] /\ new.client = current[new.source]
               /\ new.issuer \in {"none", "origin"} /\ new.issuer = "origin"
    BY <2>2
  <2> HIDE DEF new
  <2> QED
    BY <1>1, <1>5, <2>1, <2>3 DEF AccountsAreBound, AccountsKeepTheirIssuer
<1>10. QueueIsOrdered'
  <2>1. \A x \in Requests : request'[x].pc \in Waiting <=> request[x].pc \in Waiting
    BY <1>1, <1>4 DEF Waiting
  <2>2. \A x \in Requests : request'[x].pc = "building" <=> request[x].pc = "building"
    BY <1>1, <1>4
  <2> QED
    BY <1>1, <2>1, <2>2 DEF LinksInv, QueueIsOrdered
<1> QED
    BY <1>6, <1>7, <1>8, <1>9, <1>10 DEF LinksInv

\* The accounts without an issuer get their source's.
LEMMA BackfillKeeps ==
    ASSUME LinksInv, backfillAccountIssuers, UNCHANGED <<source_servers, current, queue, request>>,
           ready' \in BOOLEAN, failures' \in Nat, server' \in {"up", "closing", "closed"},
           server' = "closed" => queue = <<>>
    PROVE  LinksInv'
<1>1. TypeOK /\ UNCHANGED <<source_servers, current, queue, request>>
    BY DEF LinksInv
<1>2. ASSUME NEW a \in account'
      PROVE  \E b \in account : /\ a.user = b.user /\ a.source = b.source /\ a.client = b.client
                                /\ a \in [user : Users, source : Sources, client : Rows, issuer : {"none", "origin"}]
                                /\ a.issuer = "origin"
  <2>1. PICK b \in account :
          a = IF b.issuer = "none" THEN [b EXCEPT !.issuer = resolveExistingAccountIssuer(b.source)] ELSE b
    BY DEF backfillAccountIssuers
  <2>2. /\ b \in [user : Users, source : Sources, client : Rows, issuer : {"none", "origin"}]
        /\ b.issuer \in {"none", "origin"}
    BY <1>1 DEF TypeOK, LinksInv, AccountsKeepTheirIssuer
  <2>3. resolveExistingAccountIssuer(b.source) = "origin"
    BY DEF LinksInv, AccountsAreBound, IsClient, resolveExistingAccountIssuer
  <2> QED
    BY <2>1, <2>2, <2>3
<1>3. TypeOK'
  <2>1. account' \subseteq [user : Users, source : Sources, client : Rows, issuer : {"none", "origin"}]
    BY <1>2
  <2> QED
    BY <1>1, <2>1 DEF TypeOK
<1>4. InstanceLags' /\ RequestsMakeProgress' /\ QueueIsOrdered'
    BY <1>1 DEF LinksInv, InstanceLags, RequestsMakeProgress, QueueIsOrdered
<1>5. AccountsAreBound' /\ AccountsKeepTheirIssuer'
    BY <1>1, <1>2 DEF LinksInv, AccountsAreBound, AccountsKeepTheirIssuer
<1> QED
    BY <1>3, <1>4, <1>5 DEF LinksInv

\* The migrations of the first instance end, well or not.
LEMMA ReadyKeeps ==
    ASSUME LinksInv, ensureReady \/ failReady
    PROVE  LinksInv'
<1>1. /\ TypeOK /\ UNCHANGED <<source_servers, current, queue, request>>
      /\ server' = server \/ (server' = "closed" /\ queue = <<>>)
      /\ ready' = TRUE \/ (ready' = ready /\ ready = FALSE)
      /\ failures' = failures \/ failures' = failures + 1
    BY DEF LinksInv, ensureReady, failReady
<1>2. /\ ready' \in BOOLEAN /\ failures' \in Nat /\ server' \in {"up", "closing", "closed"}
      /\ server' = "closed" => queue = <<>>
  <2>1. failures \in Nat /\ server \in {"up", "closing", "closed"} /\ (server = "closed" => queue = <<>>)
    BY DEF TypeOK, LinksInv, QueueIsOrdered
  <2>2. ready' \in BOOLEAN
    BY <1>1
  <2> QED
    BY <1>1, <2>1, <2>2
<1>3. CASE backfillAccountIssuers
    BY <1>1, <1>2, <1>3, BackfillKeeps
<1>4. CASE failReady /\ UNCHANGED account
  <2>1. UNCHANGED <<account, ready>>
    BY <1>4 DEF failReady
  <2>2. TypeOK'
    BY <1>1, <1>2, <2>1 DEF TypeOK
  <2>3. InstanceLags' /\ RequestsMakeProgress' /\ QueueIsOrdered'
    BY <1>1, <1>2 DEF LinksInv, InstanceLags, RequestsMakeProgress, QueueIsOrdered
  <2>4. AccountsAreBound' /\ AccountsKeepTheirIssuer'
    BY <1>1, <2>1 DEF LinksInv, AccountsAreBound, AccountsKeepTheirIssuer
  <2> QED
    BY <2>2, <2>3, <2>4 DEF LinksInv
<1> QED
    BY <1>3, <1>4 DEF ensureReady, failReady

\* A shutdown begins, and ends when no rebuild uses the database.
LEMMA ShutdownKeeps ==
    ASSUME LinksInv, waitForIdle \/ close
    PROVE  LinksInv'
<1>1. /\ TypeOK /\ UNCHANGED <<source_servers, account, current, ready, queue, request, failures>>
      /\ server' \in {"closing", "closed"} /\ (server' = "closed" => queue = <<>>)
    BY DEF LinksInv, waitForIdle, close, Idle
<1>2. TypeOK'
    BY <1>1 DEF TypeOK
<1>3. InstanceLags' /\ RequestsMakeProgress' /\ QueueIsOrdered'
    BY <1>1 DEF LinksInv, InstanceLags, RequestsMakeProgress, QueueIsOrdered
<1>4. AccountsAreBound' /\ AccountsKeepTheirIssuer'
    BY <1>1 DEF LinksInv, AccountsAreBound, AccountsKeepTheirIssuer
<1> QED
    BY <1>2, <1>3, <1>4 DEF LinksInv

\* A restart: the instance is what the rows are; only users at a source are left.
LEMMA RestartKeeps ==
    ASSUME LinksInv, Restart
    PROVE  LinksInv'
<1> USE BoundsAssumption DEF BoundsAssumption
<1> DEFINE Request == [pc : {"idle", "row", "check", "register", "claim", "rebuild", "queued", "building", "link",
                             "consent", "linked", "refused", "failed"},
                       user : Users \cup {"none"}, source : Sources \cup {"none"},
                       seen : Rows, client : Rows, built : [Sources -> Rows]]
<1>1. /\ TypeOK /\ current' = source_servers /\ ready' = FALSE /\ queue' = <<>> /\ server' = "up"
      /\ UNCHANGED <<source_servers, account>> /\ failures' = failures + 1
    BY DEF LinksInv, Restart
<1>2. request \in [Requests -> Request] /\ NoRequest.built \in [Sources -> Rows]
    BY <1>1 DEF TypeOK, NoRequest, Rows
<1>3. ASSUME NEW r \in Requests
      PROVE  /\ request'[r] \in Request
             /\ request'[r].pc \in {"idle", "consent", "linked", "refused", "failed"}
             /\ request'[r].pc = "consent" => request'[r].client \in Requests
             /\ request'[r].pc # "idle" => request'[r].user \in Users /\ request'[r].source \in Sources
  <2>1. CASE request[r].pc \in {"idle", "consent", "linked", "refused", "failed"}
    BY <1>1, <1>2, <2>1 DEF Restart, LinksInv, RequestsMakeProgress, TypeOK
  <2>2. CASE request[r].pc \notin {"idle", "consent", "linked", "refused", "failed"}
    <3>1. request'[r] = [request[r] EXCEPT !.pc = "failed", !.built = NoRequest.built]
      BY <2>2 DEF Restart
    <3>2. request[r] \in Request /\ request[r].user \in Users /\ request[r].source \in Sources
      BY <1>1, <1>2, <2>2 DEF TypeOK
    <3> QED
      BY <1>2, <3>1, <3>2
  <2> QED
    BY <2>1, <2>2
<1>4. request' \in [Requests -> Request]
  <2>1. request' = [r \in Requests |->
                     IF request[r].pc \in {"idle", "consent", "linked", "refused", "failed"} THEN request[r]
                     ELSE [request[r] EXCEPT !.pc = "failed", !.built = NoRequest.built]]
    BY DEF Restart
  <2>2. \A r \in Requests : (IF request[r].pc \in {"idle", "consent", "linked", "refused", "failed"} THEN request[r]
                     ELSE [request[r] EXCEPT !.pc = "failed", !.built = NoRequest.built]) = request'[r]
    BY <2>1
  <2> QED
    BY <1>3, <2>1, <2>2
<1>5. TypeOK'
  <2>1. queue' \in Seq(Requests) /\ server' \in {"up", "closing", "closed"} /\ failures' \in Nat
    BY <1>1 DEF TypeOK
  <2>2. ready' \in BOOLEAN
    BY <1>1
  <2> QED
    BY <1>1, <1>3, <1>4, <2>1, <2>2 DEF TypeOK
<1>6. InstanceLags' /\ RequestsMakeProgress'
    BY <1>1, <1>3, RowsGoForward DEF InstanceLags, RequestsMakeProgress
<1>7. QueueIsOrdered'
    BY <1>1, <1>3 DEF QueueIsOrdered, Waiting
<1>8. AccountsAreBound' /\ AccountsKeepTheirIssuer'
    BY <1>1 DEF LinksInv, AccountsAreBound, AccountsKeepTheirIssuer
<1> QED
    BY <1>5, <1>6, <1>7, <1>8 DEF LinksInv
-----------------------------------------------------------------------------
(* The theorems                                                            *)

\* Every step keeps the invariant, whatever the interleaving.
LEMMA NextKeeps == LinksInv /\ [Next]_vars => LinksInv'
<1> SUFFICES ASSUME LinksInv, [Next]_vars PROVE LinksInv'
    OBVIOUS
<1>1. CASE ensureReady \/ failReady
    BY <1>1, ReadyKeeps
<1>2. CASE waitForIdle \/ close
    BY <1>2, ShutdownKeeps
<1>3. CASE Restart
    BY <1>3, RestartKeeps
<1>4. ASSUME NEW r \in Requests, Arrive(r) PROVE LinksInv'
    BY <1>4, RequestStepsKeep
<1>5. ASSUME NEW r \in Requests, Handling(r) PROVE LinksInv'
    BY <1>5, RequestStepsKeep, RowMadeKeeps, ClaimKeeps, RebuildKeeps, StartKeeps, SettleKeeps DEF Handling
<1>6. ASSUME NEW r \in Requests, failRebuild(r) PROVE LinksInv'
    BY <1>6, SettleKeeps
<1>7. ASSUME NEW r \in Requests, callback(r) PROVE LinksInv'
    BY <1>7, CallbackKeeps
<1>8. CASE UNCHANGED vars
    BY <1>8 DEF vars, LinksInv, TypeOK, InstanceLags, RequestsMakeProgress, AccountsAreBound, QueueIsOrdered,
       AccountsKeepTheirIssuer
<1> QED
    BY <1>1, <1>2, <1>3, <1>4, <1>5, <1>6, <1>7, <1>8 DEF Next

\* The inductive invariant holds in every reachable state, for any users and sources
\* and any number of requests, failures and restarts.
THEOREM LinksInvHolds == Spec => []LinksInv
<1>1. Init => LinksInv
    BY InitInv
<1>2. LinksInv /\ [Next]_vars => LinksInv'
    BY NextKeeps
<1> QED
    BY <1>1, <1>2, PTL DEF Spec

\* Every source a user's projection lists answers that user, and the linked accounts
\* keep the issuer their source goes by.
THEOREM LinksHoldAlways == Spec => []LinksHold
<1>1. LinksInv => LinksHold
  <2> SUFFICES ASSUME LinksInv PROVE ListedSourcesAnswer
    BY DEF LinksInv, LinksHold
  <2> SUFFICES ASSUME NEW u \in Users, NEW s \in Sources, s \in listCurrentUserSourceServers(u)
               PROVE  resolveSourceAccess(u, s) = "ready"
    BY DEF ListedSourcesAnswer
  <2>1. PICK a \in account : a.user = u /\ a.source = s
    BY DEF listCurrentUserSourceServers
  <2>2. current[s] # NoRow
    BY DEF listCurrentUserSourceServers
  <2>3. IsClient(current[s]) /\ a.client = current[s]
    BY <2>1 DEF LinksInv, AccountsAreBound
  <2>4. LinkedAccessToken(u, s)
    BY <2>1, <2>3 DEF LinkedAccessToken, isProvider
  <2> QED
    BY <2>2, <2>4 DEF resolveSourceAccess
<1> QED
    BY <1>1, LinksInvHolds, PTL

\* The database is closed only when no rebuild waits or runs.
THEOREM RebuildsSettleBeforeClose == Spec => []RebuildsBeforeClose
<1>1. LinksInv => RebuildsBeforeClose
  <2> SUFFICES ASSUME LinksInv, server = "closed", NEW r \in Requests
               PROVE  request[r].pc \notin {"queued", "building"}
    BY DEF RebuildsBeforeClose
  <2>1. queue = <<>> /\ (request[r].pc \in Waiting <=> \E i \in 1..Len(queue) : queue[i] = r)
    BY DEF LinksInv, QueueIsOrdered
  <2> QED
    BY <2>1 DEF Waiting
<1> QED
    BY <1>1, LinksInvHolds, PTL

\* First writer wins: no step overwrites a client of the current version.
THEOREM ClaimsAreFirstCome == Spec => ClaimedClientStays
<1>1. LinksInv /\ [Next]_vars =>
        [\A s \in Sources : hasCurrentSourceServerPublicClient(s) => source_servers'[s] = source_servers[s]]_vars
  <2> SUFFICES ASSUME LinksInv, Next, NEW s \in Sources, hasCurrentSourceServerPublicClient(s)
               PROVE  source_servers'[s] = source_servers[s]
    OBVIOUS
  <2>1. TypeOK /\ source_servers[s] \notin {NoRow, Null, Legacy}
    BY DEF LinksInv, hasCurrentSourceServerPublicClient, IsClient
  <2>2. ASSUME NEW r \in Requests, ensureSourceServerRow(r) PROVE source_servers'[s] = source_servers[s]
    BY <2>1, <2>2 DEF ensureSourceServerRow, TypeOK
  <2>3. ASSUME NEW r \in Requests, Claim(r) PROVE source_servers'[s] = source_servers[s]
    <3>1. request[r].seen \in {Null, Legacy}
      BY <2>3 DEF LinksInv, RequestsMakeProgress, Claim
    <3> QED
      BY <2>1, <2>3, <3>1 DEF Claim, claimSourceServerPublicClient, replaceLegacySourceServerPublicClient,
         IsClient, TypeOK
  <2>4. CASE UNCHANGED source_servers
    BY <2>4
  <2> QED
    BY <2>2, <2>3, <2>4 DEF Next, Handling, ensureReady, failReady, waitForIdle, close, Restart, Arrive, ensureSourceClient,
       registerPublicSourceClient, rebuild, startRebuild, finishRebuild, failRebuild, linkSocialAccount, cutOff, callback
<1> QED
    BY <1>1, LinksInvHolds, PTL DEF Spec, ClaimedClientStays

\* No rebuild, and no restart, takes a provider away or brings an older client back.
THEOREM ProvidersGoForward == Spec => ProvidersNeverGoBack
<1>1. LinksInv /\ [Next]_vars =>
        [\A s \in Sources : current[s] # NoRow /\ current'[s] # current[s] =>
          current[s] \in {Null, Legacy} /\ IsClient(current'[s]) /\ current'[s] # Legacy]_vars
  <2> SUFFICES ASSUME LinksInv, Next, NEW s \in Sources, current[s] # NoRow, current'[s] # current[s]
               PROVE  current[s] \in {Null, Legacy} /\ IsClient(current'[s]) /\ current'[s] # Legacy
    OBVIOUS
  <2>1. NoLaterThan(current[s], current'[s])
    <3>1. ASSUME NEW r \in Requests, finishRebuild(r) PROVE NoLaterThan(current[s], current'[s])
      BY <3>1 DEF LinksInv, InstanceLags, finishRebuild
    <3>2. CASE Restart
      BY <3>2 DEF LinksInv, InstanceLags, Restart
    <3>3. CASE UNCHANGED current
      BY <3>3
    <3> QED
      BY <3>1, <3>2, <3>3 DEF Next, Handling, ensureReady, failReady, waitForIdle, close, Arrive, ensureSourceServerRow,
         ensureSourceClient, registerPublicSourceClient, Claim, rebuild, startRebuild, failRebuild,
         linkSocialAccount, cutOff, callback, authVars
  <2> QED
    BY <2>1, BoundsAssumption DEF BoundsAssumption, NoLaterThan, IsClient, Requests
<1> QED
    BY <1>1, LinksInvHolds, PTL DEF Spec, ProvidersNeverGoBack

\* What was registered at a source is not taken back: not in the rows by another
\* first link, and not in the running instance by an older rebuild.
THEOREM RegistrationsStayAlways == Spec => RegistrationsStay
BY ClaimsAreFirstCome, ProvidersGoForward DEF RegistrationsStay
=============================================================================
